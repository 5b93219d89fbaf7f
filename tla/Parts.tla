------------------------------- MODULE Parts ---------------------------------
(***************************************************************************)
(* Six parts of a pod and of its tools that share no state of the models:  *)
(*   find     the producer's workers look for the shard blocks of a        *)
(*            masterchain block                                            *)
(*   fetch    a consumer fetches the transactions of the blocks            *)
(*   walk     a client of the API walks through a table                    *)
(*   move     an operator moves code and data to the key-value tables      *)
(*   migrate  operators migrate the schemas                                *)
(*   recall   the rescan service asks for the past of accounts             *)
(* A behaviour has one of them, chosen at the start, while the others stay *)
(* in an initial state.                                                    *)
(***************************************************************************)
EXTENDS Naturals, Sequences, FiniteSets

CONSTANTS
    Finder, MaxMaster, MaxNew,                              \* find
    ChainBlock, TxsOf, AccountOf, KindOf,
    PageSize, MaxFaults,                                    \* fetch
    Account, Skipped, Old, NewRows, MaxLt, PageLimits,      \* walk
    State, HashOf, OldStates, Saves, BatchLimits, MaxFail,  \* move
    Operator, Versions, MaxCommands,                        \* migrate
    Asked, Worker, Version, Contract, MaxStates, StateLimit,
    AddressLimit                                            \* recall

VARIABLES
    use,
    tips, parents, masters, shards, finderAt, seq, cur, waited, found,
    at, after, results, got, reader, txAt, accAt, cached, libs, cleared,
    fetchFaults,
    stored, latest, counted, walkSaving, table, order, pageLimit, named,
    request, cursor, total, page, answers, base,
    rows, inline, chRows, chInline, kv, saving, cmd, moveAt, from, next,
    limit, reached, transferred, failed,
    applied, has, unrun, locked, command, ver, opAt, todo, group, held, count,
    task, past, minters, interfaces, question, workerAt, read, known, answer

findVars    == <<tips, parents, masters, shards, finderAt, seq, cur, waited,
                 found>>
fetchVars   == <<at, after, results, got, reader, txAt, accAt, cached, libs,
                 cleared, fetchFaults>>
walkVars    == <<stored, latest, counted, walkSaving, table, order, pageLimit,
                 named, request, cursor, total, page, answers, base>>
moveVars    == <<rows, inline, chRows, chInline, kv, saving, cmd, moveAt, from,
                 next, limit, reached, transferred, failed>>
migrateVars == <<applied, has, unrun, locked, command, ver, opAt, todo, group,
                 held, count>>
recallVars  == <<task, past, minters, interfaces, question, workerAt, read,
                 known, answer>>
vars == <<use, findVars, fetchVars, walkVars, moveVars, migrateVars,
          recallVars>>

-----------------------------------------------------------------------------
Find    == INSTANCE UnseenShards WITH pc <- finderAt
Fetch   == INSTANCE BlockFetch WITH Block <- ChainBlock, faults <- fetchFaults
Walk    == INSTANCE Query WITH
    Limits <- PageLimits, saving <- walkSaving, limit <- pageLimit,
    pc <- request, after <- cursor
Move    == INSTANCE CodeData WITH Limits <- BatchLimits, pc <- moveAt
Migrate == INSTANCE Migrations WITH cmd <- command, at <- opAt
Recall  == INSTANCE AccountPast WITH Account <- Asked, pc <- workerAt

ASSUME PartsAssumption ==
    /\ Find!FinderAssumption /\ Fetch!FetchAssumption
    /\ Walk!QueryAssumption /\ Move!CodeDataAssumption
    /\ Migrate!MigrationsAssumption /\ Recall!PastAssumption

-----------------------------------------------------------------------------
\* What is not in use has a single initial state.
PartsInit ==
    /\ use \in {"find", "fetch", "walk", "move", "migrate", "recall"}
    /\ Find!Init /\ (use # "find" => tips = <<{}>>)
    /\ Fetch!Init
    /\ Walk!Init
    /\ use # "walk" => /\ counted = Old /\ table = "blocks"
                       /\ order = "ASC"
                       /\ \A n \in PageLimits : pageLimit <= n
    /\ Move!Init /\ (use # "move" => \A n \in BatchLimits : limit <= n)
    /\ Migrate!Init
    /\ Recall!Init /\ (use # "recall" => task = "states")

Finding(A) ==
    /\ use = "find" /\ A
    /\ UNCHANGED <<use, fetchVars, walkVars, moveVars, migrateVars, recallVars>>
Fetching(A) ==
    /\ use = "fetch" /\ A
    /\ UNCHANGED <<use, findVars, walkVars, moveVars, migrateVars, recallVars>>
Walking(A) ==
    /\ use = "walk" /\ A
    /\ UNCHANGED <<use, findVars, fetchVars, moveVars, migrateVars, recallVars>>
Moving(A) ==
    /\ use = "move" /\ A
    /\ UNCHANGED <<use, findVars, fetchVars, walkVars, migrateVars, recallVars>>
Migrating(A) ==
    /\ use = "migrate" /\ A
    /\ UNCHANGED <<use, findVars, fetchVars, walkVars, moveVars, recallVars>>
Recalling(A) ==
    /\ use = "recall" /\ A
    /\ UNCHANGED <<use, findVars, fetchVars, walkVars, moveVars, migrateVars>>

PartsNext ==
    \/ Finding(Find!Next) \/ Fetching(Fetch!Next)
    \/ Walking(Walk!Next) \/ Moving(Move!Next) \/ Migrating(Migrate!Next)
    \/ Recalling(Recall!Next)

\* The fairness of BlockFetch and of the command that moves data.
PartsSpec ==
    /\ PartsInit /\ [][PartsNext]_vars
    /\ \A k \in ChainBlock : WF_vars(Fetching(Fetch!FetchBlock(k)))
    /\ \A t \in Fetch!Tx :
          /\ WF_vars(Fetching(Fetch!GetTransaction(t)))
          /\ WF_vars(Fetching(Fetch!FetchAccount(t)))
          /\ WF_vars(Fetching(Fetch!Await(t)))
    /\ WF_vars(Moving(Move!Run))

FoundOnce      == Find!FoundOnce
WholeAnswer    == Fetch!WholeAnswer
FetchEnds      == use = "fetch" => Fetch!FetchEnds
WalkComplete   == Walk!WalkComplete
EachOnce       == Walk!EachOnce
CodeReadable   == Move!CodeReadable
CommandEnds    == Move!CommandEnds
UpBringsBoth   == Migrate!UpBringsBoth
AnswersFitPast == Recall!AnswersFitPast
=============================================================================
