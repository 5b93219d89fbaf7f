------------------------------ MODULE CodeData ------------------------------
(***************************************************************************)
(* The move of the accounts' code and data out of the tables of states and *)
(* into a key-value store, while pods of the new version save states: the  *)
(* commands transferCodeData and clearCodeData of cmd/db/db.go with        *)
(* AddAccountStates and getCodeData of core/repository/account.            *)
(*                                                                         *)
(* Both commands go through the states in batches of about limit rows of   *)
(* ClickHouse, by their logical time, lt.  An operator clears only what    *)
(* was transferred; a command that failed is run again from the start or   *)
(* from the batch that it last logged.  Old rows are in both databases     *)
(* with their code and data.  A save is tried once; BlockSaver.tla has the *)
(* second try.  ClickHouse merges the versions of a row at once.           *)
(*                                                                         *)
(* OneLess and FailedNext are faulty variants of the operator that follows *)
(* each of them; no action uses them.                                      *)
(***************************************************************************)
EXTENDS Naturals, FiniteSets

CONSTANTS
    State,      \* account states: pairs of an account and an lt
    HashOf,     \* by state: what its code and data are
    OldStates,  \* saved by the version before
    Saves,      \* the states that are saved, or saved again
    Limits,     \* limits a command may be given
    MaxFail     \* bound: commands that fail

CodeDataAssumption ==
    /\ OldStates \cup Saves \subseteq State
    /\ Limits \subseteq Nat \ {0} /\ MaxFail \in Nat
    /\ \A s \in State : s[2] \in Nat \ {0}

Kind == {"code", "data"}
Lt(s) == s[2]

VARIABLES
    rows,         \* PostgreSQL: the states
    inline,       \* PostgreSQL: what a row itself has of code and data
    chRows,       \* ClickHouse: the states
    chInline,     \* ClickHouse: what a row itself has
    kv,           \* ClickHouse: the hashes that are stored, with their kind
    saving,       \* by state: where its save is
    cmd,          \* the command that runs, or "none"
    pc,           \* its step: "next", "code" or "data"
    from, next,   \* its batch; next is 0 for the last one
    limit,
    reached,      \* where a failed command may be started from
    transferred,  \* transferCodeData has finished
    failed        \* how many commands failed

pods     == <<rows, chRows, saving>>
progress == <<cmd, pc, from, next, limit, reached, transferred, failed>>
vars     == <<rows, inline, chRows, chInline, kv, saving, cmd, pc, from, next,
              limit, reached, transferred, failed>>

Init ==
    /\ rows = OldStates /\ chRows = OldStates
    /\ inline = OldStates \X Kind /\ chInline = OldStates \X Kind
    /\ kv = {}
    /\ saving = [s \in Saves |-> "kv"]
    /\ cmd = "none" /\ pc = "next"
    /\ from = 0 /\ next = 0 /\ reached = 0
    /\ limit \in Limits
    /\ transferred = FALSE
    /\ failed = 0

-----------------------------------------------------------------------------
\* AddAccountStates for one state, new or saved before: the key-value store,
\* the row without its code and data, and the row of ClickHouse.
Without(s, contents) == {c \in contents : c[1] # s}

Save(s) ==
    /\ saving[s] # "done"
    /\ \/ /\ saving[s] = "kv"
          /\ kv' = kv \cup ({HashOf[s]} \X Kind)
          /\ UNCHANGED <<rows, inline, chRows, chInline>>
       \/ /\ saving[s] = "row"
          /\ rows' = rows \cup {s} /\ inline' = Without(s, inline)
          /\ UNCHANGED <<kv, chRows, chInline>>
       \/ /\ saving[s] = "ch"
          /\ chRows' = chRows \cup {s} /\ chInline' = Without(s, chInline)
          /\ UNCHANGED <<kv, rows, inline>>
    /\ saving' = [saving EXCEPT ![s] = IF @ = "kv" THEN "row"
                                       ELSE IF @ = "row" THEN "ch" ELSE "done"]
    /\ UNCHANGED progress

FailSave(s) ==
    /\ saving[s] # "done"
    /\ saving' = [saving EXCEPT ![s] = "done"]
    /\ UNCHANGED <<rows, inline, chRows, chInline, kv, progress>>

-----------------------------------------------------------------------------
\* The commands.
Start(name) ==
    /\ cmd = "none"
    /\ name = "clear" => transferred
    /\ cmd' = name /\ pc' = "next"
    /\ from' \in {0, reached}
    /\ UNCHANGED <<pods, inline, chInline, kv, next, limit, reached, transferred, failed>>

\* OFFSET limit ROW FETCH FIRST 1 ROWS ONLY, or no row.
OneLess == limit - 1
Offset  == limit
RowsIn(a, b) == Cardinality({s \in chRows : a <= Lt(s) /\ Lt(s) < b})
NextLts == {Lt(s) : s \in {r \in chRows : /\ from <= Lt(r)
                                          /\ RowsIn(from, Lt(r)) <= Offset
                                          /\ RowsIn(from, Lt(r) + 1) > Offset}}

GetNext ==
    /\ cmd # "none" /\ pc = "next"
    /\ next' = IF NextLts = {} THEN 0 ELSE CHOOSE lt \in NextLts : TRUE
    /\ pc' = "code"
    /\ UNCHANGED <<pods, inline, chInline, kv, cmd, from, limit, reached,
                   transferred, failed>>

InBatch(s) == from <= Lt(s) /\ (next # 0 => Lt(s) < next)

Finished(name) == cmd = name /\ pc = "data" /\ next = 0

\* One statement: the code of the batch, and then its data.
Transfer ==
    /\ cmd = "transfer"
    /\ kv' = kv \cup {<<HashOf[s], pc>> : s \in {r \in chRows : <<r, pc>> \in chInline /\ InBatch(r)}}
    /\ UNCHANGED inline

Clear ==
    /\ cmd = "clear"
    /\ inline' = {c \in inline : c[2] # pc \/ ~InBatch(c[1])}
    /\ UNCHANGED kv

Statement ==
    /\ pc \in Kind
    /\ Transfer \/ Clear
    /\ pc' = IF pc = "code" THEN "data" ELSE "next"
    /\ from' = IF pc = "data" THEN next ELSE from
    /\ cmd' = IF pc = "data" /\ next = 0 THEN "none" ELSE cmd
    /\ reached' = IF pc = "data" /\ next = 0 THEN 0 ELSE reached
    /\ transferred' = (transferred \/ Finished("transfer"))
    /\ UNCHANGED <<pods, chInline, next, limit, failed>>

\* A statement fails and the command returns, with the bounds of its batch
\* in the error.
FailedNext == next
FailedFrom == from

Fail ==
    /\ cmd # "none" /\ failed < MaxFail
    /\ cmd' = "none" /\ failed' = failed + 1
    /\ reached' = FailedFrom
    /\ UNCHANGED <<pods, inline, chInline, kv, pc, from, next, limit, transferred>>

Run == GetNext \/ Statement

Next ==
    \/ \E s \in Saves : Save(s) \/ FailSave(s)
    \/ Start("transfer") \/ Start("clear")
    \/ Run \/ Fail

Spec == Init /\ [][Next]_vars
FairSpec == Spec /\ WF_vars(Run)

-----------------------------------------------------------------------------
\* getCodeData: what a row does not have itself is looked up by its hash, and
\* a hash that is not found fails the whole request.
Missing(s) == {k \in Kind : <<s, k>> \notin inline /\ <<HashOf[s], k>> \notin kv}

\* Every state can be read with its code and data at any time: before the
\* move, between its batches, after a command that failed half way and was
\* run again, and while states are saved and saved again.
CodeReadable == \A s \in rows : Missing(s) = {}

\* A command ends, unless so many states have one lt that the row at the
\* offset is always the first of its batch again.
Crowded == \E lt \in {Lt(s) : s \in chRows} : RowsIn(lt, lt + 1) > limit
CommandEnds == cmd # "none" ~> cmd = "none" \/ Crowded
-----------------------------------------------------------------------------
\* The inductive invariant of CodeReadable, in named parts.
TypeOK ==
    /\ OldStates \subseteq chRows /\ chRows \subseteq State
    /\ OldStates \subseteq rows /\ rows \subseteq State
    /\ inline \subseteq OldStates \X Kind
    /\ chInline \subseteq OldStates \X Kind
    /\ saving \in [Saves -> {"kv", "row", "ch", "done"}]
    /\ cmd \in {"none", "transfer", "clear"}
    /\ pc \in {"next"} \cup Kind
    /\ from \in Nat /\ next \in Nat /\ reached \in Nat
    /\ transferred \in BOOLEAN

\* The key-value store has the code, or the data, of a state.
InKv(s, k) == <<HashOf[s], k>> \in kv

\* A pod stores the code and data of a state before its row.
SavedFirst ==
    /\ \A s \in Saves : saving[s] \in {"row", "ch"} => \A k \in Kind : InKv(s, k)
    /\ \A s \in rows \ OldStates : \A k \in Kind : InKv(s, k)

\* What a row has lost, in either database, is in the key-value store.
NothingLost ==
    \A s \in OldStates, k \in Kind : <<s, k>> \notin inline \cap chInline => InKv(s, k)

\* A transfer has got to the batch it may be started from again, to the one
\* it is at, in that one to the code, and in the end everywhere.
Passed(s, k) ==
    \/ Lt(s) < reached
    \/ cmd = "transfer" /\ Lt(s) < from
    \/ cmd = "transfer" /\ pc = "data" /\ k = "code" /\ InBatch(s)
    \/ transferred \/ cmd = "clear"
Transferred == \A s \in OldStates, k \in Kind : Passed(s, k) => InKv(s, k)

MoveInv == SavedFirst /\ NothingLost /\ Transferred
=============================================================================
