------------------------------ MODULE BlockSaver ----------------------------
(***************************************************************************)
(* What a pod does with one record of unseen-blocks: processBlockFunc of   *)
(* app/indexer fetches the transactions of a master block and its shards   *)
(* and calls saveBlock until it succeeds or its tries are used up.  Here a *)
(* Block is a master block with its shards, and a Saver is a pod with one  *)
(* goroutine in its ConsumeLoop (UNSEEN_BLOCK_WORKERS = 1).                *)
(*                                                                         *)
(* saveBlock looks up the sources of messages, then broadcasts the account *)
(* states while it inserts states, messages, transactions and blocks, each *)
(* in statements of their own: there is no transaction around them, and    *)
(* the savers of other blocks work on the same tables.  A retry runs over  *)
(* the same Go objects, which the earlier try has changed.                 *)
(*                                                                         *)
(* The logical time of a state is the number of the block it is from, and  *)
(* messages are numbered in the order of their CreatedLT.  Each write to   *)
(* PostgreSQL is taken together with the ClickHouse write that follows it: *)
(* a failure of the second is a failure after the first took effect.       *)
(*                                                                         *)
(* KeepDangling, Claim, WriteNothing, SetAlways, KeepRow and JoinInsertOnly*)
(* are faulty variants of the operator that follows each of them; no       *)
(* action uses them.                                                       *)
(***************************************************************************)
EXTENDS Naturals, FiniteSets

CONSTANTS
    Saver,
    NumBlocks,
    Account, Touches,       \* accounts with a transaction in each block
    Code, CodeOf,           \* code hash of each account
    NumMessages,
    Source, Destination,    \* block of a message's ends, 0 if it has none
    External,               \* messages from or to outside the chain
    Masterchain,            \* messages from or to a masterchain address
    MaxTries,               \* MAX_BLOCK_PROCESSING_RETRIES
    FaultSets               \* choices of what goes wrong in a behaviour

Block   == 1..NumBlocks
Message == 1..NumMessages
End     == {"src", "dst"}
Absent  == {"absent"}       \* the table has no row for the message

\* What may go wrong: a statement or a produce call fails; the batch insert
\* of transactions fails; a record is delivered twice; savers work at the
\* same time and out of order.
Fault == {"write", "tx", "again", "apart"}

ASSUME SaverAssumption ==
    /\ NumBlocks \in Nat /\ NumMessages \in Nat
    /\ Touches \in [Block -> (SUBSET Account) \ {{}}]
    /\ CodeOf \in [Account -> Code]
    /\ Source \in [Message -> Block \cup {0}]
    /\ Destination \in [Message -> Block \cup {0}]
    /\ \A m \in Message : Source[m] + Destination[m] > 0
    /\ External \subseteq Message /\ Masterchain \subseteq Message
    /\ MaxTries \in Nat \ {0}
    /\ FaultSets \subseteq SUBSET Fault

VARIABLES
    kv,          \* account_states_code: value under each code hash
    states,      \* account_states: pairs of an account and a block
    latest,      \* latest_account_states: last_tx_lt, 0 if there is no row
    rows,        \* messages: the ends each row knows, or Absent
    txs,         \* blocks whose transactions are stored
    masters,     \* master blocks with a row
    shards,      \* blocks whose shard rows are stored
    heard,       \* blocks whose account states were broadcast
    done,        \* blocks whose processing returned without an error
    deliveries,  \* how often each block's record was delivered
    bared,       \* per process: blocks whose cached states lost their code
    pc,          \* where the saver's inserting goroutine is
    cast,        \* where its broadcasting goroutine is
    block,       \* the block it saves
    tries,       \* tries of saveBlock begun
    failed,      \* a goroutine of this try returned an error
    bare,        \* its account states carry no code any more
    known,       \* its messages whose SrcTxLT was filled from the database
    left,        \* what the current loop has still to do
    skip,        \* messages it does not save in this try
    faults       \* the same throughout a behaviour, chosen in Init

tables == <<kv, states, latest, rows, txs, masters, shards>>
tasks  == <<pc, cast, block, tries, failed, bare, known, left, skip>>
vars   == <<tables, heard, done, deliveries, bared, tasks, faults>>

PC == {"idle", "fetch", "lookup", "code", "states", "latest", "messages",
       "txs", "blocks", "join"}

Value == {"none", "real", "empty"}

Init ==
    /\ kv = [c \in Code |-> "none"]
    /\ states = {} /\ txs = {} /\ masters = {} /\ shards = {}
    /\ latest = [a \in Account |-> 0]
    /\ rows = [m \in Message |-> Absent]
    /\ heard = {} /\ done = {}
    /\ bared = [s \in Saver |-> {}]
    /\ deliveries = [b \in Block |-> 0]
    /\ pc = [s \in Saver |-> "idle"]
    /\ cast = [s \in Saver |-> "over"]
    /\ block = [s \in Saver |-> 0]
    /\ tries = [s \in Saver |-> 0]
    /\ failed = [s \in Saver |-> FALSE]
    /\ bare = [s \in Saver |-> FALSE]
    /\ known = [s \in Saver |-> {}]
    /\ left = [s \in Saver |-> {}]
    /\ skip = [s \in Saver |-> {}]
    /\ faults \in FaultSets

Goto(s, l) == pc' = [pc EXCEPT ![s] = l]

\* A call of the inserting goroutine: it has its effect, and then either
\* succeeds and goes on, or fails and ends the goroutine; or it fails without
\* effect.
Goes(s, l) == Goto(s, l) /\ UNCHANGED failed
Fails(s) ==
    /\ "write" \in faults
    /\ Goto(s, "join")
    /\ failed' = [failed EXCEPT ![s] = TRUE]

-----------------------------------------------------------------------------
\* A record is delivered to some goroutine, a second time only after a crash
\* or a rebalance.
Take(s, b) ==
    /\ pc[s] = "idle"
    /\ \/ deliveries[b] = 0
       \/ "again" \in faults /\ deliveries[b] = 1
    /\ "apart" \notin faults =>
          /\ \A c \in Block : c < b => deliveries[c] > 0
          /\ \A t \in Saver : pc[t] = "idle"
    /\ deliveries' = [deliveries EXCEPT ![b] = @ + 1]
    /\ block' = [block EXCEPT ![s] = b]
    /\ Goto(s, "fetch")
    /\ UNCHANGED <<tables, heard, done, bared, cast, tries, failed, bare,
                   known, left, skip, faults>>

Mine(b) == {m \in Message : b \in {Source[m], Destination[m]}}

\* uniqMessages asks for the source of every internal message that has only
\* its destination in this block.
Unsourced(b, k) ==
    {m \in Mine(b) \ External : Source[m] # b /\ m \notin k}

BeginTry(s, k) ==
    /\ tries' = [tries EXCEPT ![s] = @ + 1]
    /\ failed' = [failed EXCEPT ![s] = FALSE]
    /\ left' = [left EXCEPT ![s] = Unsourced(block[s], k)]
    /\ skip' = [skip EXCEPT ![s] = {}]
    /\ Goto(s, "lookup")

EndTask(s) ==
    /\ Goto(s, "idle")
    /\ block' = [block EXCEPT ![s] = 0]
    /\ tries' = [tries EXCEPT ![s] = 0]
    /\ failed' = [failed EXCEPT ![s] = FALSE]
    /\ bare' = [bare EXCEPT ![s] = FALSE]
    /\ known' = [known EXCEPT ![s] = {}]
    /\ left' = [left EXCEPT ![s] = {}]
    /\ skip' = [skip EXCEPT ![s] = {}]

\* getBlockTxs: an error ends the processing.  The account states may come
\* from the fetcher's cache, where an earlier save has left them without
\* their code.
Fetch(s) ==
    /\ pc[s] = "fetch"
    /\ \/ /\ BeginTry(s, {})
          /\ \E stale \in {FALSE, block[s] \in bared[s]} :
                bare' = [bare EXCEPT ![s] = stale]
          /\ UNCHANGED <<block, known>>
       \/ "write" \in faults /\ EndTask(s)
    /\ UNCHANGED <<tables, heard, done, deliveries, bared, cast, faults>>

\* getMessageSource.  A source that is not stored yet makes the message to be
\* skipped, unless it belongs to the masterchain.
KeepDangling(s, m) == UNCHANGED skip
Dangling(s, m) ==
    skip' = IF m \in Masterchain THEN skip
            ELSE [skip EXCEPT ![s] = @ \cup {m}]

Lookup(s) ==
    /\ pc[s] = "lookup"
    /\ \E m \in left[s] :
        /\ left' = [left EXCEPT ![s] = @ \ {m}]
        /\ \/ /\ rows[m] # Absent
              /\ known' = IF "src" \in rows[m]
                          THEN [known EXCEPT ![s] = @ \cup {m}] ELSE known
              /\ UNCHANGED skip
           \/ /\ rows[m] = Absent
              /\ Dangling(s, m)
              /\ UNCHANGED known
    /\ UNCHANGED <<tables, heard, done, deliveries, bared, pc, cast, block,
                   tries, failed, bare, faults>>

\* saveBlock starts its two goroutines.
Claim(s) ==
    /\ pc[s] = "lookup" /\ left[s] = {}
    /\ Goto(s, "code")
    /\ cast' = [cast EXCEPT ![s] = "send"]
    /\ masters' = masters \cup {block[s]}
    /\ UNCHANGED <<kv, states, latest, rows, txs, shards, heard, done,
                   deliveries, bared, block, tries, failed, bare, known, left,
                   skip, faults>>
Start(s) ==
    /\ pc[s] = "lookup" /\ left[s] = {}
    /\ Goto(s, "code")
    /\ cast' = [cast EXCEPT ![s] = "send"]
    /\ UNCHANGED <<tables, heard, done, deliveries, bared, block, tries,
                   failed, bare, known, left, skip, faults>>

-----------------------------------------------------------------------------
\* broadcastNewData: ProduceSync of the account states.
Broadcast(s) ==
    /\ cast[s] = "send"
    /\ cast' = [cast EXCEPT ![s] = "over"]
    /\ \/ heard' = heard \cup {block[s]} /\ UNCHANGED failed
       \/ /\ "write" \in faults
          /\ heard' \in {heard, heard \cup {block[s]}}
          /\ failed' = [failed EXCEPT ![s] = TRUE]
    /\ UNCHANGED <<tables, done, deliveries, bared, pc, block, tries, bare,
                   known, left, skip, faults>>

-----------------------------------------------------------------------------
\* insertData.

\* AddAccountStates takes the code and data out of the states before it
\* writes them under their hashes, whether or not the write succeeds.
WriteNothing(s) ==
    kv' = [c \in Code |->
        IF \E a \in Touches[block[s]] : CodeOf[a] = c THEN "empty" ELSE kv[c]]
WriteCode(s) ==
    kv' = [c \in Code |->
        IF \E a \in Touches[block[s]] : CodeOf[a] = c
        THEN IF bare[s] THEN "empty" ELSE "real"
        ELSE kv[c]]

InsertCode(s) ==
    /\ pc[s] = "code"
    /\ \/ WriteCode(s) /\ (Goes(s, "states") \/ Fails(s))
       \/ Fails(s) /\ UNCHANGED kv
    /\ bare' = [bare EXCEPT ![s] = TRUE]
    /\ bared' = [bared EXCEPT ![s] = @ \cup {block[s]}]
    /\ UNCHANGED <<states, latest, rows, txs, masters, shards, heard, done,
                   deliveries, cast, block, tries, known, left, skip, faults>>

InsertStates(s) ==
    /\ pc[s] = "states"
    /\ \/ /\ states' = states \cup (Touches[block[s]] \X {block[s]})
          /\ \/ /\ Goes(s, "latest")
                /\ left' = [left EXCEPT ![s] = Touches[block[s]]]
             \/ Fails(s) /\ UNCHANGED left
       \/ Fails(s) /\ UNCHANGED <<states, left>>
    /\ UNCHANGED <<kv, latest, rows, txs, masters, shards, heard, done,
                   deliveries, bared, cast, block, tries, bare, known, skip,
                   faults>>

\* One upsert per account: the stored time is replaced only by a later one.
SetAlways(a, b) == latest' = [latest EXCEPT ![a] = b]
SetLatest(a, b) == latest' = [latest EXCEPT ![a] = IF @ < b THEN b ELSE @]

\* What is saved of the block's messages.
Kept(s) == Mine(block[s]) \ skip[s]

UpsertLatest(s) ==
    /\ pc[s] = "latest"
    /\ \/ /\ left[s] = {}
          /\ Goes(s, "messages")
          /\ left' = [left EXCEPT ![s] = Kept(s)]
          /\ UNCHANGED latest
       \/ \E a \in left[s] :
            \/ /\ SetLatest(a, block[s])
               /\ left' = [left EXCEPT ![s] = @ \ {a}]
               /\ Goes(s, "latest") \/ Fails(s)
            \/ Fails(s) /\ UNCHANGED <<latest, left>>
    /\ UNCHANGED <<kv, states, rows, txs, masters, shards, heard, done,
                   deliveries, bared, cast, block, tries, bare, known, skip,
                   faults>>

\* The ends the message has in hand, and the row after its upsert: an
\* existing row keeps its source columns and takes the destination columns
\* of the message in hand, set or not.
Ends(s, m) ==
    {e \in End :
        \/ e = "src" /\ (Source[m] = block[s] \/ m \in known[s])
        \/ e = "dst" /\ Destination[m] = block[s]}

KeepRow(s, m) ==
    rows' = [rows EXCEPT ![m] = IF @ = Absent THEN Ends(s, m) ELSE @]
UpsertRow(s, m) ==
    rows' = [rows EXCEPT ![m] =
        IF @ = Absent THEN Ends(s, m)
        ELSE (@ \ {"dst"}) \cup (Ends(s, m) \ {"src"})]

\* One upsert per message, in the order of their CreatedLT.
InsertMessages(s) ==
    /\ pc[s] = "messages"
    /\ \/ left[s] = {} /\ Goes(s, "txs") /\ UNCHANGED <<rows, left>>
       \/ \E m \in left[s] :
            /\ \A n \in left[s] : m <= n
            /\ \/ /\ UpsertRow(s, m)
                  /\ left' = [left EXCEPT ![s] = @ \ {m}]
                  /\ Goes(s, "messages") \/ Fails(s)
               \/ Fails(s) /\ UNCHANGED <<rows, left>>
    /\ UNCHANGED <<kv, states, latest, txs, masters, shards, heard, done,
                   deliveries, bared, cast, block, tries, bare, known, skip,
                   faults>>

\* AddTransactions returns the error of its ClickHouse write.  An error of
\* the PostgreSQL write, other than the one conflict it looks for, is lost.
InsertTransactions(s) ==
    /\ pc[s] = "txs"
    /\ \/ txs' = txs \cup {block[s]}
       \/ "tx" \in faults /\ UNCHANGED txs
    /\ Goes(s, "blocks") \/ Fails(s)
    /\ UNCHANGED <<kv, states, latest, rows, masters, shards, heard, done,
                   deliveries, bared, cast, block, tries, bare, known, left,
                   skip, faults>>

\* AddBlocks: the row of the master block, then those of its shards.
InsertBlocks(s) ==
    /\ pc[s] = "blocks"
    /\ \/ /\ masters' = masters \cup {block[s]}
          /\ \/ /\ shards' = shards \cup {block[s]}
                /\ Goes(s, "join") \/ Fails(s)
             \/ Fails(s) /\ UNCHANGED shards
       \/ Fails(s) /\ UNCHANGED <<masters, shards>>
    /\ UNCHANGED <<kv, states, latest, rows, txs, heard, done, deliveries,
                   bared, cast, block, tries, bare, known, left, skip, faults>>

-----------------------------------------------------------------------------
\* errGroup.Wait joins both goroutines; an error of either starts another try
\* of the whole saveBlock.
JoinInsertOnly(s) == pc[s] = "join"
Joined(s) == pc[s] = "join" /\ cast[s] = "over"

Return(s) ==
    /\ Joined(s) /\ ~failed[s]
    /\ done' = done \cup {block[s]}
    /\ EndTask(s)
    /\ UNCHANGED <<tables, heard, deliveries, bared, cast, faults>>

Retry(s) ==
    /\ Joined(s) /\ failed[s] /\ tries[s] < MaxTries
    /\ BeginTry(s, known[s])
    /\ UNCHANGED <<tables, heard, done, deliveries, bared, cast, block, bare,
                   known, faults>>

\* After the last try, or earlier when the retries took too long.
GiveUp(s) ==
    /\ Joined(s) /\ failed[s]
    /\ EndTask(s)
    /\ UNCHANGED <<tables, heard, done, deliveries, bared, cast, faults>>

\* The process dies, by itself or by the panic of getMessageSource when the
\* database does not answer.
Crash(s) ==
    /\ pc[s] # "idle" /\ "again" \in faults
    /\ EndTask(s)
    /\ cast' = [cast EXCEPT ![s] = "over"]
    /\ bared' = [bared EXCEPT ![s] = {}]
    /\ UNCHANGED <<tables, heard, done, deliveries, faults>>

Step(s) ==
    \/ Fetch(s) \/ Lookup(s) \/ Start(s) \/ Broadcast(s) \/ InsertCode(s)
    \/ InsertStates(s) \/ UpsertLatest(s) \/ InsertMessages(s)
    \/ InsertTransactions(s) \/ InsertBlocks(s)
    \/ Return(s) \/ Retry(s) \/ GiveUp(s)

Next ==
    \E s \in Saver : Step(s) \/ Crash(s) \/ \E b \in Block : Take(s, b)

Spec == Init /\ [][Next]_vars

-----------------------------------------------------------------------------
TablesOK ==
    /\ kv \in [Code -> Value]
    /\ states \subseteq Account \X Block
    /\ latest \in [Account -> Block \cup {0}]
    /\ rows \in [Message -> (SUBSET End) \cup {Absent}]
    /\ txs \subseteq Block /\ masters \subseteq Block /\ shards \subseteq Block

RecordsOK ==
    /\ heard \subseteq Block /\ done \subseteq Block
    /\ deliveries \in [Block -> 0..2]
    /\ bared \in [Saver -> SUBSET Block]
    /\ faults \in FaultSets

PlacesOK ==
    /\ pc \in [Saver -> PC]
    /\ block \in [Saver -> Block \cup {0}]
    /\ tries \in [Saver -> 0..MaxTries]
    /\ \A s \in Saver :
          /\ pc[s] # "idle" => block[s] \in Block
          /\ pc[s] \in {"idle", "fetch"} => tries[s] = 0
          /\ pc[s] \in {"idle", "fetch", "lookup"} => cast[s] = "over"
          /\ pc[s] = "lookup" => left[s] \subseteq Message

WorkOK ==
    /\ cast \in [Saver -> {"send", "over"}]
    /\ failed \in [Saver -> BOOLEAN]
    /\ bare \in [Saver -> BOOLEAN]
    /\ known \in [Saver -> SUBSET Message]
    /\ left \in [Saver -> SUBSET (Account \cup Message)]
    /\ skip \in [Saver -> SUBSET Message]

TypeOK == TablesOK /\ RecordsOK /\ PlacesOK /\ WorkOK

\* The parts of a stored block: code, states, latest states, the messages
\* that may not be skipped, and transactions unless their insert fails
\* unnoticed.
Needed(b) ==
    {m \in Mine(b) : Source[m] = b \/ m \in External \cup Masterchain}
CodeIn(b) == \A a \in Touches[b] : kv[CodeOf[a]] # "none"
StatesIn(b) == \A a \in Touches[b] : <<a, b>> \in states
LatestIn(b, A) == \A a \in A : latest[a] >= b
RowsIn(M) == \A m \in M : rows[m] # Absent
TxsIn(b) == "tx" \notin faults => b \in txs

\* A master block has a row only when everything else of it is stored, since
\* the next leader goes on behind the last row it finds.  The rows of its
\* shards are the one exception.
MasterRowIsLast ==
    \A b \in masters :
        /\ CodeIn(b) /\ StatesIn(b) /\ LatestIn(b, Touches[b])
        /\ RowsIn(Needed(b)) /\ TxsIn(b)

\* A record counts as processed only when the rows of its shards are stored
\* and its account states were broadcast, however its two goroutines raced.
DoneIsWhole == done \subseteq masters \cap shards \cap heard

\* No save, late, repeated or run next to another one, moves the latest state
\* of an account back.
LatestAdvances == [][\A a \in Account : latest'[a] >= latest[a]]_vars

\* A basechain message is never stored without its source: its destination
\* alone is skipped, and no later write takes the source away.
StoredHasSource ==
    \A m \in Message \ (External \cup Masterchain) :
        rows[m] # Absent => "src" \in rows[m]

\* When records come once and one after another, a message whose two blocks
\* are saved knows both ends, however many tries its saves took.
EndsKeptInOrder ==
    faults \cap {"apart", "again"} = {} =>
        \A m \in Message :
            Source[m] \in done /\ Destination[m] \in done => rows[m] = End

\* When no call fails and no record comes twice, the code of a saved state is
\* stored, however the saves interleave.
CodeKeptWithoutRetry ==
    faults \cap {"write", "again"} = {} =>
        \A r \in states : kv[CodeOf[r[1]]] = "real"

\* Code that is stored stays stored: a try that is repeated does no harm.
CodeStays ==
    [][\A c \in Code : kv[c] = "real" => kv'[c] = "real"]_vars

\* A message that knows its destination goes on knowing it: saving a block
\* again only repeats what is stored.
DestinationStays ==
    [][\A m \in Message :
          rows[m] # Absent /\ "dst" \in rows[m] => "dst" \in rows'[m]]_vars
-----------------------------------------------------------------------------
\* The inductive invariants of these properties, in named parts.

Saving == {"code", "states", "latest", "messages", "txs", "blocks", "join"}

\* What is neither skipped nor still to be looked up has its source in hand.
Sourced(s) ==
    pc[s] \in Saving \cup {"lookup"} =>
        \A m \in Mine(block[s]) \ (External \cup Masterchain) :
            \/ m \in skip[s]
            \/ Source[m] = block[s] \/ m \in known[s]
            \/ pc[s] = "lookup" /\ m \in left[s]
LookupInv == \A s \in Saver : Sourced(s)

\* No needed message is skipped, and the message loop saves the others.
Skips(s) ==
    /\ pc[s] \in Saving \cup {"lookup"} => skip[s] \cap Needed(block[s]) = {}
    /\ pc[s] = "lookup" =>
          \A m \in left[s] : m \notin External /\ Source[m] # block[s]
    /\ pc[s] = "messages" => left[s] \subseteq Kept(s)
SkipInv == \A s \in Saver : Skips(s)

\* What a saver has stored of its block when it is at a certain place.
Progress(s, b) ==
    /\ pc[s] \in {"states", "latest", "messages", "txs", "blocks"} => CodeIn(b)
    /\ pc[s] \in {"latest", "messages", "txs", "blocks"} => StatesIn(b)
    /\ pc[s] = "latest" => LatestIn(b, Touches[b] \ left[s])
    /\ pc[s] \in {"messages", "txs", "blocks"} => LatestIn(b, Touches[b])
    /\ pc[s] = "messages" => RowsIn(Needed(b) \ left[s])
    /\ pc[s] \in {"txs", "blocks"} => RowsIn(Needed(b))
    /\ pc[s] = "blocks" => TxsIn(b)
ProgressInv == \A s \in Saver : Progress(s, block[s])

\* Without a failure, a joined insert has stored the rows, and an ended
\* broadcast was heard.
Whole(s) ==
    ~failed[s] =>
        /\ pc[s] = "join" => block[s] \in masters \cap shards
        /\ pc[s] \in Saving /\ cast[s] = "over" => block[s] \in heard
JoinInv == \A s \in Saver : Whole(s)

\* When nothing fails and nothing comes twice, each block is in the hands of
\* one saver, once, which finds its states with their code.
Untroubled == faults \cap {"write", "again"} = {}
HandledOnce(s) ==
    /\ ~failed[s]
    /\ \A b \in bared[s] : deliveries[b] > 0
    /\ pc[s] # "idle" =>
          /\ deliveries[block[s]] > 0
          /\ \A t \in Saver \ {s} : pc[t] # "idle" => block[t] # block[s]
Dressed(s) ==
    /\ pc[s] \in {"idle", "fetch", "lookup", "code"} => ~bare[s]
    /\ pc[s] \in {"fetch", "lookup", "code"} =>
          \A t \in Saver : block[s] \notin bared[t]
    /\ pc[s] = "states" => \A a \in Touches[block[s]] : kv[CodeOf[a]] = "real"
CodeInv ==
    Untroubled =>
        CodeKeptWithoutRetry /\ \A s \in Saver : HandledOnce(s) /\ Dressed(s)

\* A message is sent before it is received, or in the same block: a block
\* names the shard blocks its messages come from.
SentFirst ==
    \A m \in Message : Source[m] # 0 /\ Destination[m] # 0
                           => Source[m] <= Destination[m]

\* When records come once and one after another, one block is saved at a
\* time, after those before it and before those after it.
Serial == faults \cap {"apart", "again"} = {}
SerialInv ==
    Serial =>
        /\ \A b, c \in Block : c < b /\ deliveries[b] > 0 => deliveries[c] > 0
        /\ \A b \in done : deliveries[b] > 0
        /\ \A s \in Saver : pc[s] # "idle" =>
              /\ \A t \in Saver : pc[t] # "idle" => t = s
              /\ block[s] \notin done /\ deliveries[block[s]] > 0
              /\ \A c \in Block : c > block[s] => deliveries[c] = 0

\* What saving block b makes sure of a message's row.
EndsOf(m, b) ==
    /\ Source[m] = b => "src" \in rows[m]
    /\ Destination[m] = b /\ Source[m] \in done \cup {b} => rows[m] = End
SavedEnds ==
    \A m \in Message : Source[m] # 0 =>
        /\ Source[m] \in done => "src" \in rows[m]
        /\ {Source[m], Destination[m]} \subseteq done => rows[m] = End
        /\ deliveries[Source[m]] = 0 => rows[m] = Absent
SavingEnds(s) ==
    /\ pc[s] # "idle" => \A m \in Message :
          Source[m] = block[s] => rows[m] = Absent \/ "src" \in rows[m]
    /\ pc[s] \in Saving \cup {"lookup"} =>
          \A m \in skip[s] : Source[m] \notin done \cup {block[s]}
    /\ pc[s] = "messages" =>
          \A m \in Mine(block[s]) \ left[s] : EndsOf(m, block[s])
    /\ pc[s] \in {"txs", "blocks"} \/ (pc[s] = "join" /\ ~failed[s]) =>
          \A m \in Mine(block[s]) : EndsOf(m, block[s])
EndsInv == Serial => SavedEnds /\ \A s \in Saver : SavingEnds(s)
=============================================================================
