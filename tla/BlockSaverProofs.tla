-------------------------- MODULE BlockSaverProofs --------------------------
(***************************************************************************)
(* What BlockSaver guarantees for every number of savers, blocks, accounts *)
(* and messages: whatever fails, a message is stored with its source, the  *)
(* row of a master block is written last, a processed record is whole, and *)
(* the latest state of an account never moves back.  When nothing fails    *)
(* and nothing comes twice, the code of a stored state is stored.  When    *)
(* records come once and in order, a message whose two blocks are saved    *)
(* knows both its ends.                                                    *)
(***************************************************************************)
EXTENDS BlockSaver, TLAPS

USE DEF tables

-----------------------------------------------------------------------------
\* Every step of a saver leaves it at a known place with a block of its own.
LEMMA PlacesStep ==
  ASSUME TypeOK, NEW s \in Saver, Step(s)
  PROVE  PlacesOK'
<1> USE SaverAssumption DEF TypeOK, PlacesOK, PC
<1>1. CASE Fetch(s)
  <2>1. Unsourced(block[s], {}) \subseteq Message
    BY DEF Unsourced, Mine
  <2> QED
    BY <1>1, <2>1 DEF Fetch, BeginTry, EndTask, Goto, WorkOK
<1>2. CASE Lookup(s)
  BY <1>2 DEF Lookup, WorkOK
<1>3. CASE Start(s)
  BY <1>3 DEF Start, Goto, WorkOK
<1>4. CASE Broadcast(s)
  BY <1>4 DEF Broadcast, WorkOK
<1>5. CASE InsertCode(s) \/ InsertStates(s)
  <2>1. CASE InsertCode(s)
    BY <2>1 DEF InsertCode, Goes, Fails, Goto
  <2>2. CASE InsertStates(s)
    BY <2>2 DEF InsertStates, Goes, Fails, Goto, WorkOK
  <2> QED
    BY <1>5, <2>1, <2>2
<1>6. CASE UpsertLatest(s) \/ InsertMessages(s)
  <2>1. CASE UpsertLatest(s)
    BY <2>1 DEF UpsertLatest, Goes, Fails, Goto, WorkOK
  <2>2. CASE InsertMessages(s)
    BY <2>2 DEF InsertMessages, Goes, Fails, Goto, WorkOK
  <2> QED
    BY <1>6, <2>1, <2>2
<1>7. CASE InsertTransactions(s) \/ InsertBlocks(s)
  BY <1>7 DEF InsertTransactions, InsertBlocks, Goes, Fails, Goto
<1>8. CASE Return(s) \/ GiveUp(s)
  BY <1>8 DEF Return, GiveUp, Joined, EndTask, Goto, WorkOK
<1>9. CASE Retry(s)
  <2>1. Unsourced(block[s], known[s]) \subseteq Message
    BY DEF Unsourced, Mine
  <2> QED
    BY <1>9, <2>1 DEF Retry, Joined, BeginTry, Goto, WorkOK
<1> QED
  BY <1>1, <1>2, <1>3, <1>4, <1>5, <1>6, <1>7, <1>8, <1>9 DEF Step

\* Every step of a saver writes rows of the declared kinds.
LEMMA TablesStep ==
  ASSUME TypeOK, NEW s \in Saver, Step(s)
  PROVE  TablesOK'
<1> USE DEF TypeOK, TablesOK, PlacesOK
<1>1. CASE InsertCode(s)
  BY <1>1 DEF InsertCode, WriteCode, Value
<1>2. CASE InsertStates(s)
  BY <1>2, SaverAssumption DEF InsertStates
<1>3. CASE UpsertLatest(s)
  BY <1>3 DEF UpsertLatest, SetLatest
<1>4. CASE InsertMessages(s)
  BY <1>4 DEF InsertMessages, UpsertRow, Ends
<1>5. CASE InsertTransactions(s) \/ InsertBlocks(s)
  BY <1>5 DEF InsertTransactions, InsertBlocks
<1>6. CASE \/ Fetch(s) \/ Lookup(s) \/ Start(s) \/ Broadcast(s)
           \/ Return(s) \/ Retry(s) \/ GiveUp(s)
  BY <1>6 DEF Fetch, Lookup, Start, Broadcast, Return, Retry, GiveUp
<1> QED
  BY <1>1, <1>2, <1>3, <1>4, <1>5, <1>6 DEF Step

\* Every step of a saver keeps the records of what was processed.
LEMMA RecordsStep ==
  ASSUME TypeOK, NEW s \in Saver, Step(s)
  PROVE  RecordsOK'
<1> USE DEF TypeOK, RecordsOK
<1>1. CASE Broadcast(s)
  <2>1. block[s] \in Block
    BY <1>1 DEF Broadcast, PlacesOK
  <2> QED
    BY <1>1, <2>1 DEF Broadcast
<1>2. CASE InsertCode(s)
  <2>1. block[s] \in Block
    BY <1>2 DEF InsertCode, PlacesOK
  <2>2. bared[s] \cup {block[s]} \in SUBSET Block
    BY <2>1
  <2> QED
    BY <1>2, <2>2 DEF InsertCode
<1>3. CASE Return(s)
  <2>1. block[s] \in Block
    BY <1>3 DEF Return, Joined, PlacesOK
  <2> QED
    BY <1>3, <2>1 DEF Return
<1>4. CASE \/ Fetch(s) \/ Lookup(s) \/ Start(s) \/ InsertStates(s)
           \/ UpsertLatest(s) \/ InsertMessages(s) \/ InsertTransactions(s)
           \/ InsertBlocks(s) \/ Retry(s) \/ GiveUp(s)
  BY <1>4
  DEF Fetch, Lookup, Start, InsertStates, UpsertLatest, InsertMessages,
      InsertTransactions, InsertBlocks, Retry, GiveUp
<1> QED
  BY <1>1, <1>2, <1>3, <1>4 DEF Step

\* Every step of a saver keeps its own work well typed.
LEMMA WorkStep ==
  ASSUME TypeOK, NEW s \in Saver, Step(s)
  PROVE  WorkOK'
<1> USE DEF WorkOK
<1>0. WorkOK
  BY DEF TypeOK
<1>1. CASE Fetch(s)
  <2>1. Unsourced(block[s], {}) \in SUBSET (Account \cup Message)
    BY DEF Unsourced, Mine
  <2>2. (block[s] \in bared[s]) \in BOOLEAN
    OBVIOUS
  <2>3. CASE BeginTry(s, {}) /\ UNCHANGED <<block, known>>
                /\ \E stale \in {FALSE, block[s] \in bared[s]} :
                      bare' = [bare EXCEPT ![s] = stale]
    <3>1. bare' \in [Saver -> BOOLEAN]
      BY <1>0, <2>2, <2>3
    <3> QED
      BY <1>0, <1>1, <2>1, <2>3, <3>1 DEF Fetch, BeginTry
  <2>4. CASE EndTask(s)
    BY <1>0, <1>1, <2>4 DEF Fetch, EndTask
  <2> QED
    BY <1>1, <2>3, <2>4 DEF Fetch
<1>2. CASE Lookup(s)
  <2> PICK m \in left[s] :
        /\ left' = [left EXCEPT ![s] = @ \ {m}]
        /\ \/ /\ rows[m] # Absent
              /\ known' = IF "src" \in rows[m]
                          THEN [known EXCEPT ![s] = @ \cup {m}] ELSE known
              /\ UNCHANGED skip
           \/ /\ rows[m] = Absent
              /\ Dangling(s, m)
              /\ UNCHANGED known
    BY <1>2 DEF Lookup
  <2>1. m \in Message
    BY <1>2 DEF Lookup, TypeOK, PlacesOK
  <2> QED
    BY <1>0, <1>2, <2>1 DEF Lookup, Dangling
<1>3. CASE Start(s)
  BY <1>0, <1>3 DEF Start
<1>4. CASE Broadcast(s)
  BY <1>0, <1>4 DEF Broadcast
<1>5. CASE InsertCode(s)
  BY <1>0, <1>5 DEF InsertCode, Goes, Fails
<1>6. CASE InsertStates(s)
  <2>1. Touches[block[s]] \in SUBSET (Account \cup Message)
    BY <1>6, SaverAssumption DEF InsertStates, TypeOK, PlacesOK
  <2> QED
    BY <1>0, <1>6, <2>1 DEF InsertStates, Goes, Fails
<1>7. CASE UpsertLatest(s)
  <2>1. Kept(s) \in SUBSET (Account \cup Message)
    BY DEF Kept, Mine
  <2> QED
    BY <1>0, <1>7, <2>1 DEF UpsertLatest, Goes, Fails
<1>8. CASE InsertMessages(s)
  BY <1>0, <1>8 DEF InsertMessages, Goes, Fails
<1>9. CASE InsertTransactions(s) \/ InsertBlocks(s)
  BY <1>0, <1>9 DEF InsertTransactions, InsertBlocks, Goes, Fails
<1>10. CASE Return(s) \/ GiveUp(s)
  BY <1>0, <1>10 DEF Return, GiveUp, EndTask
<1>11. CASE Retry(s)
  <2>1. Unsourced(block[s], known[s]) \in SUBSET (Account \cup Message)
    BY DEF Unsourced, Mine
  <2> QED
    BY <1>0, <1>11, <2>1 DEF Retry, BeginTry
<1> QED
  BY <1>1, <1>2, <1>3, <1>4, <1>5, <1>6, <1>7, <1>8, <1>9, <1>10, <1>11
  DEF Step

\* Type correctness of the save, for every chain and whatever fails.
THEOREM SaverTypeCorrect == Spec => []TypeOK
<1>1. Init => TypeOK
  <2> SUFFICES ASSUME Init PROVE TypeOK
    OBVIOUS
  <2> USE DEF Init
  <2>1. TablesOK
    BY DEF TablesOK, Value
  <2>2. RecordsOK
    BY DEF RecordsOK
  <2>3. PlacesOK
    BY SaverAssumption DEF PlacesOK, PC
  <2>4. WorkOK
    BY DEF WorkOK
  <2> QED
    BY <2>1, <2>2, <2>3, <2>4 DEF TypeOK
<1>2. TypeOK /\ [Next]_vars => TypeOK'
  <2> SUFFICES ASSUME TypeOK, [Next]_vars PROVE TypeOK'
    OBVIOUS
  <2>1. ASSUME NEW s \in Saver, Step(s) PROVE TypeOK'
    BY <2>1, PlacesStep, TablesStep, RecordsStep, WorkStep DEF TypeOK
  <2>2. ASSUME NEW s \in Saver, Crash(s) PROVE TypeOK'
    BY <2>2, SaverAssumption
    DEF Crash, EndTask, Goto, TypeOK, TablesOK, RecordsOK, PlacesOK, WorkOK, PC
  <2>3. ASSUME NEW s \in Saver, NEW b \in Block, Take(s, b) PROVE TypeOK'
    <3>1. PlacesOK'
      BY <2>3 DEF Take, Goto, TypeOK, PlacesOK, PC
    <3>2. TablesOK' /\ RecordsOK' /\ WorkOK'
      BY <2>3 DEF Take, TypeOK, TablesOK, RecordsOK, WorkOK
    <3> QED
      BY <3>1, <3>2 DEF TypeOK
  <2>4. CASE UNCHANGED vars
    BY <2>4 DEF vars, tasks, TypeOK, TablesOK, RecordsOK, PlacesOK, WorkOK
  <2> QED
    BY <2>1, <2>2, <2>3, <2>4 DEF Next
<1> QED
  BY <1>1, <1>2, PTL DEF Spec

-----------------------------------------------------------------------------
\* An action of one saver leaves the work of the others alone.
LEMMA OneMoves ==
  ASSUME TypeOK, NEW s \in Saver, NEW t \in Saver, s # t,
         Step(s) \/ Crash(s) \/ \E b \in Block : Take(s, b)
  PROVE  /\ pc'[t] = pc[t] /\ cast'[t] = cast[t] /\ block'[t] = block[t]
         /\ failed'[t] = failed[t] /\ known'[t] = known[t]
         /\ left'[t] = left[t] /\ skip'[t] = skip[t]
<1> USE DEF TypeOK, PlacesOK, WorkOK
<1>1. CASE Fetch(s) \/ Lookup(s) \/ Start(s) \/ Broadcast(s)
  BY <1>1
  DEF Fetch, Lookup, Start, Broadcast, BeginTry, EndTask, Dangling, Goto
<1>2. CASE InsertCode(s) \/ InsertStates(s) \/ UpsertLatest(s)
  BY <1>2 DEF InsertCode, InsertStates, UpsertLatest, Goes, Fails, Goto
<1>3. CASE InsertMessages(s) \/ InsertTransactions(s) \/ InsertBlocks(s)
  BY <1>3
  DEF InsertMessages, InsertTransactions, InsertBlocks, Goes, Fails, Goto
<1>4. CASE Return(s) \/ Retry(s) \/ GiveUp(s) \/ Crash(s)
  BY <1>4 DEF Return, Retry, GiveUp, Crash, BeginTry, EndTask, Goto
<1>5. CASE \E b \in Block : Take(s, b)
  BY <1>5 DEF Take, Goto
<1> QED
  BY <1>1, <1>2, <1>3, <1>4, <1>5 DEF Step

\* Nothing is ever deleted, and no latest state moves back.
LEMMA TablesGrow ==
  ASSUME TypeOK, NEW s \in Saver,
         Step(s) \/ Crash(s) \/ \E b \in Block : Take(s, b)
  PROVE  /\ \A c \in Code : kv[c] # "none" => kv'[c] # "none"
         /\ states \subseteq states'
         /\ \A a \in Account : latest'[a] >= latest[a]
         /\ \A m \in Message : rows[m] # Absent => rows'[m] # Absent
         /\ txs \subseteq txs' /\ masters \subseteq masters'
         /\ shards \subseteq shards' /\ heard \subseteq heard'
         /\ faults' = faults
<1>0. \A a \in Account : latest[a] \in Nat
  BY DEF TypeOK, TablesOK, Block
<1>1. CASE \/ Fetch(s) \/ Lookup(s) \/ Start(s) \/ Broadcast(s)
           \/ Return(s) \/ Retry(s) \/ GiveUp(s) \/ Crash(s)
           \/ \E b \in Block : Take(s, b)
  BY <1>0, <1>1
  DEF Fetch, Lookup, Start, Broadcast, Return, Retry, GiveUp, Crash, Take
<1>2. CASE InsertCode(s)
  <2>1. \A c \in Code : kv[c] # "none" => kv'[c] # "none"
    BY <1>2 DEF InsertCode, WriteCode
  <2> QED
    BY <1>0, <1>2, <2>1 DEF InsertCode
<1>3. CASE InsertStates(s)
  BY <1>0, <1>3 DEF InsertStates
<1>4. CASE UpsertLatest(s)
  <2>1. block[s] \in Nat
    BY <1>4 DEF UpsertLatest, TypeOK, PlacesOK, Block
  <2>2. \A a \in Account : latest'[a] >= latest[a]
    BY <1>0, <1>4, <2>1 DEF UpsertLatest, SetLatest, TypeOK, TablesOK
  <2> QED
    BY <1>4, <2>2 DEF UpsertLatest
<1>5. CASE InsertMessages(s)
  <2>1. ASSUME NEW m \in Message, rows[m] # Absent
        PROVE  rows'[m] # Absent
    <3>1. (rows[m] \ {"dst"}) \cup (Ends(s, m) \ {"src"}) # Absent
      BY <2>1 DEF TypeOK, TablesOK, Ends, End, Absent
    <3> QED
      BY <1>5, <2>1, <3>1 DEF InsertMessages, UpsertRow, TypeOK, TablesOK
  <2> QED
    BY <1>0, <1>5, <2>1 DEF InsertMessages
<1>6. CASE InsertTransactions(s) \/ InsertBlocks(s)
  BY <1>0, <1>6 DEF InsertTransactions, InsertBlocks
<1> QED
  BY <1>1, <1>2, <1>3, <1>4, <1>5, <1>6 DEF Step

\* The latest state of an account never moves back.
THEOREM LatestNeverGoesBack == Spec => LatestAdvances
<1>1. TypeOK /\ [Next]_vars => [\A a \in Account : latest'[a] >= latest[a]]_vars
  BY TablesGrow DEF Next
<1> QED
  BY <1>1, SaverTypeCorrect, PTL DEF Spec, LatestAdvances

-----------------------------------------------------------------------------
\* A saver skips only messages that may be skipped: the step of a saver.
LEMMA SkipsStep ==
  ASSUME TypeOK, NEW s \in Saver, Skips(s),
         Step(s) \/ Crash(s) \/ \E b \in Block : Take(s, b)
  PROVE  Skips(s)'
<1> USE DEF TypeOK, PlacesOK, WorkOK, Skips, Saving
<1>1. CASE Fetch(s)
  BY <1>1 DEF Fetch, BeginTry, EndTask, Unsourced, Mine, Goto
<1>2. CASE Retry(s)
  BY <1>2 DEF Retry, BeginTry, Unsourced, Mine, Goto
<1>3. CASE Lookup(s)
  <2>1. PICK m \in left[s] :
          /\ left' = [left EXCEPT ![s] = @ \ {m}]
          /\ skip' = skip \/ Dangling(s, m)
    BY <1>3 DEF Lookup
  <2>2. m \notin External /\ Source[m] # block[s]
    BY <1>3 DEF Lookup
  <2>3. pc' = pc /\ block' = block /\ pc[s] = "lookup"
    BY <1>3 DEF Lookup
  <2>4. skip'[s] \cap Needed(block[s]) = {}
    BY <2>1, <2>2, <2>3 DEF Dangling, Needed
  <2> QED
    BY <2>1, <2>3, <2>4 DEF Needed, Mine
<1>4. CASE Start(s) \/ Broadcast(s)
  BY <1>4 DEF Start, Broadcast, Goto, Kept
<1>5. CASE InsertCode(s) \/ InsertStates(s)
  BY <1>5 DEF InsertCode, InsertStates, Goes, Fails, Goto, Needed, Mine
<1>6. CASE UpsertLatest(s)
  BY <1>6 DEF UpsertLatest, Kept, Goes, Fails, Goto, Needed, Mine
<1>7. CASE InsertMessages(s)
  BY <1>7 DEF InsertMessages, Kept, Goes, Fails, Goto, Needed, Mine
<1>8. CASE InsertTransactions(s) \/ InsertBlocks(s)
  BY <1>8 DEF InsertTransactions, InsertBlocks, Goes, Fails, Goto, Needed, Mine
<1>9. CASE Return(s) \/ GiveUp(s) \/ Crash(s)
  BY <1>9 DEF Return, GiveUp, Crash, EndTask, Goto
<1>10. CASE \E b \in Block : Take(s, b)
  BY <1>10 DEF Take, Goto
<1> QED
  BY <1>1, <1>2, <1>3, <1>4, <1>5, <1>6, <1>7, <1>8, <1>9, <1>10 DEF Step

\* No needed message is skipped in any behaviour.
LEMMA SkipCorrect == Spec => [](TypeOK /\ SkipInv)
<1>1. Init => SkipInv
  BY DEF Init, SkipInv, Skips, Saving
<1>2. TypeOK /\ SkipInv /\ [Next]_vars => SkipInv'
  <2> SUFFICES ASSUME TypeOK, SkipInv, [Next]_vars, NEW t \in Saver
               PROVE  Skips(t)'
    BY DEF SkipInv
  <2>1. CASE UNCHANGED vars
    BY <2>1 DEF vars, tasks, SkipInv, Skips, Needed, Mine, Kept
  <2>2. ASSUME NEW s \in Saver,
               Step(s) \/ Crash(s) \/ \E b \in Block : Take(s, b)
        PROVE  Skips(t)'
    <3>1. CASE s = t
      BY <2>2, <3>1, SkipsStep DEF SkipInv
    <3>2. CASE s # t
      <4>1. /\ pc'[t] = pc[t] /\ block'[t] = block[t]
            /\ left'[t] = left[t] /\ skip'[t] = skip[t]
        BY <2>2, <3>2, OneMoves
      <4> QED
        BY <4>1 DEF SkipInv, Skips, Needed, Mine, Kept
    <3> QED
      BY <3>1, <3>2
  <2> QED
    BY <2>1, <2>2 DEF Next
<1> QED
  BY <1>1, <1>2, SaverTypeCorrect, PTL DEF Spec

\* The lookups of a saver find every source: the step of a saver.
LEMMA SourcedStep ==
  ASSUME TypeOK, StoredHasSource, NEW s \in Saver, Sourced(s),
         Step(s) \/ Crash(s) \/ \E b \in Block : Take(s, b)
  PROVE  Sourced(s)'
<1> USE DEF TypeOK, PlacesOK, WorkOK, Sourced, Saving
<1>1. CASE Fetch(s)
  BY <1>1 DEF Fetch, BeginTry, EndTask, Unsourced, Mine, Goto
<1>2. CASE Retry(s)
  BY <1>2 DEF Retry, BeginTry, Unsourced, Mine, Goto
<1>3. CASE Lookup(s)
  <2>1. PICK m \in left[s] :
          /\ left' = [left EXCEPT ![s] = @ \ {m}]
          /\ \/ /\ rows[m] # Absent
                /\ known' = IF "src" \in rows[m]
                            THEN [known EXCEPT ![s] = @ \cup {m}] ELSE known
                /\ UNCHANGED skip
             \/ /\ rows[m] = Absent
                /\ Dangling(s, m)
                /\ UNCHANGED known
    BY <1>3 DEF Lookup
  <2>2. pc' = pc /\ block' = block /\ pc[s] = "lookup"
    BY <1>3 DEF Lookup
  <2>3. skip[s] \subseteq skip'[s] /\ known[s] \subseteq known'[s]
    BY <2>1 DEF Dangling
  <2>4. m \notin External \cup Masterchain => m \in skip'[s] \cup known'[s]
    BY <1>3, <2>1 DEF Dangling, StoredHasSource, Lookup
  <2> QED
    BY <2>1, <2>2, <2>3, <2>4 DEF Mine
<1>4. CASE Start(s) \/ Broadcast(s)
  BY <1>4 DEF Start, Broadcast, Goto, Mine
<1>5. CASE InsertCode(s) \/ InsertStates(s) \/ UpsertLatest(s)
  BY <1>5 DEF InsertCode, InsertStates, UpsertLatest, Goes, Fails, Goto, Mine
<1>6. CASE InsertMessages(s) \/ InsertTransactions(s) \/ InsertBlocks(s)
  BY <1>6
  DEF InsertMessages, InsertTransactions, InsertBlocks, Goes, Fails, Goto, Mine
<1>7. CASE Return(s) \/ GiveUp(s) \/ Crash(s)
  BY <1>7 DEF Return, GiveUp, Crash, EndTask, Goto
<1>8. CASE \E b \in Block : Take(s, b)
  BY <1>8 DEF Take, Goto
<1> QED
  BY <1>1, <1>2, <1>3, <1>4, <1>5, <1>6, <1>7, <1>8 DEF Step

\* A row is written only with its source: the step of a saver.
LEMMA SourceStep ==
  ASSUME TypeOK, StoredHasSource, NEW s \in Saver, Sourced(s), Skips(s),
         Step(s) \/ Crash(s) \/ \E b \in Block : Take(s, b)
  PROVE  StoredHasSource'
<1>1. CASE InsertMessages(s)
  <2>1. CASE UNCHANGED rows
    BY <2>1 DEF StoredHasSource
  <2>2. CASE \E m \in left[s] : UpsertRow(s, m)
    <3> PICK m \in left[s] : UpsertRow(s, m)
      BY <2>2
    <3>1. m \in Mine(block[s]) \ skip[s] /\ pc[s] = "messages"
      BY <1>1 DEF InsertMessages, Skips, Kept
    <3>2. m \in Message
      BY <3>1 DEF Mine
    <3>3. m \notin External \cup Masterchain => "src" \in Ends(s, m)
      BY <3>1, <3>2 DEF Sourced, Saving, Ends, End
    <3>4. m \notin External \cup Masterchain => "src" \in rows'[m]
      BY <3>2, <3>3 DEF UpsertRow, StoredHasSource, TypeOK, TablesOK
    <3>5. \A n \in Message \ {m} : rows'[n] = rows[n]
      BY DEF UpsertRow, TypeOK, TablesOK
    <3> QED
      BY <3>4, <3>5 DEF StoredHasSource
  <2> QED
    BY <1>1, <2>1, <2>2 DEF InsertMessages
<1>2. CASE ~InsertMessages(s)
  <2>1. rows' = rows
    BY <1>2
    DEF Step, Fetch, Lookup, Start, Broadcast, InsertCode, InsertStates,
        UpsertLatest, InsertTransactions, InsertBlocks, Return, Retry, GiveUp,
        Crash, Take
  <2> QED
    BY <2>1 DEF StoredHasSource
<1> QED
  BY <1>1, <1>2

\* No basechain message is ever stored without its source.
THEOREM SourceIsStored == Spec => []StoredHasSource
<1> DEFINE Inv == StoredHasSource /\ LookupInv
<1>1. Init => Inv
  BY DEF Init, StoredHasSource, LookupInv, Sourced, Saving
<1>2. TypeOK /\ SkipInv /\ Inv /\ [Next]_vars => Inv'
  <2> SUFFICES ASSUME TypeOK, SkipInv, Inv, [Next]_vars PROVE Inv'
    OBVIOUS
  <2>1. CASE UNCHANGED vars
    BY <2>1 DEF vars, tables, tasks, StoredHasSource, LookupInv, Sourced, Mine
  <2>2. ASSUME NEW s \in Saver,
               Step(s) \/ Crash(s) \/ \E b \in Block : Take(s, b)
        PROVE  Inv'
    <3>1. StoredHasSource'
      BY <2>2, SourceStep DEF SkipInv, LookupInv
    <3>2. ASSUME NEW t \in Saver PROVE Sourced(t)'
      <4>1. CASE s = t
        BY <2>2, <4>1, SourcedStep DEF LookupInv
      <4>2. CASE s # t
        <5>1. /\ pc'[t] = pc[t] /\ block'[t] = block[t] /\ left'[t] = left[t]
              /\ skip'[t] = skip[t] /\ known'[t] = known[t]
          BY <2>2, <4>2, OneMoves
        <5> QED
          BY <5>1 DEF LookupInv, Sourced, Mine
      <4> QED
        BY <4>1, <4>2
    <3> QED
      BY <3>1, <3>2 DEF LookupInv
  <2> QED
    BY <2>1, <2>2 DEF Next
<1> QED
  BY <1>1, <1>2, SkipCorrect, PTL DEF Spec

-----------------------------------------------------------------------------
\* A try without a failure leaves nothing out: the step of a saver.
LEMMA WholeStep ==
  ASSUME TypeOK, NEW s \in Saver, Whole(s),
         Step(s) \/ Crash(s) \/ \E b \in Block : Take(s, b)
  PROVE  Whole(s)'
<1> USE DEF TypeOK, PlacesOK, WorkOK, Whole, Saving
<1>1. CASE Fetch(s) \/ Retry(s)
  BY <1>1 DEF Fetch, Retry, BeginTry, EndTask, Goto
<1>2. CASE Lookup(s) \/ Start(s) \/ Broadcast(s)
  BY <1>2 DEF Lookup, Start, Broadcast, Goto
<1>3. CASE InsertCode(s) \/ InsertStates(s) \/ UpsertLatest(s)
  BY <1>3 DEF InsertCode, InsertStates, UpsertLatest, Goes, Fails, Goto
<1>4. CASE InsertMessages(s) \/ InsertTransactions(s)
  BY <1>4 DEF InsertMessages, InsertTransactions, Goes, Fails, Goto
<1>5. CASE InsertBlocks(s)
  BY <1>5 DEF InsertBlocks, Goes, Fails, Goto
<1>6. CASE Return(s) \/ GiveUp(s) \/ Crash(s)
  BY <1>6 DEF Return, GiveUp, Crash, EndTask, Goto
<1>7. CASE \E b \in Block : Take(s, b)
  BY <1>7 DEF Take, Goto
<1> QED
  BY <1>1, <1>2, <1>3, <1>4, <1>5, <1>6, <1>7 DEF Step

\* A record whose processing returned without an error is stored with the
\* rows of its shards, and was broadcast.
THEOREM ProcessedIsWhole == Spec => []DoneIsWhole
<1> DEFINE Inv == DoneIsWhole /\ JoinInv
<1>1. Init => Inv
  BY DEF Init, DoneIsWhole, JoinInv, Whole, Saving
<1>2. TypeOK /\ Inv /\ [Next]_vars => Inv'
  <2> SUFFICES ASSUME TypeOK, Inv, [Next]_vars PROVE Inv'
    OBVIOUS
  <2>1. CASE UNCHANGED vars
    BY <2>1 DEF vars, tables, tasks, DoneIsWhole, JoinInv, Whole
  <2>2. ASSUME NEW s \in Saver,
               Step(s) \/ Crash(s) \/ \E b \in Block : Take(s, b)
        PROVE  Inv'
    <3>1. /\ masters \subseteq masters' /\ shards \subseteq shards'
          /\ heard \subseteq heard'
      BY <2>2, TablesGrow
    <3>2. DoneIsWhole'
      <4>1. CASE Return(s)
        <5>1. block[s] \in masters \cap shards \cap heard
          BY <4>1 DEF Return, Joined, JoinInv, Whole, Saving
        <5> QED
          BY <3>1, <4>1, <5>1 DEF Return, DoneIsWhole
      <4>2. CASE ~Return(s)
        <5>1. done' = done
          BY <2>2, <4>2
          DEF Step, Fetch, Lookup, Start, Broadcast, InsertCode, InsertStates,
              UpsertLatest, InsertMessages, InsertTransactions, InsertBlocks,
              Retry, GiveUp, Crash, Take
        <5> QED
          BY <3>1, <5>1 DEF DoneIsWhole
      <4> QED
        BY <4>1, <4>2
    <3>3. ASSUME NEW t \in Saver PROVE Whole(t)'
      <4>1. CASE s = t
        BY <2>2, <4>1, WholeStep DEF JoinInv
      <4>2. CASE s # t
        <5>1. /\ pc'[t] = pc[t] /\ cast'[t] = cast[t]
              /\ block'[t] = block[t] /\ failed'[t] = failed[t]
          BY <2>2, <4>2, OneMoves
        <5> QED
          BY <3>1, <5>1 DEF JoinInv, Whole
      <4> QED
        BY <4>1, <4>2
    <3> QED
      BY <3>2, <3>3 DEF JoinInv
  <2> QED
    BY <2>1, <2>2 DEF Next
<1> QED
  BY <1>1, <1>2, SaverTypeCorrect, PTL DEF Spec

-----------------------------------------------------------------------------
\* What a block has in the tables it keeps: the parts of a stored block.
LEMMA PartsStay ==
  ASSUME TypeOK, TypeOK', NEW s \in Saver,
         Step(s) \/ Crash(s) \/ \E b \in Block : Take(s, b),
         NEW b \in Block
  PROVE  /\ CodeIn(b) => CodeIn(b)'
         /\ StatesIn(b) => StatesIn(b)'
         /\ \A A \in SUBSET Touches[b] : LatestIn(b, A) => LatestIn(b, A)'
         /\ \A M \in SUBSET Message : RowsIn(M) => RowsIn(M)'
         /\ TxsIn(b) => TxsIn(b)'
<1>1. \A a \in Touches[b] : a \in Account /\ CodeOf[a] \in Code
  BY SaverAssumption
<1>2. /\ \A c \in Code : kv[c] # "none" => kv'[c] # "none"
      /\ states \subseteq states'
      /\ \A a \in Account : latest'[a] >= latest[a]
      /\ \A m \in Message : rows[m] # Absent => rows'[m] # Absent
      /\ txs \subseteq txs' /\ faults' = faults
  BY TablesGrow
<1>3. ASSUME NEW A \in SUBSET Touches[b], LatestIn(b, A) PROVE LatestIn(b, A)'
  <2> SUFFICES ASSUME NEW a \in A PROVE latest'[a] >= b
    BY DEF LatestIn
  <2>1. latest'[a] >= latest[a] /\ latest[a] >= b
    BY <1>1, <1>2, <1>3 DEF LatestIn
  <2>2. latest[a] \in Nat /\ b \in Nat
    BY <1>1 DEF TypeOK, TablesOK, Block
  <2>3. latest'[a] \in Nat
    BY <1>1 DEF TypeOK, TablesOK, Block
  <2> QED
    BY <2>1, <2>2, <2>3
<1> QED
  BY <1>1, <1>2, <1>3 DEF CodeIn, StatesIn, RowsIn, TxsIn

\* A saver has stored what its place says: the step of a saver.
LEMMA ProgressStep ==
  ASSUME TypeOK, TypeOK', NEW s \in Saver, Skips(s), Progress(s, block[s]),
         Step(s) \/ Crash(s) \/ \E b \in Block : Take(s, b)
  PROVE  Progress(s, block[s])'
<1> USE DEF TypeOK, PlacesOK, WorkOK
<1>1. CASE Fetch(s) \/ Retry(s)
  BY <1>1 DEF Fetch, Retry, BeginTry, EndTask, Goto, Progress
<1>2. CASE Lookup(s) \/ Start(s)
  BY <1>2 DEF Lookup, Start, Goto, Progress
<1>3. CASE Return(s) \/ GiveUp(s) \/ Crash(s)
  BY <1>3 DEF Return, GiveUp, Crash, EndTask, Goto, Progress
<1>4. CASE \E b \in Block : Take(s, b)
  BY <1>4 DEF Take, Goto, Progress
<1>5. CASE Broadcast(s)
  BY <1>5 DEF Broadcast, Progress, CodeIn, StatesIn, LatestIn, RowsIn, TxsIn
<1>6. CASE InsertCode(s) \/ InsertStates(s) \/ UpsertLatest(s)
           \/ InsertMessages(s) \/ InsertTransactions(s) \/ InsertBlocks(s)
  <2>0. block[s] \in Block
    BY <1>6
    DEF InsertCode, InsertStates, UpsertLatest, InsertMessages,
        InsertTransactions, InsertBlocks
  <2> PICK B \in Block : B = block[s]
    BY <2>0
  <2>1. /\ B = block[s] /\ block'[s] = B /\ Needed(B)' = Needed(B)
        /\ Needed(B) \subseteq Message
    BY <1>6
    DEF InsertCode, InsertStates, UpsertLatest, InsertMessages,
        InsertTransactions, InsertBlocks, Needed, Mine
  <2>2. /\ CodeIn(B) => CodeIn(B)'
        /\ StatesIn(B) => StatesIn(B)'
        /\ \A A \in SUBSET Touches[B] : LatestIn(B, A) => LatestIn(B, A)'
        /\ \A M \in SUBSET Message : RowsIn(M) => RowsIn(M)'
        /\ TxsIn(B) => TxsIn(B)'
    BY <2>1, PartsStay
  <2>3. CASE pc'[s] = "join"
    BY <2>3 DEF Progress
  <2>4. CASE InsertCode(s) /\ pc'[s] # "join"
    <3>1. pc'[s] = "states" /\ WriteCode(s)
      BY <2>4 DEF InsertCode, Goes, Fails, Goto
    <3>2. CodeIn(B)'
      BY <2>1, <3>1, SaverAssumption DEF WriteCode, CodeIn
    <3> QED
      BY <2>1, <3>1, <3>2 DEF Progress
  <2>5. CASE InsertStates(s) /\ pc'[s] # "join"
    <3>1. /\ pc[s] = "states" /\ pc'[s] = "latest" /\ left'[s] = Touches[B]
          /\ states' = states \cup (Touches[B] \X {B})
      BY <2>5 DEF InsertStates, Goes, Fails, Goto
    <3>2. StatesIn(B)'
      BY <3>1 DEF StatesIn
    <3>3. LatestIn(B, Touches[B] \ left[s])'
      BY <3>1 DEF LatestIn
    <3> QED
      BY <2>1, <2>2, <3>1, <3>2, <3>3 DEF Progress
  <2>6. CASE UpsertLatest(s) /\ pc'[s] # "join"
    <3>0. pc[s] = "latest" /\ LatestIn(B, Touches[B] \ left[s])
      BY <2>6 DEF UpsertLatest, Progress
    <3>1. CASE left[s] = {} /\ pc'[s] = "messages" /\ left'[s] = Kept(s)
      <4>1. RowsIn(Needed(B) \ left[s])'
        BY <3>0, <3>1
        DEF RowsIn, Kept, Needed, Skips, Saving
      <4>2. LatestIn(B, Touches[B])'
        BY <2>2, <3>0, <3>1
      <4> QED
        BY <2>1, <2>2, <3>0, <3>1, <4>1, <4>2 DEF Progress
    <3>2. CASE \E a \in left[s] : /\ SetLatest(a, B) /\ pc'[s] = "latest"
                                 /\ left'[s] = left[s] \ {a}
      <4> PICK a \in left[s] : /\ SetLatest(a, B) /\ pc'[s] = "latest"
                               /\ left'[s] = left[s] \ {a}
        BY <3>2
      <4>1. LatestIn(B, Touches[B] \ left[s])'
        <5> SUFFICES ASSUME NEW c \in Touches[B], c \notin left'[s]
                     PROVE  latest'[c] >= B
          BY DEF LatestIn
        <5>1. c \in Account /\ B \in Nat
          BY <2>1, SaverAssumption DEF Block
        <5>2. CASE c = a
          BY <5>1, <5>2 DEF SetLatest, TablesOK, Block
        <5>3. CASE c # a
          BY <2>2, <3>0, <5>1, <5>3 DEF LatestIn
        <5> QED
          BY <5>2, <5>3
      <4> QED
        BY <2>1, <2>2, <3>0, <4>1 DEF Progress
    <3> QED
      BY <2>6, <3>1, <3>2 DEF UpsertLatest, Goes, Fails, Goto
  <2>7. CASE InsertMessages(s) /\ pc'[s] # "join"
    <3>0. /\ pc[s] = "messages" /\ RowsIn(Needed(B) \ left[s])
          /\ CodeIn(B)' /\ StatesIn(B)' /\ LatestIn(B, Touches[B])'
      BY <2>2, <2>7 DEF InsertMessages, Progress
    <3>1. CASE left[s] = {} /\ pc'[s] = "txs"
      <4>1. RowsIn(Needed(B))'
        BY <2>1, <2>2, <3>0, <3>1
      <4> QED
        BY <2>1, <3>0, <3>1, <4>1 DEF Progress
    <3>2. CASE \E m \in left[s] : /\ UpsertRow(s, m) /\ pc'[s] = "messages"
                                 /\ left'[s] = left[s] \ {m}
      <4> PICK m \in left[s] : /\ UpsertRow(s, m) /\ pc'[s] = "messages"
                               /\ left'[s] = left[s] \ {m}
        BY <3>2
      <4>1. RowsIn(Needed(B) \ left[s])'
        <5> SUFFICES ASSUME NEW n \in Needed(B), n \notin left'[s]
                     PROVE  rows'[n] # Absent
          BY <2>1 DEF RowsIn
        <5>1. CASE n = m
          <6>1. /\ Ends(s, m) # Absent
                /\ rows[m] # Absent =>
                      (rows[m] \ {"dst"}) \cup (Ends(s, m) \ {"src"}) # Absent
            BY <2>1, <5>1 DEF TablesOK, Ends, End, Absent
          <6> QED
            BY <2>1, <5>1, <6>1 DEF UpsertRow, TablesOK
        <5>2. CASE n # m
          BY <2>1, <3>0, <5>2 DEF UpsertRow, TablesOK, RowsIn
        <5> QED
          BY <5>1, <5>2
      <4> QED
        BY <2>1, <3>0, <4>1 DEF Progress
    <3> QED
      BY <2>7, <3>1, <3>2 DEF InsertMessages, Goes, Fails, Goto
  <2>8. CASE InsertTransactions(s) /\ pc'[s] # "join"
    <3>1. pc[s] = "txs" /\ pc'[s] = "blocks"
      BY <2>8 DEF InsertTransactions, Goes, Fails, Goto
    <3>2. TxsIn(B)'
      BY <2>8 DEF InsertTransactions, TxsIn
    <3> QED
      BY <2>1, <2>2, <3>1, <3>2 DEF Progress
  <2>9. CASE InsertBlocks(s) /\ pc'[s] # "join"
    BY <2>9 DEF InsertBlocks, Goes, Fails, Goto
  <2> QED
    BY <1>6, <2>3, <2>4, <2>5, <2>6, <2>7, <2>8, <2>9
<1> QED
  BY <1>1, <1>2, <1>3, <1>4, <1>5, <1>6 DEF Step

\* The row of a master block is written after everything else of the block
\* but the rows of its shards.
THEOREM MasterRowComesLast == Spec => []MasterRowIsLast
<1> DEFINE Inv == MasterRowIsLast /\ ProgressInv
<1>1. Init => Inv
  BY DEF Init, MasterRowIsLast, ProgressInv, Progress
<1>2. TypeOK /\ TypeOK' /\ SkipInv /\ Inv /\ [Next]_vars => Inv'
  <2> SUFFICES ASSUME TypeOK, TypeOK', SkipInv, Inv, [Next]_vars PROVE Inv'
    OBVIOUS
  <2>1. CASE UNCHANGED vars
    BY <2>1
    DEF vars, tables, tasks, MasterRowIsLast, ProgressInv, Progress, CodeIn,
        StatesIn, LatestIn, RowsIn, TxsIn
  <2>2. ASSUME NEW s \in Saver,
               Step(s) \/ Crash(s) \/ \E b \in Block : Take(s, b)
        PROVE  Inv'
    <3>1. ASSUME NEW b \in Block
          PROVE  /\ CodeIn(b) => CodeIn(b)'
                 /\ StatesIn(b) => StatesIn(b)'
                 /\ \A A \in SUBSET Touches[b] :
                       LatestIn(b, A) => LatestIn(b, A)'
                 /\ \A M \in SUBSET Message : RowsIn(M) => RowsIn(M)'
                 /\ TxsIn(b) => TxsIn(b)'
      BY <2>2, PartsStay
    <3>2. MasterRowIsLast'
      <4> SUFFICES ASSUME NEW b \in masters'
                   PROVE  /\ CodeIn(b)' /\ StatesIn(b)'
                          /\ LatestIn(b, Touches[b])'
                          /\ RowsIn(Needed(b))' /\ TxsIn(b)'
        BY DEF MasterRowIsLast
      <4>1. b \in Block /\ Needed(b) \subseteq Message
        BY DEF TypeOK, TablesOK, Needed, Mine
      <4>2. CASE b \in masters
        BY <3>1, <4>1, <4>2 DEF MasterRowIsLast
      <4>3. CASE b \notin masters
        <5>1. InsertBlocks(s) /\ b = block[s]
          BY <2>2, <4>3
          DEF Step, Fetch, Lookup, Start, Broadcast, InsertCode, InsertStates,
              UpsertLatest, InsertMessages, InsertTransactions, InsertBlocks,
              Return, Retry, GiveUp, Crash, Take
        <5>2. /\ CodeIn(b) /\ StatesIn(b) /\ LatestIn(b, Touches[b])
              /\ RowsIn(Needed(b)) /\ TxsIn(b)
          BY <5>1 DEF InsertBlocks, ProgressInv, Progress
        <5> QED
          BY <3>1, <4>1, <5>2
      <4> QED
        BY <4>2, <4>3
    <3>3. ASSUME NEW t \in Saver PROVE Progress(t, block[t])'
      <4>1. CASE s = t
        BY <2>2, <4>1, ProgressStep DEF SkipInv, ProgressInv
      <4>2. CASE s # t
        <5>1. /\ pc'[t] = pc[t] /\ block'[t] = block[t] /\ left'[t] = left[t]
          BY <2>2, <4>2, OneMoves
        <5>2. CASE pc[t] = "idle"
          BY <5>1, <5>2 DEF Progress
        <5>3. CASE pc[t] # "idle"
          <6>1. /\ block[t] \in Block
                /\ Needed(block[t]) \subseteq Message
            BY <5>3 DEF TypeOK, PlacesOK, Needed, Mine
          <6>2. Progress(t, block[t])
            BY DEF ProgressInv
          <6> QED
            BY <3>1, <5>1, <6>1, <6>2 DEF Progress
        <5> QED
          BY <5>2, <5>3
      <4> QED
        BY <4>1, <4>2
    <3> QED
      BY <3>2, <3>3 DEF ProgressInv
  <2> QED
    BY <2>1, <2>2 DEF Next
<1> QED
  BY <1>1, <1>2, SkipCorrect, PTL DEF Spec

-----------------------------------------------------------------------------
\* Code that is stored when nothing fails and nothing comes twice.

\* Without a failure a saver goes on until it returns: what an action of it
\* changes of its own work.
LEMMA UntroubledMove ==
  ASSUME TypeOK, Untroubled, NEW s \in Saver, HandledOnce(s), Dressed(s),
         Step(s) \/ Crash(s) \/ \E b \in Block : Take(s, b)
  PROVE  /\ \A t \in Saver : t # s => bare'[t] = bare[t] /\ bared'[t] = bared[t]
         /\ ~failed'[s]
         /\ pc'[s] \in {"idle", "fetch", "lookup", "code"} => ~bare'[s]
         /\ \/ bared' = bared
            \/ /\ pc[s] = "code" /\ pc'[s] = "states" /\ block'[s] = block[s]
               /\ bared'[s] = bared[s] \cup {block[s]}
         /\ \/ pc'[s] = "idle" /\ deliveries' = deliveries
            \/ /\ pc[s] # "idle" /\ block'[s] = block[s]
               /\ deliveries' = deliveries
               /\ pc'[s] \in {"fetch", "lookup", "code"} =>
                     pc[s] \in {"fetch", "lookup", "code"}
            \/ \E b \in Block :
                  /\ pc'[s] = "fetch" /\ block'[s] = b /\ deliveries[b] = 0
                  /\ deliveries' = [deliveries EXCEPT ![b] = 1]
<1> USE DEF TypeOK, PlacesOK, RecordsOK, WorkOK, HandledOnce, Dressed, Untroubled
<1>1. CASE Fetch(s)
  BY <1>1 DEF Fetch, BeginTry, EndTask, Goto
<1>2. CASE Lookup(s) \/ Start(s) \/ Broadcast(s)
  BY <1>2 DEF Lookup, Start, Broadcast, Goto
<1>3. CASE InsertCode(s)
  BY <1>3 DEF InsertCode, Goes, Fails, Goto
<1>4. CASE InsertStates(s) \/ UpsertLatest(s) \/ InsertMessages(s)
  BY <1>4 DEF InsertStates, UpsertLatest, InsertMessages, Goes, Fails, Goto
<1>5. CASE InsertTransactions(s) \/ InsertBlocks(s)
  BY <1>5 DEF InsertTransactions, InsertBlocks, Goes, Fails, Goto
<1>6. CASE Return(s)
  BY <1>6 DEF Return, EndTask, Goto
<1>7. CASE Retry(s) \/ GiveUp(s) \/ Crash(s)
  BY <1>7 DEF Retry, GiveUp, Crash
<1>8. CASE \E b \in Block : Take(s, b)
  <2>1. PICK b \in Block : Take(s, b)
    BY <1>8
  <2>2. /\ pc[s] = "idle" /\ pc'[s] = "fetch" /\ block'[s] = b
        /\ bare' = bare /\ bared' = bared /\ failed' = failed
    BY <2>1 DEF Take, Goto
  <2>3. deliveries[b] = 0
    BY <2>1 DEF Take
  <2>4. deliveries' = [deliveries EXCEPT ![b] = 1]
    BY <2>1, <2>3 DEF Take
  <2> QED
    BY <2>2, <2>3, <2>4
<1> QED
  BY <1>1, <1>2, <1>3, <1>4, <1>5, <1>6, <1>7, <1>8 DEF Step

\* Without a failure the code that is written is there: what an action of a
\* saver does to the tables.
LEMMA UntroubledTables ==
  ASSUME TypeOK, Untroubled, NEW s \in Saver, HandledOnce(s), Dressed(s),
         Step(s) \/ Crash(s) \/ \E b \in Block : Take(s, b)
  PROVE  /\ \A c \in Code : kv[c] = "real" => kv'[c] = "real"
         /\ \/ states' = states
            \/ /\ states' = states \cup (Touches[block[s]] \X {block[s]})
               /\ block[s] \in Block
               /\ \A a \in Touches[block[s]] : kv[CodeOf[a]] = "real"
         /\ pc'[s] = "states" =>
               \A a \in Touches[block'[s]] : kv'[CodeOf[a]] = "real"
<1> USE DEF TypeOK, PlacesOK, TablesOK, HandledOnce, Dressed, Untroubled
<1>1. CASE InsertCode(s)
  <2>1. /\ WriteCode(s) /\ ~bare[s] /\ block'[s] = block[s] /\ block[s] \in Block
        /\ states' = states
    BY <1>1 DEF InsertCode, Fails
  <2>2. \A a \in Touches[block[s]] : CodeOf[a] \in Code
    BY <2>1, SaverAssumption
  <2> QED
    BY <2>1, <2>2 DEF WriteCode
<1>2. CASE InsertStates(s)
  BY <1>2 DEF InsertStates, Goes, Fails, Goto
<1>3. CASE ~InsertCode(s) /\ ~InsertStates(s)
  <2>1. kv' = kv /\ states' = states
    BY <1>3
    DEF Step, Fetch, Lookup, Start, Broadcast, UpsertLatest, InsertMessages,
        InsertTransactions, InsertBlocks, Return, Retry, GiveUp, Crash, Take
  <2>2. pc'[s] = "states" => pc[s] = "states" /\ block'[s] = block[s]
    BY <1>3
    DEF Step, Fetch, Lookup, Start, Broadcast, UpsertLatest, InsertMessages,
        InsertTransactions, InsertBlocks, Return, Retry, GiveUp, Crash, Take,
        BeginTry, EndTask, Goes, Fails, Goto
  <2> QED
    BY <2>1, <2>2
<1> QED
  BY <1>1, <1>2, <1>3

\* A saver's action keeps every block in one saver's hands, with its code.
LEMMA CodeStep ==
  ASSUME TypeOK, CodeInv, NEW s \in Saver,
         Step(s) \/ Crash(s) \/ \E b \in Block : Take(s, b)
  PROVE  CodeInv'
<1>1. faults' = faults
  BY TablesGrow
<1> SUFFICES ASSUME Untroubled
             PROVE  /\ CodeKeptWithoutRetry'
                    /\ \A t \in Saver : HandledOnce(t)' /\ Dressed(t)'
  BY <1>1 DEF CodeInv, Untroubled
<1>2. \A t \in Saver : HandledOnce(t) /\ Dressed(t)
  BY DEF CodeInv
<1>3. /\ \A t \in Saver : t # s => bare'[t] = bare[t] /\ bared'[t] = bared[t]
      /\ ~failed'[s]
      /\ pc'[s] \in {"idle", "fetch", "lookup", "code"} => ~bare'[s]
      /\ \/ bared' = bared
         \/ /\ pc[s] = "code" /\ pc'[s] = "states" /\ block'[s] = block[s]
            /\ bared'[s] = bared[s] \cup {block[s]}
      /\ \/ pc'[s] = "idle" /\ deliveries' = deliveries
         \/ /\ pc[s] # "idle" /\ block'[s] = block[s]
            /\ deliveries' = deliveries
            /\ pc'[s] \in {"fetch", "lookup", "code"} =>
                  pc[s] \in {"fetch", "lookup", "code"}
         \/ \E b \in Block :
               /\ pc'[s] = "fetch" /\ block'[s] = b /\ deliveries[b] = 0
               /\ deliveries' = [deliveries EXCEPT ![b] = 1]
  BY <1>2, UntroubledMove
<1>4. /\ \A c \in Code : kv[c] = "real" => kv'[c] = "real"
      /\ \/ states' = states
         \/ /\ states' = states \cup (Touches[block[s]] \X {block[s]})
            /\ block[s] \in Block
            /\ \A a \in Touches[block[s]] : kv[CodeOf[a]] = "real"
      /\ pc'[s] = "states" =>
            \A a \in Touches[block'[s]] : kv'[CodeOf[a]] = "real"
  BY <1>2, UntroubledTables
<1>5. \A t \in Saver : t # s => /\ pc'[t] = pc[t] /\ block'[t] = block[t]
                               /\ failed'[t] = failed[t]
  BY OneMoves
<1>6. CodeKeptWithoutRetry'
  <2> SUFFICES ASSUME NEW r \in states' PROVE kv'[CodeOf[r[1]]] = "real"
    BY DEF CodeKeptWithoutRetry
  <2>1. states \subseteq Account \X Block /\ CodeOf \in [Account -> Code]
    BY SaverAssumption DEF TypeOK, TablesOK
  <2>2. CASE r \in states
    BY <1>4, <2>1, <2>2 DEF CodeInv, CodeKeptWithoutRetry, Untroubled
  <2>3. CASE r \notin states
    <3>1. r[1] \in Touches[block[s]] /\ kv[CodeOf[r[1]]] = "real"
      BY <1>4, <2>3
    <3>2. CodeOf[r[1]] \in Code
      <4>1. block[s] \in Block
        BY <1>4, <2>3
      <4> QED
        BY <2>1, <3>1, <4>1, SaverAssumption
    <3> QED
      BY <1>4, <3>1, <3>2
  <2> QED
    BY <2>2, <2>3
<1>7. ASSUME NEW t \in Saver PROVE HandledOnce(t)'
  <2>1. \A b \in Block : deliveries[b] > 0 => deliveries'[b] > 0
    BY <1>3 DEF TypeOK, RecordsOK
  <2>2. \A u \in Saver : bared[u] \subseteq Block
    BY DEF TypeOK, RecordsOK
  <2>3. \A u \in Saver : pc[u] # "idle" => block[u] \in Block
    BY DEF TypeOK, PlacesOK
  <2>4. ~failed'[t]
    BY <1>2, <1>3, <1>5 DEF HandledOnce
  <2>5. \A b \in bared'[t] : deliveries'[b] > 0
    BY <1>2, <1>3, <2>1, <2>2, <2>3 DEF HandledOnce
  <2>6. \A u \in Saver : pc'[u] # "idle" => deliveries'[block'[u]] > 0
    <3> SUFFICES ASSUME NEW u \in Saver, pc'[u] # "idle"
                 PROVE  deliveries'[block'[u]] > 0
      OBVIOUS
    <3>1. CASE pc[u] # "idle" /\ block'[u] = block[u]
      BY <1>2, <2>1, <2>3, <3>1 DEF HandledOnce
    <3>2. CASE ~(pc[u] # "idle" /\ block'[u] = block[u])
      <4>1. u = s
        BY <1>5, <3>2
      <4> QED
        BY <1>3, <3>2, <4>1 DEF TypeOK, RecordsOK
    <3> QED
      BY <3>1, <3>2
  <2>7. ASSUME NEW u \in Saver, u # s, pc'[s] # "idle", pc'[u] # "idle"
        PROVE  block'[u] # block'[s]
    <3>1. pc[u] # "idle" /\ block'[u] = block[u] /\ deliveries[block[u]] > 0
      BY <1>2, <1>5, <2>7 DEF HandledOnce
    <3>2. CASE pc[s] # "idle" /\ block'[s] = block[s]
      BY <1>2, <2>7, <3>1, <3>2 DEF HandledOnce
    <3>3. CASE \E b \in Block : block'[s] = b /\ deliveries[b] = 0
      BY <3>1, <3>3
    <3> QED
      BY <1>3, <2>7, <3>2, <3>3
  <2>8. ASSUME NEW u \in Saver \ {t}, pc'[t] # "idle", pc'[u] # "idle"
        PROVE  block'[u] # block'[t]
    <3>1. CASE t = s \/ u = s
      BY <2>7, <2>8, <3>1
    <3>2. CASE t # s /\ u # s
      BY <1>2, <1>5, <2>8, <3>2 DEF HandledOnce
    <3> QED
      BY <3>1, <3>2
  <2> QED
    BY <2>4, <2>5, <2>6, <2>8 DEF HandledOnce
<1>8. ASSUME NEW t \in Saver PROVE Dressed(t)'
  <2>1. pc'[t] \in {"idle", "fetch", "lookup", "code"} => ~bare'[t]
    BY <1>2, <1>3, <1>5 DEF Dressed
  <2>2. ASSUME pc'[t] \in {"fetch", "lookup", "code"}, NEW u \in Saver
        PROVE  block'[t] \notin bared'[u]
    <3>1. block'[t] \notin bared[u]
      <4>1. CASE pc[t] \in {"fetch", "lookup", "code"} /\ block'[t] = block[t]
        BY <1>2, <4>1 DEF Dressed
      <4>2. CASE t = s /\ \E b \in Block : block'[s] = b /\ deliveries[b] = 0
        BY <1>2, <4>2 DEF HandledOnce
      <4> QED
        BY <1>3, <1>5, <2>2, <4>1, <4>2
    <3>2. CASE bared'[u] = bared[u]
      BY <3>1, <3>2
    <3>3. CASE bared'[u] # bared[u]
      <4>1. /\ u = s /\ pc[s] = "code" /\ pc'[s] = "states"
            /\ bared'[s] = bared[s] \cup {block[s]}
        BY <1>3, <3>3
      <4>2. t # s
        BY <2>2, <4>1
      <4>3. block[t] # block[s] /\ block'[t] = block[t]
        BY <1>2, <1>5, <2>2, <4>1, <4>2 DEF HandledOnce
      <4> QED
        BY <3>1, <4>1, <4>3
    <3> QED
      BY <3>2, <3>3
  <2>3. ASSUME pc'[t] = "states", NEW a \in Touches[block'[t]]
        PROVE  kv'[CodeOf[a]] = "real"
    <3>1. CASE t = s
      BY <1>4, <2>3, <3>1
    <3>2. CASE t # s
      <4>1. pc[t] = "states" /\ block'[t] = block[t] /\ block[t] \in Block
        BY <1>5, <2>3, <3>2 DEF TypeOK, PlacesOK
      <4>2. CodeOf[a] \in Code /\ kv[CodeOf[a]] = "real"
        BY <1>2, <2>3, <4>1, SaverAssumption DEF Dressed
      <4> QED
        BY <1>4, <4>2
    <3> QED
      BY <3>1, <3>2
  <2> QED
    BY <2>1, <2>2, <2>3 DEF Dressed
<1> QED
  BY <1>6, <1>7, <1>8

\* When no call fails and no record comes twice, the code of every saved state
\* is stored, however many savers work at once on blocks with common code: no
\* save finds its states without code, or writes nothing over what is there.
THEOREM CodeIsKept == Spec => []CodeKeptWithoutRetry
<1>1. Init => CodeInv
  BY DEF Init, CodeInv, CodeKeptWithoutRetry, HandledOnce, Dressed
<1>2. TypeOK /\ CodeInv /\ [Next]_vars => CodeInv'
  <2>1. ASSUME CodeInv, UNCHANGED vars PROVE CodeInv'
    BY <2>1
    DEF vars, tables, tasks, CodeInv, CodeKeptWithoutRetry, Untroubled,
        HandledOnce, Dressed
  <2> QED
    BY <2>1, CodeStep DEF Next
<1>3. CodeInv => CodeKeptWithoutRetry
  BY DEF CodeInv, CodeKeptWithoutRetry, Untroubled
<1> QED
  BY <1>1, <1>2, <1>3, SaverTypeCorrect, PTL DEF Spec

-----------------------------------------------------------------------------
\* The ends of messages whose blocks are saved one after another.

\* What an action of a saver does to the records when blocks come in order.
LEMMA SerialMove ==
  ASSUME TypeOK, Serial, NEW s \in Saver,
         Step(s) \/ Crash(s) \/ \E b \in Block : Take(s, b)
  PROVE  \/ /\ pc[s] # "idle" /\ deliveries' = deliveries
            /\ \/ done' = done
               \/ done' = done \cup {block[s]} /\ pc'[s] = "idle"
            /\ pc'[s] = "idle" \/ block'[s] = block[s]
         \/ /\ \A t \in Saver : pc[t] = "idle"
            /\ done' = done /\ rows' = rows /\ pc'[s] = "fetch"
            /\ \E b \in Block :
                  /\ block'[s] = b /\ deliveries[b] = 0
                  /\ \A c \in Block : c < b => deliveries[c] > 0
                  /\ deliveries' = [deliveries EXCEPT ![b] = 1]
<1> USE DEF TypeOK, PlacesOK, RecordsOK, WorkOK, Serial
<1>1. CASE Fetch(s) \/ Lookup(s) \/ Start(s) \/ Broadcast(s)
  BY <1>1 DEF Fetch, Lookup, Start, Broadcast, BeginTry, EndTask, Goto
<1>2. CASE InsertCode(s) \/ InsertStates(s) \/ UpsertLatest(s)
  BY <1>2 DEF InsertCode, InsertStates, UpsertLatest, Goes, Fails, Goto
<1>3. CASE InsertMessages(s) \/ InsertTransactions(s) \/ InsertBlocks(s)
  BY <1>3
  DEF InsertMessages, InsertTransactions, InsertBlocks, Goes, Fails, Goto
<1>4. CASE Return(s) \/ Retry(s) \/ GiveUp(s) \/ Crash(s)
  BY <1>4 DEF Return, Retry, GiveUp, Crash, Joined, BeginTry, EndTask, Goto
<1>5. CASE \E b \in Block : Take(s, b)
  <2>1. PICK b \in Block : Take(s, b)
    BY <1>5
  <2>2. /\ \A t \in Saver : pc[t] = "idle"
        /\ done' = done /\ rows' = rows /\ pc'[s] = "fetch"
        /\ block'[s] = b
    BY <2>1 DEF Take, Goto
  <2>3. deliveries[b] = 0 /\ \A c \in Block : c < b => deliveries[c] > 0
    BY <2>1 DEF Take
  <2>4. deliveries' = [deliveries EXCEPT ![b] = 1]
    BY <2>1, <2>3 DEF Take
  <2> QED
    BY <2>2, <2>3, <2>4
<1> QED
  BY <1>1, <1>2, <1>3, <1>4, <1>5 DEF Step

\* One block at a time stays one block at a time.
LEMMA SerialStep ==
  ASSUME TypeOK, SerialInv, NEW s \in Saver,
         Step(s) \/ Crash(s) \/ \E b \in Block : Take(s, b)
  PROVE  SerialInv'
<1>1. faults' = faults
  BY TablesGrow
<1> SUFFICES ASSUME Serial
             PROVE  /\ \A b, c \in Block : c < b /\ deliveries'[b] > 0
                                              => deliveries'[c] > 0
                    /\ \A b \in done' : deliveries'[b] > 0
                    /\ \A t \in Saver : pc'[t] # "idle" =>
                          /\ \A u \in Saver : pc'[u] # "idle" => u = t
                          /\ block'[t] \notin done'
                          /\ deliveries'[block'[t]] > 0
                          /\ \A c \in Block : c > block'[t]
                                                 => deliveries'[c] = 0
  BY <1>1 DEF SerialInv, Serial
<1>2. \A t \in Saver : t # s => pc'[t] = pc[t] /\ block'[t] = block[t]
  BY OneMoves
<1>3. /\ \A b, c \in Block : c < b /\ deliveries[b] > 0 => deliveries[c] > 0
      /\ \A b \in done : deliveries[b] > 0
      /\ \A t \in Saver : pc[t] # "idle" =>
            /\ \A u \in Saver : pc[u] # "idle" => u = t
            /\ block[t] \notin done /\ deliveries[block[t]] > 0
            /\ \A c \in Block : c > block[t] => deliveries[c] = 0
  BY DEF SerialInv
<1>4. deliveries \in [Block -> 0..2] /\ done \subseteq Block
  BY DEF TypeOK, RecordsOK
<1>5. CASE /\ pc[s] # "idle" /\ deliveries' = deliveries
           /\ \/ done' = done
              \/ done' = done \cup {block[s]} /\ pc'[s] = "idle"
           /\ pc'[s] = "idle" \/ block'[s] = block[s]
  <2>1. \A u \in Saver : pc'[u] # "idle" => u = s
    BY <1>2, <1>3, <1>5
  <2>2. \A b \in done' : deliveries'[b] > 0
    BY <1>3, <1>5
  <2> QED
    BY <1>3, <1>5, <2>1, <2>2
<1>6. CASE /\ \A t \in Saver : pc[t] = "idle"
           /\ done' = done /\ pc'[s] = "fetch"
           /\ \E b \in Block :
                 /\ block'[s] = b /\ deliveries[b] = 0
                 /\ \A c \in Block : c < b => deliveries[c] > 0
                 /\ deliveries' = [deliveries EXCEPT ![b] = 1]
  <2>1. PICK b \in Block :
          /\ block'[s] = b /\ deliveries[b] = 0
          /\ \A c \in Block : c < b => deliveries[c] > 0
          /\ deliveries' = [deliveries EXCEPT ![b] = 1]
    BY <1>6
  <2>2. \A u \in Saver : pc'[u] # "idle" => u = s
    BY <1>2, <1>6
  <2>3. \A c \in Block : deliveries'[c] = IF c = b THEN 1 ELSE deliveries[c]
    BY <1>4, <2>1
  <2>4. \A c \in Block : c > b => deliveries[c] = 0
    BY <1>3, <1>4, <2>1
  <2>5. b \notin done /\ \A c \in Block : c \in Nat
    BY <1>3, <2>1 DEF Block
  <2>6. \A d, c \in Block : c < d /\ deliveries'[d] > 0 => deliveries'[c] > 0
    <3> SUFFICES ASSUME NEW d \in Block, NEW c \in Block, c < d,
                        deliveries'[d] > 0
                 PROVE  deliveries'[c] > 0
      OBVIOUS
    <3>1. CASE d = b
      BY <2>1, <2>3, <3>1
    <3>2. CASE d # b
      BY <1>3, <2>3, <3>2
    <3> QED
      BY <3>1, <3>2
  <2>7. \A c \in done' : deliveries'[c] > 0
    BY <1>3, <1>4, <1>6, <2>3
  <2>8. \A c \in Block : c > b => deliveries'[c] = 0
    BY <2>3, <2>4, <2>5
  <2> QED
    BY <1>6, <2>1, <2>2, <2>3, <2>5, <2>6, <2>7, <2>8
<1> QED
  BY <1>5, <1>6, SerialMove

\* The row a saver leaves when it saves a message of its block, which it does
\* not skip: it knows the ends it should.
LEMMA RowSaved ==
  ASSUME TypeOK, Serial, SerialInv, SavedEnds, SentFirst, NEW s \in Saver,
         SavingEnds(s), pc[s] # "idle",
         NEW m \in Message, m \in Mine(block[s]), UpsertRow(s, m)
  PROVE  /\ \A n \in Message : n # m => rows'[n] = rows[n]
         /\ Source[m] = block[s] => "src" \in rows'[m]
         /\ Destination[m] = block[s] /\ Source[m] \in done \cup {block[s]}
               => rows'[m] = End
         /\ Source[m] \in done => "src" \in rows'[m]
         /\ Source[m] # 0 => deliveries[Source[m]] > 0
<1> DEFINE b == block[s]
<1>1. /\ rows \in [Message -> (SUBSET End) \cup {Absent}]
      /\ deliveries \in [Block -> 0..2] /\ done \subseteq Block /\ b \in Block
  BY DEF TypeOK, TablesOK, RecordsOK, PlacesOK
<1>2. /\ \A c, d \in Block : d < c /\ deliveries[c] > 0 => deliveries[d] > 0
      /\ deliveries[b] > 0
  BY DEF SerialInv
<1>3. rows' = [rows EXCEPT ![m] = IF @ = Absent THEN Ends(s, m)
                                  ELSE (@ \ {"dst"}) \cup (Ends(s, m) \ {"src"})]
  BY DEF UpsertRow
<1>4. rows'[m] = IF rows[m] = Absent THEN Ends(s, m)
                 ELSE (rows[m] \ {"dst"}) \cup (Ends(s, m) \ {"src"})
  BY <1>1, <1>3
<1>5. "src" \notin Absent /\ (rows[m] # Absent => rows[m] \subseteq End)
  BY <1>1 DEF Absent
<1>6. /\ Source[m] = b => "src" \in Ends(s, m)
      /\ Destination[m] = b => "dst" \in Ends(s, m)
      /\ Ends(s, m) \subseteq End
  BY DEF Ends, End
<1>7. /\ Source[m] = b => rows[m] = Absent \/ "src" \in rows[m]
      /\ Source[m] \in done => "src" \in rows[m]
  BY <1>1 DEF SavingEnds, SavedEnds, Block
<1>8. \A n \in Message : n # m => rows'[n] = rows[n]
  BY <1>1, <1>3
<1>9. Source[m] \in done \cup {b} => "src" \in rows'[m]
  BY <1>4, <1>5, <1>6, <1>7
<1>10. ASSUME Destination[m] = b, Source[m] \in done \cup {b}
       PROVE  rows'[m] = End
  BY <1>4, <1>5, <1>6, <1>7, <1>10 DEF End
<1>11. ASSUME Source[m] # 0 PROVE deliveries[Source[m]] > 0
  <2>1. Source[m] \in Block /\ b \in Nat /\ Source[m] \in Nat
    BY <1>1, <1>11, SaverAssumption DEF Block
  <2>2. CASE Source[m] = b
    BY <1>2, <2>2
  <2>3. CASE Source[m] # b
    <3>1. Source[m] <= b
      BY <1>1, <1>11, <2>3 DEF Mine, SentFirst, Block
    <3> QED
      BY <1>1, <1>2, <2>1, <2>3, <3>1
  <2> QED
    BY <2>2, <2>3
<1> QED
  BY <1>8, <1>9, <1>10, <1>11

\* Saving a row keeps what is known of the messages that are saved.
LEMMA SavedWhileSaving ==
  ASSUME TypeOK, Serial, SerialInv, SavedEnds, SentFirst, NEW s \in Saver,
         SavingEnds(s), pc[s] # "idle",
         NEW m \in Message, m \in Mine(block[s]), UpsertRow(s, m),
         done' = done, deliveries' = deliveries
  PROVE  SavedEnds'
<1> SUFFICES ASSUME NEW n \in Message, Source[n] # 0
             PROVE  /\ Source[n] \in done => "src" \in rows'[n]
                    /\ {Source[n], Destination[n]} \subseteq done
                          => rows'[n] = End
                    /\ deliveries[Source[n]] = 0 => rows'[n] = Absent
  BY DEF SavedEnds
<1>1. CASE n # m
  BY <1>1, RowSaved DEF SavedEnds
<1>2. CASE n = m
  <2>1. block[s] \notin done
    BY DEF SerialInv
  <2> QED
    BY <1>2, <2>1, RowSaved DEF Mine
<1> QED
  BY <1>1, <1>2

\* The message loop of a saver keeps what it has saved.
LEMMA EndsInLoop ==
  ASSUME TypeOK, Serial, SerialInv, SavedEnds, SentFirst, NEW s \in Saver,
         Skips(s), SavingEnds(s), InsertMessages(s)
  PROVE  SavedEnds' /\ SavingEnds(s)'
<1> USE DEF TypeOK, PlacesOK, WorkOK, Saving
<1>1. /\ pc[s] = "messages" /\ left[s] \subseteq Kept(s)
      /\ done' = done /\ deliveries' = deliveries /\ block' = block
      /\ skip' = skip
  BY DEF InsertMessages, Skips
<1>2. CASE rows' = rows
  <2>1. SavedEnds'
    BY <1>1, <1>2 DEF SavedEnds
  <2>2. \/ pc'[s] = "txs" /\ left[s] = {}
        \/ pc'[s] = "join" /\ failed'[s]
        \/ pc'[s] = "messages" /\ \E m \in left[s] : UpsertRow(s, m)
                /\ left' = [left EXCEPT ![s] = @ \ {m}]
    BY DEF InsertMessages, Goes, Fails, Goto
  <2>3. CASE pc'[s] # "messages"
    BY <1>1, <1>2, <2>1, <2>2, <2>3 DEF SavingEnds, EndsOf
  <2>4. CASE pc'[s] = "messages" /\ \E m \in left[s] : UpsertRow(s, m)
                /\ left' = [left EXCEPT ![s] = @ \ {m}]
    <3>1. PICK m \in left[s] : /\ UpsertRow(s, m)
                               /\ left' = [left EXCEPT ![s] = @ \ {m}]
      BY <2>4
    <3>2. m \in Message /\ m \in Mine(block[s])
      BY <1>1 DEF Kept, Mine
    <3>3. EndsOf(m, block[s])
      BY <1>1, <1>2, <3>1, <3>2, RowSaved DEF EndsOf
    <3> QED
      BY <1>1, <1>2, <2>1, <2>4, <3>1, <3>3 DEF SavingEnds, EndsOf
  <2> QED
    BY <2>1, <2>2, <2>3, <2>4
<1>3. CASE rows' # rows
  <2>1. PICK m \in left[s] :
          /\ UpsertRow(s, m)
          /\ left' = [left EXCEPT ![s] = @ \ {m}]
          /\ \/ pc'[s] = "messages"
             \/ pc'[s] = "join" /\ failed'[s]
    BY <1>3 DEF InsertMessages, Goes, Fails, Goto
  <2>2. m \in Message /\ m \in Mine(block[s])
    BY <1>1 DEF Kept, Mine
  <2>3. SavedEnds'
    BY <1>1, <2>1, <2>2, SavedWhileSaving
  <2>4. /\ \A n \in Message : n # m => rows'[n] = rows[n]
        /\ Source[m] = block[s] => "src" \in rows'[m]
        /\ Destination[m] = block[s] /\ Source[m] \in done \cup {block[s]}
              => rows'[m] = End
    BY <1>1, <2>1, <2>2, RowSaved
  <2>5. \A n \in Message :
           Source[n] = block[s] => rows'[n] = Absent \/ "src" \in rows'[n]
    BY <1>1, <2>4 DEF SavingEnds
  <2>6. ASSUME NEW n \in Mine(block[s]) \ left'[s]
        PROVE  EndsOf(n, block[s])'
    BY <1>1, <2>1, <2>4 DEF SavingEnds, EndsOf, Mine
  <2>7. \A n \in skip[s] : Source[n] \notin done \cup {block[s]}
    BY <1>1 DEF SavingEnds
  <2> QED
    BY <1>1, <2>1, <2>3, <2>5, <2>6, <2>7 DEF SavingEnds
<1> QED
  BY <1>2, <1>3

\* The other actions of a saver at work: the rows stay, and it goes on to a
\* place only with what that place promises.
LEMMA EndsAtWork ==
  ASSUME TypeOK, Serial, SerialInv, SavedEnds, NEW s \in Saver,
         Skips(s), SavingEnds(s), Step(s) \/ Crash(s),
         ~InsertMessages(s), ~Return(s)
  PROVE  SavedEnds' /\ SavingEnds(s)'
<1> USE DEF TypeOK, PlacesOK, WorkOK, Saving
<1>1. rows' = rows /\ done' = done /\ deliveries' = deliveries
  BY DEF Step, Fetch, Lookup, Start, Broadcast, InsertCode, InsertStates,
         UpsertLatest, InsertTransactions, InsertBlocks, Retry, GiveUp, Crash
<1>2. SavedEnds'
  BY <1>1 DEF SavedEnds
<1>3. CASE Fetch(s) \/ Retry(s)
  BY <1>1, <1>2, <1>3
  DEF Fetch, Retry, Joined, BeginTry, EndTask, Goto, SavingEnds
<1>4. CASE Lookup(s)
  <2>1. /\ pc[s] = "lookup" /\ pc' = pc /\ block' = block
        /\ \/ skip' = skip
           \/ \E m \in left[s] : rows[m] = Absent
                 /\ skip' = [skip EXCEPT ![s] = @ \cup {m}]
    BY <1>4 DEF Lookup, Dangling
  <2>2. ASSUME NEW m \in left[s], rows[m] = Absent
        PROVE  Source[m] \notin done \cup {block[s]}
    <3>1. m \in Message /\ Source[m] # block[s]
      BY <2>1 DEF Skips
    <3>2. "src" \notin rows[m]
      BY <2>2 DEF Absent
    <3> QED
      BY <3>1, <3>2 DEF SavedEnds, RecordsOK, Block
  <2>3. \A m \in skip'[s] : Source[m] \notin done \cup {block[s]}
    BY <2>1, <2>2 DEF SavingEnds
  <2> QED
    BY <1>1, <1>2, <2>1, <2>3 DEF SavingEnds
<1>5. CASE Start(s) \/ Broadcast(s)
  BY <1>1, <1>2, <1>5 DEF Start, Broadcast, Goto, SavingEnds, EndsOf
<1>6. CASE InsertCode(s) \/ InsertStates(s)
  BY <1>1, <1>2, <1>6
  DEF InsertCode, InsertStates, Goes, Fails, Goto, SavingEnds
<1>7. CASE UpsertLatest(s)
  <2>1. /\ pc[s] = "latest" /\ block' = block /\ skip' = skip
        /\ \/ pc'[s] = "messages" /\ left'[s] = Kept(s)
           \/ pc'[s] = "latest"
           \/ pc'[s] = "join" /\ failed'[s]
    BY <1>7 DEF UpsertLatest, Goes, Fails, Goto, Kept, Mine
  <2>2. \A m \in Mine(block[s]) \ Kept(s) : EndsOf(m, block[s])
    BY <2>1 DEF SavingEnds, Kept, EndsOf
  <2> QED
    BY <1>1, <1>2, <2>1, <2>2 DEF SavingEnds, EndsOf
<1>8. CASE InsertTransactions(s) \/ InsertBlocks(s)
  BY <1>1, <1>2, <1>8
  DEF InsertTransactions, InsertBlocks, Goes, Fails, Goto, SavingEnds, EndsOf
<1>9. CASE GiveUp(s) \/ Crash(s)
  BY <1>1, <1>2, <1>9 DEF GiveUp, Crash, EndTask, Goto, SavingEnds
<1> QED
  BY <1>3, <1>4, <1>5, <1>6, <1>7, <1>8, <1>9 DEF Step

\* A save that returns leaves the rows of its block with their ends.
LEMMA EndsAtReturn ==
  ASSUME TypeOK, Serial, SerialInv, SavedEnds, SentFirst, NEW s \in Saver,
         SavingEnds(s), Return(s)
  PROVE  SavedEnds' /\ SavingEnds(s)'
<1> DEFINE b == block[s]
<1>1. /\ pc[s] = "join" /\ ~failed[s] /\ pc'[s] = "idle"
      /\ done' = done \cup {b} /\ rows' = rows /\ deliveries' = deliveries
  BY DEF Return, Joined, EndTask, Goto, TypeOK, PlacesOK
<1>2. b \in Block /\ done \subseteq Block /\ deliveries \in [Block -> 0..2]
  BY <1>1 DEF TypeOK, PlacesOK, RecordsOK
<1>3. \A m \in Mine(b) : EndsOf(m, b)
  BY <1>1 DEF SavingEnds
<1>4. \A c \in Block : c \in done => deliveries[c] > 0 /\ c <= b
  <2> SUFFICES ASSUME NEW c \in Block, c \in done
               PROVE  deliveries[c] > 0 /\ c <= b
    OBVIOUS
  <2>1. deliveries[c] > 0 /\ (c > b => deliveries[c] = 0)
    BY <1>1 DEF SerialInv
  <2> QED
    BY <1>2, <2>1 DEF Block
<1>5. SavedEnds'
  <2> SUFFICES ASSUME NEW m \in Message, Source[m] # 0
               PROVE  /\ Source[m] \in done' => "src" \in rows[m]
                      /\ {Source[m], Destination[m]} \subseteq done'
                            => rows[m] = End
                      /\ deliveries[Source[m]] = 0 => rows[m] = Absent
    BY <1>1 DEF SavedEnds
  <2>1. Source[m] = b => "src" \in rows[m]
    BY <1>3 DEF Mine, EndsOf
  <2>2. Destination[m] = b /\ Source[m] \in done \cup {b} => rows[m] = End
    BY <1>3 DEF Mine, EndsOf
  <2>3. ASSUME Source[m] = b, Destination[m] \in done PROVE FALSE
    <3>1. Destination[m] \in Block /\ Destination[m] # b
      BY <1>1, <1>2, <2>3 DEF SerialInv
    <3>2. Destination[m] <= b /\ b <= Destination[m]
      BY <1>2, <1>4, <2>3, <3>1 DEF SentFirst, Block
    <3> QED
      BY <1>2, <3>1, <3>2 DEF Block
  <2> QED
    BY <1>1, <2>1, <2>2, <2>3 DEF SavedEnds
<1> QED
  BY <1>1, <1>5 DEF SavingEnds, Saving

\* An action of a saver keeps the ends of messages.
LEMMA EndsStep ==
  ASSUME TypeOK, SerialInv, SkipInv, EndsInv, SentFirst, NEW s \in Saver,
         Step(s) \/ Crash(s) \/ \E b \in Block : Take(s, b)
  PROVE  EndsInv'
<1>1. faults' = faults
  BY TablesGrow
<1> SUFFICES ASSUME Serial
             PROVE  SavedEnds' /\ \A t \in Saver : SavingEnds(t)'
  BY <1>1 DEF EndsInv, Serial
<1>2. SavedEnds /\ \A t \in Saver : SavingEnds(t) /\ Skips(t)
  BY DEF EndsInv, SkipInv
<1>3. ASSUME NEW t \in Saver, t # s PROVE SavingEnds(t)'
  <2>1. pc'[t] = "idle"
    BY <1>3, OneMoves, SerialMove DEF SerialInv
  <2> QED
    BY <2>1 DEF SavingEnds, Saving
<1>4. CASE InsertMessages(s)
  BY <1>2, <1>3, <1>4, EndsInLoop
<1>5. CASE Return(s)
  BY <1>2, <1>3, <1>5, EndsAtReturn
<1>6. CASE (Step(s) \/ Crash(s)) /\ ~InsertMessages(s) /\ ~Return(s)
  BY <1>2, <1>3, <1>6, EndsAtWork
<1>7. CASE \E b \in Block : Take(s, b)
  <2>1. PICK b \in Block : Take(s, b)
    BY <1>7
  <2>2. /\ done' = done /\ rows' = rows /\ pc'[s] = "fetch" /\ block'[s] = b
        /\ deliveries[b] = 0
        /\ deliveries' = [deliveries EXCEPT ![b] = @ + 1]
    BY <2>1 DEF Take, Goto, Serial, TypeOK, PlacesOK
  <2>3. \A c \in Block : deliveries'[c] = 0 => deliveries[c] = 0
    BY <2>2 DEF TypeOK, RecordsOK
  <2>4. SavedEnds'
    BY <1>2, <2>2, <2>3, SaverAssumption DEF SavedEnds
  <2>5. \A m \in Message : Source[m] = b => rows[m] = Absent
    BY <1>2, <2>2 DEF SavedEnds, Block
  <2> QED
    BY <1>3, <2>2, <2>4, <2>5 DEF SavingEnds, Saving
<1> QED
  BY <1>4, <1>5, <1>6, <1>7 DEF Step

\* When records come once and one after another, and messages are sent before
\* they are received, a message whose two blocks are saved has both its ends,
\* whatever fails and however often it is tried again: uniqMessages never
\* drops a message whose source it could have found, and no later upsert takes
\* a source away.
THEOREM EndsAreKept ==
  ASSUME SentFirst
  PROVE  Spec => []EndsKeptInOrder
<1>1. Init => SerialInv /\ EndsInv
  BY SaverAssumption
  DEF Init, SerialInv, EndsInv, SavedEnds, SavingEnds, Saving
<1>2. TypeOK /\ SerialInv /\ [Next]_vars => SerialInv'
  <2>1. ASSUME SerialInv, UNCHANGED vars PROVE SerialInv'
    BY <2>1 DEF vars, tables, tasks, SerialInv, Serial
  <2> QED
    BY <2>1, SerialStep DEF Next
<1>3. TypeOK /\ SerialInv /\ SkipInv /\ EndsInv /\ [Next]_vars => EndsInv'
  <2>1. ASSUME EndsInv, UNCHANGED vars PROVE EndsInv'
    BY <2>1
    DEF vars, tables, tasks, EndsInv, Serial, SavedEnds, SavingEnds, EndsOf
  <2> QED
    BY <2>1, EndsStep DEF Next
<1>4. TypeOK /\ EndsInv => EndsKeptInOrder
  <2>1. ASSUME TypeOK, EndsInv, Serial, NEW m \in Message,
               Source[m] \in done, Destination[m] \in done
        PROVE  rows[m] = End
    BY <2>1 DEF EndsInv, SavedEnds, TypeOK, RecordsOK, Block
  <2> QED
    BY <2>1 DEF EndsKeptInOrder, Serial
<1> QED
  BY <1>1, <1>2, <1>3, <1>4, SaverTypeCorrect, SkipCorrect, PTL DEF Spec
=============================================================================
