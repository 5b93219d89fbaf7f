------------------------ MODULE BlockConsumerProofs -------------------------
(***************************************************************************)
(* What BlockConsumer guarantees for every group of pods, every number of  *)
(* partitions, goroutines, crashes and rebalances: type correctness, that  *)
(* an offset is committed only over settled records, and, when neither     *)
(* polls nor records fail, only over saved ones; that the group implements *)
(* the work queue; and, until the first crash or rebalance, that a pod     *)
(* reports once, offsets advance and no record comes twice.                *)
(***************************************************************************)
EXTENDS BlockConsumer, FiniteSetTheorems, TLAPS

USE DEF broker, batch, counts, bounds, config

-----------------------------------------------------------------------------
\* Every state has its declared type, whatever fails.
LEMMA TypeStep ==
  ASSUME TypeOK, NEW c \in Pod, Step(c)
  PROVE  TypeOK'
<1> USE ConsumerAssumption DEF TypeOK, Goto, PC, Offset
<1>1. CASE Panic(c)
  BY <1>1 DEF Panic, Leave
<1>2. CASE ReturnAtHead(c)
  BY <1>2 DEF ReturnAtHead
<1>3. CASE Poll(c)
  <2>1. PICK ends \in [Partition -> Offset] :
           /\ position' = ends
           /\ \/ /\ todo' = [todo EXCEPT ![c] = Fetched(ends)]
                 /\ upto' = [upto EXCEPT ![c] =
                      [p \in Partition |->
                          IF ends[p] > position[p] THEN ends[p] ELSE 0]]
                 /\ failed' = [failed EXCEPT ![c] = FALSE]
                 /\ Goto(c, "work")
                 /\ UNCHANGED missed
              \/ /\ missed' = missed \cup Fetched(ends)
                 /\ UNCHANGED <<pc, todo, upto, failed>>
    BY <1>3 DEF Poll
  <2>2. Fetched(ends) \subseteq Record
    BY DEF Fetched
  <2>3. UNCHANGED <<committed, owner, running, counts, saved, bounds, config>>
    BY <1>3 DEF Poll
  <2>4. CASE missed' = missed \cup Fetched(ends)
             /\ UNCHANGED <<pc, todo, upto, failed>>
    BY <2>1, <2>2, <2>3, <2>4
  <2>5. CASE /\ todo' = [todo EXCEPT ![c] = Fetched(ends)]
             /\ upto' = [upto EXCEPT ![c] =
                  [p \in Partition |->
                      IF ends[p] > position[p] THEN ends[p] ELSE 0]]
             /\ failed' = [failed EXCEPT ![c] = FALSE]
             /\ Goto(c, "work")
             /\ UNCHANGED missed
    BY <2>1, <2>2, <2>3, <2>5
  <2> QED
    BY <2>1, <2>4, <2>5
<1>4. CASE Launch(c)
  BY <1>4 DEF Launch
<1>5. CASE CheckTarget(c)
  BY <1>5 DEF CheckTarget
<1>6. CASE Finish(c)
  <2>1. PICK r \in running[c] :
           /\ running' = [running EXCEPT ![c] = @ \ {r}]
           /\ FinishRecord(c, r)
    BY <1>6 DEF Finish
  <2>2. saved' \subseteq Record /\ missed' \subseteq Record
        /\ failed' \in [Pod -> BOOLEAN]
    BY <2>1 DEF FinishRecord
  <2>3. processed' \in [Pod -> Nat]
    BY <1>6 DEF Finish, Count
  <2>4. isFinished' \in [Pod -> BOOLEAN] /\ finished' \in Nat
    <3>1. CASE Report(c)
      BY <3>1 DEF Report
    <3>2. CASE UNCHANGED <<isFinished, finished>>
      BY <3>2
    <3> QED
      BY <1>6, <3>1, <3>2 DEF Finish
  <2> QED
    BY <1>6, <2>1, <2>2, <2>3, <2>4 DEF Finish
<1>7. CASE Wait(c)
  BY <1>7 DEF Wait
<1>8. CASE Commit(c)
  <2>1. committed' \in [Partition -> Offset]
    BY <1>8 DEF Commit, CommitOffsets
  <2> QED
    BY <1>8, <2>1 DEF Commit
<1> QED
  BY <1>1, <1>2, <1>3, <1>4, <1>5, <1>6, <1>7, <1>8 DEF Step

\* Type correctness of the consumer group, for every number of pods,
\* partitions and goroutines and whatever fails.
THEOREM ConsumerTypeCorrect == Spec => []TypeOK
<1>1. Init => TypeOK
  BY ConsumerAssumption DEF Init, TypeOK, PC, Offset
<1>2. TypeOK /\ [Next]_vars => TypeOK'
  <2> SUFFICES ASSUME TypeOK, [Next]_vars PROVE TypeOK'
    OBVIOUS
  <2>1. ASSUME NEW p \in Partition, Revoke(p) PROVE TypeOK'
    BY <2>1 DEF TypeOK, Revoke
  <2>2. ASSUME NEW p \in Partition, NEW c \in Pod, Assign(p, c) PROVE TypeOK'
    BY <2>2 DEF TypeOK, Assign
  <2>3. ASSUME NEW c \in Pod, Crash(c) PROVE TypeOK'
    BY <2>3, ConsumerAssumption DEF TypeOK, Crash, Leave, Goto, PC, Offset
  <2>4. ASSUME NEW c \in Pod, Restart(c) PROVE TypeOK'
    BY <2>4 DEF TypeOK, Restart, Goto, PC
  <2>5. ASSUME NEW c \in Pod, Step(c) PROVE TypeOK'
    BY <2>5, TypeStep
  <2>6. CASE UNCHANGED vars
    BY <2>6 DEF vars, TypeOK
  <2> QED
    BY <2>1, <2>2, <2>3, <2>4, <2>5, <2>6 DEF Next
<1> QED
  BY <1>1, <1>2, PTL DEF Spec

-----------------------------------------------------------------------------
\* The inductive invariant: besides what is committed, it accounts for what
\* lies below each position and below the end of each pod's batch.
SettledInv ==
    TypeOK /\ CommittedIsSettled /\ PositionInv /\ BatchInv /\ HandsInv

\* A step that settles no less and lets nothing out of hand unsettled keeps
\* the parts whose offsets it does not move.
LEMMA SettledKept ==
  ASSUME SettledInv, saved \subseteq saved', missed \subseteq missed',
         \A c \in Pod : InHand(c) \subseteq InHand(c)' \cup Settled'
  PROVE  /\ committed' = committed => CommittedIsSettled'
         /\ position' = position /\ owner' = owner => PositionInv'
         /\ upto' = upto => BatchInv'
<1> USE DEF SettledInv, Settled
<1>1. ASSUME committed' = committed PROVE CommittedIsSettled'
  BY <1>1 DEF CommittedIsSettled
<1>2. ASSUME position' = position, owner' = owner PROVE PositionInv'
  <2> SUFFICES ASSUME NEW r \in Record, owner[r[1]] # None,
                      r[2] < position[r[1]]
               PROVE  r \in Settled' \cup InHand(owner[r[1]])'
    BY <1>2 DEF PositionInv
  <2>1. r[1] \in Partition
    BY DEF Record
  <2>2. owner[r[1]] \in Pod
    BY <2>1 DEF TypeOK
  <2>3. r \in Settled \cup InHand(owner[r[1]])
    BY DEF PositionInv
  <2>4. InHand(owner[r[1]]) \subseteq
          todo'[owner[r[1]]] \cup running'[owner[r[1]]] \cup Settled'
    BY <2>2 DEF InHand
  <2> QED
    BY <1>2, <2>3, <2>4 DEF InHand
<1>3. ASSUME upto' = upto PROVE BatchInv'
  BY <1>3 DEF BatchInv
<1> QED
  BY <1>1, <1>2, <1>3

\* A process that ends takes its batch with it, and its partitions are
\* assigned to nobody.
LEMMA SettledLeave ==
  ASSUME SettledInv, TypeOK', NEW c \in Pod, NEW l \in {"down", "dead"},
         Leave(c, l)
  PROVE  SettledInv'
<1> USE DEF SettledInv, Settled
<1>1. /\ InHand(c)' = {}
      /\ \A d \in Pod : d # c =>
            /\ InHand(d)' = InHand(d) /\ upto'[d] = upto[d] /\ pc'[d] = pc[d]
  BY DEF Leave, Goto, InHand, TypeOK
<1>2. \A p \in Partition : owner'[p] # None =>
        owner'[p] = owner[p] /\ owner[p] # c /\ owner[p] \in Pod
  BY DEF Leave, TypeOK
<1>3. CommittedIsSettled'
  BY DEF Leave, CommittedIsSettled
<1>4. PositionInv'
  <2> SUFFICES ASSUME NEW r \in Record, owner'[r[1]] # None,
                      r[2] < position[r[1]]
               PROVE  r \in Settled' \cup InHand(owner[r[1]])'
    BY DEF PositionInv, Leave
  <2>1. owner'[r[1]] = owner[r[1]] /\ owner[r[1]] # c /\ owner[r[1]] \in Pod
    BY <1>2 DEF Record
  <2>2. r \in Settled \cup InHand(owner[r[1]])
    BY <2>1, ConsumerAssumption DEF PositionInv
  <2> QED
    BY <1>1, <2>1, <2>2 DEF Leave, InHand
<1>5. BatchInv'
  <2> SUFFICES ASSUME NEW d \in Pod, NEW r \in Record, r[2] < upto'[d][r[1]]
               PROVE  r \in Settled' \cup InHand(d)'
    BY DEF BatchInv
  <2>1. CASE d = c
    <3>1. upto'[c][r[1]] = 0 /\ r[2] \in Nat
      BY DEF Leave, TypeOK, Record
    <3> QED
      BY <2>1, <3>1
  <2>2. CASE d # c
    BY <1>1, <2>2 DEF BatchInv, Leave
  <2> QED
    BY <2>1, <2>2
<1>6. HandsInv'
  BY <1>1 DEF HandsInv
<1> QED
  BY <1>3, <1>4, <1>5, <1>6

\* A poll moves positions only of partitions the pod owns, and what it reads
\* goes into the batch, or is missed with the whole fetch.
LEMMA SettledPoll ==
  ASSUME SettledInv, TypeOK', NEW c \in Pod, Poll(c)
  PROVE  SettledInv'
<1> USE DEF SettledInv, Settled
<1>1. PICK ends \in [Partition -> Offset] :
         /\ \A p \in Partition :
              /\ ends[p] >= position[p]
              /\ p \notin Owned(c) => ends[p] = position[p]
         /\ position' = ends
         /\ \/ /\ todo' = [todo EXCEPT ![c] = Fetched(ends)]
               /\ upto' = [upto EXCEPT ![c] =
                    [p \in Partition |->
                        IF ends[p] > position[p] THEN ends[p] ELSE 0]]
               /\ Goto(c, "work")
               /\ UNCHANGED missed
            \/ /\ missed' = missed \cup Fetched(ends)
               /\ UNCHANGED <<pc, todo, upto>>
  BY DEF Poll
<1>2. UNCHANGED <<committed, owner, running, saved>>
  BY DEF Poll
<1>3. InHand(c) = {}
  BY DEF HandsInv, Poll
<1>4. Fetched(ends) \subseteq InHand(c)' \cup Settled'
  <2>1. CASE todo' = [todo EXCEPT ![c] = Fetched(ends)]
    BY <2>1 DEF InHand, TypeOK
  <2>2. CASE missed' = missed \cup Fetched(ends)
    BY <2>2
  <2> QED
    BY <1>1, <2>1, <2>2
<1>5. saved' = saved /\ missed \subseteq missed'
  BY <1>1, <1>2
<1>6. \A d \in Pod : d # c => InHand(d)' = InHand(d) /\ upto'[d] = upto[d]
  BY <1>1, <1>2 DEF InHand, TypeOK
\* What the pod owns is settled or read up to the new position.
<1>7. ASSUME NEW r \in Record, owner[r[1]] = c, r[2] < ends[r[1]]
      PROVE  r \in Settled' \cup InHand(c)'
  <2>1. r[1] \in Partition /\ r[2] \in Nat /\ position[r[1]] \in Nat
    BY DEF Record, TypeOK, Offset
  <2>2. CASE position[r[1]] <= r[2]
    BY <1>4, <1>7, <2>2 DEF Fetched
  <2>3. CASE ~(position[r[1]] <= r[2])
    <3>1. r[2] < position[r[1]]
      BY <2>1, <2>3
    <3>2. owner[r[1]] # None
      BY <1>7, ConsumerAssumption
    <3>3. r \in Settled
      BY <1>3, <1>7, <3>1, <3>2 DEF PositionInv
    <3> QED
      BY <1>5, <3>3
  <2> QED
    BY <2>2, <2>3
<1>8. CommittedIsSettled'
  BY <1>2, <1>5 DEF CommittedIsSettled
<1>9. PositionInv'
  <2> SUFFICES ASSUME NEW r \in Record, owner[r[1]] # None, r[2] < ends[r[1]]
               PROVE  r \in Settled' \cup InHand(owner[r[1]])'
    BY <1>1, <1>2 DEF PositionInv
  <2>1. CASE owner[r[1]] = c
    BY <1>2, <1>7, <2>1 DEF InHand
  <2>2. CASE owner[r[1]] # c
    <3>1. r[1] \in Partition
      BY DEF Record
    <3>2. owner[r[1]] \in Pod
      BY <3>1 DEF TypeOK
    <3>3. ends[r[1]] = position[r[1]]
      BY <1>1, <2>2, <3>1 DEF Owned
    <3>4. r \in Settled \cup InHand(owner[r[1]])
      BY <3>3 DEF PositionInv
    <3>5. /\ todo'[owner[r[1]]] = todo[owner[r[1]]]
          /\ running'[owner[r[1]]] = running[owner[r[1]]]
      BY <1>1, <1>2, <2>2, <3>2 DEF TypeOK
    <3> QED
      BY <1>2, <1>5, <3>4, <3>5 DEF InHand
  <2> QED
    BY <2>1, <2>2
<1>10. BatchInv'
  <2> SUFFICES ASSUME NEW d \in Pod, NEW r \in Record, r[2] < upto'[d][r[1]]
               PROVE  r \in Settled' \cup InHand(d)'
    BY DEF BatchInv
  <2>1. r[1] \in Partition /\ r[2] \in Nat
    BY DEF Record
  <2>2. CASE d # c
    BY <1>5, <1>6, <2>2 DEF BatchInv
  <2>3. CASE d = c /\ upto' = upto
    BY <1>3, <1>5, <2>3 DEF BatchInv
  <2>4. CASE /\ d = c
             /\ upto' = [upto EXCEPT ![c] =
                   [p \in Partition |->
                       IF ends[p] > position[p] THEN ends[p] ELSE 0]]
    <3>1. upto'[c][r[1]] = IF ends[r[1]] > position[r[1]] THEN ends[r[1]] ELSE 0
      BY <2>1, <2>4 DEF TypeOK
    <3>2. r[2] < ends[r[1]] /\ ends[r[1]] # position[r[1]]
      BY <2>1, <2>4, <3>1 DEF TypeOK, Offset
    <3>3. owner[r[1]] = c
      BY <1>1, <2>1, <3>2 DEF Owned
    <3> QED
      BY <1>7, <2>4, <3>2, <3>3
  <2> QED
    BY <1>1, <2>2, <2>3, <2>4
<1>11. HandsInv'
  <2>1. pc'[c] = "work" \/ InHand(c)' = {}
    <3>1. CASE Goto(c, "work")
      BY <3>1 DEF Goto, TypeOK
    <3>2. CASE UNCHANGED todo
      BY <1>2, <1>3, <3>2 DEF InHand
    <3> QED
      BY <1>1, <3>1, <3>2
  <2>2. \A d \in Pod : d # c => pc'[d] = pc[d]
    BY <1>1 DEF Goto, TypeOK
  <2> QED
    BY <1>6, <2>1, <2>2 DEF HandsInv
<1> QED
  BY <1>8, <1>9, <1>10, <1>11

\* Every step of a pod's ConsumeLoop keeps the invariant: it settles a record
\* before letting it out of hand, and commits only what its batch held.
LEMMA SettledStep ==
  ASSUME SettledInv, TypeOK', NEW c \in Pod, Step(c)
  PROVE  SettledInv'
<1> USE DEF SettledInv, Settled
<1>1. CASE Panic(c)
  BY <1>1, SettledLeave DEF Panic
<1>2. CASE Poll(c)
  BY <1>2, SettledPoll
<1>3. CASE ReturnAtHead(c) \/ CheckTarget(c)
  <2>1. UNCHANGED <<broker, batch, saved, missed>>
    BY <1>3 DEF ReturnAtHead, CheckTarget
  <2>2. \A d \in Pod : pc'[d] = pc[d] \/ pc'[d] \in {"done", "work"}
    BY <1>3 DEF ReturnAtHead, CheckTarget, Goto, TypeOK
  <2>3. HandsInv'
    BY <2>1, <2>2 DEF HandsInv, InHand
  <2> QED
    BY <2>1, <2>3, SettledKept DEF InHand
<1>4. CASE Launch(c)
  <2>1. UNCHANGED <<broker, upto, saved, missed>>
    BY <1>4 DEF Launch
  <2>2. \A d \in Pod : InHand(d)' = InHand(d)
    BY <1>4 DEF Launch, InHand, TypeOK
  <2>3. \A d \in Pod : pc'[d] = pc[d] \/ pc'[d] = "check"
    BY <1>4 DEF Launch, Goto, TypeOK
  <2>4. HandsInv'
    BY <2>2, <2>3 DEF HandsInv
  <2> QED
    BY <2>1, <2>2, <2>4, SettledKept
<1>5. CASE Finish(c)
  <2>1. PICK r \in running[c] :
           /\ running' = [running EXCEPT ![c] = @ \ {r}]
           /\ FinishRecord(c, r)
    BY <1>5 DEF Finish
  <2>2. /\ saved \subseteq saved' /\ missed \subseteq missed'
        /\ r \in Settled'
    BY <2>1 DEF FinishRecord
  <2>3. UNCHANGED <<broker, pc, upto, todo>>
    BY <1>5 DEF Finish
  <2>4. \A d \in Pod : /\ InHand(d) \subseteq InHand(d)' \cup {r}
                        /\ InHand(d)' \subseteq InHand(d)
    BY <2>1, <2>3 DEF InHand, TypeOK
  <2>5. HandsInv'
    BY <2>3, <2>4 DEF HandsInv
  <2>6. \A d \in Pod : InHand(d) \subseteq InHand(d)' \cup Settled'
    BY <2>2, <2>4
  <2> QED
    BY <2>2, <2>3, <2>5, <2>6, SettledKept
<1>6. CASE Wait(c)
  <2>1. UNCHANGED <<broker, batch, saved, missed>>
    BY <1>6 DEF Wait
  <2>2. \A d \in Pod : pc'[d] = pc[d] \/ InHand(d) = {}
    BY <1>6 DEF Wait, Goto, TypeOK, InHand
  <2>3. HandsInv'
    BY <2>1, <2>2 DEF HandsInv, InHand
  <2> QED
    BY <2>1, <2>3, SettledKept DEF InHand
<1>7. CASE Commit(c)
  <2>1. UNCHANGED <<owner, position, batch, saved, missed>>
    BY <1>7 DEF Commit
  <2>2. InHand(c) = {}
    BY <1>7 DEF Commit, HandsInv
  <2>3. CommittedIsSettled'
    <3> SUFFICES ASSUME NEW r \in Record, r[2] < committed'[r[1]]
                 PROVE  r \in Settled
      BY <2>1 DEF CommittedIsSettled
    <3>1. r[1] \in Partition
      BY DEF Record
    <3>2. committed'[r[1]] \in {committed[r[1]], upto[c][r[1]]}
      BY <1>7, <3>1 DEF Commit, CommitOffsets, TypeOK
    <3> QED
      BY <2>2, <3>2 DEF CommittedIsSettled, BatchInv
  <2>4. \A d \in Pod : pc'[d] = pc[d] \/ d = c
    BY <1>7 DEF Commit, Goto, TypeOK
  <2>5. HandsInv'
    BY <2>1, <2>2, <2>4 DEF HandsInv, InHand
  <2> QED
    BY <2>1, <2>3, <2>5, SettledKept DEF InHand
<1> QED
  BY <1>1, <1>2, <1>3, <1>4, <1>5, <1>6, <1>7 DEF Step

\* An offset is committed only over records that are saved or whose failure
\* was reported, for every group and every history of crashes, rebalances,
\* rewinding commits and failures.
LEMMA SettledAlways == Spec => []SettledInv
<1>1. Init => SettledInv
  <2> SUFFICES ASSUME Init PROVE SettledInv
    OBVIOUS
  <2>1. TypeOK
    BY ConsumerAssumption DEF Init, TypeOK, PC, Offset
  <2> QED
    BY <2>1 DEF Init, SettledInv, CommittedIsSettled, PositionInv, BatchInv,
                HandsInv, InHand, Record
<1>2. SettledInv /\ TypeOK' /\ [Next]_vars => SettledInv'
  <2> SUFFICES ASSUME SettledInv, TypeOK', [Next]_vars PROVE SettledInv'
    OBVIOUS
  <2> USE DEF SettledInv, Settled
  <2>1. ASSUME NEW p \in Partition, Revoke(p) PROVE SettledInv'
    <3>1. UNCHANGED <<committed, position, pc, batch, saved, missed>>
      BY <2>1 DEF Revoke
    <3>2. \A q \in Partition : owner'[q] # None => owner'[q] = owner[q]
      BY <2>1 DEF Revoke, TypeOK
    <3>3. PositionInv'
      BY <3>1, <3>2 DEF PositionInv, InHand, Record
    <3>4. HandsInv'
      BY <3>1 DEF HandsInv, InHand
    <3> QED
      BY <3>1, <3>3, <3>4, SettledKept DEF InHand
  <2>2. ASSUME NEW p \in Partition, NEW c \in Pod, Assign(p, c)
        PROVE  SettledInv'
    <3>1. UNCHANGED <<committed, pc, batch, saved, missed>>
      BY <2>2 DEF Assign
    <3>2. \A q \in Partition : q # p =>
            owner'[q] = owner[q] /\ position'[q] = position[q]
      BY <2>2 DEF Assign, TypeOK
    <3>3. position'[p] = committed[p]
      BY <2>2 DEF Assign, TypeOK
    <3>4. PositionInv'
      <4> SUFFICES ASSUME NEW r \in Record, owner'[r[1]] # None,
                          r[2] < position'[r[1]]
                   PROVE  r \in Settled \cup todo[owner'[r[1]]]
                                         \cup running[owner'[r[1]]]
        BY <3>1 DEF PositionInv, InHand
      <4>1. CASE r[1] = p
        BY <3>3, <4>1 DEF CommittedIsSettled
      <4>2. CASE r[1] # p
        BY <3>2, <4>2 DEF PositionInv, InHand, Record
      <4> QED
        BY <4>1, <4>2
    <3>5. HandsInv'
      BY <3>1 DEF HandsInv, InHand
    <3> QED
      BY <3>1, <3>4, <3>5, SettledKept DEF InHand
  <2>3. ASSUME NEW c \in Pod, Crash(c) PROVE SettledInv'
    BY <2>3, SettledLeave DEF Crash
  <2>4. ASSUME NEW c \in Pod, Restart(c) PROVE SettledInv'
    <3>1. UNCHANGED <<broker, batch, saved, missed>>
      BY <2>4 DEF Restart
    <3>2. \A d \in Pod : pc'[d] = pc[d] \/ (d = c /\ pc[c] = "down")
      BY <2>4 DEF Restart, Goto, TypeOK
    <3>3. HandsInv'
      BY <3>1, <3>2 DEF HandsInv, InHand
    <3> QED
      BY <3>1, <3>3, SettledKept DEF InHand
  <2>5. ASSUME NEW c \in Pod, Step(c) PROVE SettledInv'
    BY <2>5, SettledStep
  <2>6. CASE UNCHANGED vars
    <3>1. HandsInv'
      BY <2>6 DEF vars, HandsInv, InHand
    <3> QED
      BY <2>6, <3>1, SettledKept DEF vars, InHand
  <2> QED
    BY <2>1, <2>2, <2>3, <2>4, <2>5, <2>6 DEF Next
<1> QED
  BY <1>1, <1>2, ConsumerTypeCorrect, PTL DEF Spec

\* What a restarted group skips is settled: the first part of the invariant.
THEOREM CommittedSettled == Spec => []CommittedIsSettled
<1>1. SettledInv => CommittedIsSettled
  BY DEF SettledInv
<1> QED
  BY <1>1, SettledAlways, PTL

-----------------------------------------------------------------------------
\* When neither a poll nor the processing of a record fails, an offset is
\* committed only over saved records, however many commits fail and however
\* the pods crash and the partitions move.
THEOREM CommittedSaved ==
  ASSUME "poll" \notin Faults, "process" \notin Faults
  PROVE  Spec => []CommittedIsSaved
<1> DEFINE NothingMissed == missed = {}
<1>1. Init => NothingMissed
  BY DEF Init
<1>2. NothingMissed /\ [Next]_vars => NothingMissed'
  <2> SUFFICES ASSUME NothingMissed, [Next]_vars PROVE NothingMissed'
    OBVIOUS
  <2> USE DEF Leave
  <2>1. ASSUME NEW c \in Pod, Step(c) PROVE NothingMissed'
    BY <2>1 DEF Step, Panic, ReturnAtHead, Poll, Launch, CheckTarget, Finish,
               FinishRecord, Wait, Commit
  <2>2. ASSUME NEW c \in Pod, Crash(c) \/ Restart(c) PROVE NothingMissed'
    BY <2>2 DEF Crash, Restart
  <2>3. ASSUME NEW p \in Partition, Revoke(p) \/ \E c \in Pod : Assign(p, c)
        PROVE  NothingMissed'
    BY <2>3 DEF Revoke, Assign
  <2>4. CASE UNCHANGED vars
    BY <2>4 DEF vars
  <2> QED
    BY <2>1, <2>2, <2>3, <2>4 DEF Next
<1>3. CommittedIsSettled /\ NothingMissed => CommittedIsSaved
  BY DEF CommittedIsSettled, CommittedIsSaved, Settled
<1>4. Spec => []NothingMissed
  BY <1>1, <1>2, PTL DEF Spec
<1> QED
  BY <1>3, <1>4, CommittedSettled, PTL

-----------------------------------------------------------------------------
\* The refinement: every step of the group is a step of the work queue, or
\* changes nothing the queue sees.

\* A record waits for a goroutine or is in one, not both: a goroutine that
\* ends takes its record out of the pod's hands.
Disjoint == \A c \in Pod : todo[c] \cap running[c] = {}

LEMMA DisjointStep ==
  ASSUME SettledInv, Disjoint, NEW c \in Pod, Step(c)
  PROVE  Disjoint'
<1> USE DEF SettledInv, TypeOK, Disjoint
<1>1. CASE Panic(c)
  BY <1>1 DEF Panic, Leave
<1>2. CASE ReturnAtHead(c)
  BY <1>2 DEF ReturnAtHead
<1>3. CASE Poll(c)
  <2>1. running[c] = {}
    BY <1>3 DEF Poll, HandsInv, InHand
  <2> QED
    BY <1>3, <2>1 DEF Poll
<1>4. CASE Launch(c)
  BY <1>4 DEF Launch
<1>5. CASE CheckTarget(c)
  BY <1>5 DEF CheckTarget
<1>6. CASE Finish(c)
  BY <1>6 DEF Finish
<1>7. CASE Wait(c)
  BY <1>7 DEF Wait
<1>8. CASE Commit(c)
  BY <1>8 DEF Commit
<1> QED
  BY <1>1, <1>2, <1>3, <1>4, <1>5, <1>6, <1>7, <1>8 DEF Step

LEMMA DisjointAlways == Spec => []Disjoint
<1>1. Init => Disjoint
  BY DEF Init, Disjoint
<1>2. SettledInv /\ Disjoint /\ [Next]_vars => Disjoint'
  <2> SUFFICES ASSUME SettledInv, Disjoint, [Next]_vars PROVE Disjoint'
    OBVIOUS
  <2>1. ASSUME NEW c \in Pod, Step(c) PROVE Disjoint'
    BY <2>1, DisjointStep
  <2>2. ASSUME NEW c \in Pod, Crash(c) PROVE Disjoint'
    BY <2>2 DEF Crash, Leave, Disjoint, SettledInv, TypeOK
  <2>3. ASSUME NEW c \in Pod, Restart(c) PROVE Disjoint'
    BY <2>3 DEF Restart, Disjoint
  <2>4. ASSUME NEW p \in Partition, Revoke(p) \/ \E c \in Pod : Assign(p, c)
        PROVE  Disjoint'
    BY <2>4 DEF Revoke, Assign, Disjoint
  <2>5. CASE UNCHANGED vars
    BY <2>5 DEF vars, Disjoint
  <2> QED
    BY <2>1, <2>2, <2>3, <2>4, <2>5 DEF Next
<1> QED
  BY <1>1, <1>2, SettledAlways, PTL DEF Spec

\* The hands of one pod change, those of the others do not.
handed == [d \in Pod |-> InHand(d)]

\* A process that ends gives up what it has in hand.
LEMMA QueueLeave ==
  ASSUME TypeOK, NEW c \in Pod, NEW l, Leave(c, l)
  PROVE  Queue!Die(c)
<1>1. InHand(c)' = {} /\ \A d \in Pod : d # c => InHand(d)' = InHand(d)
  BY DEF Leave, InHand, TypeOK
<1>2. handed' = [handed EXCEPT ![c] = {}]
  BY <1>1 DEF handed
<1> QED
  BY <1>2 DEF Leave, Queue!Die, handed

\* A poll takes, or loses, the next records of its partitions.
LEMMA QueuePoll ==
  ASSUME SettledInv, NEW c \in Pod, Poll(c)
  PROVE  \E S \in SUBSET Queue!Record : Queue!Take(c, S)
<1> USE DEF SettledInv
<1>1. PICK ends \in [Partition -> Offset] :
         /\ \A p \in Partition : p \notin Owned(c) => ends[p] = position[p]
         /\ Fetched(ends) # {}
         /\ \/ /\ todo' = [todo EXCEPT ![c] = Fetched(ends)]
               /\ UNCHANGED missed
            \/ /\ missed' = missed \cup Fetched(ends)
               /\ UNCHANGED todo
  BY DEF Poll
<1>2. UNCHANGED <<committed, saved, running>>
  BY DEF Poll
<1>3. InHand(c) = {}
  BY DEF Poll, HandsInv
<1> DEFINE S == Fetched(ends)
<1>4. S \in SUBSET Queue!Record /\ S # {}
  BY <1>1 DEF Fetched, Record, Queue!Record
<1>5. Queue!NothingLeftBehind(S)
  <2> SUFFICES ASSUME NEW r \in S, NEW q \in Record,
                      q[1] = r[1], q[2] < r[2], q \notin S
               PROVE  q \in Settled
    BY DEF Queue!NothingLeftBehind, Queue!Before, Queue!Record, Record,
           Queue!Settled, Settled
  <2>1. /\ r \in Record /\ position[r[1]] <= r[2] /\ r[2] < ends[r[1]]
        /\ r[1] \in Partition
    BY DEF Fetched, Record
  <2>2. /\ q[2] \in Nat /\ r[2] \in Nat
        /\ position[r[1]] \in Nat /\ ends[r[1]] \in Nat
    BY <2>1, ConsumerAssumption DEF Record, TypeOK, Offset
  <2>3. q[2] < position[q[1]]
    BY <2>1, <2>2 DEF Fetched
  <2>4. owner[q[1]] = c /\ owner[q[1]] # None
    BY <1>1, <2>1, <2>2, ConsumerAssumption DEF Owned
  <2>5. q \in Settled \cup InHand(c)
    BY <2>3, <2>4 DEF PositionInv
  <2> QED
    BY <2>5, <1>3
<1>6. CASE todo' = [todo EXCEPT ![c] = S] /\ UNCHANGED missed
  <2>1. running[c] = {}
    BY <1>3 DEF InHand
  <2>2. /\ InHand(c)' = S
        /\ \A d \in Pod : d # c => InHand(d)' = InHand(d)
    BY <1>2, <1>6, <2>1 DEF InHand, TypeOK
  <2>3. handed' = [handed EXCEPT ![c] = S]
    BY <2>2 DEF handed
  <2> QED
    BY <1>2, <1>3, <1>4, <1>5, <1>6, <2>3 DEF Queue!Take, handed
<1>7. CASE missed' = missed \cup S /\ UNCHANGED todo
  <2>1. UNCHANGED handed
    BY <1>2, <1>7 DEF handed, InHand
  <2> QED
    BY <1>2, <1>3, <1>4, <1>5, <1>7, <2>1 DEF Queue!Take, handed
<1> QED
  BY <1>1, <1>6, <1>7

\* A goroutine that ends finishes its record.
LEMMA QueueFinish ==
  ASSUME TypeOK, Disjoint, NEW c \in Pod, Finish(c)
  PROVE  \E r \in Queue!Record : Queue!Finish(c, r)
<1>1. PICK r \in running[c] :
         /\ running' = [running EXCEPT ![c] = @ \ {r}]
         /\ FinishRecord(c, r)
  BY DEF Finish
<1>2. UNCHANGED <<committed, todo>>
  BY DEF Finish
<1>3. r \in Queue!Record
  BY DEF TypeOK, Record, Queue!Record
<1>4. /\ InHand(c)' = InHand(c) \ {r}
      /\ \A d \in Pod : d # c => InHand(d)' = InHand(d)
  BY <1>1, <1>2 DEF InHand, TypeOK, Disjoint
<1>5. handed' = [handed EXCEPT ![c] = @ \ {r}]
  BY <1>4 DEF handed
<1>6. /\ saved' \in {saved, saved \cup {r}}
      /\ missed' \in {missed, missed \cup {r}}
      /\ r \in saved' \cup missed'
  BY <1>1 DEF FinishRecord
<1> QED
  BY <1>2, <1>3, <1>5, <1>6
     DEF Queue!Finish, Queue!Settled, handed, InHand

\* A commit is made with empty hands, over settled records.
LEMMA QueueCommit ==
  ASSUME SettledInv, SettledInv', NEW c \in Pod, Commit(c)
  PROVE  Queue!Commit(c)
<1>1. InHand(c) = {}
  BY DEF Commit, SettledInv, HandsInv
<1>2. UNCHANGED <<todo, running, saved, missed>>
  BY DEF Commit
<1>3. UNCHANGED handed
  BY <1>2 DEF handed, InHand
<1>4. committed' \in [Partition -> Queue!Offset]
  BY DEF SettledInv, TypeOK, Offset, Queue!Offset
<1>5. \A r \in Queue!Record : r[2] < committed'[r[1]] => r \in Queue!Settled
  BY <1>2 DEF SettledInv, CommittedIsSettled, Settled, Queue!Settled,
              Record, Queue!Record
<1> QED
  BY <1>1, <1>2, <1>3, <1>4, <1>5 DEF Queue!Commit, handed

\* The group of consumers implements the work queue, for every number of
\* pods, partitions, records, goroutines, faults, crashes and rebalances.
THEOREM QueueImplemented == Spec => QueueKept
<1>1. Init => Queue!Init
  BY DEF Init, Queue!Init, InHand
<1>2. SettledInv /\ SettledInv' /\ Disjoint /\ [Next]_vars
         => [Queue!Next]_Queue!vars
  <2> SUFFICES ASSUME SettledInv, SettledInv', Disjoint, [Next]_vars
               PROVE  Queue!Next \/ UNCHANGED <<committed, handed, saved, missed>>
    BY DEF Queue!vars, handed
  <2>1. ASSUME UNCHANGED <<committed, todo, running, saved, missed>>
        PROVE  UNCHANGED <<committed, handed, saved, missed>>
    BY <2>1 DEF handed, InHand
  <2>2. ASSUME NEW p \in Partition, Revoke(p) \/ \E c \in Pod : Assign(p, c)
        PROVE  UNCHANGED <<committed, handed, saved, missed>>
    BY <2>1, <2>2 DEF Revoke, Assign
  <2>3. ASSUME NEW c \in Pod, Crash(c) \/ Panic(c) PROVE Queue!Next
    <3>1. Queue!Die(c)
      BY <2>3, QueueLeave DEF Crash, Panic, SettledInv
    <3> QED
      BY <3>1 DEF Queue!Next
  <2>4. ASSUME NEW c \in Pod,
               Restart(c) \/ ReturnAtHead(c) \/ CheckTarget(c) \/ Wait(c)
        PROVE  UNCHANGED <<committed, handed, saved, missed>>
    BY <2>1, <2>4 DEF Restart, ReturnAtHead, CheckTarget, Wait
  <2>5. ASSUME NEW c \in Pod, Poll(c) PROVE Queue!Next
    BY <2>5, QueuePoll DEF Queue!Next
  <2>6. ASSUME NEW c \in Pod, Launch(c)
        PROVE  UNCHANGED <<committed, handed, saved, missed>>
    <3>1. \A d \in Pod : InHand(d)' = InHand(d)
      BY <2>6 DEF Launch, InHand, SettledInv, TypeOK
    <3> QED
      BY <2>6, <3>1 DEF Launch, handed
  <2>7. ASSUME NEW c \in Pod, Finish(c) PROVE Queue!Next
    BY <2>7, QueueFinish DEF Queue!Next, SettledInv
  <2>8. ASSUME NEW c \in Pod, Commit(c) PROVE Queue!Next
    BY <2>8, QueueCommit DEF Queue!Next
  <2>9. CASE UNCHANGED vars
    BY <2>1, <2>9 DEF vars
  <2> QED
    BY <2>2, <2>3, <2>4, <2>5, <2>6, <2>7, <2>8, <2>9 DEF Next, Step
<1> QED
  BY <1>1, <1>2, SettledAlways, DisjointAlways, PTL
     DEF Spec, QueueKept, Queue!Spec

-----------------------------------------------------------------------------
\* The benchmark's report.

\* With a target of 0 nothing is ever read, counted or reported.
LEMMA NoWorkStep ==
  ASSUME TypeOK, NoWorkInv, [Next]_vars
  PROVE  NoWorkInv'
<1> USE DEF NoWorkInv, InHand
<1>1. SUFFICES ASSUME target = 0, \A c \in Pod : InHand(c) = {} /\ ~isFinished[c]
               PROVE  \A c \in Pod : InHand(c)' = {} /\ ~isFinished'[c]
  BY DEF Next, Step, vars, Revoke, Assign, Crash, Restart, Leave, Panic,
         ReturnAtHead, Poll, Launch, CheckTarget, Finish, Wait, Commit
<1>2. ASSUME NEW c \in Pod, Panic(c) \/ Crash(c)
      PROVE  \A d \in Pod : InHand(d)' = {} /\ ~isFinished'[d]
  BY <1>1, <1>2 DEF Panic, Crash, Leave, TypeOK
<1>3. ASSUME NEW c \in Pod, Poll(c) \/ Launch(c) \/ Finish(c) PROVE FALSE
  BY <1>1, <1>3 DEF Poll, Launch, Finish
<1>4. ASSUME UNCHANGED <<todo, running, isFinished>>
      PROVE  \A d \in Pod : InHand(d)' = {} /\ ~isFinished'[d]
  BY <1>1, <1>4
<1> QED
  BY <1>2, <1>3, <1>4
     DEF Next, Step, vars, Revoke, Assign, Restart, ReturnAtHead, CheckTarget,
         Wait, Commit

LEMMA NoWorkAlways == Spec => []NoWorkInv
<1>1. Init => NoWorkInv
  BY DEF Init, NoWorkInv, InHand
<1> QED
  BY <1>1, NoWorkStep, ConsumerTypeCorrect, PTL DEF Spec

\* A process reports once, whichever of its goroutines get to the report.
Reporters == {c \in Pod : isFinished[c]}
ReportInv == crashes = 0 => /\ IsFiniteSet(Reporters)
                            /\ finished = Cardinality(Reporters)

LEMMA ReportStep ==
  ASSUME TypeOK, NoWorkInv, ReportInv, [Next]_vars
  PROVE  ReportInv'
<1> USE DEF ReportInv
<1>1. ASSUME UNCHANGED <<crashes, isFinished, finished>> PROVE ReportInv'
  BY <1>1 DEF Reporters
<1>2. ASSUME NEW c \in Pod, Panic(c) PROVE ReportInv'
  <2>1. isFinished' = isFinished
    BY <1>2 DEF Panic, Leave, NoWorkInv, TypeOK
  <2> QED
    BY <1>1, <1>2, <2>1 DEF Panic, Leave
<1>3. ASSUME NEW c \in Pod, Crash(c) PROVE ReportInv'
  BY <1>3 DEF Crash, TypeOK
<1>4. ASSUME NEW c \in Pod, Finish(c) PROVE ReportInv'
  <2>1. crashes' = crashes
    BY <1>4 DEF Finish
  <2>2. CASE UNCHANGED <<isFinished, finished>>
    BY <1>1, <2>1, <2>2
  <2>3. CASE Report(c)
    <3>1. Reporters' = Reporters \cup {c}
      BY <2>3 DEF Report, Reporters, TypeOK
    <3>2. CASE isFinished[c]
      <4>1. Reporters' = Reporters
        BY <3>1, <3>2 DEF Reporters
      <4> QED
        BY <2>1, <2>3, <3>2, <4>1 DEF Report
    <3>3. CASE ~isFinished[c]
      <4>1. c \notin Reporters /\ finished' = finished + 1
        BY <2>3, <3>3 DEF Report, Reporters
      <4>2. IsFiniteSet(Reporters) =>
              /\ IsFiniteSet(Reporters \cup {c})
              /\ Cardinality(Reporters \cup {c}) = Cardinality(Reporters) + 1
        BY <4>1, FS_AddElement
      <4> QED
        BY <2>1, <3>1, <4>1, <4>2
    <3> QED
      BY <3>2, <3>3
  <2> QED
    BY <1>4, <2>2, <2>3 DEF Finish
<1> QED
  BY <1>1, <1>2, <1>3, <1>4
     DEF Next, Step, vars, Revoke, Assign, Restart, ReturnAtHead, Poll, Launch,
         CheckTarget, Wait, Commit

\* While no pod crashes, the counter in Redis equals the number of pods that
\* finished their benchmark, however many goroutines of a pod see the target.
THEOREM PodsReportOnce == Spec => []ReportedOnce
<1>1. Init => ReportInv
  <2> SUFFICES ASSUME Init PROVE ReportInv
    OBVIOUS
  <2>1. Reporters = {}
    BY DEF Init, Reporters
  <2> QED
    BY <2>1, FS_EmptySet DEF Init, ReportInv
<1>2. ReportInv => ReportedOnce
  BY DEF ReportInv, ReportedOnce, Reporters
<1> QED
  BY <1>1, <1>2, ReportStep, NoWorkAlways, ConsumerTypeCorrect, PTL DEF Spec

-----------------------------------------------------------------------------
\* Commits without a rebalance.

\* A commit moves an offset only to the end of the pod's batch.
LEMMA CommitEffect ==
  ASSUME NEW c \in Pod, Commit(c), NEW p \in Partition
  PROVE  committed'[p] = committed[p]
           \/ (upto[c][p] > 0 /\ committed'[p] = upto[c][p])
<1>1. CASE CommitOffsets(c)
  <2>1. committed'[p] = IF upto[c][p] > 0 THEN upto[c][p] ELSE committed[p]
    BY <1>1 DEF CommitOffsets
  <2> QED
    BY <2>1
<1>2. CASE UNCHANGED committed
  BY <1>2
<1> QED
  BY <1>1, <1>2 DEF Commit

\* Until the first revocation every step keeps each batch with the owner of
\* its partitions.
LEMMA OwnBatchStep ==
  ASSUME TypeOK, TypeOK', OwnBatchInv, [Next]_vars
  PROVE  OwnBatchInv'
<1> USE ConsumerAssumption DEF Goto
<1>1. SUFFICES ASSUME revokes' = 0, revokes = 0 PROVE OwnBatchInv'
  BY DEF OwnBatchInv, Next, Step, vars, Revoke, Assign, Crash, Restart, Leave,
         Panic, ReturnAtHead, Poll, Launch, CheckTarget, Finish, Wait, Commit,
         TypeOK
<1>2. /\ \A p \in Partition : owner[p] # None => committed[p] <= position[p]
      /\ \A c \in Pod : \A p \in Partition : upto[c][p] > 0 =>
            /\ owner[p] = c
            /\ pc[c] \in {"work", "check", "commit"} => upto[c][p] = position[p]
  BY <1>1 DEF OwnBatchInv
<1>3. \A p \in Partition : /\ committed[p] \in Nat /\ position[p] \in Nat
                            /\ \A c \in Pod : upto[c][p] \in Nat
  BY DEF TypeOK, Offset
<1>4. ASSUME UNCHANGED <<broker, upto>>, NEW c \in Pod,
             \A d \in Pod \ {c} : pc'[d] = pc[d],
             pc'[c] \in {"work", "check", "commit"} =>
               pc[c] \in {"work", "check", "commit"}
      PROVE  OwnBatchInv'
  BY <1>2, <1>4 DEF OwnBatchInv
<1>5. ASSUME NEW p \in Partition, Revoke(p) PROVE OwnBatchInv'
  BY <1>1, <1>5 DEF Revoke
<1>6. ASSUME NEW p \in Partition, NEW c \in Pod, Assign(p, c)
      PROVE  OwnBatchInv'
  <2>1. UNCHANGED <<committed, upto, pc>>
    BY <1>6 DEF Assign
  <2>2. /\ owner[p] = None /\ owner'[p] = c /\ position'[p] = committed[p]
        /\ \A q \in Partition \ {p} :
             owner'[q] = owner[q] /\ position'[q] = position[q]
    BY <1>6 DEF Assign, TypeOK
  <2>3. \A d \in Pod : ~(upto[d][p] > 0)
    BY <1>2, <2>2
  <2> QED
    BY <1>2, <1>3, <2>1, <2>2, <2>3 DEF OwnBatchInv
<1>7. ASSUME NEW c \in Pod, Crash(c) \/ Panic(c) PROVE OwnBatchInv'
  <2>1. UNCHANGED <<committed, position>>
    BY <1>7 DEF Crash, Panic, Leave
  <2>2. /\ \A p \in Partition :
             owner'[p] = IF owner[p] = c THEN None ELSE owner[p]
        /\ \A p \in Partition : upto'[c][p] = 0
        /\ \A d \in Pod \ {c} : upto'[d] = upto[d] /\ pc'[d] = pc[d]
    BY <1>7 DEF Crash, Panic, Leave, TypeOK
  <2>3. \A p \in Partition : owner'[p] # None => committed'[p] <= position'[p]
    BY <1>2, <2>1, <2>2
  <2>4. ASSUME NEW d \in Pod, NEW p \in Partition, upto'[d][p] > 0
        PROVE  /\ owner'[p] = d
               /\ pc'[d] \in {"work", "check", "commit"} =>
                    upto'[d][p] = position'[p]
    <3>1. d # c
      BY <2>2, <2>4
    <3> QED
      BY <1>2, <2>1, <2>2, <2>4, <3>1
  <2> QED
    BY <2>3, <2>4 DEF OwnBatchInv
<1>8. ASSUME NEW c \in Pod, Poll(c) PROVE OwnBatchInv'
  <2>1. PICK ends \in [Partition -> Offset] :
           /\ \A p \in Partition :
                /\ ends[p] >= position[p]
                /\ p \notin Owned(c) => ends[p] = position[p]
           /\ position' = ends
           /\ \/ /\ upto' = [upto EXCEPT ![c] =
                      [p \in Partition |->
                          IF ends[p] > position[p] THEN ends[p] ELSE 0]]
                 /\ Goto(c, "work")
              \/ UNCHANGED <<pc, upto>>
    BY <1>8 DEF Poll
  <2>2. UNCHANGED <<committed, owner>> /\ pc[c] = "poll"
    BY <1>8 DEF Poll
  <2>3. \A p \in Partition : ends[p] \in Nat
    BY DEF Offset
  <2>4. \A p \in Partition : owner'[p] # None => committed'[p] <= position'[p]
    BY <1>2, <1>3, <2>1, <2>2, <2>3
  <2>5. ASSUME NEW d \in Pod, NEW p \in Partition, upto'[d][p] > 0
        PROVE  /\ owner'[p] = d
               /\ pc'[d] \in {"work", "check", "commit"} =>
                    upto'[d][p] = position'[p]
    <3>1. CASE d # c
      <4>1. upto'[d] = upto[d] /\ pc'[d] = pc[d]
        BY <2>1, <3>1 DEF TypeOK
      <4>2. owner[p] = d
        BY <1>2, <2>5, <4>1
      <4>3. position'[p] = position[p]
        BY <2>1, <3>1, <4>2 DEF Owned
      <4> QED
        BY <1>2, <2>2, <2>5, <4>1, <4>3
    <3>2. CASE d = c /\ UNCHANGED <<pc, upto>>
      BY <1>2, <2>2, <2>5, <3>2
    <3>3. CASE d = c /\ upto' = [upto EXCEPT ![c] =
                   [q \in Partition |->
                       IF ends[q] > position[q] THEN ends[q] ELSE 0]]
      <4>1. upto'[c][p] = IF ends[p] > position[p] THEN ends[p] ELSE 0
        BY <3>3 DEF TypeOK
      <4>2. upto'[c][p] = ends[p] /\ ends[p] # position[p]
        BY <1>3, <2>3, <2>5, <3>3, <4>1
      <4> QED
        BY <2>1, <2>2, <3>3, <4>2 DEF Owned
    <3> QED
      BY <2>1, <3>1, <3>2, <3>3
  <2> QED
    BY <2>4, <2>5 DEF OwnBatchInv
<1>9. ASSUME NEW c \in Pod, Commit(c) PROVE OwnBatchInv'
  <2>1. UNCHANGED <<owner, position, upto>> /\ pc[c] = "commit"
        /\ pc' = [pc EXCEPT ![c] = "poll"]
    BY <1>9 DEF Commit
  <2>2. \A p \in Partition :
          committed'[p] = committed[p]
            \/ (upto[c][p] > 0 /\ committed'[p] = upto[c][p])
    BY <1>9, CommitEffect
  <2>3. \A p \in Partition : owner'[p] # None => committed'[p] <= position'[p]
    BY <1>2, <1>3, <2>1, <2>2
  <2>4. \A d \in Pod : pc'[d] = "poll" \/ pc'[d] = pc[d]
    BY <2>1 DEF TypeOK
  <2> QED
    BY <1>2, <2>1, <2>3, <2>4 DEF OwnBatchInv
<1>10. ASSUME NEW c \in Pod,
              \/ Restart(c) \/ ReturnAtHead(c) \/ Launch(c)
              \/ CheckTarget(c) \/ Finish(c) \/ Wait(c)
       PROVE  OwnBatchInv'
  <2>1. UNCHANGED <<broker, upto>>
    BY <1>10 DEF Restart, ReturnAtHead, Launch, CheckTarget, Finish, Wait
  <2>2. \A d \in Pod \ {c} : pc'[d] = pc[d]
    BY <1>10 DEF Restart, ReturnAtHead, Launch, CheckTarget, Finish, Wait, TypeOK
  <2>3. pc'[c] \in {"work", "check", "commit"} =>
          pc[c] \in {"work", "check", "commit"}
    BY <1>10 DEF Restart, ReturnAtHead, Launch, CheckTarget, Finish, Wait, TypeOK
  <2> QED
    BY <1>4, <2>1, <2>2, <2>3
<1>11. CASE UNCHANGED vars
  BY <1>2, <1>11 DEF vars, OwnBatchInv
<1> QED
  BY <1>5, <1>6, <1>7, <1>8, <1>9, <1>10, <1>11 DEF Next, Step

LEMMA OwnBatchAlways == Spec => []OwnBatchInv
<1>1. Init => OwnBatchInv
  BY ConsumerAssumption DEF Init, OwnBatchInv
<1> QED
  BY <1>1, OwnBatchStep, ConsumerTypeCorrect, PTL DEF Spec

\* The committed offset of a partition moves back only after a rebalance:
\* crashes, failed commits and failed batches alone never rewind it.
THEOREM CommitsOnlyAdvance == Spec => CommitsAdvance
<1>1. TypeOK /\ TypeOK' /\ OwnBatchInv /\ [Next]_vars
         => [revokes = 0 =>
                \A p \in Partition : committed'[p] >= committed[p]]_vars
  <2> SUFFICES ASSUME TypeOK, TypeOK', OwnBatchInv, [Next]_vars, revokes = 0,
                      NEW p \in Partition
               PROVE  committed'[p] >= committed[p]
    OBVIOUS
  <2>1. committed[p] \in Nat /\ position[p] \in Nat
    BY ConsumerAssumption DEF TypeOK, Offset
  <2>2. ASSUME NEW c \in Pod, Commit(c) PROVE committed'[p] >= committed[p]
    <3>1. committed'[p] = committed[p]
            \/ (upto[c][p] > 0 /\ committed'[p] = upto[c][p])
      BY <2>2, CommitEffect
    <3>2. upto[c][p] > 0 => owner[p] = c /\ upto[c][p] = position[p]
      BY <2>2 DEF Commit, OwnBatchInv
    <3>3. owner[p] = c => committed[p] <= position[p]
      BY ConsumerAssumption DEF OwnBatchInv
    <3> QED
      BY <2>1, <3>1, <3>2, <3>3
  <2>3. committed' = committed => committed'[p] >= committed[p]
    BY <2>1
  <2> QED
    BY <2>2, <2>3
       DEF Next, Step, vars, Revoke, Assign, Crash, Restart, Leave, Panic,
           ReturnAtHead, Poll, Launch, CheckTarget, Finish, Wait
<1> QED
  BY <1>1, OwnBatchAlways, ConsumerTypeCorrect, PTL DEF Spec, CommitsAdvance

-----------------------------------------------------------------------------
\* Reading a record once.

\* Until the first crash or revocation a record that was read is neither
\* read again nor handed to a goroutine again.
LEMMA ReadOnceStep ==
  ASSUME SettledInv, TypeOK', NoWorkInv, OwnBatchInv, ReadOnceInv, [Next]_vars
  PROVE  ReadOnceInv'
<1> USE ConsumerAssumption DEF InHand, Settled
<1>1. SUFFICES ASSUME crashes' = 0, revokes' = 0, crashes = 0, revokes = 0,
                      AssignedOnce, ReadBelow, WaitsOnce
               PROVE  AssignedOnce' /\ ReadBelow' /\ WaitsOnce'
  BY DEF ReadOnceInv, Undisturbed, Next, Step, vars, Revoke, Assign, Crash,
         Restart, Leave, Panic, ReturnAtHead, Poll, Launch, CheckTarget, Finish,
         Wait, Commit, SettledInv, TypeOK
<1>2. TypeOK
  BY DEF SettledInv
<1>3. \A p \in Partition : position[p] \in Nat /\ committed[p] \in Nat
  BY <1>2 DEF TypeOK, Offset
\* Where nothing is read or finished, nothing changes.
<1>4. UNCHANGED <<broker, target>> => AssignedOnce'
  BY <1>1 DEF AssignedOnce
<1>5. UNCHANGED <<position, todo, running, saved, missed>> =>
        ReadBelow' /\ WaitsOnce'
  BY <1>1 DEF ReadBelow, WaitsOnce
<1>6. ASSUME NEW p \in Partition, NEW c \in Pod, Assign(p, c)
      PROVE  AssignedOnce' /\ ReadBelow' /\ WaitsOnce'
  <2>1. position[p] = 0 /\ committed[p] = 0
    BY <1>1, <1>6 DEF Assign, AssignedOnce
  <2>2. position' = position
    BY <1>2, <1>6, <2>1 DEF Assign, TypeOK
  <2>3. AssignedOnce'
    BY <1>1, <1>2, <1>6, <2>1, <2>2 DEF Assign, AssignedOnce, TypeOK
  <2> QED
    BY <1>5, <1>6, <2>2, <2>3 DEF Assign
<1>7. ASSUME NEW c \in Pod, Panic(c)
      PROVE  AssignedOnce' /\ ReadBelow' /\ WaitsOnce'
  <2>1. target = 0 /\ UNCHANGED <<position, committed, target, saved, missed>>
    BY <1>7 DEF Panic, Leave
  <2>2. \A d \in Pod : todo'[d] \subseteq todo[d] /\ running'[d] \subseteq running[d]
    BY <1>2, <1>7 DEF Panic, Leave, TypeOK
  <2>3. AssignedOnce'
    BY <1>1, <2>1 DEF AssignedOnce
  <2> QED
    BY <1>1, <2>1, <2>2, <2>3 DEF ReadBelow, WaitsOnce
<1>8. ASSUME NEW c \in Pod, Poll(c)
      PROVE  AssignedOnce' /\ ReadBelow' /\ WaitsOnce'
  <2>1. PICK ends \in [Partition -> Offset] :
           /\ \A p \in Partition :
                /\ ends[p] >= position[p]
                /\ p \notin Owned(c) => ends[p] = position[p]
           /\ position' = ends
           /\ \/ /\ todo' = [todo EXCEPT ![c] = Fetched(ends)]
                 /\ UNCHANGED missed
              \/ /\ missed' = missed \cup Fetched(ends)
                 /\ UNCHANGED todo
    BY <1>8 DEF Poll
  <2>2. UNCHANGED <<committed, owner, running, saved, target>> /\ target # 0
    BY <1>8 DEF Poll
  <2>3. todo[c] = {} /\ running[c] = {}
    BY <1>8 DEF Poll, SettledInv, HandsInv
  <2>4. AssignedOnce'
    BY <1>1, <2>1, <2>2 DEF AssignedOnce, Owned
  <2>5. \A r \in Record : r[1] \in Partition /\ r[2] \in Nat
    BY DEF Record
  <2>6. \A r \in Fetched(ends) :
          r \in Record /\ r[2] < ends[r[1]] /\ ~(r[2] < position[r[1]])
    BY <1>3, <2>5 DEF Fetched
  <2>7. \A r \in Record : r[2] < position[r[1]] => r[2] < ends[r[1]]
    <3> SUFFICES ASSUME NEW r \in Record, r[2] < position[r[1]]
                 PROVE  r[2] < ends[r[1]]
      OBVIOUS
    <3>1. /\ position[r[1]] \in Nat /\ ends[r[1]] \in Nat /\ r[2] \in Nat
          /\ ends[r[1]] >= position[r[1]]
      BY <1>3, <2>1, <2>5 DEF Offset
    <3> QED
      BY <3>1
  <2>8. /\ Settled \subseteq Record
        /\ \A d \in Pod : todo[d] \subseteq Record /\ running[d] \subseteq Record
    BY <1>2 DEF TypeOK
  <2>9. /\ Fetched(ends) \cap Settled = {}
        /\ \A d \in Pod : /\ Fetched(ends) \cap todo[d] = {}
                          /\ Fetched(ends) \cap running[d] = {}
    BY <1>1, <2>6 DEF ReadBelow
  <2>10. CASE todo' = [todo EXCEPT ![c] = Fetched(ends)] /\ UNCHANGED missed
    <3>1. todo'[c] = Fetched(ends) /\ \A d \in Pod : d # c => todo'[d] = todo[d]
      BY <1>2, <2>10 DEF TypeOK
    <3>2. ReadBelow'
      BY <1>1, <2>1, <2>2, <2>6, <2>7, <2>8, <2>10, <3>1 DEF ReadBelow
    <3>3. WaitsOnce'
      BY <1>1, <2>2, <2>9, <2>10, <3>1 DEF WaitsOnce
    <3> QED
      BY <2>4, <3>2, <3>3
  <2>11. CASE missed' = missed \cup Fetched(ends) /\ UNCHANGED todo
    <3>1. ReadBelow'
      BY <1>1, <2>1, <2>2, <2>6, <2>7, <2>8, <2>11 DEF ReadBelow
    <3>2. WaitsOnce'
      BY <1>1, <2>2, <2>9, <2>11 DEF WaitsOnce
    <3> QED
      BY <2>4, <3>1, <3>2
  <2> QED
    BY <2>1, <2>10, <2>11
<1>9. ASSUME NEW c \in Pod, Launch(c)
      PROVE  AssignedOnce' /\ ReadBelow' /\ WaitsOnce'
  <2>1. UNCHANGED <<broker, saved, missed, target>>
    BY <1>9 DEF Launch
  <2>2. PICK r \in todo[c] : /\ todo' = [todo EXCEPT ![c] = @ \ {r}]
                             /\ running' = [running EXCEPT ![c] = @ \cup {r}]
    BY <1>9 DEF Launch
  <2>3. /\ todo'[c] = todo[c] \ {r} /\ running'[c] = running[c] \cup {r}
        /\ \A d \in Pod : d # c => todo'[d] = todo[d] /\ running'[d] = running[d]
    BY <1>2, <2>2 DEF TypeOK
  <2>4. ReadBelow'
    BY <1>1, <2>1, <2>3 DEF ReadBelow
  <2>5. WaitsOnce'
    BY <1>1, <2>1, <2>3 DEF WaitsOnce
  <2> QED
    BY <1>4, <2>1, <2>4, <2>5
<1>10. ASSUME NEW c \in Pod, Finish(c)
       PROVE  AssignedOnce' /\ ReadBelow' /\ WaitsOnce'
  <2>1. UNCHANGED <<broker, todo, target>>
    BY <1>10 DEF Finish
  <2>2. PICK r \in running[c] : /\ running' = [running EXCEPT ![c] = @ \ {r}]
                                /\ FinishRecord(c, r)
    BY <1>10 DEF Finish
  <2>3. Settled' \subseteq Settled \cup {r}
    BY <2>2 DEF FinishRecord
  <2>4. \A d \in Pod : running'[d] \subseteq running[d]
    BY <1>2, <2>2 DEF TypeOK
  <2>5. ReadBelow'
    BY <1>1, <2>1, <2>3, <2>4 DEF ReadBelow
  <2>6. WaitsOnce'
    BY <1>1, <2>1, <2>3, <2>4 DEF WaitsOnce
  <2> QED
    BY <1>4, <2>1, <2>5, <2>6
<1>11. ASSUME NEW c \in Pod, Commit(c)
       PROVE  AssignedOnce' /\ ReadBelow' /\ WaitsOnce'
  <2>1. UNCHANGED <<owner, position, todo, running, saved, missed, target>>
    BY <1>11 DEF Commit
  <2>2. ASSUME NEW p \in Partition, owner[p] = None \/ target = 0
        PROVE  position[p] = 0 /\ committed'[p] = 0
    <3>1. position[p] = 0 /\ committed[p] = 0
      BY <1>1, <2>2 DEF AssignedOnce
    <3>2. ~(upto[c][p] > 0)
      BY <1>1, <1>11, <2>2, <3>1 DEF OwnBatchInv, Commit
    <3> QED
      BY <1>11, <3>1, <3>2, CommitEffect
  <2> QED
    BY <1>5, <2>1, <2>2 DEF AssignedOnce
<1>12. ASSUME \/ \E c \in Pod : Restart(c) \/ ReturnAtHead(c) \/ CheckTarget(c)
                                \/ Wait(c)
              \/ UNCHANGED vars
       PROVE  AssignedOnce' /\ ReadBelow' /\ WaitsOnce'
  BY <1>4, <1>5, <1>12 DEF Restart, ReturnAtHead, CheckTarget, Wait, vars
<1>13. /\ \A c \in Pod : ~Crash(c)
       /\ \A p \in Partition : ~Revoke(p)
  BY <1>1 DEF Crash, Revoke
<1> QED
  BY <1>6, <1>7, <1>8, <1>9, <1>10, <1>11, <1>12, <1>13 DEF Next, Step

LEMMA ReadOnceAlways == Spec => []ReadOnceInv
<1>1. Init => ReadOnceInv
  BY DEF Init, ReadOnceInv, AssignedOnce, ReadBelow, WaitsOnce, InHand, Settled
<1> QED
  BY <1>1, ReadOnceStep, SettledAlways, NoWorkAlways, OwnBatchAlways,
     ConsumerTypeCorrect, PTL DEF Spec

\* Only a crash or a rebalance makes a record come again: a failed record,
\* batch or commit alone does not.
THEOREM NoRepeatsAlone == Spec => RepeatsNeedRebalance
<1>1. TypeOK /\ ReadOnceInv /\ [Next]_vars
         => [\A c \in Pod : \A r \in running'[c] \ running[c] :
                crashes = 0 /\ revokes = 0 => r \notin Settled]_vars
  <2> SUFFICES ASSUME TypeOK, WaitsOnce, [Next]_vars,
                      NEW c \in Pod, NEW r \in running'[c] \ running[c]
               PROVE  r \notin Settled
    BY DEF ReadOnceInv, Undisturbed
  <2>1. ASSUME NEW d \in Pod, Launch(d) PROVE r \in todo[c]
    BY <2>1 DEF Launch, TypeOK
  <2>2. ASSUME NEW d \in Pod, Finish(d) \/ Panic(d) \/ Crash(d) PROVE FALSE
    BY <2>2 DEF Finish, Panic, Crash, Leave, TypeOK
  <2>3. r \in todo[c]
    BY <2>1, <2>2
       DEF Next, Step, vars, Revoke, Assign, Restart, ReturnAtHead, Poll,
           CheckTarget, Wait, Commit
  <2> QED
    BY <2>3 DEF WaitsOnce
<1> QED
  BY <1>1, ReadOnceAlways, ConsumerTypeCorrect, PTL
     DEF Spec, RepeatsNeedRebalance
=============================================================================
