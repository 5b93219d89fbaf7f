---------------------------- MODULE BlockConsumer ---------------------------
(***************************************************************************)
(* The consuming side of indexing: ConsumeLoop of kafka/unseen_block_info, *)
(* which every pod runs in the one consumer group block-processors, and    *)
(* the processing function that Service.Start hands to it.                 *)
(*                                                                         *)
(* A pod polls a batch of records, processes them in at most WorkersNumber *)
(* goroutines, waits for all, and commits the offsets of the whole batch   *)
(* only if none failed.  The Kafka client keeps a position of its own for  *)
(* each partition it is assigned: polling moves it, a failure does not     *)
(* move it back, and only a new assignment restarts it from the committed  *)
(* offset.  The broker lets a member commit a partition it no longer has.  *)
(*                                                                         *)
(* Processing a record either saves its blocks or fails after its retries; *)
(* its parts (fetching, saving, broadcasting) are not distinguished here.  *)
(*                                                                         *)
(* AssignFirst, LaunchAgain, ReportAlways, WaitNone and CommitNext are     *)
(* faulty variants of the operator that follows each of them; no action    *)
(* uses them.                                                              *)
(***************************************************************************)
EXTENDS Naturals, FiniteSets

CONSTANTS
    Pod,                 \* the members of the group
    None,                \* no member: the partition is not assigned
    Partition,
    LogLen,              \* bound: records per partition
    MaxBatch,            \* bound: records of one partition in one fetch
    WorkersNumber,       \* goroutines of one pod
    Unlimited,           \* a target that no run of a pod ever reaches
    Targets,             \* choices of benchmark.TargetBlocksNumber()
    Benchmarks,          \* choices of benchmark.Enabled()
    Faults,              \* what may fail: "poll", "process", "commit"
    MaxCrash,            \* bound: crashes of pods
    MaxRevoke            \* bound: revocations by the broker

ASSUME ConsumerAssumption ==
    /\ None \notin Pod
    /\ LogLen \in Nat /\ MaxBatch \in Nat \ {0}
    /\ WorkersNumber \in Nat \ {0}
    /\ Unlimited \notin Nat
    /\ Targets \subseteq Nat \cup {Unlimited}
    /\ Benchmarks \subseteq BOOLEAN
    /\ Faults \subseteq {"poll", "process", "commit"}
    /\ MaxCrash \in Nat /\ MaxRevoke \in Nat

Offset == 0..LogLen          \* a position: the next record to read
Record == Partition \X (0..(LogLen - 1))

VARIABLES
    committed,   \* committed offset of each partition
    owner,       \* pod each partition is assigned to
    position,    \* the owner's position in the partition
    pc,          \* where each pod's loop is
    upto,        \* end of the pod's batch in each partition, 0 if none
    todo,        \* records of the batch not yet given to a goroutine
    running,     \* records in a goroutine
    failed,      \* a goroutine of the batch returned an error
    processed,   \* totalProcessedBlocks, saturated at the target
    isFinished,  \* benchmark's isFinished flag of the process
    finished,    \* the FinishedWorkersKey counter in Redis
    saved,       \* records whose blocks are in the database
    missed,      \* records some processing or some poll failed for
    crashes, revokes,
    target,      \* the target and the mode of this behaviour, the same in all
    benchmark    \* pods, chosen in Init

broker == <<committed, owner, position>>
batch  == <<upto, todo, running, failed>>
counts == <<processed, isFinished, finished>>
bounds == <<crashes, revokes>>
config == <<target, benchmark>>
vars   == <<broker, pc, batch, counts, saved, missed, bounds, config>>

PC == {"poll", "work", "check", "commit", "done", "dead", "down"}

Reached(c) == processed[c] = target

Owned(c) == {p \in Partition : owner[p] = c}

Init ==
    /\ committed = [p \in Partition |-> 0]
    /\ owner = [p \in Partition |-> None]
    /\ position = [p \in Partition |-> 0]
    /\ pc = [c \in Pod |-> "poll"]
    /\ upto = [c \in Pod |-> [p \in Partition |-> 0]]
    /\ todo = [c \in Pod |-> {}] /\ running = [c \in Pod |-> {}]
    /\ failed = [c \in Pod |-> FALSE]
    /\ processed = [c \in Pod |-> 0]
    /\ isFinished = [c \in Pod |-> FALSE] /\ finished = 0
    /\ saved = {} /\ missed = {}
    /\ crashes = 0 /\ revokes = 0
    /\ target \in Targets /\ benchmark \in Benchmarks

Goto(c, l) == pc' = [pc EXCEPT ![c] = l]

-----------------------------------------------------------------------------
\* The broker: a partition goes to some member, whose position starts at the
\* committed offset; and it is taken away again when the group rebalances.
AssignFirst(p, c) ==
    /\ owner[p] = None /\ pc[c] \notin {"dead", "down"}
    /\ owner' = [owner EXCEPT ![p] = c]
    /\ position' = [position EXCEPT ![p] = 0]
    /\ UNCHANGED <<committed, pc, batch, counts, saved, missed, bounds,
                   config>>
Assign(p, c) ==
    /\ owner[p] = None /\ pc[c] \notin {"dead", "down"}
    /\ owner' = [owner EXCEPT ![p] = c]
    /\ position' = [position EXCEPT ![p] = committed[p]]
    /\ UNCHANGED <<committed, pc, batch, counts, saved, missed, bounds,
                   config>>

Revoke(p) ==
    /\ owner[p] # None /\ revokes < MaxRevoke
    /\ revokes' = revokes + 1
    /\ owner' = [owner EXCEPT ![p] = None]
    /\ UNCHANGED <<committed, position, pc, batch, counts, saved, missed,
                   crashes, config>>

\* A process ends; its member leaves the group.
Leave(c, l) ==
    /\ Goto(c, l)
    /\ owner' = [p \in Partition |-> IF owner[p] = c THEN None ELSE owner[p]]
    /\ todo' = [todo EXCEPT ![c] = {}]
    /\ running' = [running EXCEPT ![c] = {}]
    /\ upto' = [upto EXCEPT ![c] = [p \in Partition |-> 0]]
    /\ failed' = [failed EXCEPT ![c] = FALSE]
    /\ processed' = [processed EXCEPT ![c] = 0]
    /\ isFinished' = [isFinished EXCEPT ![c] = FALSE]
    /\ UNCHANGED <<committed, position, finished, saved, missed, revokes,
                   config>>

Crash(c) ==
    /\ pc[c] \notin {"dead", "down"} /\ crashes < MaxCrash
    /\ crashes' = crashes + 1
    /\ Leave(c, "down")

Restart(c) ==
    /\ pc[c] = "down"
    /\ Goto(c, "poll")
    /\ UNCHANGED <<broker, batch, counts, saved, missed, bounds, config>>

-----------------------------------------------------------------------------
\* The head of the loop: the target is read before anything else, benchmark
\* or not, and reading a target of 0 panics.
Panic(c) ==
    /\ pc[c] = "poll" /\ target = 0
    /\ Leave(c, "dead")
    /\ UNCHANGED crashes

ReturnAtHead(c) ==
    /\ pc[c] = "poll" /\ target # 0 /\ Reached(c)
    /\ Goto(c, "done")
    /\ UNCHANGED <<broker, batch, counts, saved, missed, bounds, config>>

\* PollFetches returns some records of some assigned partitions and moves
\* the positions behind them.  When one partition of the fetch has an error,
\* the records of the others are not looked at: the loop polls again.
Fetched(ends) ==
    {r \in Record : position[r[1]] <= r[2] /\ r[2] < ends[r[1]]}

Poll(c) ==
    /\ pc[c] = "poll" /\ target # 0 /\ ~Reached(c)
    /\ \E ends \in [Partition -> Offset] :
        /\ \A p \in Partition :
             /\ ends[p] >= position[p] /\ ends[p] <= position[p] + MaxBatch
             /\ p \notin Owned(c) => ends[p] = position[p]
        /\ Fetched(ends) # {}
        /\ position' = ends
        /\ \/ /\ todo' = [todo EXCEPT ![c] = Fetched(ends)]
              /\ upto' = [upto EXCEPT ![c] =
                   [p \in Partition |->
                       IF ends[p] > position[p] THEN ends[p] ELSE 0]]
              /\ failed' = [failed EXCEPT ![c] = FALSE]
              /\ Goto(c, "work")
              /\ UNCHANGED missed
           \/ /\ "poll" \in Faults
              /\ missed' = missed \cup Fetched(ends)
              /\ UNCHANGED <<pc, todo, upto, failed>>
    /\ UNCHANGED <<committed, owner, running, counts, saved, bounds, config>>

\* group.Go: records are handed out in the order of their partition, and the
\* call blocks while WorkersNumber goroutines run.  After each the target is
\* read again.
LaunchAgain(c) ==
    /\ pc[c] = "work"
    /\ Cardinality(running[c]) < WorkersNumber
    /\ \E r \in todo[c] : running' = [running EXCEPT ![c] = @ \cup {r}]
    /\ Goto(c, "check")
    /\ UNCHANGED <<broker, upto, todo, failed, counts, saved, missed, bounds,
                   config>>
Launch(c) ==
    /\ pc[c] = "work"
    /\ Cardinality(running[c]) < WorkersNumber
    /\ \E r \in todo[c] :
        /\ \A q \in todo[c] : q[1] = r[1] => r[2] <= q[2]
        /\ todo' = [todo EXCEPT ![c] = @ \ {r}]
        /\ running' = [running EXCEPT ![c] = @ \cup {r}]
    /\ Goto(c, "check")
    /\ UNCHANGED <<broker, upto, failed, counts, saved, missed, bounds,
                   config>>

CheckTarget(c) ==
    /\ pc[c] = "check"
    /\ Goto(c, IF Reached(c) THEN "done" ELSE "work")
    /\ UNCHANGED <<broker, batch, counts, saved, missed, bounds, config>>

\* A goroutine ends.  Its deferred calls count the record, failed or not,
\* and in a benchmark report the pod once the target is reached.
Count(c) ==
    processed' = [processed EXCEPT ![c] =
        IF target = Unlimited \/ Reached(c) THEN @ ELSE @ + 1]

ReportAlways(c) ==
    /\ isFinished' = [isFinished EXCEPT ![c] = TRUE]
    /\ finished' = finished + 1
Report(c) ==
    /\ isFinished' = [isFinished EXCEPT ![c] = TRUE]
    /\ finished' = IF isFinished[c] THEN finished ELSE finished + 1

\* processBlock succeeds, or gives up after its retries; its blocks may have
\* been saved even so.
FinishRecord(c, r) ==
    \/ /\ saved' = saved \cup {r}
       /\ UNCHANGED <<failed, missed>>
    \/ /\ "process" \in Faults
       /\ saved' \in {saved, saved \cup {r}}
       /\ missed' = missed \cup {r}
       /\ failed' = [failed EXCEPT ![c] = TRUE]

Finish(c) ==
    /\ \E r \in running[c] :
        /\ running' = [running EXCEPT ![c] = @ \ {r}]
        /\ FinishRecord(c, r)
    /\ Count(c)
    /\ IF benchmark /\ processed'[c] = target
         THEN Report(c)
         ELSE UNCHANGED <<isFinished, finished>>
    /\ UNCHANGED <<broker, pc, upto, todo, bounds, config>>

\* group.Wait: an error of any goroutine sends the loop back to polling, and
\* in a benchmark nothing is committed.
WaitNone(c) ==
    /\ pc[c] = "work" /\ todo[c] = {}
    /\ Goto(c, IF failed[c] \/ benchmark THEN "poll" ELSE "commit")
    /\ UNCHANGED <<broker, batch, counts, saved, missed, bounds, config>>
Wait(c) ==
    /\ pc[c] = "work" /\ todo[c] = {} /\ running[c] = {}
    /\ Goto(c, IF failed[c] \/ benchmark THEN "poll" ELSE "commit")
    /\ UNCHANGED <<broker, batch, counts, saved, missed, bounds, config>>

\* CommitRecords commits what the batch read, whoever owns the partitions by
\* now.  A failed commit, which may have taken effect, is not repeated.
CommitNext(c) ==
    committed' = [p \in Partition |->
        IF upto[c][p] > 0 THEN upto[c][p] + 1 ELSE committed[p]]
CommitOffsets(c) ==
    committed' = [p \in Partition |->
        IF upto[c][p] > 0 THEN upto[c][p] ELSE committed[p]]

Commit(c) ==
    /\ pc[c] = "commit"
    /\ \/ CommitOffsets(c)
       \/ "commit" \in Faults /\ UNCHANGED committed
    /\ Goto(c, "poll")
    /\ UNCHANGED <<owner, position, batch, counts, saved, missed, bounds,
                   config>>

Step(c) ==
    \/ Panic(c) \/ ReturnAtHead(c) \/ Poll(c) \/ Launch(c) \/ CheckTarget(c)
    \/ Finish(c) \/ Wait(c) \/ Commit(c)

Next ==
    \/ \E p \in Partition : Revoke(p) \/ \E c \in Pod : Assign(p, c)
    \/ \E c \in Pod : Crash(c) \/ Restart(c) \/ Step(c)

Spec == Init /\ [][Next]_vars

\* The broker assigns every partition while the group has a member, pods are
\* restarted, and goroutines run.
Fairness ==
    /\ \A p \in Partition : WF_vars(\E c \in Pod : Assign(p, c))
    /\ \A c \in Pod : WF_vars(Restart(c)) /\ WF_vars(Step(c))
                      /\ WF_vars(Finish(c))
FairSpec == Spec /\ Fairness

-----------------------------------------------------------------------------
TypeOK ==
    /\ committed \in [Partition -> Offset]
    /\ owner \in [Partition -> Pod \cup {None}]
    /\ position \in [Partition -> Offset]
    /\ pc \in [Pod -> PC]
    /\ upto \in [Pod -> [Partition -> Offset]]
    /\ todo \in [Pod -> SUBSET Record]
    /\ running \in [Pod -> SUBSET Record]
    /\ failed \in [Pod -> BOOLEAN]
    /\ processed \in [Pod -> Nat]
    /\ isFinished \in [Pod -> BOOLEAN]
    /\ finished \in Nat
    /\ saved \subseteq Record /\ missed \subseteq Record
    /\ crashes \in Nat /\ revokes \in Nat
    /\ target \in Targets /\ benchmark \in Benchmarks

\* Whatever crashes, is revoked or fails to commit, an offset is committed
\* only over records that are saved or whose failure was reported: no record
\* is skipped because another pod, or another batch, got ahead of it.
Settled == saved \cup missed
CommittedIsSettled ==
    \A r \in Record : r[2] < committed[r[1]] => r \in Settled

\* A committed record is saved.  Holds as long as neither a poll nor the
\* processing of a record fails; the committed offset then covers every
\* record it stands for, which is what a restarted group relies on.
CommittedIsSaved ==
    \A r \in Record : r[2] < committed[r[1]] => r \in saved

\* The committed offset moves back only if the group rebalanced under a
\* batch: crashes, failed commits and failed batches alone never rewind it.
CommitsAdvance ==
    [][revokes = 0 => \A p \in Partition : committed'[p] >= committed[p]]_vars

\* Only a crash or a rebalance makes a record come again: otherwise a record
\* that was processed, or failed, is not processed a second time, not even
\* when its batch or its commit failed.
RepeatsNeedRebalance ==
    [][\A c \in Pod : \A r \in running'[c] \ running[c] :
          crashes = 0 /\ revokes = 0 => r \notin Settled]_vars

\* Every record is saved in the end or its failure reported, however the pods
\* crash and the partitions move: none waits for ever between two pods.
EveryRecordSettled ==
    \A r \in Record : target = Unlimited ~> r \in Settled

\* A pod reports the end of its benchmark once, however many of its
\* goroutines see the target reached; only a restarted pod reports again.
ReportedOnce ==
    crashes = 0 => finished = Cardinality({c \in Pod : isFinished[c]})

-----------------------------------------------------------------------------
\* The group implements a work queue: a poll jumps over no record that is
\* neither settled nor in the same fetch, wherever the partitions moved
\* before; a record leaves a pod's hands only settled or with the pod; and a
\* pod that commits has nothing in its hands.
InHand(c) == todo[c] \cup running[c]

Queue == INSTANCE WorkQueue WITH
            Worker <- Pod, hand <- [c \in Pod |-> InHand(c)]
QueueKept == Queue!Spec

-----------------------------------------------------------------------------
\* The inductive invariant of CommittedIsSettled, in named parts.

\* What lies below the position of an assigned partition is settled or is in
\* its owner's hands; below the end of a batch, in the hands of its pod.
PositionInv ==
    \A r \in Record :
        owner[r[1]] # None /\ r[2] < position[r[1]]
            => r \in Settled \cup InHand(owner[r[1]])
BatchInv ==
    \A c \in Pod : \A r \in Record :
        r[2] < upto[c][r[1]] => r \in Settled \cup InHand(c)

\* Between batches a pod has nothing in hand, and a pod that commits has
\* finished its batch.
HandsInv ==
    \A c \in Pod : pc[c] \in {"poll", "commit", "down", "dead"} => InHand(c) = {}

-----------------------------------------------------------------------------
\* The inductive invariants of the other properties.

\* With a target of 0 no pod ever polls: it panics at the head of its loop.
NoWorkInv ==
    target = 0 => \A c \in Pod : InHand(c) = {} /\ ~isFinished[c]

\* Until the first revocation a batch belongs to the owner of its partitions,
\* whose position is where the batch ends while it is worked on.
OwnBatchInv ==
    revokes = 0 =>
        /\ \A p \in Partition : owner[p] # None => committed[p] <= position[p]
        /\ \A c \in Pod : \A p \in Partition : upto[c][p] > 0 =>
              /\ owner[p] = c
              /\ pc[c] \in {"work", "check", "commit"} => upto[c][p] = position[p]

\* Until the first crash or revocation a partition is assigned once, unless
\* the pods panic over a target of 0, and from its beginning.
AssignedOnce ==
    \A p \in Partition :
        owner[p] = None \/ target = 0 => position[p] = 0 /\ committed[p] = 0

\* The positions then only move forward: what was read lies below them, and
\* is in one place, waiting, running or settled.
ReadBelow ==
    /\ \A r \in Settled : r[2] < position[r[1]]
    /\ \A c \in Pod : \A r \in InHand(c) : r[2] < position[r[1]]
WaitsOnce ==
    \A c \in Pod :
        /\ todo[c] \cap Settled = {}
        /\ \A d \in Pod : /\ todo[c] \cap running[d] = {}
                          /\ c # d => todo[c] \cap todo[d] = {}

Undisturbed == crashes = 0 /\ revokes = 0
ReadOnceInv == Undisturbed => AssignedOnce /\ ReadBelow /\ WaitsOnce
=============================================================================
