----------------------------- MODULE WorkQueue -------------------------------
(***************************************************************************)
(* What the topic unseen-blocks and its group of consumers promise: a      *)
(* queue that hands records to workers.  A worker takes records only       *)
(* behind which nothing is left over; each record in its hands ends as     *)
(* saved or as missed, that is, reported as failed, or is given back when  *)
(* the worker dies.  The queue forgets, by committing an offset, only      *)
(* what is saved or missed.                                                *)
(*                                                                         *)
(* Records may be taken more than once, and by several workers at a time.  *)
(* BlockConsumer implements this specification.                            *)
(***************************************************************************)
EXTENDS Naturals

CONSTANTS Worker, Partition, LogLen

Offset == 0..LogLen
Record == Partition \X (0..(LogLen - 1))

VARIABLES
    committed,   \* by partition: where reading starts anew
    hand,        \* by worker: the records it has taken and not finished
    saved, missed

vars == <<committed, hand, saved, missed>>

Settled == saved \cup missed

Init ==
    /\ committed = [p \in Partition |-> 0]
    /\ hand = [c \in Worker |-> {}]
    /\ saved = {} /\ missed = {}

Before(q, r) == q[1] = r[1] /\ q[2] < r[2]
NothingLeftBehind(S) ==
    \A r \in S : \A q \in Record : Before(q, r) => q \in S \cup Settled

\* A worker with empty hands takes the next records, or they are lost on
\* their way to it.
Take(c, S) ==
    /\ hand[c] = {} /\ S # {} /\ NothingLeftBehind(S)
    /\ \/ hand' = [hand EXCEPT ![c] = S] /\ UNCHANGED missed
       \/ missed' = missed \cup S /\ UNCHANGED hand
    /\ UNCHANGED <<committed, saved>>

\* One record is finished: saved, or missed, or, when it failed after it was
\* saved, both.
Finish(c, r) ==
    /\ r \in hand[c]
    /\ hand' = [hand EXCEPT ![c] = @ \ {r}]
    /\ saved' \in {saved, saved \cup {r}}
    /\ missed' \in {missed, missed \cup {r}}
    /\ r \in Settled'
    /\ UNCHANGED committed

Die(c) ==
    /\ hand' = [hand EXCEPT ![c] = {}]
    /\ UNCHANGED <<committed, saved, missed>>

\* A worker with empty hands commits.  The offsets may lie behind those
\* another worker committed.
Commit(c) ==
    /\ hand[c] = {}
    /\ committed' \in [Partition -> Offset]
    /\ \A r \in Record : r[2] < committed'[r[1]] => r \in Settled
    /\ UNCHANGED <<hand, saved, missed>>

Next ==
    \E c \in Worker :
        \/ \E S \in SUBSET Record : Take(c, S)
        \/ \E r \in Record : Finish(c, r)
        \/ Die(c) \/ Commit(c)

Spec == Init /\ [][Next]_vars
=============================================================================
