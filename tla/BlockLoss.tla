----------------------------- MODULE BlockLoss -------------------------------
(***************************************************************************)
(* What becomes of the block numbers over several terms of leadership.  A  *)
(* term begins behind the last saved master block, callbacks/unseen.go:31, *)
(* while consumers save blocks in any order: a number an ended term still  *)
(* holds may lie below, and no later term takes it up.                     *)
(*                                                                         *)
(* BlockProducer with two history variables that say which numbers fell    *)
(* to the race of masterSeq.Add and masterSeq.Load.                        *)
(***************************************************************************)
EXTENDS BlockProducer

VARIABLES
    loaded,   \* by term: the present value of masterSeq was sent
    skipped   \* numbers masterSeq had, and passed, without being sent

lossVars == <<vars, loaded, skipped>>

LossInit ==
    /\ Init
    /\ loaded = [t \in Term |-> TRUE]
    /\ skipped = {}

Pushed(t)   == \E w \in Worker : pc[t][w] = "push" /\ pc'[t][w] = "select"
Advanced(t) == Started(t) /\ masterSeq'[t] # masterSeq[t]

LossNext ==
    /\ Next
    /\ loaded' = [t \in Term |-> IF Advanced(t) THEN FALSE
                                 ELSE loaded[t] \/ Pushed(t)]
    /\ skipped' = skipped \cup {masterSeq[t] : t \in {s \in Term : Advanced(s) /\ ~loaded[s]}}

LossSpec == LossInit /\ [][LossNext]_lossVars

\* Below the last saved block a number is missing from the topic only if it
\* is the one a term starts from, was skipped by the race, or is in the hands
\* of a term: one that runs, and will write it, or one that ended, of which
\* its channel keeps no more than its workers had.
LossIsExplained ==
    \A b \in saved : \A n \in FromBlock..b :
        \/ n \in topic \cup skipped
        \/ \E t \in Term : n = from[t] \/ n \in Tokens(t)

-----------------------------------------------------------------------------
\* The inductive invariant of LossIsExplained, in named parts.

\* The numbers a term has taken on: those it first sent and those sent after
\* masterSeq counted them.
Top(t)     == IF loaded[t] THEN masterSeq[t] ELSE masterSeq[t] - 1
TakenOn(t) == (from[t] + 1)..Top(t)

\* A term that has not begun has nothing to load.
UnloadedInv == \A t \in Term : ~Started(t) => loaded[t]

\* What a term holds it took on, and what it writes is within the benchmark.
TokensTaken ==
    \A t \in Term : Started(t) => Tokens(t) \subseteq TakenOn(t)
WritesWithin ==
    /\ \A b \in topic : ~Beyond(b)
    /\ \A t \in Term, w \in Worker :
          pc[t][w] \in {"fetch", "produce", "requeue"} => ~Beyond(id[t][w])

\* Every number of the topic was taken on by some term.
TopicTaken == \A b \in topic : \E t \in Term : Started(t) /\ b \in TakenOn(t)

\* What a term took on is written, was skipped, is still held or is beyond
\* the benchmark.
TakenAccounted ==
    \A t \in Term : Started(t) => \A n \in TakenOn(t) :
        n \in topic \cup skipped \cup Tokens(t) \/ Beyond(n)

\* No number lies between the terms: up to its beginning each term has the
\* ranges of earlier ones.
NoGapBetween ==
    \A t \in Term : Started(t) => \A n \in FromBlock..from[t] :
        \E s \in Term : Started(s) /\ (n = from[s] \/ n \in TakenOn(s))

LossInv ==
    /\ loaded \in [Term -> BOOLEAN] /\ UnloadedInv
    /\ TokensTaken /\ WritesWithin /\ TopicTaken /\ TakenAccounted
    /\ NoGapBetween
=============================================================================
