--------------------------- MODULE BlockProducer ----------------------------
(***************************************************************************)
(* The leader's side of indexing, callbacks/unseen.go: each time a pod     *)
(* starts leading it reads the last saved master block from the database   *)
(* and starts ProduceBlockIdsLoop, whose workers pass block numbers around *)
(* in one buffered channel, look the block up in the blockchain and write  *)
(* it to the topic unseen-blocks.                                          *)
(*                                                                         *)
(* A Term is one run of that loop: it has its own channel, its own counter *)
(* masterSeq, its own workers and its own context.  Stopping a term only   *)
(* cancels the context, so the workers of an ended term may still finish   *)
(* what they do while the next term, on this pod or another, has started.  *)
(*                                                                         *)
(* The topic is the set of block numbers it holds, and what consumers did  *)
(* with them is the set of saved master blocks.                            *)
(*                                                                         *)
(* IgnoreCancel, DropToken and AdvanceTwice are faulty variants of the     *)
(* operator that follows each of them; no action uses them.                *)
(***************************************************************************)
EXTENDS Naturals, Sequences, FiniteSets, Functions

CONSTANTS
    Worker,         \* the workers of one loop (s.Workers many)
    FromBlock,      \* s.FromBlock
    FirstHead,      \* the chain's last master block when indexing begins
    MaxHead,        \* bound: the last master block the chain ever has
    MaxTerm,        \* bound: number of leadership terms
    MaxLost,        \* bound: produce calls that fail after taking effect
    Targets         \* choices of benchmark.TargetBlockID(), 0: no benchmark

\* NewService raises Workers to 1 and FromBlock to 2.
ASSUME ProducerAssumption ==
    /\ IsFiniteSet(Worker) /\ Worker # {}
    /\ FromBlock \in Nat /\ FromBlock >= 2
    /\ FirstHead \in Nat /\ MaxHead \in Nat
    /\ FromBlock <= FirstHead /\ FirstHead <= MaxHead
    /\ MaxTerm \in Nat /\ MaxLost \in Nat
    /\ Targets \subseteq Nat

Term == 1..MaxTerm
W    == Cardinality(Worker)
Unset == 0                \* no block number: a worker holds none

VARIABLES
    head,       \* last master block of the chain
    topic,      \* block numbers written to unseen-blocks
    saved,      \* master blocks some consumer saved
    from,       \* fromBlock of each started term, Unset before its start
    cancelled,  \* terms whose leaderCancel was called
    masterSeq,  \* the counter of each term
    blockIds,   \* the channel of each term
    pc,         \* where each worker is
    id,         \* the block number the worker holds
    dropped,    \* tokens thrown away because the benchmark is over
    lost,       \* produce calls that failed after taking effect, so far
    target      \* the last block of the benchmark, chosen in Init

loopVars == <<masterSeq, blockIds, pc, id>>
vars == <<head, topic, saved, from, cancelled, masterSeq, blockIds, pc, id,
          dropped, lost, target>>

PC == {"select", "fetch", "produce", "requeue", "advance", "push", "exit"}

\* Places where a worker holds a token (a block number, or its right to push
\* the next one).
Holding == {"fetch", "produce", "requeue", "advance", "push"}

Holders(t) == {w \in Worker : pc[t][w] \in Holding}
Started(t) == from[t] # Unset

Init ==
    /\ head = FirstHead
    /\ topic = {} /\ saved = {}
    /\ from = [t \in Term |-> Unset]
    /\ cancelled = {}
    /\ masterSeq = [t \in Term |-> 0]
    /\ blockIds = [t \in Term |-> <<>>]
    /\ pc = [t \in Term |-> [w \in Worker |-> "select"]]
    /\ id = [t \in Term |-> [w \in Worker |-> Unset]]
    /\ dropped = [t \in Term |-> 0]
    /\ lost = 0
    /\ target \in Targets

-----------------------------------------------------------------------------
\* The surroundings: the chain grows, and the consumers save blocks of the
\* topic in any order.
NewBlock ==
    /\ head < MaxHead
    /\ head' = head + 1
    /\ UNCHANGED <<topic, saved, from, cancelled, loopVars, dropped, lost,
                   target>>

Save ==
    /\ \E b \in topic \ saved : saved' = saved \cup {b}
    /\ UNCHANGED <<head, topic, from, cancelled, loopVars, dropped, lost,
                   target>>

-----------------------------------------------------------------------------
\* OnStartLeading: the last saved block decides where the term begins, and
\* the loop fills its channel before the workers run.
LastMaster == {b \in saved : \A other \in saved : other <= b}
NextBlock  == IF saved = {} THEN {FromBlock} ELSE {b + 1 : b \in LastMaster}

StartLeading(t) ==
    /\ ~Started(t)
    /\ \A s \in Term : s < t => Started(s)
    /\ \E b \in NextBlock :
        /\ from' = [from EXCEPT ![t] = b]
        /\ masterSeq' = [masterSeq EXCEPT ![t] = b + W]
        /\ blockIds' = [blockIds EXCEPT ![t] = [i \in 1..W |-> b + i]]
    /\ UNCHANGED <<head, topic, saved, cancelled, pc, id, dropped, lost,
                   target>>

\* OnStopLeading.
StopLeading(t) ==
    /\ Started(t) /\ t \notin cancelled
    /\ cancelled' = cancelled \cup {t}
    /\ UNCHANGED <<head, topic, saved, from, loopVars, dropped, lost,
                   target>>

-----------------------------------------------------------------------------
\* One worker of a term.

At(t, w, l) == pc[t][w] = l
Move(t, w, l) == pc' = [pc EXCEPT ![t][w] = l]
Hold(t, w, b) == id' = [id EXCEPT ![t][w] = b]

Beyond(b) == target # 0 /\ b > target

\* select: a token is ready.  In a benchmark a worker whose block is beyond
\* the target returns and keeps the token from the others.
Take(t, w) ==
    /\ Started(t) /\ At(t, w, "select") /\ blockIds[t] # <<>>
    /\ blockIds' = [blockIds EXCEPT ![t] = Tail(@)]
    /\ \/ /\ Beyond(Head(blockIds[t]))
          /\ Move(t, w, "exit")
          /\ dropped' = [dropped EXCEPT ![t] = @ + 1]
          /\ UNCHANGED id
       \/ /\ ~Beyond(Head(blockIds[t]))
          /\ Move(t, w, "fetch")
          /\ Hold(t, w, Head(blockIds[t]))
          /\ UNCHANGED dropped
    /\ UNCHANGED <<head, topic, saved, from, cancelled, masterSeq, lost,
                   target>>

\* select: the context is done.  When a token is ready too, select picks
\* either.
IgnoreCancel(t, w) == FALSE
Quit(t, w) ==
    /\ At(t, w, "select") /\ t \in cancelled
    /\ Move(t, w, "exit")
    /\ UNCHANGED <<head, topic, saved, from, cancelled, masterSeq, blockIds,
                   id, dropped, lost, target>>

\* GetUnseenBlocks: finds the block if the chain has it, fails for any
\* reason.
Fetch(t, w) ==
    /\ At(t, w, "fetch")
    /\ \/ id[t][w] <= head /\ Move(t, w, "produce")
       \/ Move(t, w, "requeue")
    /\ UNCHANGED <<head, topic, saved, from, cancelled, masterSeq, blockIds,
                   id, dropped, lost, target>>

\* ProduceSync: acknowledged; or failed, possibly after the record was
\* written (the answer is lost, or the context ends while it is in flight).
Written(t, w) == topic' = topic \cup {id[t][w]}

Produce(t, w) ==
    /\ At(t, w, "produce")
    /\ \/ Written(t, w) /\ Move(t, w, "advance") /\ UNCHANGED lost
       \/ Move(t, w, "requeue") /\ UNCHANGED <<topic, lost>>
       \/ /\ lost < MaxLost /\ lost' = lost + 1
          /\ Written(t, w) /\ Move(t, w, "requeue")
    /\ UNCHANGED <<head, saved, from, cancelled, masterSeq, blockIds, id,
                   dropped, target>>

\* blockIds <- b blocks while the channel is full.
Send(t, w, b) ==
    /\ Len(blockIds[t]) < W
    /\ blockIds' = [blockIds EXCEPT ![t] = Append(@, b)]
    /\ Move(t, w, "select")
    /\ Hold(t, w, Unset)

\* After an error the same block goes back to the channel.
DropToken(t, w) ==
    /\ At(t, w, "requeue")
    /\ Move(t, w, "select")
    /\ Hold(t, w, Unset)
    /\ UNCHANGED <<head, topic, saved, from, cancelled, masterSeq, blockIds,
                   dropped, lost, target>>
Requeue(t, w) ==
    /\ At(t, w, "requeue")
    /\ Send(t, w, id[t][w])
    /\ UNCHANGED <<head, topic, saved, from, cancelled, masterSeq, dropped,
                   lost, target>>

\* After a success masterSeq.Add(1), and in a separate step the worker sends
\* whatever masterSeq.Load() returns by then.
AdvanceTwice(t, w) ==
    /\ At(t, w, "advance")
    /\ masterSeq' = [masterSeq EXCEPT ![t] = @ + 2]
    /\ Move(t, w, "push")
    /\ UNCHANGED <<head, topic, saved, from, cancelled, blockIds, id, dropped,
                   lost, target>>
Advance(t, w) ==
    /\ At(t, w, "advance")
    /\ masterSeq' = [masterSeq EXCEPT ![t] = @ + 1]
    /\ Move(t, w, "push")
    /\ UNCHANGED <<head, topic, saved, from, cancelled, blockIds, id, dropped,
                   lost, target>>

Push(t, w) ==
    /\ At(t, w, "push")
    /\ Send(t, w, masterSeq[t])
    /\ UNCHANGED <<head, topic, saved, from, cancelled, masterSeq, dropped,
                   lost, target>>

Step(t, w) ==
    \/ Take(t, w) \/ Quit(t, w) \/ Fetch(t, w) \/ Produce(t, w)
    \/ Requeue(t, w) \/ Advance(t, w) \/ Push(t, w)

Next ==
    \/ NewBlock \/ Save
    \/ \E t \in Term : StartLeading(t) \/ StopLeading(t)
    \/ \E t \in Term, w \in Worker : Step(t, w)

Spec == Init /\ [][Next]_vars

\* The runtime runs every worker, and select picks a ready case at random, so
\* a worker that finds the context done again and again returns at last.
\* Outages of the chain and of Kafka end: a lookup of an existing block and a
\* write that are tried again and again succeed at last.
WorkerFairness(t, w) ==
    /\ WF_vars(Step(t, w))
    /\ SF_vars(Quit(t, w))
Recovery(t, w) ==
    /\ SF_vars(Fetch(t, w) /\ pc'[t][w] = "produce")
    /\ SF_vars(Produce(t, w) /\ pc'[t][w] = "advance")

FairSpec == Spec /\ \A t \in Term, w \in Worker : WorkerFairness(t, w)
RecoverySpec ==
    /\ FairSpec
    /\ WF_vars(NewBlock)
    /\ \A t \in Term, w \in Worker : Recovery(t, w)

-----------------------------------------------------------------------------
TypeOK ==
    /\ head \in Nat
    /\ topic \subseteq Nat /\ saved \subseteq topic
    /\ from \in [Term -> Nat]
    /\ cancelled \subseteq Term
    /\ masterSeq \in [Term -> Nat]
    /\ \A t \in Term : Started(t) => masterSeq[t] # Unset
    /\ blockIds \in [Term -> Seq(Nat \ {Unset})]
    /\ pc \in [Term -> [Worker -> PC]]
    /\ id \in [Term -> [Worker -> Nat]]
    /\ \A t \in Term : \A w \in Holders(t) : id[t][w] # Unset
    /\ dropped \in [Term -> Nat]
    /\ lost \in Nat
    /\ target \in Targets

\* The tokens of a loop are as many as its workers, in the channel or in a
\* worker's hands.  So the channel, whose capacity is that number, is never
\* full when a worker sends: no send ever blocks, and a retry cannot
\* deadlock the workers.
TokensConserved ==
    \A t \in Term : Started(t) =>
        Len(blockIds[t]) + Cardinality(Holders(t)) + dropped[t] = W

\* A term that has not begun has nothing: the loop's goroutines start in
\* OnStartLeading, and cancelling needs a context.
UnstartedInv ==
    \A t \in Term : ~Started(t) =>
        /\ t \notin cancelled
        /\ blockIds[t] = <<>>
        /\ dropped[t] = 0
        /\ \A w \in Worker : pc[t][w] = "select"

\* The block numbers a term still has to write.
Tokens(t) ==
    Range(blockIds[t]) \cup
        {id[t][w] : w \in {v \in Worker :
                               pc[t][v] \in {"fetch", "produce", "requeue"}}}

\* A loop ends: after leaderCancel all its workers return, and in a benchmark
\* every worker meets a number beyond the target.
LoopEnds ==
    \A t \in Term :
        t \in cancelled \/ (target # 0 /\ Started(t))
            ~> \A w \in Worker : pc[t][w] = "exit"

\* While the term lasts, every number it took on is written at last.
TokenEventuallyProduced ==
    \A t \in Term : \A b \in FromBlock..MaxHead :
        b \in Tokens(t) ~> b \in topic \/ t \in cancelled \/ Beyond(b)

\* No number above fromBlock is skipped: up to masterSeq each is written,
\* waits to be written, or is about to be sent.
NoBlockSkipped ==
    \A t \in Term : Started(t) =>
        \A b \in (from[t] + 1)..masterSeq[t] :
            \/ b \in topic \cup Tokens(t)
            \/ b = masterSeq[t] /\ \E w \in Worker : pc[t][w] = "push"
=============================================================================
