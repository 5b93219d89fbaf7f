------------------------ MODULE BlockProducerProofs -------------------------
(***************************************************************************)
(* What BlockProducer guarantees for every number of workers, of blocks    *)
(* and of leadership terms: type correctness, that the tokens of a loop    *)
(* are conserved, so that no send on its channel ever blocks, that a block *)
(* number leaves a loop only by being written, and, with the history of    *)
(* BlockLoss, what becomes of the numbers below the last saved block.      *)
(***************************************************************************)
EXTENDS BlockLoss, FiniteSetTheorems, TLAPS

\* NewService leaves at least one worker, and finitely many.
LEMMA WorkersCounted == W \in Nat \ {0}
BY ProducerAssumption, FS_CardinalityType, FS_EmptySet DEF W

\* Whatever OnStartLeading reads from the database, a term begins at a block
\* number, never at Unset.
LEMMA NextBlockIsNumber ==
  ASSUME saved \subseteq Nat, NEW b \in NextBlock
  PROVE  b \in Nat \ {Unset}
BY ProducerAssumption DEF NextBlock, LastMaster, Unset

-----------------------------------------------------------------------------
\* Every state has its declared type, and a worker that holds a token holds a
\* block number.
TypeInv == TypeOK /\ UnstartedInv

\* Where a worker goes, every other worker stays.
LEMMA MoveEffect ==
  ASSUME pc \in [Term -> [Worker -> PC]], NEW t \in Term, NEW w \in Worker,
         NEW l \in PC, Move(t, w, l)
  PROVE  /\ pc' \in [Term -> [Worker -> PC]]
         /\ pc'[t][w] = l
         /\ \A s \in Term, v \in Worker :
               s # t \/ v # w => pc'[s][v] = pc[s][v]
BY DEF Move

\* What a worker holds, no other worker's step changes.
LEMMA HoldEffect ==
  ASSUME id \in [Term -> [Worker -> Nat]], NEW t \in Term, NEW w \in Worker,
         NEW b \in Nat, Hold(t, w, b)
  PROVE  /\ id' \in [Term -> [Worker -> Nat]]
         /\ id'[t][w] = b
         /\ \A s \in Term, v \in Worker :
               s # t \/ v # w => id'[s][v] = id[s][v]
BY DEF Hold

\* Only a started term steps: a worker that is past its select has started,
\* and only a started term has tokens or a context to cancel.
LEMMA StepperStarted ==
  ASSUME TypeInv, NEW t \in Term, NEW w \in Worker, Step(t, w)
  PROVE  Started(t)
BY DEF TypeInv, UnstartedInv, Step, Take, Quit, Fetch, Produce, Requeue,
       Advance, Push, At

\* A step of one term's worker leaves the other terms alone.
LEMMA StepOfTerm ==
  ASSUME TypeOK, NEW t \in Term, NEW w \in Worker, Step(t, w),
         NEW s \in Term, s # t
  PROVE  /\ blockIds'[s] = blockIds[s] /\ dropped'[s] = dropped[s]
         /\ pc'[s] = pc[s] /\ id'[s] = id[s]
<1> USE DEF TypeOK, Move, Hold, Send
<1>1. CASE Take(t, w)
  BY <1>1 DEF Take
<1>2. CASE Quit(t, w) \/ Advance(t, w)
  BY <1>2 DEF Quit, Advance
<1>3. CASE Fetch(t, w)
  BY <1>3 DEF Fetch
<1>4. CASE Produce(t, w)
  BY <1>4 DEF Produce
<1>5. CASE Requeue(t, w)
  BY <1>5 DEF Requeue
<1>6. CASE Push(t, w)
  BY <1>6 DEF Push
<1> QED
  BY <1>1, <1>2, <1>3, <1>4, <1>5, <1>6 DEF Step

\* A step of a worker keeps all it can disturb well typed.
LEMMA TypeStep ==
  ASSUME TypeInv, NEW t \in Term, NEW w \in Worker, Step(t, w)
  PROVE  TypeInv'
<1> USE DEF TypeInv, TypeOK
<1> DEFINE WorkersInv ==
             /\ pc' \in [Term -> [Worker -> PC]]
             /\ id' \in [Term -> [Worker -> Nat]]
             /\ \A s \in Term, v \in Worker :
                   pc'[s][v] \in Holding => id'[s][v] # Unset
<1>0. \A s \in Term, v \in Worker :
        pc[s][v] \in Holding => id[s][v] # Unset
  BY DEF Holders
<1>1. Started(t)
  BY StepperStarted
<1>2. from' = from /\ cancelled' = cancelled /\ head' = head /\ saved' = saved
  BY DEF Step, Take, Quit, Fetch, Produce, Requeue, Advance, Push
<1>3. \A s \in Term : s # t =>
        /\ blockIds'[s] = blockIds[s] /\ dropped'[s] = dropped[s]
        /\ pc'[s] = pc[s]
  BY StepOfTerm
<1>4. UnstartedInv'
  BY <1>1, <1>2, <1>3 DEF UnstartedInv, Started
<1>5. /\ topic' \subseteq Nat /\ saved' \subseteq topic'
      /\ masterSeq' \in [Term -> Nat] /\ dropped' \in [Term -> Nat]
      /\ lost' \in Nat
      /\ \A s \in Term : Started(s) => masterSeq'[s] # Unset
  <2>1. CASE Produce(t, w)
    <3>1. id[t][w] \in Nat
      OBVIOUS
    <3>2. topic' = topic \/ topic' = topic \cup {id[t][w]}
      BY <2>1 DEF Produce, Written
    <3>3. lost' \in Nat /\ UNCHANGED <<masterSeq, dropped>>
      BY <2>1 DEF Produce
    <3> QED
      BY <1>2, <3>1, <3>2, <3>3
  <2>2. CASE Advance(t, w)
    BY <2>2, <1>1 DEF Advance, Unset
  <2>3. CASE Take(t, w)
    <3>1. dropped' = dropped \/ dropped' = [dropped EXCEPT ![t] = @ + 1]
      BY <2>3 DEF Take
    <3>0. dropped[t] + 1 \in Nat
      OBVIOUS
    <3>3. dropped' \in [Term -> Nat]
      BY <3>0, <3>1
    <3>2. UNCHANGED <<topic, masterSeq, lost>>
      BY <2>3 DEF Take
    <3> QED
      BY <1>2, <3>2, <3>3
  <2>4. CASE Quit(t, w) \/ Fetch(t, w) \/ Requeue(t, w) \/ Push(t, w)
    BY <2>4 DEF Quit, Fetch, Requeue, Push
  <2> QED
    BY <2>1, <2>2, <2>3, <2>4 DEF Step
<1>6. ASSUME NEW b \in Nat \ {Unset}, Send(t, w, b)
      PROVE  blockIds' \in [Term -> Seq(Nat \ {Unset})]
  <2>1. Append(blockIds[t], b) \in Seq(Nat \ {Unset})
    OBVIOUS
  <2> QED
    BY <1>6, <2>1 DEF Send
<1>7. ASSUME NEW l \in PC, l \notin Holding, Move(t, w, l),
             UNCHANGED id \/ Hold(t, w, Unset)
      PROVE  WorkersInv
  <2>1. /\ pc' \in [Term -> [Worker -> PC]] /\ pc'[t][w] = l
        /\ \A s \in Term, v \in Worker :
              s # t \/ v # w => pc'[s][v] = pc[s][v]
    BY <1>7, MoveEffect
  <2>2. /\ id' \in [Term -> [Worker -> Nat]]
        /\ \A s \in Term, v \in Worker :
              s # t \/ v # w => id'[s][v] = id[s][v]
    <3>1. CASE UNCHANGED id
      BY <3>1
    <3>2. CASE Hold(t, w, Unset)
      BY <3>2, HoldEffect, Unset \in Nat DEF Unset
    <3> QED
      BY <1>7, <3>1, <3>2
  <2> QED
    <3> HIDE DEF TypeOK, TypeInv
    <3> QED
      BY <1>0, <1>7, <2>1, <2>2 DEF WorkersInv
<1>8. ASSUME NEW l \in Holding, Move(t, w, l), id[t][w] # Unset, UNCHANGED id
      PROVE  WorkersInv
  <2>1. l \in PC
    BY DEF PC, Holding
  <2>2. /\ pc' \in [Term -> [Worker -> PC]]
        /\ \A s \in Term, v \in Worker :
              s # t \/ v # w => pc'[s][v] = pc[s][v]
    BY <1>8, <2>1, MoveEffect
  <2> QED
    BY <1>0, <1>8, <2>2
<1>9. blockIds' \in [Term -> Seq(Nat \ {Unset})] /\ WorkersInv
  <2>1. CASE Take(t, w)
    <3>1. /\ Head(blockIds[t]) \in Nat \ {Unset}
          /\ Tail(blockIds[t]) \in Seq(Nat \ {Unset})
      BY <2>1 DEF Take
    <3>2. blockIds' \in [Term -> Seq(Nat \ {Unset})]
      BY <2>1, <3>1 DEF Take
    <3>3. CASE Move(t, w, "exit") /\ UNCHANGED id
      BY <3>2, <3>3, <1>7 DEF PC, Holding
    <3>4. CASE Move(t, w, "fetch") /\ Hold(t, w, Head(blockIds[t]))
      <4>1. "fetch" \in PC
        BY DEF PC
      <4>2. /\ pc' \in [Term -> [Worker -> PC]]
            /\ \A s \in Term, v \in Worker :
                  s # t \/ v # w => pc'[s][v] = pc[s][v]
        BY <3>4, <4>1, MoveEffect
      <4>3. /\ id' \in [Term -> [Worker -> Nat]]
            /\ id'[t][w] # Unset
            /\ \A s \in Term, v \in Worker :
                  s # t \/ v # w => id'[s][v] = id[s][v]
        BY <3>1, <3>4, HoldEffect
      <4> QED
        <5> HIDE DEF TypeOK, TypeInv
        <5> QED
          BY <1>0, <3>2, <4>2, <4>3 DEF WorkersInv
    <3> QED
      BY <2>1, <3>3, <3>4 DEF Take
  <2>2. CASE Quit(t, w)
    BY <2>2, <1>7 DEF Quit, PC, Holding
  <2>3. CASE Fetch(t, w)
    BY <2>3, <1>8 DEF Fetch, Holding, Holders, At
  <2>4. CASE Produce(t, w)
    BY <2>4, <1>8 DEF Produce, Holding, Holders, At
  <2>5. CASE Requeue(t, w)
    <3>1. id[t][w] \in Nat \ {Unset}
      BY <2>5 DEF Requeue, At, Holders, Holding
    <3> QED
      BY <2>5, <3>1, <1>6, <1>7 DEF Requeue, Send, PC, Holding
  <2>6. CASE Advance(t, w)
    BY <2>6, <1>8 DEF Advance, Holding, Holders, At
  <2>7. CASE Push(t, w)
    <3>1. masterSeq[t] \in Nat \ {Unset}
      BY <1>1
    <3> QED
      BY <2>7, <3>1, <1>6, <1>7 DEF Push, Send, PC, Holding
  <2> QED
    BY <2>1, <2>2, <2>3, <2>4, <2>5, <2>6, <2>7 DEF Step
<1>10. target' \in Targets
  BY DEF Step, Take, Quit, Fetch, Produce, Requeue, Advance, Push
<1> QED
  BY <1>2, <1>4, <1>5, <1>9, <1>10 DEF Holders, Started, WorkersInv

THEOREM ProducerTypeCorrect == Spec => [](TypeOK /\ UnstartedInv)
<1>1. Init => TypeInv
  BY ProducerAssumption
  DEF Init, TypeInv, TypeOK, UnstartedInv, Started, Holders, Holding, PC, Unset
<1>2. TypeInv /\ [Next]_vars => TypeInv'
  <2> SUFFICES ASSUME TypeInv, [Next]_vars PROVE TypeInv'
    OBVIOUS
  <2> USE WorkersCounted DEF TypeInv, TypeOK, UnstartedInv, Started, Holders, loopVars
  <2>1. CASE NewBlock
    BY <2>1 DEF NewBlock
  <2>2. CASE Save
    BY <2>2 DEF Save
  <2>3. ASSUME NEW t \in Term, StartLeading(t) PROVE TypeInv'
    <3>1. PICK b \in NextBlock :
             /\ from' = [from EXCEPT ![t] = b]
             /\ masterSeq' = [masterSeq EXCEPT ![t] = b + W]
             /\ blockIds' = [blockIds EXCEPT ![t] = [i \in 1..W |-> b + i]]
      BY <2>3 DEF StartLeading
    <3>2. b \in Nat /\ b # 0
      BY NextBlockIsNumber DEF Unset
    <3>3. [i \in 1..W |-> b + i] \in Seq(Nat \ {Unset})
      BY <3>2 DEF Unset
    <3>4. b + W \in Nat \ {Unset}
      BY <3>2 DEF Unset
    <3>5. TypeOK'
      BY <2>3, <3>1, <3>2, <3>3, <3>4 DEF StartLeading, Unset
    <3> QED
      BY <2>3, <3>1, <3>2, <3>5 DEF StartLeading, Unset
  <2>4. ASSUME NEW t \in Term, StopLeading(t) PROVE TypeInv'
    BY <2>4 DEF StopLeading
  <2>5. ASSUME NEW t \in Term, NEW w \in Worker, Step(t, w) PROVE TypeInv'
    BY <2>5, TypeStep
  <2>6. CASE UNCHANGED vars
    BY <2>6 DEF vars
  <2> QED
    BY <2>1, <2>2, <2>3, <2>4, <2>5, <2>6 DEF Next
<1> QED
  BY <1>1, <1>2, PTL DEF Spec, TypeInv

-----------------------------------------------------------------------------
\* The workers that hold a token are finitely many, and a step adds or
\* removes the one that moves.
LEMMA HoldersFinite ==
  ASSUME NEW t \in Term
  PROVE  IsFiniteSet(Holders(t)) /\ Cardinality(Holders(t)) \in Nat
BY ProducerAssumption, FS_Subset, FS_CardinalityType DEF Holders

\* A worker that moves into or out of the places with a token changes the
\* number of holders by one, and otherwise leaves it.
LEMMA HoldersAfterMove ==
  ASSUME TypeOK, NEW t \in Term, NEW w \in Worker, NEW l \in PC,
         Move(t, w, l)
  PROVE  Cardinality(Holders(t))' =
            Cardinality(Holders(t))
              + (IF l \in Holding /\ w \notin Holders(t) THEN 1 ELSE 0)
              - (IF l \notin Holding /\ w \in Holders(t) THEN 1 ELSE 0)
<1>1. /\ pc'[t][w] = l
      /\ \A v \in Worker : v # w => pc'[t][v] = pc[t][v]
  BY MoveEffect DEF TypeOK
<1>2. IsFiniteSet(Holders(t)) /\ Cardinality(Holders(t)) \in Nat
  BY HoldersFinite
<1>3. CASE l \in Holding
  <2>1. Holders(t)' = Holders(t) \cup {w}
    BY <1>1, <1>3 DEF Holders
  <2>2. Cardinality(Holders(t) \cup {w}) =
          IF w \in Holders(t) THEN Cardinality(Holders(t))
                              ELSE Cardinality(Holders(t)) + 1
    BY <1>2, FS_AddElement
  <2> QED
    BY <1>2, <1>3, <2>1, <2>2
<1>4. CASE l \notin Holding
  <2>1. Holders(t)' = Holders(t) \ {w}
    BY <1>1, <1>4 DEF Holders
  <2>2. Cardinality(Holders(t) \ {w}) =
          IF w \in Holders(t) THEN Cardinality(Holders(t)) - 1
                              ELSE Cardinality(Holders(t))
    BY <1>2, FS_RemoveElement
  <2> QED
    BY <1>2, <1>4, <2>1, <2>2
<1> QED
  BY <1>3, <1>4

\* Each step of ProduceBlockIdsLoop moves a token between the channel, a
\* worker and the dropped ones, and none is made or lost.
LEMMA TokensStep ==
  ASSUME TypeInv, TypeInv', TokensConserved,
         NEW t \in Term, NEW w \in Worker, Step(t, w)
  PROVE  TokensConserved'
<1> DEFINE Held == Cardinality(Holders(t))
<1>1. Started(t)
  BY StepperStarted
<1>2. /\ Held \in Nat /\ Len(blockIds[t]) \in Nat /\ dropped[t] \in Nat
      /\ Len(blockIds[t]) + Held + dropped[t] = W
  BY <1>1, HoldersFinite DEF TypeInv, TypeOK, TokensConserved
<1>3. TypeOK
  BY DEF TypeInv
<1>4. Len(blockIds'[t]) + Held' + dropped'[t] = W
  <2>1. CASE Take(t, w)
    <3>1. Len(blockIds'[t]) = Len(blockIds[t]) - 1
      BY <2>1, <1>3 DEF Take, TypeOK
    <3>2. w \notin Holders(t)
      BY <2>1 DEF Take, At, Holders, Holding
    <3>3. \/ Move(t, w, "exit") /\ dropped'[t] = dropped[t] + 1
          \/ Move(t, w, "fetch") /\ dropped'[t] = dropped[t]
      BY <2>1, <1>3 DEF Take, TypeOK
    <3>4. CASE Move(t, w, "exit") /\ dropped'[t] = dropped[t] + 1
      BY <1>2, <1>3, <3>1, <3>2, <3>4, HoldersAfterMove DEF PC, Holding
    <3>5. CASE Move(t, w, "fetch") /\ dropped'[t] = dropped[t]
      BY <1>2, <1>3, <3>1, <3>2, <3>5, HoldersAfterMove DEF PC, Holding
    <3> QED
      BY <3>3, <3>4, <3>5
  <2>2. CASE Quit(t, w)
    <3>1. w \notin Holders(t) /\ Move(t, w, "exit") /\ UNCHANGED <<blockIds, dropped>>
      BY <2>2 DEF Quit, At, Holders, Holding
    <3> QED
      BY <1>2, <1>3, <3>1, HoldersAfterMove DEF PC, Holding
  <2>3. ASSUME NEW l \in Holding, w \in Holders(t), Move(t, w, l),
               UNCHANGED <<blockIds, dropped>>
        PROVE  Len(blockIds'[t]) + Held' + dropped'[t] = W
    BY <1>2, <1>3, <2>3, HoldersAfterMove DEF PC, Holding
  <2>4. CASE Fetch(t, w) \/ Produce(t, w) \/ Advance(t, w)
    BY <2>3, <2>4 DEF Fetch, Produce, Advance, At, Holders, Holding
  <2>5. ASSUME NEW b, w \in Holders(t), Send(t, w, b), UNCHANGED dropped
        PROVE  Len(blockIds'[t]) + Held' + dropped'[t] = W
    <3>1. Len(blockIds'[t]) = Len(blockIds[t]) + 1
      BY <2>5, <1>3 DEF Send, TypeOK
    <3> QED
      BY <1>2, <1>3, <2>5, <3>1, HoldersAfterMove DEF Send, PC, Holding
  <2>6. CASE Requeue(t, w)
    BY <2>5, <2>6 DEF Requeue, At, Holders, Holding
  <2>7. CASE Push(t, w)
    BY <2>5, <2>7 DEF Push, At, Holders, Holding
  <2> QED
    BY <2>1, <2>2, <2>4, <2>6, <2>7 DEF Step
<1>5. \A s \in Term : s # t =>
        /\ blockIds'[s] = blockIds[s] /\ dropped'[s] = dropped[s]
        /\ Holders(s)' = Holders(s)
  BY <1>3, StepOfTerm DEF Holders
<1>6. from' = from
  BY DEF Step, Take, Quit, Fetch, Produce, Requeue, Advance, Push
<1> QED
  BY <1>4, <1>5, <1>6 DEF TokensConserved, Started

\* The tokens of a loop are conserved for every number of workers, so a
\* worker that sends always finds room: Send's guard never holds it up, and
\* no retry can deadlock the loop.
THEOREM TokensAreConserved == Spec => []TokensConserved
<1>1. Init => TokensConserved
  BY DEF Init, TokensConserved, Started
<1>2. TypeInv /\ TypeInv' /\ TokensConserved /\ [Next]_vars => TokensConserved'
  <2> SUFFICES ASSUME TypeInv, TypeInv', TokensConserved, [Next]_vars
               PROVE  TokensConserved'
    OBVIOUS
  <2>1. CASE NewBlock \/ Save
    BY <2>1 DEF NewBlock, Save, loopVars, TokensConserved, Started, Holders
  <2>2. ASSUME NEW t \in Term, StartLeading(t) PROVE TokensConserved'
    <3>1. PICK b \in NextBlock :
             /\ from' = [from EXCEPT ![t] = b]
             /\ blockIds' = [blockIds EXCEPT ![t] = [i \in 1..W |-> b + i]]
             /\ UNCHANGED <<pc, dropped>>
      BY <2>2 DEF StartLeading
    <3>2. Holders(t)' = {} /\ dropped'[t] = 0
      BY <2>2, <3>1 DEF StartLeading, TypeInv, UnstartedInv, Holders, Holding
    <3>3. Len(blockIds'[t]) = W
      BY <3>1, WorkersCounted DEF TypeInv, TypeOK
    <3>4. Cardinality(Holders(t))' = 0
      BY <3>2, FS_EmptySet
    <3>5. \A s \in Term : s # t =>
            /\ from'[s] = from[s] /\ blockIds'[s] = blockIds[s]
            /\ Holders(s)' = Holders(s) /\ dropped'[s] = dropped[s]
      BY <3>1 DEF TypeInv, TypeOK, Holders
    <3>6. Len(blockIds'[t]) + Cardinality(Holders(t))' + dropped'[t] = W
      BY <3>2, <3>3, <3>4, WorkersCounted
    <3> QED
      BY <3>5, <3>6 DEF TokensConserved, Started
  <2>3. ASSUME NEW t \in Term, StopLeading(t) PROVE TokensConserved'
    BY <2>3 DEF StopLeading, loopVars, TokensConserved, Started, Holders
  <2>4. ASSUME NEW t \in Term, NEW w \in Worker, Step(t, w)
        PROVE  TokensConserved'
    BY <2>4, TokensStep
  <2>5. CASE UNCHANGED vars
    BY <2>5 DEF vars, TokensConserved, Started, Holders
  <2> QED
    BY <2>1, <2>2, <2>3, <2>4, <2>5 DEF Next
<1>3. Spec => []TypeInv
  BY ProducerTypeCorrect, PTL DEF TypeInv
<1> QED
  BY <1>1, <1>2, <1>3, PTL DEF Spec

-----------------------------------------------------------------------------
\* What becomes of the block numbers.

\* Receiving takes the head's number out of a channel, at most.
LEMMA RangeOfTail ==
  ASSUME NEW S, NEW q \in Seq(S), q # <<>>
  PROVE  Range(q) = Range(Tail(q)) \cup {Head(q)}
<1>1. /\ Head(q) = q[1] /\ Len(q) \in Nat \ {0} /\ DOMAIN q = 1..Len(q)
      /\ DOMAIN Tail(q) = 1..(Len(q) - 1)
      /\ \A i \in 1..(Len(q) - 1) : Tail(q)[i] = q[i + 1]
  OBVIOUS
<1>2. ASSUME NEW i \in 1..Len(q) PROVE q[i] \in Range(Tail(q)) \cup {Head(q)}
  <2>1. CASE i = 1
    BY <1>1, <2>1
  <2>2. CASE i # 1
    <3>1. i - 1 \in 1..(Len(q) - 1) /\ Tail(q)[i - 1] = q[i]
      BY <1>1, <2>2
    <3> QED
      BY <1>1, <3>1 DEF Range
  <2> QED
    BY <2>1, <2>2
<1>3. ASSUME NEW i \in 1..(Len(q) - 1) PROVE Tail(q)[i] \in Range(q)
  <2>1. i + 1 \in 1..Len(q)
    BY <1>1
  <2> QED
    BY <1>1, <2>1 DEF Range
<1>4. Head(q) \in Range(q)
  BY <1>1 DEF Range
<1>5. Range(q) = {q[i] : i \in 1..Len(q)}
      /\ Range(Tail(q)) = {Tail(q)[i] : i \in 1..(Len(q) - 1)}
  BY <1>1 DEF Range
<1> HIDE DEF Range
<1> QED
  BY <1>2, <1>3, <1>4, <1>5

\* Sending adds one number to a channel.
LEMMA RangeOfAppend ==
  ASSUME NEW S, NEW q \in Seq(S), NEW b \in S
  PROVE  Range(Append(q, b)) = Range(q) \cup {b}
<1>1. /\ DOMAIN q = 1..Len(q) /\ Len(q) \in Nat
      /\ DOMAIN Append(q, b) = 1..(Len(q) + 1)
      /\ Append(q, b)[Len(q) + 1] = b
      /\ \A i \in 1..Len(q) : Append(q, b)[i] = q[i]
  OBVIOUS
<1> QED
  BY <1>1 DEF Range

\* The numbers in a term's channel, and those its workers have not written.
Channel(t) == Range(blockIds[t])
Writing    == {"fetch", "produce", "requeue"}
Hands(t)   == {id[t][v] : v \in {u \in Worker : pc[t][u] \in Writing}}

\* A worker that moves without another number keeps the hands as they are,
\* unless it stops writing.
LEMMA HandsAfterMove ==
  ASSUME TypeOK, WritesWithin, NEW t \in Term, NEW w \in Worker, NEW l \in PC,
         Move(t, w, l), UNCHANGED id, l \in Writing => pc[t][w] \in Writing
  PROVE  /\ Hands(t)' \subseteq Hands(t)
         /\ Hands(t) \subseteq Hands(t)' \cup {id[t][w]}
         /\ l \in Writing \/ pc[t][w] \notin Writing => Hands(t)' = Hands(t)
         /\ \A v \in Worker : pc'[t][v] \in Writing => ~Beyond(id'[t][v])
<1>1. /\ pc'[t][w] = l
      /\ \A v \in Worker : v # w => pc'[t][v] = pc[t][v]
  BY MoveEffect DEF TypeOK
<1>2. \A v \in Worker : pc[t][v] \in Writing => ~Beyond(id[t][v])
  BY DEF WritesWithin, Writing
<1>3. \A v \in Worker : pc'[t][v] \in Writing => pc[t][v] \in Writing
  BY <1>1
<1>4. \A v \in Worker : pc[t][v] \in Writing => pc'[t][v] \in Writing \/ v = w
  BY <1>1
<1> QED
  BY <1>1, <1>2, <1>3, <1>4 DEF Hands

\* A worker that takes a number, or gives up the one it has.
LEMMA HandsAfterHold ==
  ASSUME TypeOK, WritesWithin, NEW t \in Term, NEW w \in Worker, NEW l \in PC,
         NEW b \in Nat, Move(t, w, l), Hold(t, w, b),
         l \in Writing => ~Beyond(b)
  PROVE  /\ Hands(t)' \subseteq Hands(t) \cup (IF l \in Writing THEN {b} ELSE {})
         /\ Hands(t) \subseteq
               Hands(t)' \cup (IF pc[t][w] \in Writing THEN {id[t][w]} ELSE {})
         /\ l \in Writing => b \in Hands(t)'
         /\ \A v \in Worker : pc'[t][v] \in Writing => ~Beyond(id'[t][v])
<1>1. /\ pc'[t][w] = l
      /\ \A v \in Worker : v # w => pc'[t][v] = pc[t][v]
  BY MoveEffect DEF TypeOK
<1>2. /\ id'[t][w] = b
      /\ \A v \in Worker : v # w => id'[t][v] = id[t][v]
  BY HoldEffect DEF TypeOK
<1>3. \A v \in Worker : pc[t][v] \in Writing => ~Beyond(id[t][v])
  BY DEF WritesWithin, Writing
<1> QED
  BY <1>1, <1>2, <1>3 DEF Hands

\* What a worker's step does to the numbers of its term: it adds only what
\* Push loads from masterSeq, and what it takes away is written or beyond the
\* benchmark.
LEMMA TokensEffect ==
  ASSUME TypeOK, WritesWithin, NEW t \in Term, Started(t),
         NEW w \in Worker, Step(t, w)
  PROVE  /\ Tokens(t)' \subseteq Tokens(t) \cup {masterSeq[t]}
         /\ ~Push(t, w) => Tokens(t)' \subseteq Tokens(t)
         /\ Push(t, w) => masterSeq[t] \in Tokens(t)'
         /\ \A n \in Tokens(t) : n \in Tokens(t)' \cup topic' \/ Beyond(n)
         /\ \A n \in topic' : n \in topic \/ (n \in Tokens(t) /\ ~Beyond(n))
         /\ topic \subseteq topic'
         /\ \A v \in Worker : pc'[t][v] \in Writing => ~Beyond(id'[t][v])
<1>1. /\ blockIds[t] \in Seq(Nat) /\ blockIds \in [Term -> Seq(Nat \ {Unset})]
      /\ masterSeq[t] \in Nat /\ id[t][w] \in Nat
  BY DEF TypeOK
<1>2. Tokens(t) = Channel(t) \cup Hands(t) /\ Tokens(t)' = Channel(t)' \cup Hands(t)'
  BY DEF Tokens, Channel, Hands, Writing
<1>3. pc[t][w] \in Writing => id[t][w] \in Hands(t) /\ ~Beyond(id[t][w])
  BY DEF Hands, WritesWithin, Writing
<1>4. UNCHANGED blockIds => Channel(t)' = Channel(t)
  BY DEF Channel
<1>5. CASE Take(t, w)
  <2>1. topic' = topic /\ ~Push(t, w) /\ blockIds[t] # <<>>
        /\ pc[t][w] = "select"
    BY <1>5 DEF Take, Push, At
  <2>2. blockIds'[t] = Tail(blockIds[t]) /\ Head(blockIds[t]) \in Nat
    BY <1>1, <1>5, <2>1 DEF Take
  <2>3. Channel(t) = Channel(t)' \cup {Head(blockIds[t])}
    BY <1>1, <2>1, <2>2, RangeOfTail DEF Channel
  <2>4. CASE Beyond(Head(blockIds[t])) /\ Move(t, w, "exit") /\ UNCHANGED id
    BY <1>2, <2>1, <2>3, <2>4, HandsAfterMove DEF Writing, PC
  <2>5. CASE /\ ~Beyond(Head(blockIds[t])) /\ Move(t, w, "fetch")
             /\ Hold(t, w, Head(blockIds[t]))
    BY <1>2, <2>1, <2>2, <2>3, <2>5, HandsAfterHold DEF Writing, PC
  <2> QED
    BY <1>5, <2>4, <2>5 DEF Take
<1>6. CASE Quit(t, w)
  BY <1>2, <1>4, <1>6, HandsAfterMove DEF Quit, Push, At, Writing, PC
<1>7. CASE Advance(t, w)
  BY <1>2, <1>4, <1>7, HandsAfterMove DEF Advance, Push, At, Writing, PC
<1>8. CASE Fetch(t, w)
  <2>1. PICK l \in {"produce", "requeue"} : Move(t, w, l)
    BY <1>8 DEF Fetch
  <2> QED
    BY <1>2, <1>4, <1>8, <2>1, HandsAfterMove DEF Fetch, Push, At, Writing, PC
<1>9. CASE Produce(t, w)
  <2>1. /\ ~Push(t, w) /\ pc[t][w] = "produce" /\ UNCHANGED <<blockIds, id>>
        /\ id[t][w] \in Tokens(t) /\ ~Beyond(id[t][w])
    BY <1>2, <1>3, <1>9 DEF Produce, Push, At, Writing
  <2>2. topic' = topic \/ topic' = topic \cup {id[t][w]}
    BY <1>9 DEF Produce, Written
  <2>3. CASE Move(t, w, "advance") /\ topic' = topic \cup {id[t][w]}
    BY <1>2, <1>4, <2>1, <2>3, HandsAfterMove DEF Writing, PC
  <2>4. CASE Move(t, w, "requeue")
    BY <1>2, <1>4, <2>1, <2>2, <2>4, HandsAfterMove DEF Writing, PC
  <2> QED
    BY <1>9, <2>3, <2>4 DEF Produce, Written
<1>10. ASSUME NEW b \in Nat, Send(t, w, b), b # Unset
       PROVE  /\ Channel(t)' = Channel(t) \cup {b}
              /\ Hands(t)' \subseteq Hands(t)
              /\ Hands(t) \subseteq
                    Hands(t)' \cup (IF pc[t][w] \in Writing THEN {id[t][w]} ELSE {})
              /\ \A v \in Worker : pc'[t][v] \in Writing => ~Beyond(id'[t][v])
  <2>1. Move(t, w, "select") /\ Hold(t, w, Unset) /\ "select" \in PC \ Writing
        /\ Unset \in Nat
    BY <1>10 DEF Send, PC, Unset, Writing
  <2>2. blockIds'[t] = Append(blockIds[t], b)
    BY <1>1, <1>10 DEF Send
  <2>3. Channel(t)' = Channel(t) \cup {b}
    BY <1>1, <2>2, RangeOfAppend DEF Channel
  <2> QED
    BY <2>1, <2>3, HandsAfterHold
<1>11. CASE Requeue(t, w)
  <2>1. /\ ~Push(t, w) /\ pc[t][w] = "requeue" /\ topic' = topic
        /\ Send(t, w, id[t][w]) /\ id[t][w] # Unset
    BY <1>11 DEF Requeue, Push, At, TypeOK, Holders, Holding
  <2> QED
    BY <1>1, <1>2, <1>3, <1>10, <2>1 DEF Writing
<1>12. CASE Push(t, w)
  <2>1. pc[t][w] = "push" /\ topic' = topic /\ Send(t, w, masterSeq[t])
        /\ masterSeq[t] # Unset
    BY <1>12 DEF Push, At, TypeOK
  <2> QED
    BY <1>1, <1>2, <1>10, <1>12, <2>1 DEF Writing
<1> QED
  BY <1>5, <1>6, <1>7, <1>8, <1>9, <1>11, <1>12 DEF Step

\* The history: a step that leaves a term's counter and workers leaves what
\* it has taken on, and skipped numbers only become more.
LEMMA HistoryStays ==
  ASSUME LossNext, LossInv, NEW s \in Term, masterSeq'[s] = masterSeq[s],
         pc'[s] = pc[s]
  PROVE  loaded'[s] = loaded[s]
BY DEF LossNext, LossInv, Advanced, Pushed

\* What a worker's step does to the numbers its term has taken on.
LEMMA TakenEffect ==
  ASSUME TypeOK, TypeOK', LossNext, LossInv, NEW t \in Term, Started(t),
         NEW w \in Worker, Step(t, w)
  PROVE  /\ TakenOn(t) \subseteq TakenOn(t)'
         /\ \A n \in TakenOn(t)' :
               n \in TakenOn(t) \cup skipped' \/ (n = masterSeq[t] /\ Push(t, w))
         /\ Push(t, w) => masterSeq[t] \in TakenOn(t)' \/ masterSeq[t] <= from[t]
<1>1. /\ masterSeq[t] \in Nat /\ masterSeq'[t] \in Nat /\ from[t] \in Nat
      /\ loaded[t] \in BOOLEAN /\ masterSeq[t] # 0
      /\ pc \in [Term -> [Worker -> PC]]
  BY DEF TypeOK, LossInv, Unset
<1>2. from' = from
  BY DEF Step, Take, Quit, Fetch, Produce, Requeue, Advance, Push
<1>3. loaded'[t] = IF Advanced(t) THEN FALSE ELSE loaded[t] \/ Pushed(t)
  BY DEF LossNext
<1>4. CASE Advance(t, w)
  <2>1. masterSeq'[t] = masterSeq[t] + 1 /\ ~Push(t, w)
    BY <1>4 DEF Advance, Push, At, TypeOK
  <2>2. ~loaded'[t]
    BY <1>1, <1>3, <2>1 DEF Advanced
  <2>3. ~loaded[t] => masterSeq[t] \in skipped'
    BY <1>1, <2>1 DEF LossNext, Advanced
  <2>4. TakenOn(t)' = (from[t] + 1)..masterSeq[t]
    BY <1>1, <1>2, <2>1, <2>2 DEF TakenOn, Top
  <2>5. TakenOn(t) = IF loaded[t] THEN (from[t] + 1)..masterSeq[t]
                     ELSE (from[t] + 1)..(masterSeq[t] - 1)
    BY DEF TakenOn, Top
  <2>6. TakenOn(t) \subseteq TakenOn(t)'
    BY <1>1, <2>4, <2>5
  <2>7. \A n \in TakenOn(t)' : n \in TakenOn(t) \cup skipped'
    BY <1>1, <2>3, <2>4, <2>5
  <2> QED
    BY <2>1, <2>6, <2>7
<1>5. CASE Push(t, w)
  <2>1. masterSeq' = masterSeq /\ pc[t][w] = "push" /\ Move(t, w, "select")
    BY <1>5 DEF Push, At, Send
  <2>2. pc'[t][w] = "select"
    BY <1>1, <2>1, MoveEffect DEF PC
  <2>3. Pushed(t) /\ ~Advanced(t)
    BY <2>1, <2>2 DEF Pushed, Advanced
  <2>4. loaded'[t]
    BY <1>3, <2>3
  <2>5. TakenOn(t)' = (from[t] + 1)..masterSeq[t]
    BY <1>2, <2>1, <2>4 DEF TakenOn, Top
  <2>6. TakenOn(t) = IF loaded[t] THEN (from[t] + 1)..masterSeq[t]
                     ELSE (from[t] + 1)..(masterSeq[t] - 1)
    BY DEF TakenOn, Top
  <2>7. TakenOn(t) \subseteq TakenOn(t)'
    BY <1>1, <2>5, <2>6
  <2>8. \A n \in TakenOn(t)' : n \in TakenOn(t) \/ n = masterSeq[t]
    BY <1>1, <2>5, <2>6
  <2>9. masterSeq[t] \in TakenOn(t)' \/ masterSeq[t] <= from[t]
    BY <1>1, <2>5
  <2> QED
    BY <1>5, <2>7, <2>8, <2>9
<1>6. CASE ~Advance(t, w) /\ ~Push(t, w)
  <2>1. masterSeq' = masterSeq
    BY <1>6 DEF Step, Take, Quit, Fetch, Produce, Requeue
  <2>2. PICK l \in PC : Move(t, w, l)
    BY <1>6 DEF Step, Take, Quit, Fetch, Produce, Requeue, Send, PC
  <2>3. pc[t][w] # "push"
    BY <1>6 DEF Step, Take, Quit, Fetch, Produce, Requeue, At
  <2>4. ~Pushed(t) /\ ~Advanced(t)
    BY <1>1, <2>1, <2>2, <2>3, MoveEffect DEF Pushed, Advanced
  <2>5. loaded'[t] = loaded[t]
    BY <1>1, <1>3, <2>4
  <2>6. TakenOn(t)' = TakenOn(t)
    BY <1>2, <2>1, <2>5 DEF TakenOn, Top
  <2> QED
    BY <1>6, <2>6
<1> QED
  BY <1>4, <1>5, <1>6

\* A counter is always above the beginning of its term.
SeqAbove == \A t \in Term : Started(t) => masterSeq[t] > from[t]

\* The terms' counters start above their beginnings and only grow.
LEMMA SeqAboveStep ==
  ASSUME TypeInv, SeqAbove, [Next]_vars
  PROVE  SeqAbove'
<1> USE DEF TypeInv, TypeOK, SeqAbove, Started
<1>1. ASSUME NEW t \in Term, StartLeading(t) PROVE SeqAbove'
  <2>1. PICK b \in NextBlock : /\ from' = [from EXCEPT ![t] = b]
                               /\ masterSeq' = [masterSeq EXCEPT ![t] = b + W]
    BY <1>1 DEF StartLeading
  <2>2. b \in Nat /\ b + W > b
    BY NextBlockIsNumber, WorkersCounted DEF Unset
  <2> QED
    BY <2>1, <2>2
<1>2. ASSUME NEW t \in Term, NEW w \in Worker, Step(t, w) PROVE SeqAbove'
  <2>1. CASE Advance(t, w)
    BY <2>1 DEF Advance
  <2>2. CASE ~Advance(t, w)
    BY <1>2, <2>2 DEF Step, Take, Quit, Fetch, Produce, Requeue, Push
  <2> QED
    BY <2>1, <2>2
<1>3. CASE UNCHANGED <<from, masterSeq>>
  BY <1>3
<1> QED
  BY <1>1, <1>2, <1>3 DEF Next, NewBlock, Save, StopLeading, loopVars, vars

\* A worker's step keeps account of every number its term took on.
LEMMA LossWorker ==
  ASSUME TypeInv, TypeInv', SeqAbove, LossInv, LossNext,
         NEW t \in Term, NEW w \in Worker, Step(t, w)
  PROVE  LossInv'
<1> USE DEF LossInv, TypeInv
<1>1. Started(t)
  BY StepperStarted
<1>2. from' = from /\ target' = target
  BY DEF Step, Take, Quit, Fetch, Produce, Requeue, Advance, Push
<1>3. \A s \in Term : Started(s)' <=> Started(s)
  BY <1>2 DEF Started
<1>4. ASSUME NEW s \in Term, s # t
      PROVE  /\ TakenOn(s)' = TakenOn(s) /\ Tokens(s)' = Tokens(s)
             /\ pc'[s] = pc[s] /\ id'[s] = id[s]
  <2>1. /\ blockIds'[s] = blockIds[s] /\ pc'[s] = pc[s] /\ id'[s] = id[s]
    BY <1>4, StepOfTerm
  <2>2. masterSeq'[s] = masterSeq[s]
    BY <1>4 DEF Step, Take, Quit, Fetch, Produce, Requeue, Advance, Push, TypeOK
  <2>3. loaded'[s] = loaded[s]
    BY <2>1, <2>2, HistoryStays
  <2> QED
    BY <1>2, <2>1, <2>2, <2>3 DEF TakenOn, Top, Tokens
<1>5. /\ Tokens(t)' \subseteq Tokens(t) \cup {masterSeq[t]}
      /\ ~Push(t, w) => Tokens(t)' \subseteq Tokens(t)
      /\ Push(t, w) => masterSeq[t] \in Tokens(t)'
      /\ \A n \in Tokens(t) : n \in Tokens(t)' \cup topic' \/ Beyond(n)
      /\ \A n \in topic' : n \in topic \/ (n \in Tokens(t) /\ ~Beyond(n))
      /\ topic \subseteq topic'
      /\ \A v \in Worker : pc'[t][v] \in Writing => ~Beyond(id'[t][v])
  BY <1>1, TokensEffect
<1>6. /\ TakenOn(t) \subseteq TakenOn(t)'
      /\ \A n \in TakenOn(t)' :
            n \in TakenOn(t) \cup skipped' \/ (n = masterSeq[t] /\ Push(t, w))
      /\ Push(t, w) => masterSeq[t] \in TakenOn(t)'
  <2>1. ~(masterSeq[t] <= from[t])
    BY <1>1 DEF SeqAbove, TypeOK
  <2> QED
    BY <1>1, <2>1, TakenEffect
<1>7. skipped \subseteq skipped'
  BY DEF LossNext
<1>8. \A n : Beyond(n)' <=> Beyond(n)
  BY <1>2 DEF Beyond
<1>9. loaded' \in [Term -> BOOLEAN] /\ UnloadedInv'
  <2>1. \A s \in Term : ~Started(s) => ~Advanced(s)
    BY DEF Advanced
  <2> QED
    BY <1>3, <2>1 DEF LossNext, UnloadedInv
<1>10. TokensTaken'
  BY <1>1, <1>3, <1>4, <1>5, <1>6 DEF TokensTaken
<1>11. WritesWithin'
  <2>1. \A b \in topic' : ~Beyond(b)
    BY <1>5 DEF WritesWithin
  <2>2. \A s \in Term, v \in Worker :
          pc'[s][v] \in {"fetch", "produce", "requeue"} => ~Beyond(id'[s][v])
    BY <1>4, <1>5 DEF WritesWithin, Writing
  <2> QED
    BY <1>2, <2>1, <2>2 DEF WritesWithin, Beyond
<1>12. TopicTaken'
  <2> SUFFICES ASSUME NEW b \in topic'
               PROVE  \E s \in Term : Started(s) /\ b \in TakenOn(s)'
    BY <1>3 DEF TopicTaken
  <2>1. CASE b \in topic
    BY <1>4, <1>6, <2>1 DEF TopicTaken
  <2>2. CASE b \in Tokens(t)
    BY <1>1, <1>6, <2>2 DEF TokensTaken
  <2> QED
    BY <1>5, <2>1, <2>2
<1>13. TakenAccounted'
  <2> SUFFICES ASSUME NEW s \in Term, Started(s), NEW n \in TakenOn(s)'
               PROVE  n \in topic' \cup skipped' \cup Tokens(s)' \/ Beyond(n)
    BY <1>3, <1>8 DEF TakenAccounted
  <2>1. CASE s # t
    BY <1>4, <1>5, <1>7, <2>1 DEF TakenAccounted
  <2>2. CASE s = t /\ n \in TakenOn(t)
    BY <1>5, <1>7, <2>2 DEF TakenAccounted
  <2>3. CASE s = t /\ n \notin TakenOn(t)
    BY <1>5, <1>6, <2>3
  <2> QED
    BY <2>1, <2>2, <2>3
<1>14. NoGapBetween'
  <2>1. \A s \in Term : TakenOn(s) \subseteq TakenOn(s)'
    BY <1>4, <1>6
  <2> QED
    BY <1>2, <1>3, <2>1 DEF NoGapBetween
<1> QED
  BY <1>9, <1>10, <1>11, <1>12, <1>13, <1>14

\* A new term takes on the numbers it first sends, behind the ranges of the
\* terms before it.
LEMMA LossStart ==
  ASSUME TypeInv, LossInv, LossNext, NEW t \in Term, StartLeading(t)
  PROVE  LossInv'
<1> USE DEF LossInv, TypeInv
<1>1. PICK b \in NextBlock :
         /\ from' = [from EXCEPT ![t] = b]
         /\ masterSeq' = [masterSeq EXCEPT ![t] = b + W]
         /\ blockIds' = [blockIds EXCEPT ![t] = [i \in 1..W |-> b + i]]
  BY DEF StartLeading
<1>2. b \in Nat /\ b # Unset /\ W \in Nat
  BY NextBlockIsNumber, WorkersCounted DEF TypeOK
<1>3. /\ UNCHANGED <<topic, saved, pc, id, target>> /\ ~Started(t)
  BY DEF StartLeading
<1>4. /\ from'[t] = b /\ masterSeq'[t] = b + W
      /\ blockIds'[t] = [i \in 1..W |-> b + i]
  BY <1>1 DEF TypeOK
<1>5. \A s \in Term : ~Advanced(s) /\ ~Pushed(s)
  <2>1. \A s \in Term : Started(s) => masterSeq'[s] = masterSeq[s]
    BY <1>1, <1>3 DEF TypeOK, Started
  <2> QED
    BY <1>3, <2>1 DEF Advanced, Pushed
<1>6. loaded' = loaded /\ skipped' = skipped
  BY <1>5 DEF LossNext
<1>7. ASSUME NEW s \in Term, s # t
      PROVE  /\ TakenOn(s)' = TakenOn(s) /\ Tokens(s)' = Tokens(s)
             /\ from'[s] = from[s]
  <2>1. from'[s] = from[s] /\ masterSeq'[s] = masterSeq[s]
        /\ blockIds'[s] = blockIds[s]
    BY <1>1, <1>7 DEF TypeOK
  <2> QED
    BY <1>3, <1>6, <2>1 DEF TakenOn, Top, Tokens
<1>8. \A s \in Term : Started(s)' <=> Started(s) \/ s = t
  BY <1>2, <1>4, <1>7 DEF Started
<1>9. TakenOn(t)' = (b + 1)..(b + W)
  BY <1>3, <1>4, <1>6 DEF TakenOn, Top, UnloadedInv
<1>10. Tokens(t)' = (b + 1)..(b + W)
  <2>1. Hands(t)' = {}
    BY <1>3 DEF Hands, Writing, UnstartedInv
  <2>2. Channel(t)' = (b + 1)..(b + W)
    <3>1. Channel(t)' = {b + i : i \in 1..W}
      BY <1>4 DEF Channel, Range
    <3> QED
      BY <1>2, <3>1
  <2> QED
    BY <2>1, <2>2 DEF Tokens, Channel, Hands, Writing
<1>11. UnloadedInv'
  BY <1>6, <1>8 DEF UnloadedInv
<1>12. TokensTaken'
  BY <1>7, <1>8, <1>9, <1>10 DEF TokensTaken
<1>13. WritesWithin'
  BY <1>3 DEF WritesWithin, Beyond
<1>14. TopicTaken'
  BY <1>3, <1>7, <1>8 DEF TopicTaken
<1>15. TakenAccounted'
  BY <1>3, <1>6, <1>7, <1>8, <1>9, <1>10 DEF TakenAccounted, Beyond
<1>16. NoGapBetween'
  <2>1. ASSUME NEW n \in FromBlock..b
        PROVE  \E s \in Term : Started(s)' /\ (n = from'[s] \/ n \in TakenOn(s)')
    <3>1. CASE n = b
      BY <1>4, <1>8, <3>1
    <3>2. CASE n # b
      <4>1. saved # {}
        BY <2>1, <3>2, ProducerAssumption DEF NextBlock
      <4>2. PICK m \in saved : b = m + 1
        BY <4>1 DEF NextBlock, LastMaster
      <4>3. PICK s \in Term : Started(s) /\ m \in TakenOn(s)
        BY <4>2 DEF TopicTaken, TypeOK
      <4>4. n \in TakenOn(s) \/ n \in FromBlock..from[s]
        <5>1. m \in Nat /\ from[s] \in Nat /\ masterSeq[s] \in Nat /\ n <= m
          BY <2>1, <3>2, <4>2, ProducerAssumption DEF TypeOK
        <5> QED
          BY <2>1, <4>3, <5>1, ProducerAssumption DEF TakenOn, Top
      <4>5. PICK r \in Term : Started(r) /\ (n = from[r] \/ n \in TakenOn(r))
        BY <4>3, <4>4 DEF NoGapBetween
      <4> QED
        BY <1>3, <1>7, <1>8, <4>5
    <3> QED
      BY <3>1, <3>2
  <2>2. ASSUME NEW r \in Term, Started(r), NEW n \in FromBlock..from[r]
        PROVE  \E s \in Term : Started(s)' /\ (n = from'[s] \/ n \in TakenOn(s)')
    <3>1. PICK s \in Term : Started(s) /\ (n = from[s] \/ n \in TakenOn(s))
      BY <2>2 DEF NoGapBetween
    <3> QED
      BY <1>3, <1>7, <1>8, <3>1
  <2> QED
    BY <1>4, <1>7, <1>8, <2>1, <2>2 DEF NoGapBetween
<1> QED
  BY <1>6, <1>11, <1>12, <1>13, <1>14, <1>15, <1>16

\* A step that leaves the loops and the topic alone leaves the account alone.
LEMMA LossStays ==
  ASSUME TypeOK, LossInv, LossNext, UNCHANGED <<topic, from, target, loopVars>>
  PROVE  LossInv'
<1>1. UNCHANGED <<topic, from, target, masterSeq, blockIds, pc, id>>
  BY DEF loopVars
<1>2. \A s \in Term : ~Advanced(s) /\ ~Pushed(s)
  BY <1>1 DEF Advanced, Pushed
<1>3. loaded' = loaded /\ skipped' = skipped
  BY <1>2 DEF LossNext, LossInv
<1> QED
  BY <1>1, <1>3 DEF LossInv, UnloadedInv, TokensTaken, WritesWithin, TopicTaken,
     TakenAccounted, NoGapBetween, TakenOn, Top, Tokens, Started, Beyond

\* A block number below the last saved one is missing from the topic only for
\* one of the reasons the code has: it is the number a term starts from, which
\* the loop never sends; masterSeq passed it between Add and Load; or a term
\* still holds it.  However many terms, workers and blocks there are, no
\* number is lost in another way.
THEOREM LossExplained == LossSpec => []LossIsExplained
<1>1. LossInit => LossInv /\ SeqAbove
  BY DEF LossInit, Init, LossInv, UnloadedInv, TokensTaken, WritesWithin,
     TopicTaken, TakenAccounted, NoGapBetween, SeqAbove, Started
<1>2. ASSUME TypeInv, TypeInv', SeqAbove, LossInv, [LossNext]_lossVars
      PROVE  LossInv'
  <2>1. CASE LossNext
    <3>1. CASE NewBlock \/ Save
      BY <1>2, <2>1, <3>1, LossStays DEF NewBlock, Save, TypeInv
    <3>2. ASSUME NEW t \in Term, StartLeading(t) PROVE LossInv'
      BY <1>2, <2>1, <3>2, LossStart
    <3>3. ASSUME NEW t \in Term, StopLeading(t) PROVE LossInv'
      BY <1>2, <2>1, <3>3, LossStays DEF StopLeading, TypeInv
    <3>4. ASSUME NEW t \in Term, NEW w \in Worker, Step(t, w) PROVE LossInv'
      BY <1>2, <2>1, <3>4, LossWorker
    <3> QED
      BY <2>1, <3>1, <3>2, <3>3, <3>4 DEF LossNext, Next
  <2>2. CASE UNCHANGED lossVars
    BY <1>2, <2>2 DEF lossVars, vars, LossInv, UnloadedInv, TokensTaken,
       WritesWithin, TopicTaken, TakenAccounted, NoGapBetween, TakenOn, Top,
       Tokens, Started, Beyond
  <2> QED
    BY <1>2, <2>1, <2>2
<1>3. TypeInv /\ SeqAbove /\ [LossNext]_lossVars => SeqAbove'
  BY SeqAboveStep DEF LossNext, lossVars
<1>4. TypeInv /\ LossInv => LossIsExplained
  <2> SUFFICES ASSUME TypeInv, LossInv, NEW b \in saved,
                      NEW n \in FromBlock..b
               PROVE  \/ n \in topic \cup skipped
                      \/ \E t \in Term : n = from[t] \/ n \in Tokens(t)
    BY DEF LossIsExplained
  <2>1. b \in topic /\ b \in Nat /\ target \in Nat /\ ~Beyond(b)
    BY ProducerAssumption DEF TypeInv, TypeOK, LossInv, WritesWithin
  <2>2. n \in Nat /\ n <= b
    BY <2>1, ProducerAssumption
  <2>3. ~Beyond(n)
    BY <2>1, <2>2 DEF Beyond
  <2>4. PICK s \in Term : Started(s) /\ b \in TakenOn(s)
    BY <2>1 DEF LossInv, TopicTaken
  <2>5. n \in TakenOn(s) \/ n \in FromBlock..from[s]
    <3>1. from[s] \in Nat /\ masterSeq[s] \in Nat
      BY DEF TypeInv, TypeOK
    <3> QED
      BY <2>1, <2>2, <2>4, <3>1, ProducerAssumption DEF TakenOn, Top
  <2>6. PICK r \in Term : Started(r) /\ (n = from[r] \/ n \in TakenOn(r))
    BY <2>4, <2>5 DEF LossInv, NoGapBetween
  <2>7. n = from[r] \/ n \in topic \cup skipped \cup Tokens(r)
    BY <2>3, <2>6 DEF LossInv, TakenAccounted
  <2> QED
    BY <2>7
<1>5. LossSpec => Spec
  <2>1. LossInit => Init
    BY DEF LossInit
  <2>2. [LossNext]_lossVars => [Next]_vars
    BY DEF LossNext, lossVars
  <2> QED
    BY <2>1, <2>2, PTL DEF LossSpec, Spec
<1>6. LossSpec => []TypeInv
  BY <1>5, ProducerTypeCorrect, PTL DEF TypeInv
<1> QED
  BY <1>1, <1>2, <1>3, <1>4, <1>6, PTL DEF LossSpec
=============================================================================
