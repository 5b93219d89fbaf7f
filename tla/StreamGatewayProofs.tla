------------------------- MODULE StreamGatewayProofs ------------------------
(***************************************************************************)
(* What StreamGateway guarantees for every set of calls and ids, every     *)
(* size of the channels and whatever goes wrong: type correctness, that    *)
(* the subscriber map agrees with the handlers that run, that a subscriber *)
(* misses nothing until its channel was full, and that every client gets   *)
(* the values in their order.                                              *)
(***************************************************************************)
EXTENDS StreamGateway, SequenceTheorems, TLAPS

USE DEF consumer, pump, stream

-----------------------------------------------------------------------------
\* 0 stands for no value.
LEMMA ZeroIsNoValue == 0 \notin Value
  BY GatewayAssumption DEF Value

\* The head and the tail of a sequence that is not empty.
LEMMA HeadTail ==
  ASSUME NEW S, NEW s \in Seq(S), s # <<>>
  PROVE  Head(s) \in S /\ Tail(s) \in Seq(S)
  OBVIOUS

\* A sequence with an element appended.
LEMMA AppendTyped ==
  ASSUME NEW S, NEW s \in Seq(S), NEW e \in S
  PROVE  Append(s, e) \in Seq(S)
  OBVIOUS

-----------------------------------------------------------------------------
\* The steps of the consumer and of the broadcasting goroutine are typed.
LEMMA PumpTyped ==
  ASSUME TypeOK, Write \/ Poll \/ Rejoin \/ Garbled \/ HandOver
                 \/ Lock \/ Offer \/ Unlock
  PROVE  TypeOK'
<1> USE GatewayAssumption DEF TypeOK
<1>1. CASE Write
  BY <1>1 DEF Write
<1>2. CASE Poll
  <2>1. PICK n \in (position + 1)..written : PollTo(n)
    BY <1>2 DEF Poll
  <2>2. n \in Nat /\ n <= MaxEvents /\ n <= written
    BY <2>1
  <2>3. Values(position, n) \in Seq(Value)
    <3>1. n - position \in Nat /\ position \in Nat
      BY <2>1, <2>2
    <3>2. \A i \in 1..(n - position) : position + i \in Value
      BY <2>2, <3>1 DEF Value
    <3>3. Values(position, n) \in [1..(n - position) -> Value]
      BY <3>2 DEF Values
    <3> QED
      BY <3>1, <3>3
  <2>4. position' \in 0..written /\ fetched' \in Seq(Value)
    BY <2>1, <2>2, <2>3 DEF PollTo
  <2> QED
    BY <1>2, <2>4 DEF Poll
<1>3. CASE Rejoin
  BY <1>3 DEF Rejoin
<1>4. CASE Garbled
  BY <1>4 DEF Garbled
<1>5. CASE HandOver
  <2>1. fetched # <<>> /\ fetched \in Seq(Value)
    BY <1>5 DEF HandOver
  <2>2. Head(fetched) \in Value /\ Tail(fetched) \in Seq(Value)
    BY <2>1, HeadTail
  <2>3. data' \in Value /\ fetched' \in Seq(Value)
    BY <1>5, <2>2 DEF HandOver
  <2>4. offering' => data' # 0
    BY <2>3, ZeroIsNoValue
  <2> QED
    BY <1>5, <2>3, <2>4 DEF HandOver
<1>6. CASE Lock
  <2>1. data \in Value
    BY <1>6 DEF Lock
  <2>2. ASSUME NEW h \in Handler PROVE Append(due[h], data) \in Seq(Value)
    <3>1. due[h] \in Seq(Value)
      OBVIOUS
    <3> QED
      BY <2>1, <3>1, AppendTyped
  <2>3. due' \in [Handler -> Seq(Value)]
    BY <1>6, <2>2 DEF Lock
  <2>4. left' \subseteq Id /\ offering' \in BOOLEAN /\ data' # 0
    BY <1>6, <2>1, ZeroIsNoValue DEF Lock
  <2> QED
    BY <1>6, <2>3, <2>4 DEF Lock
<1>7. CASE Offer
  <2>1. PICK i \in left : OfferTo(subs[i]) /\ left' = left \ {i}
    BY <1>7 DEF Offer
  <2>2. data \in Value
    BY <1>7 DEF Offer
  <2>3. CASE subs[i] \in Handler
    <3>1. queue[subs[i]] \in Seq(Value)
      BY <2>3
    <3>2. Append(queue[subs[i]], data) \in Seq(Value)
      BY <2>2, <3>1, AppendTyped
    <3>3. queue' \in [Handler -> Seq(Value)]
      BY <2>1, <2>3, <3>2 DEF OfferTo
    <3> QED
      BY <1>7, <2>1, <3>3 DEF Offer
  <2>4. CASE subs[i] = Nobody
    <3>1. queue' = queue
      BY <2>1, <2>4 DEF OfferTo
    <3> QED
      BY <1>7, <2>1, <3>1 DEF Offer
  <2>5. subs[i] \in Handler \cup {Nobody}
    BY <2>1
  <2> QED
    BY <2>3, <2>4, <2>5
<1>8. CASE Unlock
  BY <1>8 DEF Unlock, Release
<1> QED
  BY <1>1, <1>2, <1>3, <1>4, <1>5, <1>6, <1>7, <1>8

\* The steps of a call and of its client are typed.
LEMMA CallTyped ==
  ASSUME TypeOK, NEW h \in Handler,
         Refuse(h) \/ Subscribe(h) \/ Serve(h) \/ Client(h)
  PROVE  TypeOK'
<1> USE GatewayAssumption DEF TypeOK, Place, Serving, Goto
<1>1. CASE Refuse(h)
  BY <1>1 DEF Refuse
<1>2. CASE Subscribe(h)
  BY <1>2 DEF Subscribe
<1>3. CASE Receive(h)
  <2>1. queue[h] \in Seq(Value) /\ queue[h] # <<>>
    BY <1>3 DEF Receive
  <2>2. Head(queue[h]) \in Value /\ Tail(queue[h]) \in Seq(Value)
    BY <2>1, HeadTail
  <2>3. Head(queue[h]) # 0
    BY <2>2, ZeroIsNoValue
  <2> QED
    BY <1>3, <2>2, <2>3 DEF Receive
<1>4. CASE Send(h)
  <2>1. CASE got' = [got EXCEPT ![h] = Append(@, hand[h])] /\ at[h] = "send"
             /\ Goto(h, "receive") /\ UNCHANGED due
    <3>1. hand[h] \in Value
      BY <2>1
    <3>2. Append(got[h], hand[h]) \in Seq(Value)
      BY <3>1, AppendTyped
    <3>3. got' \in [Handler -> Seq(Value)]
      BY <2>1, <3>2
    <3> QED
      BY <1>4, <2>1, <3>3 DEF Send
  <2>2. CASE /\ SendFails(h)
             /\ got' = [got EXCEPT ![h] = <<>>]
             /\ due' = [due EXCEPT ![h] = <<>>]
    BY <1>4, <2>2 DEF Send, SendFails
  <2> QED
    BY <1>4, <2>1, <2>2 DEF Send
<1>5. CASE Unsubscribe(h)
  BY <1>5 DEF Unsubscribe, Delete
<1>6. CASE Client(h)
  BY <1>6 DEF Client
<1> QED
  BY <1>1, <1>2, <1>3, <1>4, <1>5, <1>6 DEF Serve

\* Type correctness of the gateway.
THEOREM GatewayTypeCorrect == Spec => []TypeOK
<1>1. Init => TypeOK
  <2> SUFFICES ASSUME Init PROVE TypeOK
    OBVIOUS
  <2>1. written + rejoins <= MaxEvents /\ position \in 0..written
    BY GatewayAssumption DEF Init
  <2>2. <<>> \in Seq(Value)
    OBVIOUS
  <2>3. /\ fetched \in Seq(Value) /\ queue \in [Handler -> Seq(Value)]
        /\ got \in [Handler -> Seq(Value)] /\ due \in [Handler -> Seq(Value)]
    BY <2>2 DEF Init
  <2> QED
    BY <2>1, <2>3 DEF Init, TypeOK, Place, Serving
<1>2. TypeOK /\ [Next]_vars => TypeOK'
  <2> SUFFICES ASSUME TypeOK, [Next]_vars PROVE TypeOK'
    OBVIOUS
  <2>1. CASE UNCHANGED vars
    BY <2>1 DEF vars, TypeOK
  <2> QED
    BY <2>1, PumpTyped, CallTyped DEF Next
<1> QED
  BY <1>1, <1>2, PTL DEF Spec

-----------------------------------------------------------------------------
\* Why the subscriber map agrees with the handlers: what it says, and that a
\* call that has not subscribed shares its id with nobody.
NewHasNoId == \A h \in Handler : at[h] = "new" => subId[h] = NoId

IServed == SubsAreServed /\ NewHasNoId

\* The steps that leave the map, the handlers' places and their ids alone.
LEMMA OthersKeepServed ==
  ASSUME TypeOK, IServed, UNCHANGED <<subs, at, subId>>
  PROVE  IServed'
BY DEF IServed, SubsAreServed, NewHasNoId, Unshared

\* A handler that subscribes takes the id, from whoever had it.
LEMMA SubscribeKeepsServed ==
  ASSUME TypeOK, IServed, NEW h \in Handler, Subscribe(h)
  PROVE  IServed'
<1> USE GatewayAssumption
<1>1. PICK i \in Id : /\ subId' = [subId EXCEPT ![h] = i]
                      /\ subs' = [subs EXCEPT ![i] = h]
  BY DEF Subscribe
<1>2. at[h] = "new" /\ at' = [at EXCEPT ![h] = "receive"]
  BY DEF Subscribe, Goto
<1>3. /\ subs \in [Id -> Handler \cup {Nobody}]
      /\ at \in [Handler -> Place]
      /\ subId \in [Handler -> Id \cup {NoId}]
  BY DEF TypeOK
<1>4. subId[h] = NoId
  BY <1>2 DEF IServed, NewHasNoId
<1>5. ASSUME NEW j \in Id, subs'[j] # Nobody
      PROVE  /\ subId'[subs'[j]] = j
             /\ at'[subs'[j]] \in {"receive", "send", "leave"}
  <2>1. CASE j = i
    BY <1>1, <1>2, <1>3, <2>1
  <2>2. CASE j # i
    <3>1. subs'[j] = subs[j] /\ subs[j] \in Handler
      BY <1>1, <1>3, <1>5, <2>2
    <3>2. /\ subId[subs[j]] = j
          /\ at[subs[j]] \in {"receive", "send", "leave"}
      BY <1>5, <3>1 DEF IServed, SubsAreServed
    <3>3. subs[j] # h
      BY <1>2, <3>2
    <3> QED
      BY <1>1, <1>2, <1>3, <3>1, <3>2, <3>3
  <2> QED
    BY <2>1, <2>2
<1>6. ASSUME NEW k \in Handler, at'[k] \in Serving, Unshared(k)'
      PROVE  subs'[subId'[k]] = k
  <2>1. CASE k = h
    BY <1>1, <1>3, <2>1
  <2>2. CASE k # h
    <3>1. at[k] \in Serving /\ subId'[k] = subId[k]
      BY <1>1, <1>2, <1>3, <1>6, <2>2
    <3>2. subId[k] \in Id
      BY <3>1 DEF TypeOK
    <3>3. subId[k] # i
      BY <1>1, <1>3, <1>6, <2>2, <3>1 DEF Unshared
    <3>4. Unshared(k)
      BY <1>1, <1>3, <1>4, <1>6, <2>2, <3>1, <3>2 DEF Unshared
    <3>5. subs[subId[k]] = k
      BY <3>1, <3>4 DEF IServed, SubsAreServed
    <3> QED
      BY <1>1, <1>3, <3>1, <3>2, <3>3, <3>5
  <2> QED
    BY <2>1, <2>2
<1>7. NewHasNoId'
  BY <1>1, <1>2, <1>3 DEF IServed, NewHasNoId
<1> QED
  BY <1>5, <1>6, <1>7 DEF IServed, SubsAreServed

\* A handler that unsubscribes deletes its own entry, or that of a handler
\* with the same id.
LEMMA UnsubscribeKeepsServed ==
  ASSUME TypeOK, IServed, NEW h \in Handler, Unsubscribe(h)
  PROVE  IServed'
<1> USE GatewayAssumption
<1>1. /\ subs' = [subs EXCEPT ![subId[h]] = Nobody]
      /\ at[h] = "leave" /\ at' = [at EXCEPT ![h] = "done"]
      /\ subId' = subId
  BY DEF Unsubscribe, Delete, Goto
<1>2. /\ subs \in [Id -> Handler \cup {Nobody}]
      /\ at \in [Handler -> Place]
      /\ subId[h] \in Id
  BY <1>1 DEF TypeOK
<1>3. ASSUME NEW j \in Id, subs'[j] # Nobody
      PROVE  /\ subId'[subs'[j]] = j
             /\ at'[subs'[j]] \in {"receive", "send", "leave"}
  <2>1. j # subId[h] /\ subs'[j] = subs[j] /\ subs[j] \in Handler
    BY <1>1, <1>2, <1>3
  <2>2. /\ subId[subs[j]] = j
        /\ at[subs[j]] \in {"receive", "send", "leave"}
    BY <1>3, <2>1 DEF IServed, SubsAreServed
  <2> QED
    BY <1>1, <1>2, <2>1, <2>2
<1>4. ASSUME NEW k \in Handler, at'[k] \in Serving, Unshared(k)'
      PROVE  subs'[subId'[k]] = k
  <2>1. k # h /\ at[k] \in Serving
    BY <1>1, <1>2, <1>4 DEF Serving
  <2>2. Unshared(k) /\ subId[k] # subId[h]
    BY <1>1, <1>4, <2>1 DEF Unshared
  <2>3. subs[subId[k]] = k /\ subId[k] \in Id
    BY <2>1, <2>2 DEF IServed, SubsAreServed, TypeOK
  <2> QED
    BY <1>1, <1>2, <2>2, <2>3
<1>5. NewHasNoId'
  BY <1>1, <1>2 DEF IServed, NewHasNoId
<1> QED
  BY <1>3, <1>4, <1>5 DEF IServed, SubsAreServed

\* A call that moves on without subscribing or leaving keeps its entry.
LEMMA MovesKeepServed ==
  ASSUME TypeOK, IServed, NEW h \in Handler,
         Refuse(h) \/ Receive(h) \/ Send(h)
  PROVE  IServed'
<1> USE GatewayAssumption
<1>1. UNCHANGED <<subs, subId>> /\ at \in [Handler -> Place]
  BY DEF Refuse, Receive, Send, TypeOK
<1>2. /\ \A k \in Handler \ {h} : at'[k] = at[k]
      /\ at'[h] \in {"done", "receive", "send", "leave"}
  BY <1>1 DEF Refuse, Receive, Send, SendFails, Goto
<1>3. \/ at[h] = "new" /\ at'[h] = "done"
      \/ at[h] \in Serving /\ at'[h] \in {"receive", "send", "leave"}
  BY <1>1 DEF Refuse, Receive, Send, SendFails, Goto, Serving
<1>4. ASSUME NEW j \in Id, subs[j] # Nobody
      PROVE  subId[subs[j]] = j
             /\ at'[subs[j]] \in {"receive", "send", "leave"}
  <2>1. subs[j] \in Handler
    BY <1>4 DEF TypeOK
  <2>2. subId[subs[j]] = j /\ at[subs[j]] \in {"receive", "send", "leave"}
    BY <1>4 DEF IServed, SubsAreServed
  <2> QED
    BY <1>2, <1>3, <2>1, <2>2
<1>5. ASSUME NEW k \in Handler, at'[k] \in Serving
      PROVE  at[k] \in Serving
  BY <1>2, <1>3, <1>5 DEF Serving
<1>6. ASSUME NEW k \in Handler, at'[k] = "new"
      PROVE  at[k] = "new"
  BY <1>2, <1>6
<1> QED
  BY <1>1, <1>4, <1>5, <1>6 DEF IServed, SubsAreServed, NewHasNoId, Unshared

\* Every step keeps the map in agreement.
LEMMA ServedStep ==
  ASSUME TypeOK, IServed, [Next]_vars
  PROVE  IServed'
<1>1. CASE UNCHANGED <<subs, at, subId>>
  BY <1>1, OthersKeepServed
<1>2. CASE Write \/ Poll \/ Rejoin \/ Garbled \/ HandOver
           \/ Lock \/ Offer \/ Unlock \/ UNCHANGED vars
  BY <1>1, <1>2 DEF Write, Poll, Rejoin, Garbled, HandOver, Lock, Offer,
                    Unlock, vars
<1>3. ASSUME NEW h \in Handler,
             Refuse(h) \/ Subscribe(h) \/ Serve(h) \/ Client(h)
      PROVE  IServed'
  <2>1. CASE Client(h)
    BY <1>1, <2>1 DEF Client
  <2> QED
    BY <1>3, <2>1, SubscribeKeepsServed, UnsubscribeKeepsServed,
       MovesKeepServed DEF Serve
<1> QED
  BY <1>2, <1>3 DEF Next

\* The subscriber map holds handlers that run, and every handler whose id
\* nobody else uses.
THEOREM SubscribersAreServed == Spec => []SubsAreServed
<1>1. Init => IServed
  BY GatewayAssumption DEF Init, IServed, SubsAreServed, NewHasNoId, Serving
<1>2. TypeOK /\ IServed /\ [Next]_vars => IServed'
  BY ServedStep
<1>3. IServed => SubsAreServed
  BY DEF IServed
<1> QED
  BY <1>1, <1>2, <1>3, GatewayTypeCorrect, PTL DEF Spec

-----------------------------------------------------------------------------
\* How the streams move.

\* Appending to the last of three sequences appends to all.
LEMMA ConcatAppend ==
  ASSUME NEW S, NEW r \in Seq(S), NEW s \in Seq(S), NEW t \in Seq(S), NEW e \in S
  PROVE  (r \o s) \o Append(t, e) = Append((r \o s) \o t, e)
<1>1. <<e>> \in Seq(S) /\ r \o s \in Seq(S)
  BY ConcatProperties
<1>2. (r \o s) \o (t \o <<e>>) = ((r \o s) \o t) \o <<e>>
  BY <1>1, ConcatAssociative
<1>3. (r \o s) \o t \in Seq(S)
  BY <1>1, ConcatProperties
<1> QED
  BY <1>2, <1>3, AppendIsConcat

\* A sequence that is not empty is its head before its tail.
LEMMA HeadBeforeTail ==
  ASSUME NEW S, NEW t \in Seq(S), t # <<>>
  PROVE  t = <<Head(t)>> \o Tail(t)
<1>1. Head(t) \in S /\ Tail(t) \in Seq(S) /\ <<Head(t)>> \in Seq(S)
      /\ Len(<<Head(t)>>) = 1
  BY HeadTailProperties
<1>2. Len(t) = 1 + Len(Tail(t)) /\ Len(t) \in Nat \ {0}
      /\ \A i \in 1..Len(Tail(t)) : Tail(t)[i] = t[i + 1]
  BY HeadTailProperties, EmptySeq
<1>3. /\ <<Head(t)>> \o Tail(t) \in Seq(S)
      /\ Len(<<Head(t)>> \o Tail(t)) = 1 + Len(Tail(t))
      /\ \A i \in 1..(1 + Len(Tail(t))) : (<<Head(t)>> \o Tail(t))[i] =
            IF i <= 1 THEN <<Head(t)>>[i] ELSE Tail(t)[i - 1]
  BY <1>1, ConcatProperties
<1>4. ASSUME NEW i \in 1..Len(t) PROVE t[i] = (<<Head(t)>> \o Tail(t))[i]
  <2>1. CASE i = 1
    BY <1>2, <1>3, <2>1
  <2>2. CASE i # 1
    <3>1. i - 1 \in 1..Len(Tail(t)) /\ ~(i <= 1) /\ (i - 1) + 1 = i
          /\ i \in 1..(1 + Len(Tail(t)))
      BY <1>2, <2>2
    <3> QED
      BY <1>2, <1>3, <3>1
  <2> QED
    BY <2>1, <2>2
<1> QED
  BY <1>2, <1>3, <1>4, SeqEqual

\* Nor does it matter to two sequences whether the head of the second is in
\* between.
LEMMA TakeHead ==
  ASSUME NEW S, NEW s \in Seq(S), NEW t \in Seq(S), t # <<>>
  PROVE  (s \o <<>>) \o t = (s \o <<Head(t)>>) \o Tail(t)
<1>1. <<Head(t)>> \in Seq(S) /\ Tail(t) \in Seq(S)
  BY HeadTailProperties
<1>2. (s \o <<Head(t)>>) \o Tail(t) = s \o (<<Head(t)>> \o Tail(t))
  BY <1>1, ConcatAssociative
<1> QED
  BY <1>2, HeadBeforeTail, ConcatEmptySeq

\* A stream is a sequence of values, and its parts are.
LEMMA StreamTyped ==
  ASSUME TypeOK, NEW h \in Handler
  PROVE  /\ Stream(h) \in Seq(Value) /\ got[h] \in Seq(Value)
         /\ Held(h) \in Seq(Value) /\ queue[h] \in Seq(Value)
         /\ got[h] \o Held(h) \in Seq(Value)
<1>1. got[h] \in Seq(Value) /\ queue[h] \in Seq(Value)
      /\ hand[h] \in Value \cup {0}
  BY DEF TypeOK
<1>2. Held(h) \in Seq(Value)
  BY <1>1 DEF Held
<1>3. got[h] \o Held(h) \in Seq(Value)
  BY <1>1, <1>2, ConcatProperties
<1> QED
  BY <1>1, <1>2, <1>3, ConcatProperties DEF Stream

\* A handler's stream changes only with what the handler has.
LEMMA StreamStays ==
  ASSUME NEW h \in Handler, got'[h] = got[h], hand'[h] = hand[h],
         queue'[h] = queue[h]
  PROVE  Stream(h)' = Stream(h)
BY DEF Stream, Held

\* Passing on what the channel holds leaves every stream as it is.
LEMMA StreamOfReceive ==
  ASSUME TypeOK, HandsEmpty, NEW h \in Handler, Receive(h), NEW k \in Handler
  PROVE  Stream(k)' = Stream(k)
<1>1. CASE k # h
  BY <1>1, StreamStays DEF Receive, TypeOK
<1>2. CASE k = h
  <2>1. /\ at[h] = "receive" /\ queue[h] # <<>> /\ hand'[h] = Head(queue[h])
        /\ queue'[h] = Tail(queue[h]) /\ got'[h] = got[h]
    BY DEF Receive, TypeOK
  <2>2. hand[h] = 0 /\ queue[h] \in Seq(Value) /\ got[h] \in Seq(Value)
    BY <2>1 DEF HandsEmpty, TypeOK
  <2>3. /\ Head(queue[h]) \in Value /\ Tail(queue[h]) \in Seq(Value)
        /\ <<Head(queue[h])>> \in Seq(Value) /\ Head(queue[h]) # 0
    BY <2>1, <2>2, HeadTail, ZeroIsNoValue
  <2>4. Stream(h) = (got[h] \o <<>>) \o queue[h]
    BY <2>2 DEF Stream, Held
  <2>5. Stream(h)' = (got[h] \o <<Head(queue[h])>>) \o Tail(queue[h])
    BY <2>1, <2>3 DEF Stream, Held
  <2> QED
    BY <1>2, <2>1, <2>2, <2>4, <2>5, TakeHead
<1> QED
  BY <1>1, <1>2

\* A send leaves every stream as it is; one that fails ends the call, and of
\* its stream what the channel holds is left.
LEMMA StreamOfSend ==
  ASSUME TypeOK, NEW h \in Handler, Send(h), NEW k \in Handler
  PROVE  \/ Stream(k)' = Stream(k)
         \/ k = h /\ at'[h] = "leave" /\ Stream(h)' = queue[h]
<1>1. CASE k # h
  BY <1>1, StreamStays DEF Send, TypeOK
<1>2. CASE k = h
  <2>1. /\ hand[h] \in Value /\ hand'[h] = 0 /\ queue'[h] = queue[h]
        /\ got[h] \in Seq(Value) /\ queue[h] \in Seq(Value)
    BY DEF Send, TypeOK
  <2>2. Held(h) = <<hand[h]>> /\ Held(h)' = <<>>
    BY <2>1, ZeroIsNoValue DEF Held
  <2>3. Stream(h)' = (got'[h] \o <<>>) \o queue[h]
    BY <2>1, <2>2 DEF Stream
  <2>4. CASE got'[h] = Append(got[h], hand[h])
    <3>1. got'[h] \in Seq(Value) /\ got'[h] = got[h] \o <<hand[h]>>
      BY <2>1, <2>4, AppendIsConcat, AppendTyped
    <3>2. got'[h] \o <<>> = got'[h]
      BY <3>1, ConcatEmptySeq
    <3> QED
      BY <1>2, <2>2, <2>3, <3>1, <3>2 DEF Stream
  <2>5. CASE got'[h] = <<>> /\ at'[h] = "leave"
    <3>1. <<>> \o <<>> = <<>> /\ <<>> \o queue[h] = queue[h]
      BY <2>1, ConcatEmptySeq
    <3> QED
      BY <1>2, <2>3, <2>5, <3>1
  <2>6. \/ got'[h] = Append(got[h], hand[h])
        \/ got'[h] = <<>> /\ at'[h] = "leave"
    BY DEF Send, SendFails, Goto, TypeOK
  <2> QED
    BY <2>4, <2>5, <2>6
<1> QED
  BY <1>1, <1>2

\* An offer adds the value at hand to the stream of the subscriber it is made
\* to, unless that one's channel is full.
LEMMA StreamOfOffer ==
  ASSUME TypeOK, NEW h \in Handler, OfferTo(h), data # 0,
         UNCHANGED <<got, hand>>, NEW k \in Handler
  PROVE  /\ k # h => Stream(k)' = Stream(k)
         /\ Len(queue[h]) < ChannelSize => Stream(h)' = Append(Stream(h), data)
         /\ Len(queue[h]) >= ChannelSize => Stream(h)' = Stream(h)
<1>1. /\ queue \in [Handler -> Seq(Value)] /\ data \in Value
      /\ Len(queue[h]) \in Nat /\ ChannelSize \in Nat
  BY GatewayAssumption DEF TypeOK
<1>2. CASE Len(queue[h]) < ChannelSize
  <2>1. queue'[h] = Append(queue[h], data)
        /\ \A j \in Handler : j # h => queue'[j] = queue[j]
    BY <1>1, <1>2 DEF OfferTo
  <2>2. Stream(h)' = (got[h] \o Held(h)) \o Append(queue[h], data)
    BY <2>1 DEF Stream, Held
  <2>3. Stream(h)' = Append(Stream(h), data)
    <3>1. /\ got[h] \in Seq(Value) /\ Held(h) \in Seq(Value)
          /\ queue[h] \in Seq(Value)
      BY StreamTyped
    <3>2. \A r, s, t \in Seq(Value), e \in Value :
             (r \o s) \o Append(t, e) = Append((r \o s) \o t, e)
      BY ConcatAppend
    <3>3. (got[h] \o Held(h)) \o Append(queue[h], data)
             = Append((got[h] \o Held(h)) \o queue[h], data)
      BY <1>1, <3>1, <3>2
    <3> QED
      BY <2>2, <3>3 DEF Stream
  <2>4. k # h => Stream(k)' = Stream(k)
    BY <2>1, StreamStays
  <2> QED
    BY <1>1, <1>2, <2>3, <2>4
<1>3. CASE Len(queue[h]) >= ChannelSize
  <2>1. queue' = queue
    BY <1>1, <1>3 DEF OfferTo
  <2> QED
    BY <1>1, <1>3, <2>1, StreamStays
<1> QED
  BY <1>1, <1>2, <1>3

-----------------------------------------------------------------------------
\* Only a handler that sends has a value in its hands, and a call that has not
\* subscribed is offered nothing.
LEMMA HandsStep ==
  ASSUME TypeOK, IServed, HandsEmpty, LeftSubscribed, [Next]_vars
  PROVE  HandsEmpty' /\ LeftSubscribed'
<1> USE DEF HandsEmpty, LeftSubscribed
<1>1. /\ at \in [Handler -> Place] /\ hand \in [Handler -> Value \cup {0}]
      /\ queue \in [Handler -> Seq(Value)] /\ got \in [Handler -> Seq(Value)]
      /\ due \in [Handler -> Seq(Value)] /\ left \subseteq Id
      /\ subs \in [Id -> Handler \cup {Nobody}]
  BY DEF TypeOK
<1>2. CASE UNCHANGED vars \/ Write \/ Poll \/ Rejoin \/ Garbled \/ HandOver
  BY <1>2 DEF vars, Write, Poll, Rejoin, Garbled, HandOver
<1>3. CASE Lock
  BY <1>1, <1>3 DEF Lock, Serving
<1>4. CASE Offer
  <2>1. PICK i \in left : OfferTo(subs[i]) /\ left' = left \ {i}
    BY <1>4 DEF Offer
  <2>2. offering /\ subs[i] \in Handler /\ at[subs[i]] # "new"
    BY <1>1, <1>4, <2>1 DEF Offer, IServed, SubsAreServed
  <2>3. \A h \in Handler : h # subs[i] => queue'[h] = queue[h]
    BY <1>1, <2>1, <2>2 DEF OfferTo
  <2> QED
    BY <1>4, <2>1, <2>2, <2>3 DEF Offer
<1>5. CASE Unlock
  BY <1>5 DEF Unlock, Release
<1>6. ASSUME NEW h \in Handler, Refuse(h) \/ Client(h)
      PROVE  HandsEmpty' /\ LeftSubscribed'
  BY <1>1, <1>6 DEF Refuse, Client, Goto
<1>7. ASSUME NEW h \in Handler, Subscribe(h)
      PROVE  HandsEmpty' /\ LeftSubscribed'
  BY <1>1, <1>7 DEF Subscribe, Goto
<1>8. ASSUME NEW h \in Handler, Receive(h)
      PROVE  HandsEmpty' /\ LeftSubscribed'
  BY <1>1, <1>8 DEF Receive, Goto
<1>9. ASSUME NEW h \in Handler, Send(h)
      PROVE  HandsEmpty' /\ LeftSubscribed'
  BY <1>1, <1>9 DEF Send, SendFails, Goto
<1>10. ASSUME NEW h \in Handler, Unsubscribe(h)
       PROVE  HandsEmpty' /\ LeftSubscribed'
  BY <1>1, <1>10 DEF Unsubscribe, Delete, Goto
<1> QED
  BY <1>2, <1>3, <1>4, <1>5, <1>6, <1>7, <1>8, <1>9, <1>10 DEF Next, Serve

\* The steps other than an offer and a failed send leave every stream.
LEMMA StreamsStay ==
  ASSUME TypeOK, HandsEmpty, [Next]_vars, ~Offer, NEW h \in Handler
  PROVE  \/ Stream(h)' = Stream(h)
         \/ Send(h) /\ at'[h] = "leave" /\ Stream(h)' = queue[h]
<1>1. CASE UNCHANGED <<queue, hand, got>>
  BY <1>1, StreamStays
<1>2. ASSUME NEW k \in Handler, Receive(k)
      PROVE  Stream(h)' = Stream(h)
  BY <1>2, StreamOfReceive
<1>3. ASSUME NEW k \in Handler, Send(k)
      PROVE  \/ Stream(h)' = Stream(h)
             \/ k = h /\ at'[h] = "leave" /\ Stream(h)' = queue[h]
  BY <1>3, StreamOfSend
<1> QED
  BY <1>1, <1>2, <1>3 DEF Next, vars, Write, Poll, Rejoin, Garbled, HandOver,
     Lock, Unlock, Refuse, Subscribe, Serve, Unsubscribe, Client

-----------------------------------------------------------------------------
\* What a subscriber is sent before its channel was full.

\* A handler serves since it subscribed, and whoever shares its id keeps it.
LEMMA ServingSince ==
  ASSUME TypeOK, IServed, [Next]_vars, NEW h \in Handler, at'[h] \in Serving
  PROVE  \/ Subscribe(h)
         \/ /\ at[h] \in Serving /\ subId'[h] = subId[h]
            /\ Unshared(h)' => Unshared(h) /\ subs[subId[h]] = h
<1>1. /\ at \in [Handler -> Place] /\ subId \in [Handler -> Id \cup {NoId}]
      /\ at[h] \in Serving => subId[h] \in Id
  BY DEF TypeOK
<1>2. CASE UNCHANGED <<at, subId>>
  BY <1>1, <1>2 DEF Unshared, IServed, SubsAreServed
<1>3. ASSUME NEW k \in Handler, Refuse(k) \/ Receive(k) \/ Send(k) \/ Unsubscribe(k)
      PROVE  /\ at[h] \in Serving /\ subId' = subId
             /\ Unshared(h)' => Unshared(h) /\ subs[subId[h]] = h
  <2>1. at[h] \in Serving /\ subId' = subId
    BY <1>1, <1>3 DEF Refuse, Receive, Send, SendFails, Unsubscribe, Goto,
       Serving
  <2> QED
    BY <2>1 DEF Unshared, IServed, SubsAreServed
<1>4. ASSUME NEW k \in Handler, k # h, Subscribe(k)
      PROVE  /\ at[h] \in Serving /\ subId'[h] = subId[h]
             /\ Unshared(h)' => Unshared(h) /\ subs[subId[h]] = h
  <2>1. PICK i \in Id : subId' = [subId EXCEPT ![k] = i]
    BY <1>4 DEF Subscribe
  <2>2. at[h] \in Serving /\ subId'[h] = subId[h] /\ subId[k] = NoId
    BY <1>1, <1>4, <2>1 DEF Subscribe, Goto, IServed, NewHasNoId
  <2>3. subId[h] # subId[k]
    BY <1>1, <2>2, GatewayAssumption
  <2>4. \A j \in Handler \ {h, k} : subId'[j] = subId[j]
    BY <1>1, <2>1
  <2>5. Unshared(h)' => Unshared(h)
    BY <2>2, <2>3, <2>4 DEF Unshared
  <2> QED
    BY <2>2, <2>5 DEF IServed, SubsAreServed
<1> QED
  BY <1>2, <1>3, <1>4 DEF Next, vars, Write, Poll, Rejoin, Garbled, HandOver,
     Lock, Offer, Unlock, Serve, Client

\* The channel of a handler that has just subscribed is in step: it has what
\* was broadcast since, nothing.
LEMMA DueOfNew ==
  ASSUME TypeOK, HandsEmpty, NEW h \in Handler, Subscribe(h)
  PROVE  (Len(due[h]) <= ChannelSize /\ InStep(h))'
<1>1. /\ due'[h] = <<>> /\ queue'[h] = <<>> /\ got'[h] = <<>>
      /\ hand'[h] = 0 /\ ~offering'
  BY DEF Subscribe, HandsEmpty
<1>2. Stream(h)' = <<>>
  <2>1. Stream(h)' = (<<>> \o <<>>) \o <<>>
    BY <1>1 DEF Stream, Held
  <2>2. <<>> \in Seq(Value) /\ <<>> \o <<>> = <<>>
    OBVIOUS
  <2> QED
    BY <2>1, <2>2
<1>3. Offered(h)' = 0
  BY <1>1 DEF Offered
<1> QED
  BY <1>1, <1>2, <1>3, GatewayAssumption DEF InStep

\* What an offer does to a channel in step, or to one that was full.
LEMMA DueOfOffer ==
  ASSUME TypeOK, IServed, LeftSubscribed, Offer, NEW h \in Handler,
         subId[h] \in Id, subs[subId[h]] = h,
         Len(due[h]) <= ChannelSize, InStep(h) \/ Saturated(h)
  PROVE  (Len(due[h]) <= ChannelSize /\ (InStep(h) \/ Saturated(h)))'
<1>1. PICK i \in left : OfferTo(subs[i]) /\ left' = left \ {i}
  BY DEF Offer
<1>2. /\ offering /\ offering' /\ data # 0 /\ due' = due /\ data' = data
      /\ UNCHANGED <<got, hand, subs, subId>>
  BY DEF Offer, TypeOK
<1>3. /\ subs[i] \in Handler /\ subId[subs[i]] = i /\ i \in Id
  BY <1>1, <1>2 DEF LeftSubscribed, TypeOK, IServed, SubsAreServed
<1>4. /\ Stream(h) \in Seq(Value) /\ Len(Stream(h)) \in Nat /\ data \in Value
      /\ Len(due[h]) \in Nat /\ ChannelSize \in Nat \ {0}
      /\ queue[h] \in Seq(Value) /\ Len(queue[h]) \in Nat
  BY <1>2, StreamTyped, GatewayAssumption DEF TypeOK
<1>5. /\ Stream(h)' \in Seq(Value) /\ Len(Stream(h)') \in Nat
      /\ Stream(h)' = Stream(h) \/ Stream(h)' = Append(Stream(h), data)
  <2>1. Stream(h)' = Stream(h) \/ Stream(h)' = Append(Stream(h), data)
    BY <1>1, <1>2, <1>3, <1>4, StreamOfOffer
  <2> QED
    BY <1>4, <2>1
<1>6. /\ Len(Stream(h)') >= Len(Stream(h))
      /\ \A j \in 1..Len(Stream(h)) : Stream(h)'[j] = Stream(h)[j]
  BY <1>4, <1>5
<1>7. CASE Saturated(h)
  <2>1. Saturated(h)'
    BY <1>2, <1>4, <1>5, <1>6, <1>7 DEF Saturated
  <2> QED
    BY <1>2, <2>1
<1>8. CASE InStep(h) /\ i # subId[h]
  <2>1. Stream(h)' = Stream(h)
    BY <1>1, <1>2, <1>3, <1>8, StreamOfOffer
  <2>2. Offered(h)' = Offered(h)
        /\ (subId[h] \in left' <=> subId[h] \in left)
    BY <1>1, <1>2, <1>8 DEF Offered
  <2> QED
    BY <1>2, <1>8, <2>1, <2>2 DEF InStep
<1>9. CASE InStep(h) /\ i = subId[h]
  <2>1. /\ Len(due[h]) > 0 /\ due[h][Len(due[h])] = data
        /\ Len(Stream(h)) = Len(due[h]) - 1
        /\ \A j \in 1..Len(Stream(h)) : Stream(h)[j] = due[h][j]
    BY <1>1, <1>2, <1>9 DEF InStep, Offered
  <2>2. Len(queue[h]) <= Len(Stream(h))
    <3>1. got[h] \o Held(h) \in Seq(Value)
      BY StreamTyped
    <3>2. PICK n \in Nat : Len(Stream(h)) = n + Len(queue[h])
      <4>1. PICK s \in Seq(Value) : s = got[h] \o Held(h)
        BY <3>1
      <4>2. Len(s \o queue[h]) = Len(s) + Len(queue[h]) /\ Len(s) \in Nat
        BY <1>4, ConcatProperties
      <4> QED
        BY <4>1, <4>2 DEF Stream
    <3> QED
      BY <1>4, <3>2
  <2>3. Stream(h)' = Append(Stream(h), data)
    BY <1>1, <1>2, <1>3, <1>4, <1>9, <2>1, <2>2, StreamOfOffer
  <2>4. /\ Len(Stream(h)') = Len(due[h])
        /\ \A j \in 1..Len(due[h]) : Stream(h)'[j] = due[h][j]
    BY <1>4, <2>1, <2>3
  <2>5. subId[h] \notin left' /\ Offered(h)' = Len(due[h])
    BY <1>1, <1>2, <1>4, <1>9 DEF Offered
  <2> QED
    BY <1>2, <2>4, <2>5 DEF InStep
<1> QED
  BY <1>7, <1>8, <1>9

\* A broadcast begins: the value is due to whoever serves, unless it has had
\* as many as its channel takes.
LEMMA DueOfLock ==
  ASSUME TypeOK, Lock, NEW h \in Handler, at[h] \in Serving,
         subId[h] \in Id, subs[subId[h]] = h,
         Len(due[h]) <= ChannelSize, InStep(h) \/ Saturated(h)
  PROVE  (Len(due[h]) <= ChannelSize /\ (InStep(h) \/ Saturated(h)))'
<1>1. /\ Stream(h)' = Stream(h) /\ data' = data /\ offering' /\ ~offering
      /\ subId' = subId /\ h # Nobody /\ subId[h] \in left'
  BY StreamStays, GatewayAssumption DEF Lock
<1>2. /\ Len(Stream(h)) \in Nat /\ data \in Value /\ due[h] \in Seq(Value)
      /\ Len(due[h]) \in Nat /\ ChannelSize \in Nat \ {0}
  BY StreamTyped, GatewayAssumption DEF TypeOK, Lock
<1>3. due'[h] = IF Len(due[h]) < ChannelSize THEN Append(due[h], data)
                ELSE due[h]
  BY DEF Lock
<1>4. CASE Len(due[h]) < ChannelSize
  <2>1. /\ InStep(h) /\ Len(Stream(h)) = Len(due[h])
        /\ \A i \in 1..Len(due[h]) : Stream(h)[i] = due[h][i]
    BY <1>1, <1>2, <1>4 DEF InStep, Saturated, Offered
  <2>2. /\ Len(due'[h]) = Len(due[h]) + 1 /\ due'[h][Len(due[h]) + 1] = data
        /\ \A i \in 1..Len(due[h]) : due'[h][i] = due[h][i]
    BY <1>2, <1>3, <1>4
  <2>3. Offered(h)' = Len(due[h])
    BY <1>1, <1>2, <2>2 DEF Offered
  <2>4. InStep(h)'
    BY <1>1, <1>2, <2>1, <2>2, <2>3 DEF InStep
  <2> QED
    BY <1>2, <1>4, <2>2, <2>4
<1>5. CASE Len(due[h]) = ChannelSize
  <2>1. Saturated(h)
    BY <1>1, <1>2, <1>5 DEF InStep, Saturated, Offered
  <2> QED
    BY <1>1, <1>2, <1>3, <1>5, <2>1 DEF Saturated
<1> QED
  BY <1>2, <1>4, <1>5

\* What is due is kept by every step.
LEMMA DueStep ==
  ASSUME TypeOK, IServed, HandsEmpty, LeftSubscribed, DueInv, [Next]_vars
  PROVE  DueInv'
<1> SUFFICES ASSUME NEW h \in Handler, (at[h] \in Serving /\ Unshared(h))'
             PROVE  (Len(due[h]) <= ChannelSize /\ (InStep(h) \/ Saturated(h)))'
  BY DEF DueInv
<1>1. CASE Subscribe(h)
  BY <1>1, DueOfNew
<1>2. CASE ~Subscribe(h)
  <2>1. /\ at[h] \in Serving /\ subId'[h] = subId[h]
        /\ Unshared(h) /\ subs[subId[h]] = h
    BY <1>2, ServingSince
  <2>2. /\ subId[h] \in Id
        /\ Len(due[h]) <= ChannelSize /\ (InStep(h) \/ Saturated(h))
    BY <2>1 DEF DueInv, TypeOK
  <2>3. CASE Offer
    BY <2>1, <2>2, <2>3, DueOfOffer
  <2>4. CASE Lock
    BY <2>1, <2>2, <2>4, DueOfLock
  <2>5. CASE ~Offer /\ ~Lock
    <3>1. Stream(h)' = Stream(h) /\ due'[h] = due[h]
      <4>1. ~(Send(h) /\ at'[h] = "leave")
        BY DEF Serving
      <4>2. Stream(h)' = Stream(h)
        BY <2>5, <4>1, StreamsStay
      <4>3. \A k \in Handler : Send(k) => due'[h] = due[h]
        BY <4>1 DEF Send, SendFails, Goto, TypeOK
      <4> QED
        BY <2>5, <4>2, <4>3 DEF Next, vars, Write, Poll, Rejoin, Garbled,
           HandOver, Unlock, Refuse, Subscribe, Serve, Receive, Unsubscribe,
           Client
    <3>2. CASE Unlock
      <4>1. /\ Offered(h)' = Len(due[h]) /\ Offered(h) = Len(due[h])
            /\ ~offering'
        BY <2>1, <3>1, <3>2 DEF Unlock, Release, Offered
      <4> QED
        BY <2>2, <3>1, <4>1 DEF InStep, Saturated
    <3>3. CASE ~Unlock
      <4>1. UNCHANGED <<offering, left>> /\ (offering => data' = data)
        BY <2>5, <3>3 DEF Next, vars, Write, Poll, Rejoin, Garbled,
           HandOver, Refuse, Subscribe, Serve, Receive, Send, Unsubscribe,
           Client, TypeOK
      <4>2. Offered(h)' = Offered(h)
        BY <2>1, <3>1, <4>1 DEF Offered
      <4> QED
        BY <2>1, <2>2, <3>1, <4>1, <4>2 DEF InStep, Saturated
    <3> QED
      BY <3>2, <3>3
  <2> QED
    BY <2>3, <2>4, <2>5
<1> QED
  BY <1>1, <1>2

\* What HandsStep keeps holds throughout.
LEMMA HandsAlways == Spec => [](TypeOK /\ IServed /\ HandsEmpty /\ LeftSubscribed)
<1>1. Init => IServed /\ HandsEmpty /\ LeftSubscribed
  BY GatewayAssumption DEF Init, IServed, SubsAreServed, NewHasNoId, Serving,
     HandsEmpty, LeftSubscribed
<1>2. TypeOK /\ IServed /\ HandsEmpty /\ LeftSubscribed /\ [Next]_vars
         => HandsEmpty' /\ LeftSubscribed'
  BY HandsStep
<1>3. TypeOK /\ IServed /\ [Next]_vars => IServed'
  BY ServedStep
<1> QED
  BY <1>1, <1>2, <1>3, GatewayTypeCorrect, PTL DEF Spec

\* A subscriber whose id nobody else uses misses no value before its channel
\* was full, for every size of the channels, however the broadcasts, the
\* sends and the other calls interleave.
THEOREM NothingMissedUntilFull == Spec => []NoneMissedUntilFull
<1>1. Init => DueInv
  BY DEF Init, DueInv, Serving
<1>2. TypeOK /\ IServed /\ HandsEmpty /\ LeftSubscribed /\ DueInv /\ [Next]_vars
         => DueInv'
  BY DueStep
<1>3. TypeOK /\ DueInv => NoneMissedUntilFull
  <2> SUFFICES ASSUME TypeOK, DueInv, NEW h \in Handler,
                      at[h] \in Serving, Unshared(h), NEW i \in 1..Offered(h)
               PROVE  i <= Len(Stream(h)) /\ Stream(h)[i] = due[h][i]
    BY DEF NoneMissedUntilFull
  <2>1. /\ Len(due[h]) \in Nat /\ Len(due[h]) <= ChannelSize
        /\ ChannelSize \in Nat /\ Len(Stream(h)) \in Nat
        /\ InStep(h) \/ Saturated(h)
    BY StreamTyped, GatewayAssumption DEF TypeOK, DueInv
  <2>2. Offered(h) = Len(due[h]) \/ Offered(h) = Len(due[h]) - 1
    <3>1. CASE offering /\ subId[h] \in left
      BY <2>1, <3>1 DEF Offered
    <3>2. CASE ~(offering /\ subId[h] \in left)
      <4>1. Offered(h) = Len(due[h]) - 0
        BY <3>2 DEF Offered
      <4> QED
        BY <2>1, <4>1
    <3> QED
      BY <3>1, <3>2
  <2> QED
    BY <2>1, <2>2 DEF InStep, Saturated
<1> QED
  BY <1>1, <1>2, <1>3, HandsAlways, PTL DEF Spec

-----------------------------------------------------------------------------
\* The order of what is sent.

\* A sequence of values that may be a handler's stream.
Fits(h, s) ==
    /\ Rising(s) /\ AtMost(s, position)
    /\ \A i \in 1..Len(s), j \in 1..Len(fetched) : s[i] < fetched[j]
    /\ data # 0 => /\ AtMost(s, data)
                   /\ Offers(h) => \A i \in 1..Len(s) : s[i] < data

\* What a poll brings rises from where the consumer is.
LEMMA PolledRises ==
  ASSUME TypeOK, NEW n \in (position + 1)..written
  PROVE  /\ Rising(Values(position, n)) /\ AtMost(Values(position, n), n)
         /\ \A i \in 1..Len(Values(position, n)) : position < Values(position, n)[i]
<1>1. position \in Nat /\ n \in Nat /\ position < n
  BY DEF TypeOK
<1>2. /\ Len(Values(position, n)) = n - position
      /\ \A i \in 1..(n - position) : Values(position, n)[i] = position + i
  BY <1>1 DEF Values
<1> QED
  BY <1>1, <1>2 DEF Rising, AtMost

\* The fetch stays in order, behind the value at hand.
LEMMA FetchStep ==
  ASSUME TypeOK, "rejoin" \notin faults, FetchInOrder, [Next]_vars
  PROVE  FetchInOrder'
<1>1. /\ position \in Nat /\ fetched \in Seq(Value) /\ data \in Value \cup {0}
      /\ \A v \in Value : v \in Nat /\ v > 0
  BY GatewayAssumption DEF TypeOK, Value
<1>2. CASE Poll
  <2>1. PICK n \in (position + 1)..written : PollTo(n)
    BY <1>2 DEF Poll
  <2>2. data' = data /\ position' = n /\ n \in Nat /\ n > position
        /\ data \in Nat /\ data <= position
    BY <1>1, <1>2, <2>1 DEF Poll, PollTo, FetchInOrder, TypeOK
  <2>3. CASE fetched' = Values(position, n)
    <3>1. \A i \in 1..Len(fetched') : fetched'[i] \in Value
      <4>1. fetched' \in Seq(Value)
        BY <1>2, PumpTyped DEF TypeOK
      <4> QED
        BY <4>1
    <3>2. /\ Rising(fetched') /\ AtMost(fetched', n)
          /\ \A i \in 1..Len(fetched') : position < fetched'[i]
      BY <2>3, PolledRises
    <3>3. ASSUME NEW i \in 1..Len(fetched') PROVE data < fetched'[i]
      <4>1. fetched'[i] \in Nat /\ position < fetched'[i]
        BY <1>1, <3>1, <3>2
      <4> QED
        BY <1>1, <2>2, <4>1
    <3>4. data' <= n
      BY <1>1, <2>2
    <3> QED
      BY <2>2, <3>2, <3>3, <3>4 DEF FetchInOrder, Rising, AtMost
  <2>4. CASE fetched' = <<>>
    BY <1>1, <2>2, <2>4 DEF FetchInOrder, Rising, AtMost
  <2> QED
    BY <1>2, <2>1, <2>3, <2>4 DEF Poll, PollTo
<1>3. CASE Garbled
  BY <1>3 DEF Garbled, FetchInOrder, Rising, AtMost
<1>4. CASE HandOver
  <2>1. /\ fetched # <<>> /\ data' = Head(fetched) /\ fetched' = Tail(fetched)
        /\ position' = position
    BY <1>4 DEF HandOver
  <2>2. /\ Len(fetched) \in Nat \ {0} /\ data' = fetched[1] /\ data' \in Value
        /\ Len(fetched') = Len(fetched) - 1
        /\ \A i \in 1..Len(fetched') : fetched'[i] = fetched[i + 1]
        /\ \A i \in 1..Len(fetched) : fetched[i] \in Value
    BY <1>1, <2>1, HeadTailProperties, EmptySeq, ElementOfSeq
  <2> QED
    BY <1>1, <2>1, <2>2 DEF FetchInOrder, Rising, AtMost
<1>5. CASE Unlock
  BY <1>1, <1>5 DEF Unlock, FetchInOrder, Rising, AtMost
<1>6. CASE UNCHANGED <<position, fetched, data>>
  BY <1>6 DEF FetchInOrder, Rising, AtMost
<1> QED
  BY <1>2, <1>3, <1>4, <1>5, <1>6 DEF Next, vars, Write, Rejoin, Lock, Offer,
     Refuse, Subscribe, Serve, Receive, Send, Unsubscribe, Client

\* What fits keeps fitting while the consumer and the broadcasts go on.
LEMMA FitsStays ==
  ASSUME TypeOK, LeftSubscribed, "rejoin" \notin faults, FetchInOrder,
         [Next]_vars, NEW h \in Handler, NEW s \in Seq(Value), Fits(h, s),
         Offer => (~\E i \in left : subs[i] = h)
  PROVE  Fits(h, s)'
<1>1. /\ position \in Nat /\ fetched \in Seq(Value) /\ data \in Value \cup {0}
      /\ \A v \in Value : v \in Nat /\ v > 0
      /\ Len(s) \in Nat /\ \A i \in 1..Len(s) : s[i] \in Nat
  BY GatewayAssumption DEF TypeOK, Value
<1> USE DEF Rising, AtMost
<1>2. CASE Poll
  <2>1. PICK n \in (position + 1)..written : PollTo(n)
    BY <1>2 DEF Poll
  <2>2. /\ data' = data /\ position' = n /\ n \in Nat /\ n > position
        /\ (Offers(h)' <=> Offers(h))
    BY <1>1, <1>2, <2>1 DEF Poll, PollTo, TypeOK, Offers
  <2>3. ASSUME NEW i \in 1..Len(s), NEW j \in 1..Len(fetched')
        PROVE  s[i] < fetched'[j]
    <3>1. fetched' = Values(position, n) \/ fetched' = <<>>
      BY <1>2, <2>1 DEF Poll, PollTo
    <3>2. position < fetched'[j] /\ fetched'[j] \in Nat
      <4>1. fetched' \in Seq(Value)
        BY <1>2, PumpTyped DEF TypeOK
      <4> QED
        BY <1>1, <3>1, <4>1, <2>3, PolledRises
    <3>3. s[i] <= position
      BY DEF Fits
    <3> QED
      BY <1>1, <3>2, <3>3
  <2>4. AtMost(s, n)
    BY <1>1, <2>2 DEF Fits
  <2> QED
    BY <1>1, <2>2, <2>3, <2>4 DEF Fits
<1>3. CASE Garbled
  <2>1. fetched' = <<>> /\ UNCHANGED <<position, data, offering, left, subs>>
    BY <1>3 DEF Garbled
  <2> QED
    BY <2>1 DEF Fits, Offers
<1>4. CASE HandOver
  <2>1. /\ fetched # <<>> /\ data' = Head(fetched) /\ fetched' = Tail(fetched)
        /\ position' = position
    BY <1>4 DEF HandOver
  <2>2. /\ Len(fetched) \in Nat \ {0} /\ data' = fetched[1]
        /\ Len(fetched') = Len(fetched) - 1
        /\ \A i \in 1..Len(fetched') : fetched'[i] = fetched[i + 1]
        /\ fetched[1] \in Nat
    BY <1>1, <2>1, HeadTailProperties, EmptySeq, ElementOfSeq
  <2>3. \A i \in 1..Len(s) : s[i] < data'
    BY <2>2 DEF Fits
  <2>4. \A i \in 1..Len(s), j \in 1..Len(fetched') : s[i] < fetched'[j]
    BY <2>2 DEF Fits
  <2> QED
    BY <1>1, <2>1, <2>2, <2>3, <2>4 DEF Fits
<1>5. CASE Lock
  <2>1. UNCHANGED <<position, fetched, data>> /\ ~offering
    BY <1>5 DEF Lock
  <2>2. Offers(h)
    BY <2>1 DEF Offers
  <2> QED
    BY <2>1, <2>2 DEF Fits
<1>6. CASE Offer
  <2>1. /\ UNCHANGED <<position, fetched, data, subs>>
        /\ left' \subseteq left /\ offering'
    BY <1>6 DEF Offer
  <2>2. ~Offers(h)'
    BY <1>6, <2>1 DEF Offers
  <2> QED
    BY <2>1, <2>2 DEF Fits
<1>7. CASE Unlock
  BY <1>7 DEF Unlock, Fits
<1>8. CASE /\ UNCHANGED <<position, fetched, data, offering>>
           /\ offering => UNCHANGED <<left, subs>>
  BY <1>8 DEF Fits, Offers
<1> QED
  BY <1>2, <1>3, <1>4, <1>5, <1>6, <1>7, <1>8 DEF Next, vars, Write, Rejoin,
     Refuse, Subscribe, Serve, Receive, Send, Unsubscribe, Client

\* What fits a handler still does without the values it was sent.
LEMMA FitsQueue ==
  ASSUME TypeOK, NEW h \in Handler, Fits(h, Stream(h))
  PROVE  Fits(h, queue[h])
<1>1. PICK s \in Seq(Value) : s = got[h] \o Held(h)
  BY StreamTyped
<1>2. PICK q \in Seq(Value) : q = queue[h]
  BY StreamTyped
<1>3. /\ Len(s) \in Nat /\ Len(q) \in Nat /\ Len(s \o q) = Len(s) + Len(q)
      /\ \A i \in 1..Len(q) : (s \o q)[Len(s) + i] = q[i]
  BY ConcatProperties
<1>4. \A i \in 1..Len(q) : Len(s) + i \in 1..Len(s \o q)
  BY <1>3
<1>5. Fits(h, s \o q)
  BY <1>1, <1>2 DEF Stream
<1>6. Rising(q)
  <2> SUFFICES ASSUME NEW i \in 1..Len(q), NEW j \in 1..Len(q), i < j
               PROVE  q[i] < q[j]
    BY DEF Rising
  <2>1. Len(s) + i < Len(s) + j
    BY <1>3
  <2>2. (s \o q)[Len(s) + i] < (s \o q)[Len(s) + j]
    BY <1>4, <1>5, <2>1 DEF Fits, Rising
  <2> QED
    BY <1>3, <2>2
<1>7. \A i \in 1..Len(q) :
         /\ q[i] <= position
         /\ \A j \in 1..Len(fetched) : q[i] < fetched[j]
         /\ data # 0 => q[i] <= data /\ (Offers(h) => q[i] < data)
  BY <1>3, <1>4, <1>5 DEF Fits, AtMost
<1> QED
  BY <1>2, <1>6, <1>7 DEF Fits, AtMost

\* Every stream stays behind what is on its way.
LEMMA StreamsStep ==
  ASSUME TypeOK, IServed, HandsEmpty, LeftSubscribed, "rejoin" \notin faults,
         FetchInOrder, StreamsBehind, [Next]_vars
  PROVE  StreamsBehind'
<1>1. \A h \in Handler : Fits(h, Stream(h))
  BY DEF StreamsBehind, Fits
<1> SUFFICES ASSUME NEW h \in Handler
             PROVE  \E s \in Seq(Value) : s = Stream(h)' /\ Fits(h, s)'
  BY DEF StreamsBehind, Fits
<1>2. PICK s \in Seq(Value) : s = Stream(h) /\ Fits(h, s)
  BY <1>1, StreamTyped
<1>3. PICK q \in Seq(Value) : q = queue[h] /\ Fits(h, q)
  BY <1>1, FitsQueue, StreamTyped
<1>4. CASE Offer /\ \E i \in left : subs[i] = h
  <2>1. PICK i \in left : OfferTo(subs[i]) /\ left' = left \ {i}
    BY <1>4 DEF Offer
  <2>2. /\ UNCHANGED <<position, fetched, data, subs, got, hand>>
        /\ offering /\ offering'
    BY <1>4 DEF Offer
  <2>3. /\ subs[i] \in Handler /\ i \in Id /\ subId[subs[i]] = i
        /\ \A j \in left : subs[j] = h => j = subId[h]
    BY <2>1, <2>2 DEF LeftSubscribed, TypeOK, IServed, SubsAreServed
  <2>4. data \in Value /\ data \in Nat /\ data # 0 /\ data <= position
        /\ position \in Nat /\ (\A v \in Value : v \in Nat)
        /\ fetched \in Seq(Value)
    BY <2>2 DEF TypeOK, Value, FetchInOrder
  <2>5. Len(s) \in Nat /\ \A j \in 1..Len(s) : s[j] \in Nat
    <3>1. Len(s) \in Nat /\ \A j \in 1..Len(s) : s[j] \in Value
      BY ElementOfSeq, LenProperties
    <3> QED
      BY <3>1 DEF Value
  <2>6. Offers(h)
    BY <1>4 DEF Offers
  <2>7. CASE subs[i] # h
    <3>1. Stream(h)' = s
      BY <1>2, <2>1, <2>2, <2>3, <2>4, <2>7, StreamOfOffer
    <3>2. Fits(h, s)'
      BY <1>2, <2>2, <2>6 DEF Fits
    <3> QED
      BY <3>1, <3>2
  <2>8. CASE subs[i] = h
    <3>1. ~Offers(h)'
      BY <2>1, <2>2, <2>3, <2>8 DEF Offers
    <3>2. Stream(h)' = s \/ Stream(h)' = Append(s, data)
      <4>1. Len(queue[h]) \in Nat /\ ChannelSize \in Nat
        BY StreamTyped, GatewayAssumption
      <4> QED
        BY <1>2, <2>1, <2>2, <2>4, <2>8, <4>1, StreamOfOffer
    <3>3. Fits(h, s)'
      BY <1>2, <2>2, <3>1 DEF Fits
    <3>4. PICK d \in Value : d = data
      BY <2>4
    <3>5. Fits(h, Append(s, d))'
      <4>1. /\ Len(Append(s, d)) = Len(s) + 1 /\ Append(s, d)[Len(s) + 1] = d
            /\ \A j \in 1..Len(s) : Append(s, d)[j] = s[j]
        BY AppendProperties
      <4>2. /\ Rising(s) /\ \A j \in 1..Len(s) : s[j] < d /\ s[j] <= position
            /\ \A j \in 1..Len(s), k \in 1..Len(fetched) : s[j] < fetched[k]
        BY <1>2, <2>4, <2>6, <3>4 DEF Fits, AtMost
      <4>3. \A j \in 1..Len(s) + 1 :
               /\ Append(s, d)[j] <= position /\ Append(s, d)[j] <= data
               /\ \A k \in 1..Len(fetched) : Append(s, d)[j] < fetched[k]
        BY <2>4, <2>5, <3>4, <4>1, <4>2 DEF FetchInOrder
      <4>4. Rising(Append(s, d))
        BY <2>5, <4>1, <4>2 DEF Rising
      <4> QED
        BY <2>2, <3>1, <4>1, <4>3, <4>4 DEF Fits, AtMost
    <3>6. Append(s, d) \in Seq(Value)
      BY AppendTyped
    <3> QED
      BY <3>2, <3>3, <3>4, <3>5, <3>6
  <2> QED
    BY <2>7, <2>8
<1>5. CASE Offer /\ ~\E i \in left : subs[i] = h
  <2>1. PICK i \in left : OfferTo(subs[i])
    BY <1>5 DEF Offer
  <2>2. subs[i] \in Handler /\ subs[i] # h /\ data # 0
        /\ UNCHANGED <<got, hand>>
    BY <1>5, <2>1 DEF Offer, LeftSubscribed, TypeOK
  <2>3. Stream(h)' = s
    BY <1>2, <2>1, <2>2, StreamOfOffer
  <2> QED
    BY <1>2, <1>5, <2>3, FitsStays
<1>6. CASE ~Offer
  <2>1. Fits(h, s)' /\ Fits(h, q)'
    BY <1>2, <1>3, <1>6, FitsStays
  <2>2. Stream(h)' = s \/ Stream(h)' = q
    BY <1>2, <1>3, <1>6, StreamsStay
  <2> QED
    BY <2>1, <2>2
<1> QED
  BY <1>4, <1>5, <1>6

\* Every client gets the values in the order of the topic, and none twice,
\* unless the consumer loses its place in the group, for every number of
\* subscribers and however polls, broadcasts, sends and departures interleave.
THEOREM StreamsInOrder == Spec => []StreamInOrder
<1> DEFINE Ordered == "rejoin" \notin faults => FetchInOrder /\ StreamsBehind
<1>1. Init => Ordered
  <2> SUFFICES ASSUME Init PROVE FetchInOrder /\ StreamsBehind
    OBVIOUS
  <2>1. FetchInOrder
    BY DEF Init, FetchInOrder, Rising, AtMost
  <2>2. ASSUME NEW h \in Handler PROVE Stream(h) = <<>>
    <3>1. Stream(h) = (<<>> \o <<>>) \o <<>>
      BY DEF Init, Stream, Held
    <3>2. <<>> \in Seq(Value) /\ <<>> \o <<>> = <<>>
      OBVIOUS
    <3> QED
      BY <3>1, <3>2
  <2>3. ASSUME NEW h \in Handler PROVE Fits(h, Stream(h))
    <3>1. Len(Stream(h)) = 0
      BY <2>2
    <3>2. 1..Len(Stream(h)) = {}
      BY <3>1
    <3> QED
      BY <3>2 DEF Fits, Rising, AtMost
  <2>4. StreamsBehind
    BY <2>3 DEF StreamsBehind, Fits
  <2> QED
    BY <2>1, <2>4
<1>2. TypeOK /\ IServed /\ HandsEmpty /\ LeftSubscribed /\ Ordered /\ [Next]_vars
         => Ordered'
  <2> SUFFICES ASSUME TypeOK, IServed, HandsEmpty, LeftSubscribed, Ordered,
                      [Next]_vars, "rejoin" \notin faults'
               PROVE  FetchInOrder' /\ StreamsBehind'
    OBVIOUS
  <2>1. faults' = faults
    BY DEF Next, vars, Write, Poll, Rejoin, Garbled, HandOver, Lock, Offer,
       Unlock, Refuse, Subscribe, Serve, Receive, Send, Unsubscribe, Client
  <2> QED
    BY <2>1, FetchStep, StreamsStep
<1>3. Ordered => StreamInOrder
  BY DEF StreamInOrder, StreamsBehind, Rising
<1> HIDE DEF Ordered
<1> QED
  BY <1>1, <1>2, <1>3, HandsAlways, PTL DEF Spec
=============================================================================
