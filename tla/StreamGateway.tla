---------------------------- MODULE StreamGateway ---------------------------
(***************************************************************************)
(* How a pod passes what is broadcast in Kafka on to its gRPC subscribers. *)
(* One goroutine polls the topic broadcast-messages (Consume) and hands    *)
(* each value over an unbuffered channel to a second one                   *)
(* (StartBroadcasting), which offers it to the channel of every subscriber *)
(* and skips those that are full.  Each call of V1GetDataStream is a       *)
(* Handler: it subscribes, passes on what its channel holds, and           *)
(* unsubscribes when a send fails.                                         *)
(*                                                                         *)
(* The values of the topic, which has one partition, are numbered.  The    *)
(* context of Consume and StartBroadcasting is never cancelled: the        *)
(* process passes them the one it started with.                            *)
(*                                                                         *)
(* PollInPlace, OfferIfEmpty, OfferBlocking and LeaveEntry are faulty      *)
(* variants of the operator that follows them; no action uses them.        *)
(***************************************************************************)
EXTENDS Naturals, Sequences

CONSTANTS
    Handler,        \* calls of V1GetDataStream
    Id,             \* subscription ids
    NoId, Nobody,
    ChannelSize,    \* defaultSubChannelSize
    MaxEvents,      \* bound: values written and places lost, together
    FaultSets       \* choices of what goes wrong in a behaviour

Value == 1..MaxEvents

\* What may go wrong: a poll returns an error, and values with it; a value
\* cannot be decoded; a client stops reading; the consumer is thrown out of
\* its group and joins it again.
Fault == {"poll", "decode", "stall", "rejoin"}

ASSUME GatewayAssumption ==
    /\ NoId \notin Id /\ Nobody \notin Handler
    /\ ChannelSize \in Nat \ {0}
    /\ MaxEvents \in Nat
    /\ FaultSets \subseteq SUBSET Fault

VARIABLES
    written,    \* values in the topic so far
    position,   \* the consumer's position, the last value it was given
    rejoins,    \* how often it lost its place
    fetched,    \* what is left of the current fetch
    data,       \* value in the hands of the broadcasting goroutine, 0 if none
    offering,   \* it holds the lock of the subscriber map
    left,       \* ids it has still to offer the value to
    subs,       \* subscriber map: the handler whose channel an id has
    queue,      \* channel of each handler
    at,         \* where each handler is
    subId,      \* the id it asked for, NoId if it was empty
    hand,       \* value it is sending, 0 if none
    got,        \* history: what its client was sent so far
    due,        \* history: the first ChannelSize values broadcast meanwhile
    client,     \* its client reads, does not read, or is gone
    faults      \* the same throughout a behaviour, chosen in Init

consumer == <<position, rejoins, fetched>>
pump     == <<data, offering, left>>
stream   == <<queue, at, subId, hand, got, due>>
vars     == <<written, consumer, pump, subs, stream, client, faults>>

Place == {"new", "receive", "send", "leave", "done"}

Serving == {"receive", "send"}

Init ==
    /\ written = 0 /\ position = 0 /\ rejoins = 0
    /\ fetched = <<>>
    /\ data = 0 /\ offering = FALSE /\ left = {}
    /\ subs = [i \in Id |-> Nobody]
    /\ queue = [h \in Handler |-> <<>>]
    /\ at = [h \in Handler |-> "new"]
    /\ subId = [h \in Handler |-> NoId]
    /\ hand = [h \in Handler |-> 0]
    /\ got = [h \in Handler |-> <<>>]
    /\ due = [h \in Handler |-> <<>>]
    /\ client = [h \in Handler |-> "reads"]
    /\ faults \in FaultSets

Goto(h, l) == at' = [at EXCEPT ![h] = l]

-----------------------------------------------------------------------------
\* Some pod saves a block and broadcasts an account state.
Write ==
    /\ written + rejoins < MaxEvents
    /\ written' = written + 1
    /\ UNCHANGED <<consumer, pump, subs, stream, client, faults>>

\* Consume polls when it is through with the last fetch.  An error discards
\* the values that came with it, although the position has moved.
Values(a, b) == [i \in 1..(b - a) |-> a + i]

PollInPlace(n) ==
    /\ fetched' = Values(position, n)
    /\ UNCHANGED position
PollTo(n) ==
    /\ position' = n
    /\ \/ fetched' = Values(position, n)
       \/ "poll" \in faults /\ UNCHANGED fetched

Poll ==
    /\ fetched = <<>>
    /\ \E n \in (position + 1)..written : PollTo(n)
    /\ UNCHANGED <<written, rejoins, pump, subs, stream, client, faults>>

\* The session of the group's only member ends and it joins again: it goes
\* on at a committed offset, or where the end was then if the group had been
\* deleted.  The position matters at a poll only, so this happens before one.
Rejoin ==
    /\ "rejoin" \in faults /\ written + rejoins < MaxEvents
    /\ fetched = <<>>
    /\ rejoins' = rejoins + 1
    /\ position' \in 0..written
    /\ UNCHANGED <<written, fetched, pump, subs, stream, client, faults>>

\* A value that cannot be decoded makes the loop poll again: the rest of the
\* fetch is dropped with it.
Garbled ==
    /\ "decode" \in faults /\ fetched # <<>>
    /\ fetched' = <<>>
    /\ UNCHANGED <<written, position, rejoins, pump, subs, stream, client,
                   faults>>

\* out <- data meets v := <-dataCh.
HandOver ==
    /\ fetched # <<>> /\ data = 0
    /\ data' = Head(fetched)
    /\ fetched' = Tail(fetched)
    /\ UNCHANGED <<written, position, rejoins, offering, left, subs, stream,
                   client, faults>>

-----------------------------------------------------------------------------
\* Broadcast: with the read lock it offers the value to every subscriber.
Lock ==
    /\ data # 0 /\ ~offering
    /\ offering' = TRUE
    /\ left' = {i \in Id : subs[i] # Nobody}
    /\ due' = [h \in Handler |->
                  IF at[h] \in Serving /\ Len(due[h]) < ChannelSize
                  THEN Append(due[h], data) ELSE due[h]]
    /\ UNCHANGED <<written, consumer, data, subs, queue, at, subId, hand, got,
                   client, faults>>

\* select with a default: a full channel misses the value.
OfferIfEmpty(h) ==
    queue' = IF queue[h] = <<>> THEN [queue EXCEPT ![h] = Append(@, data)]
             ELSE queue
OfferBlocking(h) ==
    queue[h] = <<>> /\ queue' = [queue EXCEPT ![h] = Append(@, data)]
OfferTo(h) ==
    queue' = IF Len(queue[h]) < ChannelSize
             THEN [queue EXCEPT ![h] = Append(@, data)]
             ELSE queue

Offer ==
    /\ offering
    /\ \E i \in left :
        /\ OfferTo(subs[i])
        /\ left' = left \ {i}
    /\ UNCHANGED <<written, consumer, data, offering, subs, at, subId, hand,
                   got, due, client, faults>>

Release  == offering' = FALSE

Unlock ==
    /\ offering /\ left = {}
    /\ Release
    /\ data' = 0
    /\ UNCHANGED <<written, consumer, left, subs, stream, client, faults>>

-----------------------------------------------------------------------------
\* V1GetDataStream.  An empty id is refused.  Subscribe and Unsubscribe need
\* the write lock; a new subscriber takes the place of one with its id.
Refuse(h) ==
    /\ at[h] = "new"
    /\ Goto(h, "done")
    /\ UNCHANGED <<written, consumer, pump, subs, queue, subId, hand, got,
                   due, client, faults>>

Subscribe(h) ==
    /\ at[h] = "new" /\ ~offering
    /\ \E i \in Id :
        /\ subId' = [subId EXCEPT ![h] = i]
        /\ subs' = [subs EXCEPT ![i] = h]
    /\ Goto(h, "receive")
    /\ UNCHANGED <<written, consumer, pump, queue, hand, got, due, client,
                   faults>>

Receive(h) ==
    /\ at[h] = "receive" /\ queue[h] # <<>>
    /\ hand' = [hand EXCEPT ![h] = Head(queue[h])]
    /\ queue' = [queue EXCEPT ![h] = Tail(@)]
    /\ Goto(h, "send")
    /\ UNCHANGED <<written, consumer, pump, subs, subId, got, due, client,
                   faults>>

\* stream.Send blocks while the client does not read, and fails when it is
\* gone.
SendFails(h)   == Goto(h, "leave")

Send(h) ==
    /\ at[h] = "send" /\ client[h] # "stalls"
    /\ \/ /\ client[h] = "reads"
          /\ got' = [got EXCEPT ![h] = Append(@, hand[h])]
          /\ Goto(h, "receive")
          /\ UNCHANGED due
       \/ /\ client[h] = "gone"
          /\ SendFails(h)
          /\ got' = [got EXCEPT ![h] = <<>>]
          /\ due' = [due EXCEPT ![h] = <<>>]
    /\ hand' = [hand EXCEPT ![h] = 0]
    /\ UNCHANGED <<written, consumer, pump, subs, queue, subId, client, faults>>

\* The deferred Unsubscribe deletes whatever the id has by now.
LeaveEntry(h) == UNCHANGED subs
Delete(h)     == subs' = [subs EXCEPT ![subId[h]] = Nobody]

Unsubscribe(h) ==
    /\ at[h] = "leave" /\ ~offering
    /\ Delete(h)
    /\ Goto(h, "done")
    /\ UNCHANGED <<written, consumer, pump, queue, subId, hand, got, due,
                   client, faults>>

\* What clients do.
Client(h) ==
    /\ at[h] # "new" /\ client[h] # "gone"
    /\ \E c \in {"reads", "stalls", "gone"} \ {client[h]} :
        /\ c = "stalls" => "stall" \in faults
        /\ client' = [client EXCEPT ![h] = c]
    /\ UNCHANGED <<written, consumer, pump, subs, stream, faults>>

Serve(h) == Receive(h) \/ Send(h) \/ Unsubscribe(h)

Next ==
    \/ Write \/ Poll \/ Rejoin \/ Garbled \/ HandOver
    \/ Lock \/ Offer \/ Unlock
    \/ \E h \in Handler : Refuse(h) \/ Subscribe(h) \/ Serve(h) \/ Client(h)

Spec == Init /\ [][Next]_vars

\* The runtime runs both goroutines of the pod and its handlers.  A writer
\* that waits for a RWMutex keeps new readers out, so a handler that wants to
\* leave gets the lock between two broadcasts.
FairSpec ==
    /\ Spec
    /\ WF_vars(HandOver) /\ WF_vars(Lock) /\ WF_vars(Offer) /\ WF_vars(Unlock)
    /\ \A h \in Handler :
        WF_vars(Receive(h)) /\ WF_vars(Send(h)) /\ SF_vars(Unsubscribe(h))
-----------------------------------------------------------------------------
TypeOK ==
    /\ written \in Nat /\ rejoins \in Nat /\ written + rejoins <= MaxEvents
    /\ position \in 0..written
    /\ fetched \in Seq(Value)
    /\ data \in Value \cup {0} /\ offering \in BOOLEAN
    /\ offering => data # 0
    /\ left \subseteq Id
    /\ subs \in [Id -> Handler \cup {Nobody}]
    /\ queue \in [Handler -> Seq(Value)]
    /\ at \in [Handler -> Place]
    /\ subId \in [Handler -> Id \cup {NoId}]
    /\ \A h \in Handler : at[h] \in Serving \cup {"leave"} => subId[h] \in Id
    /\ hand \in [Handler -> Value \cup {0}]
    /\ \A h \in Handler : at[h] = "send" => hand[h] # 0
    /\ got \in [Handler -> Seq(Value)]
    /\ due \in [Handler -> Seq(Value)]
    /\ client \in [Handler -> {"reads", "stalls", "gone"}]
    /\ faults \in FaultSets

\* What a handler's client was sent or will be: the values its channel took.
Held(h)   == IF hand[h] = 0 THEN <<>> ELSE <<hand[h]>>
Stream(h) == got[h] \o Held(h) \o queue[h]

\* A client gets the values in the order of the topic and none twice, unless
\* the consumer was thrown back in its group.
StreamInOrder ==
    "rejoin" \notin faults =>
        \A h \in Handler : \A i, j \in 1..Len(Stream(h)) :
            i < j => Stream(h)[i] < Stream(h)[j]

\* No other handler has subscribed with the id of this one.
Unshared(h) == \A k \in Handler \ {h} : subId[k] # subId[h]

\* The subscriber map holds handlers that run: none stays behind when its
\* handler ends, and a handler whose id nobody else uses is never removed
\* from under it.
SubsAreServed ==
    /\ \A i \in Id : subs[i] # Nobody =>
          subId[subs[i]] = i /\ at[subs[i]] \in {"receive", "send", "leave"}
    /\ \A h \in Handler :
          at[h] \in Serving /\ Unshared(h) => subs[subId[h]] = h

\* A subscriber misses nothing before its channel was full: what it gets
\* begins with the values broadcast since it subscribed, as many of them as
\* the channel takes.
Offered(h) ==
    Len(due[h]) - (IF offering /\ subId[h] \in left THEN 1 ELSE 0)
NoneMissedUntilFull ==
    \A h \in Handler : at[h] \in Serving /\ Unshared(h) =>
        \A i \in 1..Offered(h) :
            i <= Len(Stream(h)) /\ Stream(h)[i] = due[h][i]

\* Clients that do not read delay nobody: the broadcasting goroutine lets go
\* of every value and takes the next.  And a client that goes while there is
\* something for it is forgotten, however the broadcasts keep taking the lock.
GatewayGoesOn ==
    /\ data # 0 ~> data = 0
    /\ \A h \in Handler :
          client[h] = "gone" /\ at[h] \in Serving /\ queue[h] # <<>>
              ~> at[h] = "done"

-----------------------------------------------------------------------------
\* The inductive invariants of StreamInOrder and NoneMissedUntilFull, in named
\* parts.

\* Only a handler that sends has a value in its hands, and one that has not
\* subscribed has nothing at all.
HandsEmpty ==
    \A h \in Handler :
        /\ at[h] # "send" => hand[h] = 0
        /\ at[h] = "new" => queue[h] = <<>> /\ got[h] = <<>> /\ due[h] = <<>>

\* What has still to be offered is for subscribers.
LeftSubscribed == offering => \A i \in left : subs[i] # Nobody

\* The values on their way: those of the fetch come after the one at hand,
\* which comes after those of every stream that it was not offered to yet.
Rising(s)     == \A i, j \in 1..Len(s) : i < j => s[i] < s[j]
AtMost(s, v)  == \A i \in 1..Len(s) : s[i] <= v
Offers(h)     == ~offering \/ \E i \in left : subs[i] = h
FetchInOrder  == /\ Rising(fetched) /\ AtMost(fetched, position)
                 /\ data <= position
                 /\ \A i \in 1..Len(fetched) : data < fetched[i]
StreamsBehind ==
    \A h \in Handler :
        /\ Rising(Stream(h)) /\ AtMost(Stream(h), position)
        /\ \A i \in 1..Len(Stream(h)), j \in 1..Len(fetched) :
               Stream(h)[i] < fetched[j]
        /\ data # 0 => /\ AtMost(Stream(h), data)
                       /\ Offers(h) => \A i \in 1..Len(Stream(h)) : Stream(h)[i] < data
OrderInv ==
    HandsEmpty /\ LeftSubscribed
        /\ ("rejoin" \notin faults => FetchInOrder /\ StreamsBehind)

\* As long as a channel was never full its stream is what was broadcast, but
\* for the value that is still to be offered; afterwards it only grows.
InStep(h) ==
    /\ Len(Stream(h)) = Offered(h)
    /\ offering /\ subId[h] \in left =>
          Len(due[h]) > 0 /\ due[h][Len(due[h])] = data
    /\ \A i \in 1..Offered(h) : Stream(h)[i] = due[h][i]
Saturated(h) ==
    /\ Len(due[h]) = ChannelSize /\ Len(Stream(h)) >= ChannelSize
    /\ \A i \in 1..ChannelSize : Stream(h)[i] = due[h][i]
DueInv ==
    \A h \in Handler : at[h] \in Serving /\ Unshared(h) =>
        Len(due[h]) <= ChannelSize /\ (InStep(h) \/ Saturated(h))
=============================================================================
