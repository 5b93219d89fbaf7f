----------------------------- MODULE AccountPast -----------------------------
(***************************************************************************)
(* What the rescan service takes for an account's past: the state a minter *)
(* had, getRecentAccountState, and the interfaces the other end of a       *)
(* message had, getAccountStateForMessage, at some logical time, lt.  Both *)
(* read all of the account's states from ClickHouse, keep those at which   *)
(* something changed in an LRU cache, and are called by many workers.      *)
(*                                                                         *)
(* A state's lt is its number.  As the two share nothing, the service does *)
(* one task on states or on messages, and a state is its version, that is, *)
(* its code and data, or its interfaces.  Pods save newer states meanwhile *)
(* which no cache notices.  The caches lock each call; a get of the cache  *)
(* of minters, and a put to an account that it has, are taken as one step. *)
(*                                                                         *)
(* IgnoreNext is a faulty variant of Until; no action uses it.             *)
(***************************************************************************)
EXTENDS Naturals, Sequences, FiniteSets, Functions, FiniteSetsExt, LruCache

CONSTANTS
    Account, Worker, Version, Contract,
    MaxStates,   \* bound: states of all accounts
    StateLimit,  \* maxMinterStates, 64
    AddressLimit \* how many accounts a cache has, 2048 and 16384

PastAssumption ==
    /\ MaxStates \in Nat
    /\ StateLimit \in Nat \ {0, 1} /\ AddressLimit \in Nat \ {0}

VARIABLES
    task,        \* "states" or "messages"
    past,        \* ClickHouse: by account, its states
    minters,     \* minterStateCache: LRU of LRUs, by account and lt
    interfaces,  \* interfacesCache: LRU of changes, by account
    question,    \* by worker: what is asked, of which account, for which lt
    pc,          \* by worker: "idle", "load", "put", "create" or "again"
    read,        \* by worker: the lts of changes it has read and has to put
    known,       \* by worker: how many states there were then
    answer       \* the answer of the last step, if it gave one

caches == <<minters, interfaces>>
vars   == <<task, past, minters, interfaces, question, pc, read, known,
            answer>>

Nothing == [ask |-> "nothing"]

Init ==
    /\ task \in {"states", "messages"}
    /\ past = [a \in Account |-> <<>>]
    /\ minters = <<>> /\ interfaces = <<>>
    /\ question = [w \in Worker |-> Nothing]
    /\ pc = [w \in Worker |-> "idle"]
    /\ read = [w \in Worker |-> {}]
    /\ known = [w \in Worker |-> 0]
    /\ answer = Nothing

Set(f, w, v) == [f EXCEPT ![w] = v]

\* A pod saves a state that is newer than the others.
NewState(a) ==
    /\ FoldFunction(LAMBDA s, n : Len(s) + n, 0, past) < MaxStates
    /\ \E s \in IF task = "states" THEN Version ELSE SUBSET Contract :
           past' = [past EXCEPT ![a] = Append(@, s)]
    /\ answer' = Nothing
    /\ UNCHANGED <<task, caches, question, pc, read, known>>

-----------------------------------------------------------------------------
\* GetAllAccountStates: the lts at which code or data changed, of which no
\* more than StateLimit are kept, those around the first that is not before lt.
Changes(states) ==
    {i \in DOMAIN states : i = 1 \/ states[i] # states[i - 1]}

Window(states, lt) ==
    LET lts     == Changes(states)
        total   == Cardinality(lts)
        rank(x) == Cardinality({y \in lts : y <= x})
        after   == {x \in lts : x >= lt}
        it      == rank(Min(after))
    IN  IF total <= StateLimit THEN lts
        ELSE IF after = {} THEN {x \in lts : total - StateLimit < rank(x)}
        ELSE IF it = total THEN lts
        ELSE IF it > StateLimit
        THEN {x \in lts : it - StateLimit < rank(x) /\ rank(x) <= it}
        ELSE {x \in lts : rank(x) <= StateLimit}

\* GetAllAccountInterfaces: the first state's interfaces, those after a
\* change, and those of the last state, without what repeats the one before.
\* Interfaces that are only lost are no change while one is left.
TypesChange(old, new) ==
    ~(new \subseteq old) \/ (old = {} /\ new # {}) \/ (old # {} /\ new = {})

InterfaceUpdates(states) ==
    LET lts == {i \in DOMAIN states :
                   \/ i \in {1, Len(states)}
                   \/ TypesChange(states[i - 1], states[i])}
        repeats(i) == \E j \in lts : /\ j < i /\ states[j] = states[i]
                                     /\ \A k \in lts : ~(j < k /\ k < i)
    IN  [i \in {j \in lts : ~repeats(j)} |-> states[i]]

\* chooseInterfaces: the last change up to lt, else the first of all.
Chosen(updates, lt) ==
    LET before == {x \in DOMAIN updates : x <= lt} IN
    IF DOMAIN updates = {} THEN {}
    ELSE IF before # {} THEN updates[Max(before)]
    ELSE updates[Min(DOMAIN updates)]

-----------------------------------------------------------------------------
\* mintersCache.  An entry has the lt of the next change, 0 for the last one;
\* what its reader knew of the past is kept beside it for the property.
StatesOf(a) == IF a \in Keys(minters) THEN Value(minters, a) ELSE <<>>

IgnoreNext(next, lt) == TRUE
Until(next, lt) == next = 0 \/ lt <= next
Fitting(a, lt) ==
    {k \in Keys(StatesOf(a)) : k <= lt /\ Until(Value(StatesOf(a), k).next, lt)}

\* get walks down from lt; what it looks at on its way becomes the last used.
Looked(c, lt, last) ==
    LET look[n \in 0..lt] ==
            IF n = 0 THEN c
            ELSE LET so == look[n - 1] k == lt + 1 - n IN
                 IF k \in Keys(so) /\ last <= k THEN Used(so, k) ELSE so
    IN  look[lt]

Get(a, lt) ==
    LET fits == Fitting(a, lt)
        last == IF fits = {} THEN 0 ELSE Max(fits)
    IN  minters' = IF a \in Keys(minters)
                   THEN Put(minters, a, Looked(StatesOf(a), lt, last),
                            AddressLimit)
                   ELSE minters

Reply(w, value) ==
    /\ answer' = value
    /\ pc' = Set(pc, w, "idle") /\ question' = Set(question, w, Nothing)
    /\ read' = Set(read, w, {}) /\ known' = Set(known, w, 0)

Found(a, lt) ==
    [ask |-> "minter", of |-> a, lt |-> lt, state |-> Max(Fitting(a, lt)),
     entry |-> Value(StatesOf(a), Max(Fitting(a, lt)))]

\* getRecentAccountState
AskMinter(w, a, lt) ==
    /\ task = "states" /\ pc[w] = "idle"
    /\ Get(a, lt)
    /\ IF Fitting(a, lt) # {}
       THEN Reply(w, Found(a, lt))
       ELSE /\ pc' = Set(pc, w, "load")
            /\ question' =
                  Set(question, w, [ask |-> "minter", of |-> a, lt |-> lt])
            /\ answer' = Nothing
            /\ UNCHANGED <<read, known>>
    /\ UNCHANGED <<task, past, interfaces>>

\* The call fails, also when the account has no states.
Load(w) ==
    LET a == question[w].of IN
    /\ pc[w] = "load"
    /\ \/ Reply(w, Nothing)
       \/ /\ past[a] # <<>>
          /\ known' = Set(known, w, Len(past[a]))
          /\ read' = Set(read, w, Window(past[a], question[w].lt))
          /\ pc' = Set(pc, w, "put")
          /\ answer' = Nothing
          /\ UNCHANGED question
    /\ UNCHANGED <<task, past, caches>>

\* They are put from the first to the last.
First(w) == Min(read[w])
Rest(w)  == read[w] \ {First(w)}
Entry(w) == [next  |-> IF Rest(w) # {} THEN Min(Rest(w)) ELSE 0,
             known |-> known[w]]

PutDone(w) ==
    /\ read' = Set(read, w, Rest(w))
    /\ pc' = Set(pc, w, IF Rest(w) # {} THEN "put" ELSE "again")
    /\ answer' = Nothing
    /\ UNCHANGED <<task, past, interfaces, question, known>>

\* put looks for the account's cache, and has to create it if there is none;
\* meanwhile another worker may have created one, which it replaces.
PutState(w) ==
    LET a == question[w].of IN
    /\ pc[w] = "put"
    /\ \/ /\ a \in Keys(minters)
          /\ minters' =
                Put(minters, a, Put(StatesOf(a), First(w), Entry(w),
                                    StateLimit), AddressLimit)
          /\ PutDone(w)
       \/ /\ a \notin Keys(minters)
          /\ pc' = Set(pc, w, "create")
          /\ answer' = Nothing
          /\ UNCHANGED <<task, past, caches, question, read, known>>

Create(w) ==
    /\ pc[w] = "create"
    /\ minters' = Put(minters, question[w].of,
                      <<<<First(w), Entry(w)>>>>, AddressLimit)
    /\ PutDone(w)

\* The second look; a state that is not there now was not found.
LookAgain(w) ==
    LET a == question[w].of lt == question[w].lt IN
    /\ pc[w] = "again"
    /\ Get(a, lt)
    /\ Reply(w, IF Fitting(a, lt) # {} THEN Found(a, lt) ELSE Nothing)
    /\ UNCHANGED <<task, past, interfaces>>

Minter(w) == Load(w) \/ PutState(w) \/ Create(w) \/ LookAgain(w)

\* getAccountStateForMessage: a miss reads, stores and chooses; a read that
\* fails leaves the message without that end's interfaces.
AskTypes(w, a, lt) ==
    /\ task = "messages" /\ pc[w] = "idle"
    /\ \/ /\ a \in Keys(interfaces)
          /\ interfaces' = Put(interfaces, a, Value(interfaces, a), AddressLimit)
       \/ /\ a \notin Keys(interfaces)
          /\ interfaces' =
                Put(interfaces, a, [updates |-> InterfaceUpdates(past[a]),
                                    known |-> Len(past[a])], AddressLimit)
    /\ LET entry == Value(interfaces', a) IN
       Reply(w, [ask |-> "types", of |-> a, lt |-> lt, entry |-> entry,
                 types |-> Chosen(entry.updates, lt)])
    /\ UNCHANGED <<task, past, minters>>

Step(w) ==
    \/ \E a \in Account, lt \in 1..MaxStates :
          AskMinter(w, a, lt) \/ AskTypes(w, a, lt)
    \/ Minter(w)

Next ==
    \/ \E a \in Account : NewState(a)
    \/ \E w \in Worker : Step(w)

Spec == Init /\ [][Next]_vars

-----------------------------------------------------------------------------
\* What the reader of an answer's entry knew of the account.
Known(r) == SubSeq(past[r.of], 1, r.entry.known)

\* A minter's state is one from before lt or at it, and nothing had changed
\* in between, whoever filled, replaced or emptied the cache.  Left out is the
\* last state of a window that leaves out later ones: it counts as valid for
\* good.
MinterFits(r) ==
    LET changes == Changes(Known(r)) IN
    /\ r.state <= r.lt /\ r.state \in changes
    /\ r.entry.next # 0 \/ Cardinality(changes) <= StateLimit
          => \A c \in changes : ~(r.state < c /\ c < r.lt)

\* The interfaces for a message are those of the last state up to lt, or of
\* the first, unless some were lost while others stayed.
Shrinks(states) ==
    \E i \in 2..Len(states) :
        /\ states[i] # {} /\ states[i] # states[i - 1]
        /\ states[i] \subseteq states[i - 1]
TypesFit(r) ==
    LET states == Known(r)
        at     == IF r.lt <= Len(states) THEN r.lt ELSE Len(states)
    IN  states # <<>> /\ ~Shrinks(states) => r.types = states[at]

\* What the service takes for an account's past is that past, as it was when
\* the account was read.
AnswersFitPast ==
    /\ answer.ask = "minter" => MinterFits(answer)
    /\ answer.ask = "types" => TypesFit(answer)
-----------------------------------------------------------------------------
\* The inductive invariant of AnswersFitPast, in named parts.
TypeOK ==
    /\ past \in [Account -> Seq(Version \cup SUBSET Contract)]
    /\ question \in [Worker -> [ask : {"nothing"}] \cup
                              [ask : {"minter"}, of : Account, lt : Nat \ {0}]]
    /\ pc \in [Worker -> {"idle", "load", "put", "create", "again"}]
    /\ read \in [Worker -> SUBSET Nat] /\ known \in [Worker -> Nat]

\* What every entry of the caches says of an account was so for its reader.
Seen(a, n) == Changes(SubSeq(past[a], 1, n))
StateFits(a, k, e) ==
    /\ k \in Seen(a, e.known)
    /\ e.next # 0 => \A c \in Seen(a, e.known) : ~(k < c /\ c < e.next)
    /\ e.next = 0 /\ Cardinality(Seen(a, e.known)) <= StateLimit
          => \A c \in Seen(a, e.known) : c <= k
StatesRead(a) ==
    LET lts == 0..Len(past[a]) IN
    {e \in lts \X [next : lts, known : lts] : StateFits(a, e[1], e[2])}
TypesRead(a) ==
    {[updates |-> InterfaceUpdates(SubSeq(past[a], 1, n)), known |-> n] :
        n \in 0..Len(past[a])}
CachesInv ==
    /\ minters \in Seq(Range(minters)) /\ interfaces \in Seq(Range(interfaces))
    /\ \A e \in Range(minters) :
          e[1] \in Account /\ e \in {e[1]} \X Seq(StatesRead(e[1]))
    /\ IF task = "states" THEN interfaces = <<>>
       ELSE \A e \in Range(interfaces) :
               e[1] \in Account /\ e \in {e[1]} \X TypesRead(e[1])

\* What a worker has to put are consecutive changes, the last of them too
\* unless there were more than are kept.
Consecutive(part, all) ==
    /\ part # {} /\ part \subseteq all
    /\ \A x, y \in part, c \in all : x < c /\ c < y => c \in part
    /\ Cardinality(all) <= StateLimit
          => \A x \in part, c \in all : x < c => c \in part
ReadInv ==
    \A w \in Worker :
        /\ pc[w] # "idle" => question[w].ask = "minter"
        /\ pc[w] \in {"put", "create"} =>
              /\ known[w] <= Len(past[question[w].of])
              /\ Consecutive(read[w], Seen(question[w].of, known[w]))

PastInv == TypeOK /\ CachesInv /\ ReadInv /\ AnswersFitPast
=============================================================================
