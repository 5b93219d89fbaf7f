--------------------------- MODULE LeaderElection ---------------------------
(***************************************************************************)
(* The leader election of internal/leader_election: every pod runs one     *)
(* LeaderElector.Run loop that, on each tick of its RenewalPeriod ticker,  *)
(* makes one pass of tryAcquireLeadership over a Redis key that carries a  *)
(* time to live.  A pass is a sequence of separate Redis calls, so passes  *)
(* of different pods interleave between any two calls.                     *)
(*                                                                         *)
(* Time is discrete and relative: the key carries its remaining life, and  *)
(* a node carries the age of its lastLeadershipTime, saturated one above   *)
(* ElectionTimeout, because the code only ever compares that age with      *)
(* ElectionTimeout.  No clock grows without bound.                         *)
(*                                                                         *)
(* A pod takes its NodeID from uuid.NewString at start, so a pod that      *)
(* crashed never comes back under its old identity: a restarted pod is     *)
(* another element of Node that was not booted yet.                        *)
(*                                                                         *)
(* SetAlways, SetAndRefresh, LoseSilently, NeverTimedOut and StampNothing  *)
(* are faulty variants of the operator that follows each of them; no       *)
(* action uses them.  They show which slip each property catches.          *)
(***************************************************************************)
EXTENDS Naturals, FiniteSets

CONSTANTS
    Node,              \* the NodeIDs
    None,              \* no owner: the key is absent or has expired
    LeaderTTL,
    ElectionTimeout,
    RenewalPeriod,
    NumCallbacks,      \* callbacks registered with NewLeaderElector
    CallDelay,         \* longest stay of a slow pass between two steps
    CallbackDelay,     \* longest run of one OnStartLeading in a slow pass
    FaultSets          \* choices of what goes wrong in a behaviour

ASSUME NodeAssumption == None \notin Node

ASSUME TimingAssumption ==
    /\ LeaderTTL \in Nat \ {0}
    /\ ElectionTimeout \in Nat \ {0}
    /\ RenewalPeriod \in Nat \ {0}

ASSUME EnvironmentAssumption ==
    /\ NumCallbacks \in Nat
    /\ CallDelay \in Nat
    /\ CallbackDelay \in Nat
    /\ FaultSets \subseteq SUBSET {"setnx", "get", "expire", "slow"}

VARIABLES
    owner,      \* value stored under LockKey, None when the key is absent
    ttl,        \* remaining life of the key
    isLeader,   \* LeaderElector.isLeader
    age,        \* time since lastLeadershipTime, saturated
    active,     \* callbacks whose OnStartLeading ran and OnStopLeading did not
    pc,         \* where the node is in its pass
    stay,       \* time spent at that place
    phase,      \* time since the ticker last fired
    due,        \* the one tick the ticker's channel buffers
    faults      \* the calls that may fail, and whether passes may be slow: the
                \* same throughout a behaviour, chosen in Init

lock  == <<owner, ttl>>
timer == <<phase, due>>
vars  == <<owner, ttl, isLeader, age, active, pc, stay, phase, due,
          faults>>

Callback == 1..NumCallbacks
Expired  == ElectionTimeout + 1      \* any age beyond ElectionTimeout
Outside  == {"off", "dead"}          \* the process does not run

PC == Outside \cup
      {"idle", "setnx", "get", "owned", "start", "expire", "stamp", "lose"}

\* A prompt pass takes no time.
Prompt == "slow" \notin faults
Limit(l) == CASE Prompt -> 0
              [] ~Prompt /\ l = "start" -> CallbackDelay
              [] ~Prompt /\ l # "start" -> CallDelay

Goto(n, l) ==
    /\ pc' = [pc EXCEPT ![n] = l]
    /\ stay' = [stay EXCEPT ![n] = 0]

Live(n) == pc[n] \notin Outside

-----------------------------------------------------------------------------
Init ==
    /\ owner = None
    /\ ttl = 0
    /\ isLeader = [n \in Node |-> FALSE]
    /\ age = [n \in Node |-> Expired]
    /\ active = [n \in Node |-> {}]
    /\ pc = [n \in Node |-> "off"]
    /\ stay = [n \in Node |-> 0]
    /\ phase = [n \in Node |-> 0]
    /\ due = [n \in Node |-> FALSE]
    /\ faults \in FaultSets

\* go le.Run(appCtx): the pod starts its ticker.
Boot(n) ==
    /\ pc[n] = "off"
    /\ Goto(n, "idle")
    /\ UNCHANGED <<lock, isLeader, age, active, timer, faults>>

\* The process dies, by itself or by the panic of an OnStartLeading.
Crash(n) ==
    /\ Live(n)
    /\ Goto(n, "dead")
    /\ isLeader' = [isLeader EXCEPT ![n] = FALSE]
    /\ age' = [age EXCEPT ![n] = Expired]
    /\ active' = [active EXCEPT ![n] = {}]
    /\ phase' = [phase EXCEPT ![n] = 0]
    /\ due' = [due EXCEPT ![n] = FALSE]
    /\ UNCHANGED <<lock, faults>>

-----------------------------------------------------------------------------
\* One pass of tryAcquireLeadership.

\* loseLeadership clears isLeader before it runs the OnStopLeading callbacks.
LoseSilently(n) == isLeader' = [isLeader EXCEPT ![n] = FALSE] /\ Goto(n, "idle")
Lose(n) == isLeader' = [isLeader EXCEPT ![n] = FALSE] /\ Goto(n, "lose")

NeverTimedOut(n) == FALSE
TimedOut(n) == isLeader[n] /\ age[n] > ElectionTimeout

\* The tick is received; a leader that could not renew within
\* ElectionTimeout gives up and spends this tick without calling Redis.
TakeTick(n) ==
    /\ pc[n] = "idle" /\ due[n]
    /\ due' = [due EXCEPT ![n] = FALSE]
    /\ \/ TimedOut(n) /\ Lose(n)
       \/ ~TimedOut(n) /\ Goto(n, "setnx") /\ UNCHANGED isLeader
    /\ UNCHANGED <<lock, age, active, phase, faults>>

\* SET key value NX EX ttl.
SetAlways(n) == owner' = n /\ ttl' = LeaderTTL
SetAndRefresh(n) ==
    /\ owner' = IF owner = None THEN n ELSE owner
    /\ ttl' = LeaderTTL
SetIfAbsent(n) ==
    /\ owner' = IF owner = None THEN n ELSE owner
    /\ ttl' = IF owner = None THEN LeaderTTL ELSE ttl

\* A call that returns an error may or may not have taken effect.
SetNX(n) ==
    /\ pc[n] = "setnx"
    /\ \/ SetIfAbsent(n) /\ Goto(n, "get")
       \/ /\ "setnx" \in faults
          /\ SetIfAbsent(n) \/ UNCHANGED lock
          /\ Goto(n, "idle")
    /\ UNCHANGED <<isLeader, age, active, timer, faults>>

\* A missing key is an error of Get too (redis.Nil): the pass ends without
\* touching isLeader.
Get(n) ==
    /\ pc[n] = "get"
    /\ \/ owner = n /\ Goto(n, "owned") /\ UNCHANGED isLeader
       \/ owner \notin {n, None} /\ isLeader[n] /\ Lose(n)
       \/ /\ \/ owner \notin {n, None} /\ ~isLeader[n]
             \/ owner = None
             \/ "get" \in faults
          /\ Goto(n, "idle")
          /\ UNCHANGED isLeader
    /\ UNCHANGED <<lock, age, active, timer, faults>>

\* Get answered this NodeID; ownLeadership sets isLeader before it runs the
\* callbacks.
Own(n) ==
    /\ pc[n] = "owned"
    /\ isLeader' = [isLeader EXCEPT ![n] = TRUE]
    /\ Goto(n, IF isLeader[n] \/ Callback = {} THEN "expire" ELSE "start")
    /\ UNCHANGED <<lock, age, active, timer, faults>>

\* The OnStartLeading callbacks run one after another in the pass itself.
StartCallback(n) ==
    /\ pc[n] = "start"
    /\ \E k \in Callback \ active[n] :
        /\ \A j \in Callback : j < k => j \in active[n]
        /\ active' = [active EXCEPT ![n] = @ \cup {k}]
        /\ Goto(n, IF k = NumCallbacks THEN "expire" ELSE "start")
    /\ UNCHANGED <<lock, isLeader, age, timer, faults>>

\* EXPIRE prolongs the key whoever holds it now, and a missing key is no
\* error: the code looks at neither the value nor the boolean answer.
Prolong == ttl' = (IF owner = None THEN 0 ELSE LeaderTTL) /\ UNCHANGED owner

Expire(n) ==
    /\ pc[n] = "expire"
    /\ \/ Prolong /\ Goto(n, "stamp")
       \/ /\ "expire" \in faults
          /\ Prolong \/ UNCHANGED lock
          /\ Goto(n, "idle")
    /\ UNCHANGED <<isLeader, age, active, timer, faults>>

StampNothing(n) ==
    /\ pc[n] = "stamp"
    /\ Goto(n, "idle")
    /\ UNCHANGED <<lock, isLeader, age, active, timer, faults>>

\* lastLeadershipTime = time.Now(), after the answer to Expire.
Stamp(n) ==
    /\ pc[n] = "stamp"
    /\ age' = [age EXCEPT ![n] = 0]
    /\ Goto(n, "idle")
    /\ UNCHANGED <<lock, isLeader, active, timer, faults>>

\* loseLeadership runs the OnStopLeading callbacks in order.
StopCallback(n) ==
    /\ pc[n] = "lose"
    /\ \/ \E k \in active[n] :
            /\ \A j \in active[n] : k <= j
            /\ active' = [active EXCEPT ![n] = @ \ {k}]
            /\ Goto(n, "lose")
       \/ /\ active[n] = {}
          /\ Goto(n, "idle")
          /\ UNCHANGED active
    /\ UNCHANGED <<lock, isLeader, age, timer, faults>>

Step(n) ==
    \/ TakeTick(n) \/ SetNX(n) \/ Get(n) \/ Own(n) \/ StartCallback(n)
    \/ Expire(n) \/ Stamp(n) \/ StopCallback(n)

-----------------------------------------------------------------------------
\* One unit of time.  A pass may not stay anywhere longer than its limit and
\* an idle loop receives its tick at once; a tick that fires into a full
\* channel is dropped.
MayWait(n) ==
    \/ pc[n] \in Outside
    \/ pc[n] = "idle" /\ ~due[n]
    \/ pc[n] \notin Outside \cup {"idle"} /\ stay[n] < Limit(pc[n])

Fires(n) == Live(n) /\ phase[n] + 1 = RenewalPeriod

Tick ==
    /\ \A n \in Node : MayWait(n)
    /\ ttl' = IF ttl = 0 THEN 0 ELSE ttl - 1
    /\ owner' = IF ttl' = 0 THEN None ELSE owner
    /\ age' = [n \in Node |-> IF age[n] < Expired THEN age[n] + 1 ELSE Expired]
    /\ stay' = [n \in Node |->
                  IF pc[n] \in Outside \cup {"idle"} THEN 0 ELSE stay[n] + 1]
    /\ phase' = [n \in Node |->
                   IF Live(n) /\ ~Fires(n) THEN phase[n] + 1 ELSE 0]
    /\ due' = [n \in Node |-> due[n] \/ Fires(n)]
    /\ UNCHANGED <<isLeader, active, pc, faults>>

Next ==
    \/ Tick
    \/ \E n \in Node : Boot(n) \/ Crash(n) \/ Step(n)

Spec == Init /\ [][Next]_vars

\* Time passes and a started pass goes on; nothing obliges a pod to boot or
\* to crash, nor a Redis call to succeed.
Fairness == WF_vars(Tick) /\ \A n \in Node : WF_vars(Step(n))
FairSpec == Spec /\ Fairness

-----------------------------------------------------------------------------
TypeOK ==
    /\ owner \in Node \cup {None}
    /\ ttl \in 0..LeaderTTL
    /\ isLeader \in [Node -> BOOLEAN]
    /\ age \in [Node -> 0..Expired]
    /\ active \in [Node -> SUBSET Callback]
    /\ pc \in [Node -> PC]
    /\ stay \in [Node -> Nat]
    /\ phase \in [Node -> 0..(RenewalPeriod - 1)]
    /\ due \in [Node -> BOOLEAN]
    /\ faults \in FaultSets

\* Between passes a node runs all of its leader work exactly when it is
\* leader, and at no point does a node that is not leader still have work
\* running except while it is stopping it: ownLeadership and loseLeadership
\* pair every OnStartLeading with one OnStopLeading.
CallbacksFollowLeadership ==
    \A n \in Node :
        /\ pc[n] = "idle" => active[n] = IF isLeader[n] THEN Callback ELSE {}
        /\ active[n] # {} => isLeader[n] \/ pc[n] = "lose"

\* A leader whose last renewal is no older than ElectionTimeout owns the
\* key: no other pod can have taken it in the meantime.  Holds when a pass
\* takes no time (Prompt), whichever calls fail.
ConfirmedLeaderOwnsLock ==
    Prompt => \A n \in Node :
        isLeader[n] /\ age[n] <= ElectionTimeout => owner = n

\* Two pods never lead at once: the promise of the package.
AtMostOneLeader ==
    \A m, n \in Node : isLeader[m] /\ isLeader[n] => m = n

\* The promise holds, for passes that take no time, unless Expire fails after
\* Get succeeded: a pod that has just taken leadership then never stamped
\* lastLeadershipTime, or keeps an old stamp, and goes on without a lease.
OneLeaderUnlessExpireFails ==
    Prompt /\ "expire" \notin faults => AtMostOneLeader

\* A leader that no longer owns the key stops leading or gets the key back.
\* It must notice even if Redis answers none of its calls any more.
StaleLeaderStepsDown ==
    \A n \in Node :
        isLeader[n] /\ owner # n ~> ~isLeader[n] \/ owner = n

\* While Redis answers and some pod runs, some pod gets to lead, also after
\* the crash of the leader, whose key nobody deletes.
LeaderEmerges ==
    faults \subseteq {"slow"} /\ (\E n \in Node : Live(n))
        ~> \/ \E n \in Node : isLeader[n]
           \/ \A n \in Node : ~Live(n)

\* While Redis answers, a leader leads until its process ends, however its
\* passes are delayed within the limits of the run.
StableLeader ==
    [][faults \subseteq {"slow"} =>
          \A n \in Node : isLeader[n] => isLeader'[n] \/ pc'[n] = "dead"]_vars

-----------------------------------------------------------------------------
\* The inductive invariant, in named parts.

\* The key is absent exactly when it has no life left.
LockInv == owner = None <=> ttl = 0

\* From the answer of Get to the end of the pass the node owns the key, and
\* after Expire with its full life.
PassInv ==
    \A n \in Node :
        /\ pc[n] \in {"owned", "start", "expire", "stamp"} => owner = n
        /\ pc[n] = "stamp" => ttl = LeaderTTL

\* The key outlives the age of the renewal that prolonged it.
AgeInv ==
    \A n \in Node :
        age[n] <= ElectionTimeout =>
            owner = n /\ ttl + age[n] >= LeaderTTL

\* A leader owns the key, and while it waits for its next tick the key's
\* life covers the rest of the period.
LeadInv ==
    \A n \in Node : isLeader[n] =>
        /\ pc[n] \notin Outside \cup {"lose"}
        /\ owner = n
        /\ pc[n] = "idle" /\ ~due[n] =>
              ttl + phase[n] >= LeaderTTL - ElectionTimeout
        /\ pc[n] \in {"setnx", "get"} => age[n] <= ElectionTimeout

\* What the callbacks have done at each place of a pass: all of them run
\* while a leader's pass goes on, the last one not yet while they are being
\* started, and none outside a process or a lead.
CallbackInv ==
    \A n \in Node :
        /\ pc[n] \in Outside => ~isLeader[n] /\ active[n] = {}
        /\ pc[n] \in {"idle", "setnx", "get", "owned"} =>
              active[n] = IF isLeader[n] THEN Callback ELSE {}
        /\ pc[n] = "start" => isLeader[n] /\ NumCallbacks \notin active[n]
        /\ pc[n] \in {"expire", "stamp"} => isLeader[n] /\ active[n] = Callback
        /\ pc[n] = "lose" => ~isLeader[n]

-----------------------------------------------------------------------------
\* Timings under which slow passes cost no leader its key: what a pass may
\* take from the renewal of one tick to that of the next, and the first pass
\* of a leader with all its callbacks, fits in the life of the key.
StableTimings ==
    /\ 4 * CallDelay + RenewalPeriod < LeaderTTL
    /\ 5 * CallDelay < LeaderTTL
    /\ 3 * CallDelay + NumCallbacks * CallbackDelay < LeaderTTL
    /\ RenewalPeriod <= ElectionTimeout

\* How long the callbacks behind the k-th may take to start.
StartTime(k) == (NumCallbacks - k) * CallbackDelay

\* What is left of the key's life at each place of an owner's pass: enough
\* for the steps up to Expire, each as slow as it may be.
LifeLeft(n) ==
    LET pending == IF isLeader[n] THEN 0 ELSE StartTime(0)
    IN  /\ isLeader[n] /\ pc[n] = "idle" =>
              IF due[n] THEN ttl > 4 * CallDelay /\ age[n] <= RenewalPeriod
                        ELSE ttl + phase[n] >= LeaderTTL /\ age[n] <= phase[n]
        /\ isLeader[n] /\ pc[n] = "setnx" => ttl + stay[n] > 4 * CallDelay
        /\ pc[n] = "get" => ttl + stay[n] > 3 * CallDelay + pending
        /\ pc[n] = "owned" => ttl + stay[n] > 2 * CallDelay + pending
        /\ pc[n] = "start" => \E k \in 0..(NumCallbacks - 1) :
              /\ active[n] = 1..k
              /\ ttl + stay[n] > CallDelay + StartTime(k)
        /\ pc[n] = "expire" => ttl + stay[n] > CallDelay
        /\ pc[n] = "stamp" =>
              ttl + stay[n] >= LeaderTTL /\ (~due[n] => phase[n] >= stay[n])

\* Without failing calls a leader owns the key at every place of its pass,
\* and the owner is a leader, about to lead, or dead.
Held(n) ==
    /\ Live(n) /\ pc[n] # "idle" => stay[n] <= Limit(pc[n])
    /\ pc[n] # "lose"
    /\ isLeader[n] \/ pc[n] = "owned" => owner = n
    /\ owner = n => /\ isLeader[n] \/ pc[n] \in {"get", "owned", "dead"}
                    /\ LifeLeft(n)

HoldInv == LockInv /\ \A n \in Node : Held(n)
HoldsUnlessCallFails == faults \subseteq {"slow"} => HoldInv
=============================================================================
