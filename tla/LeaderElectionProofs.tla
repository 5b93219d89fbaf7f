------------------------ MODULE LeaderElectionProofs ------------------------
(***************************************************************************)
(* What LeaderElection guarantees for every set of nodes and all timings:  *)
(* type correctness, that a freshly confirmed leader owns the key, that    *)
(* there is at most one leader, that callbacks are started and stopped in  *)
(* pairs, and that a leader stays one.  The second and third are about     *)
(* passes that take no time (Prompt); the last is about passes as slow as  *)
(* StableTimings has room for, with at most one leader again.              *)
(***************************************************************************)
EXTENDS LeaderElection, TLAPS

USE DEF Outside, Expired, lock, timer

-----------------------------------------------------------------------------
\* Every state of the election has its declared type, whatever the nodes,
\* the timings and the faults.
THEOREM TypeCorrect == Spec => []TypeOK
<1>1. Init => TypeOK
  BY TimingAssumption DEF Init, TypeOK, PC
<1>2. TypeOK /\ [Next]_vars => TypeOK'
  <2> SUFFICES ASSUME TypeOK, [Next]_vars PROVE TypeOK'
    OBVIOUS
  <2> USE TimingAssumption DEF TypeOK
  <2>1. ASSUME Tick PROVE TypeOK'
    BY <2>1 DEF Tick, Fires, Live
  <2>2. ASSUME NEW n \in Node, Boot(n) PROVE TypeOK'
    BY <2>2 DEF Boot, Goto, PC
  <2>3. ASSUME NEW n \in Node, Crash(n) PROVE TypeOK'
    BY <2>3 DEF Crash, Goto, PC
  <2>4. ASSUME NEW n \in Node, TakeTick(n) PROVE TypeOK'
    <3>1. CASE Lose(n)
      BY <2>4, <3>1 DEF TakeTick, Lose, Goto, PC
    <3>2. CASE Goto(n, "setnx") /\ UNCHANGED isLeader
      BY <2>4, <3>2 DEF TakeTick, Goto, PC
    <3> QED
      BY <2>4, <3>1, <3>2 DEF TakeTick
  <2>5. ASSUME NEW n \in Node, SetNX(n) PROVE TypeOK'
    BY <2>5 DEF SetNX, SetIfAbsent, Goto, PC
  <2>6. ASSUME NEW n \in Node, Get(n) PROVE TypeOK'
    <3>1. CASE Lose(n)
      BY <2>6, <3>1 DEF Get, Lose, Goto, PC
    <3>2. CASE (Goto(n, "owned") \/ Goto(n, "idle")) /\ UNCHANGED isLeader
      BY <2>6, <3>2 DEF Get, Goto, PC
    <3> QED
      BY <2>6, <3>1, <3>2 DEF Get
  <2>7. ASSUME NEW n \in Node, Own(n) PROVE TypeOK'
    BY <2>7 DEF Own, Goto, PC
  <2>8. ASSUME NEW n \in Node, StartCallback(n) PROVE TypeOK'
    BY <2>8 DEF StartCallback, Goto, PC
  <2>9. ASSUME NEW n \in Node, Expire(n) PROVE TypeOK'
    BY <2>9 DEF Expire, Prolong, Goto, PC
  <2>10. ASSUME NEW n \in Node, Stamp(n) PROVE TypeOK'
    BY <2>10 DEF Stamp, Goto, PC
  <2>11. ASSUME NEW n \in Node, StopCallback(n) PROVE TypeOK'
    BY <2>11 DEF StopCallback, Goto, PC
  <2>12. CASE UNCHANGED vars
    BY <2>12 DEF vars
  <2> QED
    BY <2>1, <2>2, <2>3, <2>4, <2>5, <2>6, <2>7, <2>8, <2>9, <2>10, <2>11,
       <2>12 DEF Next, Step
<1> QED
  BY <1>1, <1>2, PTL DEF Spec

-----------------------------------------------------------------------------
\* The key and the ages: the part of the invariant that needs passes to take
\* no time and ElectionTimeout to be shorter than LeaderTTL, but puts no
\* limit on which calls fail.
LeaseInv == TypeOK /\ LockInv /\ PassInv /\ AgeInv

\* Before any pod has booted there is no key and no renewal.
LEMMA LeaseInit == Init => LeaseInv
BY TimingAssumption DEF Init, LeaseInv, TypeOK, PC, LockInv, PassInv, AgeInv

\* What may go wrong in a behaviour is settled in Init.
LEMMA FaultsStay == [Next]_vars => faults' = faults
BY DEF Next, Step, vars, Tick, Boot, Crash, TakeTick, SetNX, Get, Own,
       StartCallback, Expire, Stamp, StopCallback

\* With passes that take no time, every Redis call, crash and tick keeps the
\* key alive longer than the age of the renewal that prolonged it.
LEMMA LeaseStep ==
  ASSUME Prompt, ElectionTimeout < LeaderTTL, LeaseInv, [Next]_vars, TypeOK'
  PROVE  LeaseInv'
<1> USE NodeAssumption, TimingAssumption DEF LeaseInv, TypeOK, LockInv
<1>1. ASSUME Tick PROVE LeaseInv'
  <2>1. \A n \in Node : pc[n] \in {"off", "dead", "idle"}
    BY <1>1 DEF Tick, MayWait, Limit, Prompt
  <2>2. pc' = pc
    BY <1>1 DEF Tick
  <2>3. LockInv'
    BY <1>1 DEF Tick
  <2>4. PassInv'
    BY <2>1, <2>2 DEF PassInv
  <2>5. ASSUME NEW n \in Node, age'[n] <= ElectionTimeout
        PROVE  owner' = n /\ ttl' + age'[n] >= LeaderTTL
    <3>1. age'[n] = age[n] + 1
      BY <1>1, <2>5 DEF Tick
    <3>2. owner = n /\ ttl + age[n] >= LeaderTTL
      BY <2>5, <3>1 DEF AgeInv
    <3>3. ttl' = ttl - 1 /\ ttl' > 0
      BY <1>1, <2>5, <3>1, <3>2 DEF Tick
    <3> QED
      BY <1>1, <3>1, <3>2, <3>3 DEF Tick
  <2> QED
    BY <2>3, <2>4, <2>5 DEF AgeInv
<1>2. ASSUME NEW n \in Node, Boot(n) PROVE LeaseInv'
  BY <1>2 DEF Boot, Goto, PassInv, AgeInv
<1>3. ASSUME NEW n \in Node, Crash(n) PROVE LeaseInv'
  BY <1>3 DEF Crash, Goto, PassInv, AgeInv
<1>4. ASSUME NEW n \in Node, TakeTick(n) PROVE LeaseInv'
  <2>1. UNCHANGED <<owner, ttl, age>>
    BY <1>4 DEF TakeTick
  <2>2. PassInv'
    BY <1>4, <2>1 DEF TakeTick, Lose, Goto, PassInv
  <2> QED
    BY <2>1, <2>2 DEF AgeInv
<1>5. ASSUME NEW n \in Node, SetNX(n) PROVE LeaseInv'
  <2>1. age' = age /\ (SetIfAbsent(n) \/ UNCHANGED <<owner, ttl>>)
    BY <1>5 DEF SetNX
  <2>2. owner # None => UNCHANGED <<owner, ttl>>
    BY <2>1 DEF SetIfAbsent
  <2>3. LockInv' /\ AgeInv'
    BY <2>1, <2>2 DEF SetIfAbsent, AgeInv
  <2>4. PassInv'
    BY <1>5, <2>2 DEF SetNX, Goto, PassInv
  <2> QED
    BY <2>3, <2>4
<1>6. ASSUME NEW n \in Node, Get(n) PROVE LeaseInv'
  <2>1. UNCHANGED <<owner, ttl, age>>
    BY <1>6 DEF Get
  <2>2. PassInv'
    BY <1>6, <2>1 DEF Get, Lose, Goto, PassInv
  <2> QED
    BY <2>1, <2>2 DEF AgeInv
<1>7. ASSUME NEW n \in Node, Own(n) PROVE LeaseInv'
  BY <1>7 DEF Own, Goto, PassInv, AgeInv
<1>8. ASSUME NEW n \in Node, StartCallback(n) PROVE LeaseInv'
  <2>1. UNCHANGED <<owner, ttl, age>>
    BY <1>8 DEF StartCallback
  <2>2. PassInv'
    BY <1>8, <2>1 DEF StartCallback, Goto, PassInv
  <2> QED
    BY <2>1, <2>2 DEF AgeInv
<1>9. ASSUME NEW n \in Node, Expire(n) PROVE LeaseInv'
  <2>1. owner = n /\ ttl # 0
    BY <1>9 DEF Expire, PassInv
  <2>2. owner' = n /\ age' = age /\ (ttl' = LeaderTTL \/ ttl' = ttl)
    BY <1>9, <2>1 DEF Expire, Prolong
  <2>3. \A m \in Node \ {n} : pc'[m] = pc[m]
    BY <1>9 DEF Expire, Goto
  <2>4. pc'[n] = "stamp" => ttl' = LeaderTTL
    BY <1>9, <2>1 DEF Expire, Prolong, Goto
  <2>5. PassInv'
    BY <2>1, <2>2, <2>3, <2>4 DEF PassInv
  <2>6. AgeInv'
    BY <2>1, <2>2 DEF AgeInv
  <2> QED
    BY <2>1, <2>2, <2>5, <2>6
<1>10. ASSUME NEW n \in Node, Stamp(n) PROVE LeaseInv'
  BY <1>10 DEF Stamp, Goto, PassInv, AgeInv
<1>11. ASSUME NEW n \in Node, StopCallback(n) PROVE LeaseInv'
  <2>1. UNCHANGED <<owner, ttl, age>>
    BY <1>11 DEF StopCallback
  <2>2. PassInv'
    BY <1>11, <2>1 DEF StopCallback, Goto, PassInv
  <2> QED
    BY <2>1, <2>2 DEF AgeInv
<1>12. CASE UNCHANGED vars
  BY <1>12 DEF vars, PassInv, AgeInv
<1> QED
  BY <1>1, <1>2, <1>3, <1>4, <1>5, <1>6, <1>7, <1>8, <1>9, <1>10, <1>11,
     <1>12 DEF Next, Step

\* Every node whose last renewal is within ElectionTimeout owns the key,
\* whichever calls fail, when passes take no time and the key lives longer
\* than ElectionTimeout.
THEOREM ConfirmedLeader ==
  ASSUME ElectionTimeout < LeaderTTL
  PROVE  Spec => []ConfirmedLeaderOwnsLock
<1> DEFINE Guarded == Prompt => LeaseInv
<1>1. Init => Guarded
  BY LeaseInit
<1>2. Guarded /\ TypeOK' /\ [Next]_vars => Guarded'
  BY LeaseStep, FaultsStay DEF Prompt
<1>3. Guarded => ConfirmedLeaderOwnsLock
  BY DEF LeaseInv, AgeInv, ConfirmedLeaderOwnsLock
<1> QED
  BY <1>1, <1>2, <1>3, TypeCorrect, PTL DEF Spec

-----------------------------------------------------------------------------
\* Leadership: what a second leader would have to overcome.  The key must
\* outlive ElectionTimeout by more than one RenewalPeriod, because a leader
\* notices its timeout only at its next tick, and Expire must not fail on its
\* own after Get succeeded, because taking leadership then leaves
\* lastLeadershipTime unset.
SafeTimings == ElectionTimeout + RenewalPeriod < LeaderTTL

\* As long as Expire does not fail, each step of a pass keeps every leader the
\* owner of a key that outlives its wait for the next tick.
LEMMA LeadStep ==
  ASSUME Prompt, SafeTimings, "expire" \notin faults,
         LeaseInv, LeadInv, [Next]_vars
  PROVE  LeadInv'
<1> USE NodeAssumption, TimingAssumption DEF LeaseInv, TypeOK, LockInv
<1>1. ASSUME Tick PROVE LeadInv'
  <2> SUFFICES ASSUME NEW n \in Node, isLeader[n]
               PROVE  /\ owner' = n
                      /\ pc[n] = "idle"
                      /\ ~due'[n] =>
                            ttl' + phase'[n] >= LeaderTTL - ElectionTimeout
    BY <1>1 DEF Tick, LeadInv, Live
  <2>1. pc[n] = "idle" /\ ~due[n] /\ Live(n)
    BY <1>1 DEF Tick, MayWait, Limit, Prompt, LeadInv, Live
  <2>2. ttl + phase[n] >= LeaderTTL - ElectionTimeout /\ owner = n
    BY <2>1 DEF LeadInv
  <2>3. ttl' = ttl - 1 /\ ttl' > 0 /\ owner' = n
    BY <1>1, <2>2 DEF Tick, SafeTimings
  <2>4. ~due'[n] => phase'[n] = phase[n] + 1
    BY <1>1, <2>1 DEF Tick
  <2> QED
    BY <2>1, <2>2, <2>3, <2>4
<1>2. ASSUME NEW n \in Node, Boot(n) PROVE LeadInv'
  BY <1>2 DEF Boot, Goto, LeadInv, Live
<1>3. ASSUME NEW n \in Node, Crash(n) PROVE LeadInv'
  BY <1>3 DEF Crash, Goto, LeadInv, Live
<1>4. ASSUME NEW n \in Node, TakeTick(n) PROVE LeadInv'
  <2>1. UNCHANGED <<owner, ttl, age, phase>>
    BY <1>4 DEF TakeTick
  <2>2. \A m \in Node \ {n} : /\ isLeader'[m] = isLeader[m]
                              /\ pc'[m] = pc[m]
                              /\ due'[m] = due[m]
    BY <1>4 DEF TakeTick, Lose, Goto
  <2>3. CASE TimedOut(n)
    <3>1. ~isLeader'[n]
      BY <1>4, <2>3 DEF TakeTick, Lose
    <3> QED
      BY <2>1, <2>2, <3>1 DEF LeadInv, Live
  <2>4. CASE ~TimedOut(n)
    <3>1. isLeader'[n] = isLeader[n] /\ pc'[n] = "setnx"
      BY <1>4, <2>4 DEF TakeTick, Goto
    <3>2. isLeader[n] => age[n] <= ElectionTimeout
      BY <2>4 DEF TimedOut
    <3> QED
      BY <2>1, <2>2, <3>1, <3>2 DEF LeadInv, Live
  <2> QED
    BY <2>3, <2>4
<1>5. ASSUME NEW n \in Node, SetNX(n) PROVE LeadInv'
  <2>1. UNCHANGED <<isLeader, age, phase, due>>
    BY <1>5 DEF SetNX, timer
  <2>2. owner # None => UNCHANGED <<owner, ttl>>
    BY <1>5 DEF SetNX, SetIfAbsent
  <2>3. \A m \in Node \ {n} : pc'[m] = pc[m]
    BY <1>5 DEF SetNX, Goto
  <2>4. pc[n] = "setnx" /\ pc'[n] \in {"get", "idle"}
    BY <1>5 DEF SetNX, Goto
  <2>5. isLeader[n] => ttl >= LeaderTTL - ElectionTimeout
    BY <2>4 DEF LeadInv, AgeInv
  <2> QED
    BY <2>1, <2>2, <2>3, <2>4, <2>5 DEF LeadInv, Live
<1>6. ASSUME NEW n \in Node, Get(n) PROVE LeadInv'
  <2>1. UNCHANGED <<owner, ttl, age, phase, due>>
    BY <1>6 DEF Get
  <2>2. \A m \in Node \ {n} : isLeader'[m] = isLeader[m] /\ pc'[m] = pc[m]
    BY <1>6 DEF Get, Lose, Goto
  <2>3. CASE Lose(n)
    <3>1. ~isLeader'[n]
      BY <2>3 DEF Lose
    <3> QED
      BY <2>1, <2>2, <3>1 DEF LeadInv, Live
  <2>4. CASE (Goto(n, "owned") \/ Goto(n, "idle")) /\ UNCHANGED isLeader
    <3>1. pc'[n] \in {"owned", "idle"} /\ isLeader'[n] = isLeader[n]
      BY <2>4 DEF Goto
    <3>2. isLeader[n] => ttl >= LeaderTTL - ElectionTimeout
      BY <1>6 DEF Get, LeadInv, AgeInv
    <3> QED
      BY <2>1, <2>2, <3>1, <3>2 DEF LeadInv, Live
  <2> QED
    BY <1>6, <2>3, <2>4 DEF Get
<1>7. ASSUME NEW n \in Node, Own(n) PROVE LeadInv'
  <2>1. UNCHANGED <<owner, ttl, age, phase, due>> /\ owner = n
    BY <1>7 DEF Own, PassInv
  <2>2. \A m \in Node \ {n} : isLeader'[m] = isLeader[m] /\ pc'[m] = pc[m]
    BY <1>7 DEF Own, Goto
  <2>3. pc'[n] \in {"expire", "start"}
    BY <1>7 DEF Own, Goto
  <2> QED
    BY <2>1, <2>2, <2>3 DEF LeadInv, Live
<1>8. ASSUME NEW n \in Node, StartCallback(n) PROVE LeadInv'
  <2>1. UNCHANGED <<owner, ttl, isLeader, age, phase, due>>
    BY <1>8 DEF StartCallback
  <2>2. pc'[n] \in {"expire", "start"}
    BY <1>8 DEF StartCallback, Goto
  <2>3. \A m \in Node \ {n} : pc'[m] = pc[m]
    BY <1>8 DEF StartCallback, Goto
  <2> QED
    BY <2>1, <2>2, <2>3 DEF LeadInv, Live
<1>9. ASSUME NEW n \in Node, Expire(n) PROVE LeadInv'
  <2>1. UNCHANGED <<isLeader, age, phase, due>> /\ owner = n
    BY <1>9 DEF Expire, PassInv
  <2>2. owner' = n /\ pc'[n] = "stamp"
    <3>1. Prolong /\ Goto(n, "stamp")
      BY <1>9 DEF Expire
    <3> QED
      BY <2>1, <3>1 DEF Prolong, Goto
  <2>3. \A m \in Node \ {n} : ~isLeader[m]
    BY <2>1 DEF LeadInv
  <2> QED
    BY <2>1, <2>2, <2>3 DEF LeadInv, Live
<1>10. ASSUME NEW n \in Node, Stamp(n) PROVE LeadInv'
  <2>1. owner = n /\ ttl = LeaderTTL
    BY <1>10 DEF Stamp, PassInv
  <2> QED
    BY <1>10, <2>1 DEF Stamp, Goto, LeadInv, Live
<1>11. ASSUME NEW n \in Node, StopCallback(n) PROVE LeadInv'
  <2>1. UNCHANGED <<owner, ttl, isLeader, age, phase, due>>
    BY <1>11 DEF StopCallback
  <2>2. \A m \in Node \ {n} : pc'[m] = pc[m]
    BY <1>11 DEF StopCallback, Goto
  <2>3. ~isLeader[n]
    BY <1>11 DEF StopCallback, LeadInv
  <2> QED
    BY <2>1, <2>2, <2>3 DEF LeadInv, Live
<1>12. CASE UNCHANGED vars
  BY <1>12 DEF vars, LeadInv, Live
<1> QED
  BY <1>1, <1>2, <1>3, <1>4, <1>5, <1>6, <1>7, <1>8, <1>9, <1>10, <1>11,
     <1>12 DEF Next, Step

\* Two pods never lead at once when passes take no time, the key outlives
\* ElectionTimeout by more than a RenewalPeriod, and Expire does not fail
\* after Get succeeded.
THEOREM SingleLeader ==
  ASSUME SafeTimings
  PROVE  Spec => []OneLeaderUnlessExpireFails
<1> DEFINE Lease == Prompt => LeaseInv
           Lead  == Prompt /\ "expire" \notin faults => LeadInv
<1>1. Init => Lease /\ Lead
  BY LeaseInit DEF Init, LeadInv
<1>2. Lease /\ TypeOK' /\ [Next]_vars => Lease'
  BY LeaseStep, FaultsStay, TimingAssumption DEF Prompt, SafeTimings
<1>3. Lease /\ Lead /\ [Next]_vars => Lead'
  BY LeadStep, FaultsStay DEF Prompt
<1>4. Lead => OneLeaderUnlessExpireFails
  BY DEF LeadInv, OneLeaderUnlessExpireFails, AtMostOneLeader
<1> QED
  BY <1>1, <1>2, <1>3, <1>4, TypeCorrect, PTL DEF Spec

-----------------------------------------------------------------------------
\* Each step of a pass, each boot and crash of a process and each tick leaves
\* the callbacks as the place of the pass says, whether or not the pass is
\* slow and whichever calls fail.
LEMMA CallbackStep ==
  ASSUME TypeOK, CallbackInv, [Next]_vars
  PROVE  CallbackInv'
<1> USE EnvironmentAssumption DEF TypeOK, CallbackInv, Callback
<1>1. ASSUME Tick PROVE CallbackInv'
  BY <1>1 DEF Tick
<1>2. ASSUME NEW n \in Node, Boot(n) PROVE CallbackInv'
  BY <1>2 DEF Boot, Goto
<1>3. ASSUME NEW n \in Node, Crash(n) PROVE CallbackInv'
  BY <1>3 DEF Crash, Live, Goto
<1>4. ASSUME NEW n \in Node, TakeTick(n) PROVE CallbackInv'
  <2>1. CASE Lose(n)
    BY <1>4, <2>1 DEF TakeTick, Lose, Goto
  <2>2. CASE Goto(n, "setnx") /\ UNCHANGED isLeader
    BY <1>4, <2>2 DEF TakeTick, Goto
  <2> QED
    BY <1>4, <2>1, <2>2 DEF TakeTick
<1>5. ASSUME NEW n \in Node, SetNX(n) PROVE CallbackInv'
  BY <1>5 DEF SetNX, Goto
<1>6. ASSUME NEW n \in Node, Get(n) PROVE CallbackInv'
  BY <1>6 DEF Get, Lose, Goto
\* A leader keeps its callbacks; a node that has none registered is done.
<1>7. ASSUME NEW n \in Node, Own(n) PROVE CallbackInv'
  <2>1. pc'[n] = "expire" => active[n] = Callback
    BY <1>7 DEF Own, Goto
  <2>2. pc'[n] = "start" => active[n] = {}
    BY <1>7 DEF Own, Goto
  <2> QED
    BY <1>7, <2>1, <2>2 DEF Own, Goto
\* The callback started last is the last one exactly when all have run.
<1>8. ASSUME NEW n \in Node, StartCallback(n) PROVE CallbackInv'
  <2>1. PICK k \in Callback \ active[n] :
           /\ \A j \in Callback : j < k => j \in active[n]
           /\ active' = [active EXCEPT ![n] = @ \cup {k}]
           /\ Goto(n, IF k = NumCallbacks THEN "expire" ELSE "start")
    BY <1>8 DEF StartCallback
  <2>2. k = NumCallbacks => active'[n] = Callback
    BY <2>1
  <2>3. k # NumCallbacks => NumCallbacks \notin active'[n]
    BY <1>8, <2>1 DEF StartCallback
  <2>4. UNCHANGED isLeader /\ isLeader[n]
    BY <1>8 DEF StartCallback
  <2> QED
    BY <2>1, <2>2, <2>3, <2>4 DEF Goto
<1>9. ASSUME NEW n \in Node, Expire(n) PROVE CallbackInv'
  BY <1>9 DEF Expire, Goto
<1>10. ASSUME NEW n \in Node, Stamp(n) PROVE CallbackInv'
  BY <1>10 DEF Stamp, Goto
<1>11. ASSUME NEW n \in Node, StopCallback(n) PROVE CallbackInv'
  <2>1. /\ ~isLeader[n] /\ UNCHANGED isLeader
        /\ \A m \in Node \ {n} : active'[m] = active[m] /\ pc'[m] = pc[m]
    BY <1>11 DEF StopCallback, Goto
  <2>2. \/ pc'[n] = "lose"
        \/ pc'[n] = "idle" /\ active'[n] = {}
    BY <1>11 DEF StopCallback, Goto
  <2>3. CASE pc'[n] = "lose"
    BY <2>1, <2>3
  <2>4. CASE pc'[n] = "idle" /\ active'[n] = {}
    BY <2>1, <2>4
  <2> QED
    BY <2>2, <2>3, <2>4
<1>12. CASE UNCHANGED vars
  BY <1>12 DEF vars
<1> QED
  BY <1>1, <1>2, <1>3, <1>4, <1>5, <1>6, <1>7, <1>8, <1>9, <1>10, <1>11,
     <1>12 DEF Next, Step

\* The callbacks follow the place of the pass in every behaviour.
LEMMA CallbacksAlways == Spec => []CallbackInv
<1>1. Init => CallbackInv
  BY DEF Init, CallbackInv
<1>2. TypeOK /\ CallbackInv /\ [Next]_vars => CallbackInv'
  BY CallbackStep
<1> QED
  BY <1>1, <1>2, TypeCorrect, PTL DEF Spec

\* Every OnStartLeading is paired with one OnStopLeading, for every number of
\* nodes and callbacks, all timings and whichever calls fail: no work of a
\* leader runs on a node that is not leader, except while it is stopping.
THEOREM CallbacksPaired == Spec => []CallbacksFollowLeadership
<1>1. TypeOK /\ CallbackInv => CallbacksFollowLeadership
  BY DEF TypeOK, PC, CallbackInv, CallbacksFollowLeadership
<1> QED
  BY <1>1, CallbacksAlways, TypeCorrect, PTL

-----------------------------------------------------------------------------
\* Slow passes: what is left of the key's life at each place of a pass.

\* Starting one more callback shortens what the rest may take by one
\* CallbackDelay.
LEMMA StartTimes ==
  /\ \A k \in 0..NumCallbacks : StartTime(k) \in Nat
  /\ \A k \in 0..(NumCallbacks - 1) :
        StartTime(k) = StartTime(k + 1) + CallbackDelay
  /\ StartTime(0) = NumCallbacks * CallbackDelay
<1> USE EnvironmentAssumption DEF StartTime
<1>1. ASSUME NEW k \in 0..NumCallbacks PROVE StartTime(k) \in Nat
  <2>1. NumCallbacks - k \in Nat
    OBVIOUS
  <2> QED
    BY <2>1
<1>2. ASSUME NEW k \in 0..(NumCallbacks - 1)
      PROVE  StartTime(k) = StartTime(k + 1) + CallbackDelay
  <2>1. PICK d \in Nat : NumCallbacks - k = d + 1
    <3>1. NumCallbacks - k - 1 \in Nat
      OBVIOUS
    <3> QED
      BY <3>1
  <2>2. NumCallbacks - (k + 1) = d
    BY <2>1
  <2>3. (d + 1) * CallbackDelay = d * CallbackDelay + CallbackDelay
    BY SMT
  <2> QED
    BY <2>1, <2>2, <2>3
<1> QED
  BY <1>1, <1>2

\* No step of a pass may take longer than the delay of its kind.
LEMMA Limits ==
  /\ \A l : Limit(l) \in Nat
  /\ \A l : l # "start" => Limit(l) <= CallDelay
  /\ Limit("start") <= CallbackDelay
BY EnvironmentAssumption DEF Limit, Prompt

\* A step of one node leaves what the invariant says of another one, unless
\* it takes the key from it.
LEMMA HeldByOthers ==
  ASSUME TypeOK, HoldInv, NEW n \in Node, NEW m \in Node \ {n},
         /\ isLeader'[m] = isLeader[m] /\ age'[m] = age[m]
         /\ active'[m] = active[m] /\ pc'[m] = pc[m] /\ stay'[m] = stay[m]
         /\ phase'[m] = phase[m] /\ due'[m] = due[m] /\ faults' = faults,
         UNCHANGED lock \/ (owner \in {n, None} /\ owner' = n)
  PROVE  Held(m)'
<1> USE DEF HoldInv, Held, Live
<1>1. Limit(pc[m])' = Limit(pc[m])
  BY DEF Limit, Prompt
<1>2. CASE UNCHANGED lock
  <2>1. LifeLeft(m)' = LifeLeft(m)
    BY <1>2 DEF LifeLeft, StartTime
  <2> QED
    BY <1>1, <1>2, <2>1
<1>3. CASE owner \in {n, None} /\ owner' = n
  BY <1>1, <1>3, NodeAssumption
<1> QED
  BY <1>2, <1>3

\* A tick shortens the life of the key and the time a pass may still take
\* alike.
LEMMA HoldTick ==
  ASSUME TypeOK, TypeOK', CallbackInv, HoldInv, StableTimings, Tick
  PROVE  HoldInv'
<1> USE NodeAssumption, TimingAssumption, EnvironmentAssumption
<1>1. LockInv'
  BY DEF Tick, HoldInv, LockInv, TypeOK
<1>2. /\ UNCHANGED <<isLeader, active, pc, faults>>
      /\ owner' = owner \/ (ttl' = 0 /\ owner' = None)
      /\ ttl' = IF ttl = 0 THEN 0 ELSE ttl - 1
  BY DEF Tick
<1>3. ASSUME NEW n \in Node PROVE Held(n)'
  <2>1. /\ stay'[n] = IF pc[n] \in Outside \cup {"idle"} THEN 0 ELSE stay[n] + 1
        /\ due'[n] = (due[n] \/ Fires(n))
        /\ phase'[n] = IF Live(n) /\ ~Fires(n) THEN phase[n] + 1 ELSE 0
        /\ age'[n] = IF age[n] < Expired THEN age[n] + 1 ELSE Expired
        /\ MayWait(n)
    BY DEF Tick
  <2>2. /\ ttl \in Nat /\ stay[n] \in Nat /\ phase[n] \in Nat
        /\ age[n] \in Nat /\ age[n] <= ElectionTimeout + 1
        /\ phase[n] <= RenewalPeriod - 1
    BY DEF TypeOK
  <2>3. Held(n)
    BY DEF HoldInv
  <2>4. Limit(pc[n])' = Limit(pc[n])
    BY <1>2 DEF Limit, Prompt
  <2>5. pc[n] \notin Outside \cup {"idle"} =>
          /\ stay'[n] = stay[n] + 1
          /\ stay[n] + 1 <= Limit(pc[n])
    BY <2>1, <2>2, Limits DEF MayWait
  <2>6. StartTime(0) \in Nat
    BY StartTimes
  <2>7. CASE owner # n
    <3>1. owner' # n
      BY <1>2, <2>7
    <3> QED
      BY <1>2, <2>3, <2>4, <2>5, <2>7, <3>1 DEF Held, Live
  <2>8. CASE owner = n /\ pc[n] = "dead"
    BY <1>2, <2>8 DEF Held, Live, LifeLeft, CallbackInv
  <2>9. CASE owner = n /\ pc[n] # "dead"
    <3>1. isLeader[n] \/ pc[n] \in {"get", "owned"}
      BY <2>3, <2>9 DEF Held
    <3>2. LifeLeft(n)
      BY <2>3, <2>9 DEF Held
    <3> DEFINE pending == IF isLeader[n] THEN 0 ELSE StartTime(0)
    <3>3. pending \in Nat
      BY <2>6
    <3>4. pc[n] \in {"idle", "setnx", "get", "owned", "start", "expire", "stamp"}
      BY <2>3, <2>9, <3>1 DEF Held, CallbackInv, TypeOK, PC
    <3>5. pc[n] = "idle" => ~due[n] /\ Live(n)
      BY <2>1 DEF MayWait, Live
    \* An owner on its way to Expire still has life left.
    <3>6. ttl > 1 /\ ttl' = ttl - 1
      <4>1. CASE pc[n] = "idle"
        <5>1. isLeader[n] /\ ~due[n]
          BY <3>1, <3>5, <4>1
        <5>2. ttl + phase[n] >= LeaderTTL
          BY <3>2, <4>1, <5>1 DEF LifeLeft
        <5> QED
          BY <1>2, <2>2, <5>2 DEF StableTimings
      <4>2. CASE pc[n] = "setnx"
        BY <1>2, <2>2, <2>5, <3>1, <3>2, <4>2, Limits DEF LifeLeft
      <4>3. CASE pc[n] \in {"get", "owned"}
        <5>1. ttl + stay[n] > 2 * CallDelay + pending
          BY <2>2, <3>2, <3>3, <4>3 DEF LifeLeft
        <5>2. stay[n] + 1 <= CallDelay
          BY <2>2, <2>5, <4>3, Limits
        <5> HIDE DEF pending
        <5> QED
          BY <1>2, <2>2, <3>3, <5>1, <5>2
      <4>4. CASE pc[n] = "start"
        <5>1. PICK k \in 0..(NumCallbacks - 1) :
                 ttl + stay[n] > CallDelay + StartTime(k)
          BY <3>2, <4>4 DEF LifeLeft
        <5>2. StartTime(k) >= CallbackDelay
          BY StartTimes
        <5> QED
          BY <1>2, <2>2, <2>5, <4>4, <5>1, <5>2, StartTimes, Limits
      <4>5. CASE pc[n] = "expire"
        BY <1>2, <2>2, <2>5, <3>2, <4>5, Limits DEF LifeLeft
      <4>6. CASE pc[n] = "stamp"
        BY <1>2, <2>2, <2>5, <3>2, <4>6, Limits DEF LifeLeft, StableTimings
      <4> QED
        BY <3>4, <4>1, <4>2, <4>3, <4>4, <4>5, <4>6
    <3>7. owner' = n
      BY <1>2, <2>2, <2>9, <3>6
    <3>8. pc[n] # "idle" => ttl' + stay'[n] = ttl + stay[n]
      BY <2>2, <2>5, <3>4, <3>6
    <3>9. LifeLeft(n)'
      <4>1. CASE pc[n] = "idle"
        <5>1. phase[n] + 1 = RenewalPeriod => due'[n] = TRUE
          BY <2>1, <3>5, <4>1 DEF Fires
        <5>2. phase[n] + 1 # RenewalPeriod =>
                ~due'[n] /\ phase'[n] = phase[n] + 1
          BY <2>1, <3>5, <4>1 DEF Fires
        <5>3. isLeader[n] /\ ttl + phase[n] >= LeaderTTL /\ age[n] <= phase[n]
          BY <3>1, <3>2, <3>5, <4>1 DEF LifeLeft
        <5>4. age'[n] = age[n] + 1
          BY <2>1, <2>2, <5>3 DEF StableTimings
        <5>5. CASE phase[n] + 1 = RenewalPeriod
          <6>1. ttl' > 4 * CallDelay /\ age'[n] <= RenewalPeriod
            BY <2>2, <3>6, <5>3, <5>4, <5>5 DEF StableTimings
          <6> QED
            BY <1>2, <4>1, <5>1, <5>5, <6>1 DEF LifeLeft
        <5>6. CASE phase[n] + 1 # RenewalPeriod
          <6>1. ttl' + phase'[n] >= LeaderTTL /\ age'[n] <= phase'[n]
            BY <2>2, <3>6, <5>2, <5>3, <5>4, <5>6
          <6> QED
            BY <1>2, <4>1, <5>2, <5>6, <6>1 DEF LifeLeft
        <5> QED
          BY <5>5, <5>6
      <4>2. CASE pc[n] \in {"setnx", "get", "owned", "expire"}
        BY <1>2, <3>2, <3>8, <4>2 DEF LifeLeft, StartTime
      <4>3. CASE pc[n] = "start"
        BY <1>2, <3>2, <3>8, <4>3 DEF LifeLeft, StartTime
      <4>4. CASE pc[n] = "stamp"
        <5>1. ~due'[n] => phase'[n] >= stay'[n]
          <6>1. ~due'[n] => ~due[n] /\ ~Fires(n) /\ Live(n)
            BY <2>1, <4>4 DEF Live
          <6>2. ~due'[n] => phase'[n] = phase[n] + 1 /\ phase[n] >= stay[n]
            BY <2>1, <3>2, <4>4, <6>1 DEF LifeLeft
          <6> QED
            BY <2>2, <2>5, <4>4, <6>2
        <5> QED
          BY <1>2, <3>2, <3>8, <4>4, <5>1 DEF LifeLeft
      <4> QED
        BY <3>4, <4>1, <4>2, <4>3, <4>4
    <3> QED
      BY <1>2, <2>3, <2>4, <2>5, <3>7, <3>9 DEF Held, Live
  <2> QED
    BY <2>7, <2>8, <2>9
<1> QED
  BY <1>1, <1>3 DEF HoldInv

\* A step of a pass keeps the key in the same hands, or takes a free one, and
\* leaves its node at a place that suits what is left of the key's life.
LEMMA HoldStep ==
  ASSUME TypeOK, TypeOK', CallbackInv, HoldInv, StableTimings,
         faults \subseteq {"slow"}, NEW n \in Node,
         Boot(n) \/ Crash(n) \/ Step(n)
  PROVE  HoldInv'
<1> USE NodeAssumption, TimingAssumption, EnvironmentAssumption
<1>1. /\ Held(n) /\ LockInv
      /\ ttl \in Nat /\ stay[n] \in Nat /\ phase[n] \in Nat /\ age[n] \in Nat
      /\ pc[n] \in PC
  BY DEF HoldInv, TypeOK
<1>2. StartTime(0) \in Nat
  BY StartTimes
<1>3. /\ pc[n] \notin Outside \cup {"idle", "start"} => stay[n] <= CallDelay
      /\ pc[n] = "start" => stay[n] <= CallbackDelay
  BY <1>1, Limits DEF Held, Live
\* A node's own part suffices when its step does not touch the key of another.
<1>4. ASSUME \A m \in Node \ {n} :
                /\ isLeader'[m] = isLeader[m] /\ age'[m] = age[m]
                /\ active'[m] = active[m] /\ pc'[m] = pc[m]
                /\ stay'[m] = stay[m] /\ phase'[m] = phase[m]
                /\ due'[m] = due[m],
             faults' = faults, LockInv', Held(n)',
             UNCHANGED lock \/ (owner \in {n, None} /\ owner' = n)
      PROVE  HoldInv'
  BY <1>4, HeldByOthers DEF HoldInv
\* A place that was just reached is within its limit.
<1>5. ASSUME stay'[n] = 0, pc'[n] # "lose",
              isLeader'[n] \/ pc'[n] = "owned" => owner' = n,
              owner' = n => /\ isLeader'[n] \/ pc'[n] \in {"get", "owned", "dead"}
                            /\ LifeLeft(n)'
       PROVE  Held(n)'
  <2>1. stay'[n] <= Limit(pc[n])'
    BY <1>5 DEF Limit
  <2> QED
    BY <1>5, <2>1 DEF Held
<1>6. UNCHANGED lock => LockInv'
  BY <1>1 DEF LockInv
<1>7. CASE Boot(n)
  <2>1. owner # n /\ ~isLeader[n]
    BY <1>1, <1>7 DEF Boot, Held, CallbackInv
  <2>2. Held(n)'
    BY <1>7, <2>1 DEF Boot, Goto, Held, TypeOK
  <2> QED
    BY <1>4, <1>6, <1>7, <2>2 DEF Boot, Goto, TypeOK
<1>8. CASE Crash(n)
  <2>1. Held(n)'
    BY <1>8 DEF Crash, Goto, Held, LifeLeft, Live, TypeOK
  <2> QED
    BY <1>4, <1>6, <1>8, <2>1 DEF Crash, Goto, TypeOK
<1>9. CASE TakeTick(n)
  <2>1. ~TimedOut(n)
    BY <1>1, <1>9 DEF TakeTick, TimedOut, Held, LifeLeft, StableTimings, TypeOK
  <2>2. UNCHANGED <<lock, isLeader>> /\ pc'[n] = "setnx" /\ stay'[n] = 0
    BY <1>9, <2>1 DEF TakeTick, Goto, TypeOK
  <2>3. owner = n => isLeader[n] /\ ttl > 4 * CallDelay
    BY <1>1, <1>9 DEF TakeTick, Held, LifeLeft
  <2>4. Held(n)'
    <3>1. owner' = n => LifeLeft(n)'
      BY <1>1, <2>2, <2>3 DEF LifeLeft
    <3> QED
      BY <1>1, <1>5, <2>2, <2>3, <3>1 DEF Held
  <2> QED
    BY <1>4, <1>6, <1>9, <2>1, <2>2, <2>4 DEF TakeTick, Goto, TypeOK
<1>10. CASE SetNX(n)
  <2>1. SetIfAbsent(n) /\ Goto(n, "get") /\ UNCHANGED isLeader
    BY <1>10 DEF SetNX
  <2>2. pc'[n] = "get" /\ stay'[n] = 0
    BY <2>1 DEF Goto, TypeOK
  <2>3. LockInv'
    BY <1>1, <2>1 DEF SetIfAbsent, LockInv
  <2>4. owner' = n => ttl' > 3 * CallDelay
                             + (IF isLeader[n] THEN 0 ELSE StartTime(0))
    <3>1. CASE owner = None
      <4>1. ttl' = LeaderTTL /\ ~isLeader[n]
        BY <1>1, <2>1, <3>1 DEF SetIfAbsent, Held
      <4> QED
        BY <4>1, StartTimes DEF StableTimings
    <3>2. CASE owner = n
      <4>1. isLeader[n] /\ ttl' = ttl /\ ttl + stay[n] > 4 * CallDelay
        BY <1>1, <1>10, <2>1, <3>2 DEF SetIfAbsent, SetNX, Held, LifeLeft
      <4> QED
        BY <1>1, <1>3, <1>10, <4>1 DEF SetNX
    <3> QED
      BY <2>1, <3>1, <3>2 DEF SetIfAbsent
  <2>5. isLeader[n] => owner' = n
    BY <1>1, <2>1 DEF SetIfAbsent, Held
  <2>6. owner' = n => isLeader[n] \/ pc'[n] = "get"
    BY <2>2
  <2>7. Held(n)'
    <3>1. ttl' \in Nat
      BY DEF TypeOK
    <3>2. LifeLeft(n)' <=>
            ttl' > 3 * CallDelay + (IF isLeader[n] THEN 0 ELSE StartTime(0))
      BY <2>1, <2>2, <3>1, <1>2 DEF LifeLeft, StartTime
    <3> QED
      BY <1>1, <1>10, <1>5, <2>1, <2>2, <2>4, <2>5, <2>6, <3>2
  <2>8. UNCHANGED lock \/ (owner = None /\ owner' = n)
    BY <2>1 DEF SetIfAbsent
  <2> QED
    BY <1>4, <1>10, <2>1, <2>3, <2>7, <2>8 DEF SetNX, Goto, TypeOK
<1>11. CASE Get(n)
  <2>1. UNCHANGED lock
    BY <1>11 DEF Get
  <2>2. UNCHANGED isLeader /\ stay'[n] = 0
        /\ IF owner = n THEN pc'[n] = "owned" ELSE pc'[n] = "idle"
    BY <1>1, <1>11 DEF Get, Goto, Held, TypeOK
  <2>3. owner = n => ttl > 2 * CallDelay
                            + (IF isLeader[n] THEN 0 ELSE StartTime(0))
    BY <1>1, <1>2, <1>3, <1>11 DEF Get, Held, LifeLeft
  <2>4. Held(n)'
    <3>1. owner' = n => LifeLeft(n)'
      BY <1>1, <2>1, <2>2, <2>3 DEF LifeLeft, StartTime
    <3>2. isLeader[n] => owner = n
      BY <1>1 DEF Held
    <3> QED
      BY <1>5, <2>1, <2>2, <3>1, <3>2
  <2>5. \E l : Goto(n, l)
    BY <1>11 DEF Get, Lose
  <2> QED
    BY <1>4, <1>6, <1>11, <2>1, <2>2, <2>4, <2>5 DEF Get, Goto, TypeOK
<1>12. CASE Own(n)
  <2>1. owner = n /\ UNCHANGED lock
    BY <1>1, <1>12 DEF Own, Held
  <2>2. isLeader'[n] /\ stay'[n] = 0 /\ active'[n] = active[n]
    BY <1>12 DEF Own, Goto, TypeOK
  <2>3. ttl > CallDelay + (IF isLeader[n] THEN 0 ELSE StartTime(0))
    BY <1>1, <1>2, <1>3, <1>12, <2>1 DEF Own, Held, LifeLeft
  <2>4. ASSUME pc'[n] = "expire" PROVE Held(n)'
    <3>1. ttl > CallDelay
      BY <1>1, <1>2, <2>3
    <3> QED
      BY <1>1, <1>5, <2>1, <2>2, <2>4, <3>1 DEF LifeLeft
  <2>5. ASSUME pc'[n] = "start" PROVE Held(n)'
    <3>1. ~isLeader[n] /\ Callback # {} /\ active[n] = {}
      BY <1>12, <2>5 DEF Own, Goto, TypeOK, CallbackInv
    <3>2. 0 \in 0..(NumCallbacks - 1) /\ active'[n] = 1..0
      BY <2>2, <3>1 DEF Callback
    <3>3. LifeLeft(n)'
      BY <1>1, <1>2, <2>1, <2>2, <2>3, <2>5, <3>1, <3>2
         DEF LifeLeft, StartTime
    <3> QED
      BY <1>5, <2>1, <2>2, <2>5, <3>3
  <2>6. pc'[n] \in {"expire", "start"}
    BY <1>12 DEF Own, Goto, TypeOK
  <2>7. Held(n)'
    BY <2>4, <2>5, <2>6
  <2> QED
    BY <1>4, <1>6, <1>12, <2>1, <2>7 DEF Own, Goto, TypeOK
<1>13. CASE StartCallback(n)
  <2>1. isLeader[n] /\ owner = n /\ UNCHANGED <<lock, isLeader>>
    BY <1>1, <1>13 DEF StartCallback, CallbackInv, Held
  <2>2. PICK k \in 0..(NumCallbacks - 1) :
           active[n] = 1..k /\ ttl + stay[n] > CallDelay + StartTime(k)
    BY <1>1, <1>13, <2>1 DEF StartCallback, Held, LifeLeft
  <2>3. PICK j \in Callback \ active[n] :
           /\ \A i \in Callback : i < j => i \in active[n]
           /\ active' = [active EXCEPT ![n] = @ \cup {j}]
           /\ Goto(n, IF j = NumCallbacks THEN "expire" ELSE "start")
    BY <1>13 DEF StartCallback
  <2>4. j = k + 1
    <3>1. ~(j <= k)
      BY <2>2, <2>3 DEF Callback
    <3>2. ~(k + 1 < j)
      <4>1. k + 1 \in Callback /\ k + 1 \notin active[n]
        BY <2>2 DEF Callback
      <4> QED
        BY <2>3, <4>1
    <3> QED
      BY <3>1, <3>2 DEF Callback
  <2>5. active'[n] = 1..(k + 1) /\ stay'[n] = 0
        /\ pc'[n] = IF k + 1 = NumCallbacks THEN "expire" ELSE "start"
    BY <2>2, <2>3, <2>4 DEF Goto, TypeOK
  <2>6. ttl > CallDelay + StartTime(k + 1) /\ StartTime(k + 1) \in Nat
    <3>1. StartTime(k) = StartTime(k + 1) + CallbackDelay
          /\ StartTime(k + 1) \in Nat
      BY StartTimes
    <3> QED
      BY <1>1, <1>3, <1>13, <2>2, <3>1 DEF StartCallback
  <2>7. Held(n)'
    <3>1. CASE k + 1 = NumCallbacks
      <4>1. ttl > CallDelay
        BY <1>1, <2>6
      <4> QED
        BY <1>1, <1>5, <2>1, <2>5, <3>1, <4>1 DEF LifeLeft
    <3>2. CASE k + 1 # NumCallbacks
      <4>1. k + 1 \in 0..(NumCallbacks - 1)
        BY <3>2
      <4>2. LifeLeft(n)'
        BY <1>1, <2>1, <2>5, <2>6, <3>2, <4>1 DEF LifeLeft, StartTime
      <4> QED
        BY <1>5, <2>1, <2>5, <3>2, <4>2
    <3> QED
      BY <3>1, <3>2
  <2> QED
    BY <1>4, <1>6, <1>13, <2>1, <2>3, <2>7 DEF StartCallback, Goto, TypeOK
<1>14. CASE Expire(n)
  <2>1. isLeader[n] /\ owner = n /\ UNCHANGED isLeader
    BY <1>1, <1>14 DEF Expire, CallbackInv, Held
  <2>2. ttl' = LeaderTTL /\ owner' = n /\ Goto(n, "stamp")
    BY <1>14, <2>1 DEF Expire, Prolong
  <2>3. pc'[n] = "stamp" /\ stay'[n] = 0 /\ phase'[n] >= 0
    BY <2>2 DEF Goto, TypeOK
  <2>4. Held(n)' /\ LockInv'
    <3>1. LifeLeft(n)'
      BY <2>1, <2>2, <2>3 DEF LifeLeft
    <3> QED
      BY <1>5, <2>1, <2>2, <2>3, <3>1 DEF LockInv
  <2> QED
    BY <1>4, <1>14, <2>1, <2>2, <2>4 DEF Expire, Goto, TypeOK
<1>15. CASE Stamp(n)
  <2>1. isLeader[n] /\ owner = n /\ UNCHANGED <<lock, isLeader, timer>>
    BY <1>1, <1>15 DEF Stamp, CallbackInv, Held
  <2>2. /\ ttl + stay[n] >= LeaderTTL /\ (~due[n] => phase[n] >= stay[n])
        /\ stay[n] <= CallDelay
    BY <1>1, <1>3, <1>15, <2>1 DEF Stamp, Held, LifeLeft
  <2>3. pc'[n] = "idle" /\ age'[n] = 0
    BY <1>15 DEF Stamp, Goto, TypeOK
  <2>4. LifeLeft(n)'
    BY <1>1, <2>1, <2>2, <2>3 DEF LifeLeft, StableTimings
  <2>5. Held(n)'
    BY <2>1, <2>3, <2>4 DEF Held
  <2> QED
    BY <1>4, <1>6, <1>15, <2>1, <2>5 DEF Stamp, Goto, TypeOK
<1>16. ~StopCallback(n)
  BY <1>1 DEF StopCallback, Held
<1> QED
  BY <1>7, <1>8, <1>9, <1>10, <1>11, <1>12, <1>13, <1>14, <1>15, <1>16
     DEF Step

\* Slow passes cost no leader its key as long as no call fails.
LEMMA HoldAlways ==
  ASSUME StableTimings
  PROVE  Spec => []HoldsUnlessCallFails
<1>1. Init => HoldsUnlessCallFails
  BY NodeAssumption
     DEF Init, HoldsUnlessCallFails, HoldInv, Held, LockInv, Live
<1>2. TypeOK /\ TypeOK' /\ CallbackInv /\ HoldsUnlessCallFails /\ [Next]_vars
         => HoldsUnlessCallFails'
  <2> SUFFICES ASSUME TypeOK, TypeOK', CallbackInv, HoldInv,
                      faults \subseteq {"slow"}, [Next]_vars
               PROVE  HoldInv'
    BY FaultsStay DEF HoldsUnlessCallFails
  <2>1. CASE Tick
    BY <2>1, HoldTick
  <2>2. ASSUME NEW n \in Node, Boot(n) \/ Crash(n) \/ Step(n) PROVE HoldInv'
    BY <2>2, HoldStep
  <2>3. CASE UNCHANGED vars
    BY <2>3 DEF vars, HoldInv, Held, LockInv, LifeLeft, Live, Limit, Prompt,
                StartTime
  <2> QED
    BY <2>1, <2>2, <2>3 DEF Next
<1> QED
  BY <1>1, <1>2, TypeCorrect, CallbacksAlways, PTL DEF Spec

\* While no call fails a leader leads until its process ends, as slow as its
\* passes are, when the key outlives every step up to the next Expire.
THEOREM LeaderIsStable ==
  ASSUME StableTimings
  PROVE  Spec => StableLeader
<1>1. HoldsUnlessCallFails /\ HoldsUnlessCallFails' /\ TypeOK /\ [Next]_vars
         => [faults \subseteq {"slow"} =>
               \A n \in Node : isLeader[n] => isLeader'[n] \/ pc'[n] = "dead"]_vars
  <2> SUFFICES ASSUME HoldInv, HoldInv', TypeOK, [Next]_vars,
                      NEW n \in Node, isLeader[n]
               PROVE  isLeader'[n] \/ pc'[n] = "dead"
    BY FaultsStay DEF HoldsUnlessCallFails
  <2>1. pc'[n] # "lose"
    BY DEF HoldInv, Held
  <2>2. CASE Tick \/ UNCHANGED vars
    BY <2>2 DEF Tick, vars
  <2>3. ASSUME NEW m \in Node, Boot(m) \/ Crash(m) \/ Step(m)
        PROVE  isLeader'[n] \/ pc'[n] = "dead"
    <3>1. CASE Boot(m) \/ Crash(m)
      BY <3>1 DEF Boot, Crash, Goto, TypeOK
    <3>2. CASE Step(m)
      <4>1. CASE TakeTick(m) \/ Get(m)
        BY <2>1, <4>1 DEF TakeTick, Get, Lose, Goto, TypeOK
      <4>2. CASE Own(m)
        BY <4>2 DEF Own, TypeOK
      <4> QED
        BY <3>2, <4>1, <4>2
           DEF Step, SetNX, StartCallback, Expire, Stamp, StopCallback
    <3> QED
      BY <2>3, <3>1, <3>2
  <2> QED
    BY <2>2, <2>3 DEF Next
<1> QED
  BY <1>1, HoldAlways, TypeCorrect, PTL DEF Spec, StableLeader

\* Two pods never lead at once either, then: the promise of the package for
\* slow passes, which is broken by callbacks that outlive the key.
THEOREM SingleSlowLeader ==
  ASSUME StableTimings
  PROVE  Spec => [](faults \subseteq {"slow"} => AtMostOneLeader)
<1>1. HoldsUnlessCallFails => (faults \subseteq {"slow"} => AtMostOneLeader)
  BY DEF HoldsUnlessCallFails, HoldInv, Held, AtMostOneLeader
<1> QED
  BY <1>1, HoldAlways, PTL
=============================================================================
