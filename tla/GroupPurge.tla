----------------------------- MODULE GroupPurge ------------------------------
(***************************************************************************)
(* How a leading pod removes the consumer groups that pods which are gone  *)
(* left in Kafka, callbacks/expired.go.  Each pod reads broadcast-messages *)
(* in a group of its own; the leader polls the groups and deletes one that *)
(* it found empty for longer than outdatedGroupsTimeLimit.                 *)
(*                                                                         *)
(* Every time the pod starts leading it starts a goroutine, the purger of  *)
(* that term, with its own memory of when it saw which group in use.  The  *)
(* context of the term is in a variable that all of them share: a purger   *)
(* reads it when it enters its select, and when it begins to purge for all *)
(* calls of that purge.  Kafka is external; it deletes no group that has   *)
(* members.  Time passes in units of five seconds; how old a memory is     *)
(* matters up to the limit.                                                *)
(*                                                                         *)
(* RefreshAll is a faulty variant of SeenNow; no action uses it.           *)
(***************************************************************************)
EXTENDS Naturals, FiniteSets

CONSTANTS
    Group,         \* the groups under broadcast's prefix
    PollInterval,  \* outdatedGroupsPollInterval
    TimeLimit,     \* outdatedGroupsTimeLimit
    MaxTerms,      \* bound: how often the pod starts leading
    MaxFaults      \* bound: calls to Kafka that fail

PurgeAssumption ==
    /\ PollInterval \in Nat \ {0} /\ TimeLimit \in Nat
    /\ MaxTerms \in Nat /\ MaxFaults \in Nat

Purger == 1..MaxTerms

VARIABLES
    term,       \* leaderCtx: the context of this term, none before the first
    leading,    \* that context is not cancelled
    pc,         \* by purger: "off", "select", "delete" or "done"
    listens,    \* the context whose Done its select waits for, or with
                \*   which it purges
    ticks,      \* time until its ticker fires
    lastSeen,   \* by purger: how long ago it saw a group in use, for some
    listed,     \* the groups of the last answer
    doomed,     \* the groups it is about to delete
    members,    \* the groups that have a member
    exists,     \* the groups in Kafka
    faults

loops  == <<pc, listens, ticks, lastSeen, listed, doomed>>
groups == <<members, exists>>
vars   == <<term, leading, loops, groups, faults>>

Init ==
    /\ term = 0 /\ leading = FALSE
    /\ pc = [p \in Purger |-> "off"]
    /\ listens = [p \in Purger |-> 0]
    /\ ticks = [p \in Purger |-> 0]
    /\ lastSeen = [p \in Purger |-> <<>>]
    /\ listed = [p \in Purger |-> {}]
    /\ doomed = [p \in Purger |-> {}]
    /\ exists \in SUBSET Group /\ members \in SUBSET exists
    /\ faults = 0

Set(f, p, v) == [f EXCEPT ![p] = v]
Cancelled(t) == t # term \/ ~leading
Fault == faults < MaxFaults /\ faults' = faults + 1

\* Pods come and go; a pod's group is there again when it joins.
Join(g) ==
    /\ g \notin members
    /\ members' = members \cup {g} /\ exists' = exists \cup {g}
    /\ UNCHANGED <<term, leading, loops, faults>>
Part(g) ==
    /\ g \in members
    /\ members' = members \ {g}
    /\ UNCHANGED <<term, leading, loops, exists, faults>>

\* OnStartLeading and OnStopLeading.
StartLeading ==
    /\ ~leading /\ term < MaxTerms
    /\ term' = term + 1 /\ leading' = TRUE
    /\ pc' = Set(pc, term + 1, "select")
    /\ listens' = Set(listens, term + 1, term + 1)
    /\ ticks' = Set(ticks, term + 1, PollInterval)
    /\ UNCHANGED <<lastSeen, listed, doomed, groups, faults>>

StopLeading ==
    /\ leading /\ leading' = FALSE
    /\ UNCHANGED <<term, loops, groups, faults>>

-----------------------------------------------------------------------------
\* The loop enters its select again and reads leaderCtx.
Again(p) ==
    /\ pc' = Set(pc, p, "select")
    /\ listens' = Set(listens, p, term)

\* The ticker fired: purgeOutdatedGroups asks for the groups and their
\* members.  The error of that call is never looked at; without an answer no
\* group is known, none is deleted, and all memories are dropped.  Deleting
\* no group calls nothing.
Kept(f, set) == [g \in DOMAIN f \cap set |-> f[g]]

NoAnswer(p) ==
    /\ lastSeen' = Set(lastSeen, p, <<>>)
    /\ Again(p)
    /\ UNCHANGED <<listed, doomed>>

\* A group in use, or seen for the first time, is seen now.
RefreshAll(p, g) == TRUE
SeenNow(p, g) == g \in members \/ g \notin DOMAIN lastSeen[p]

Answered(p) ==
    LET seen == [g \in exists \cup DOMAIN lastSeen[p] |->
                    IF g \in exists /\ SeenNow(p, g) THEN 0 ELSE lastSeen[p][g]]
        old  == {g \in exists \ members : ~SeenNow(p, g) /\ lastSeen[p][g] > TimeLimit}
    IN  IF old = {}
        THEN /\ lastSeen' = Set(lastSeen, p, Kept(seen, exists))
             /\ Again(p)
             /\ UNCHANGED <<listed, doomed>>
        ELSE /\ lastSeen' = Set(lastSeen, p, seen)
             /\ doomed' = Set(doomed, p, old) /\ listed' = Set(listed, p, exists)
             /\ pc' = Set(pc, p, "delete") /\ listens' = Set(listens, p, term)

Describe(p) ==
    /\ pc[p] = "select" /\ ticks[p] = 0
    /\ ticks' = Set(ticks, p, PollInterval)
    /\ \/ ~Cancelled(term) /\ Answered(p) /\ UNCHANGED faults
       \/ Cancelled(term) /\ NoAnswer(p) /\ UNCHANGED faults
       \/ Fault /\ NoAnswer(p)
    /\ UNCHANGED <<term, leading, groups>>

\* DeleteGroups: a group that has members again stays, which is no error of
\* the call, and is forgotten like the deleted ones and those not listed.
Delete(p) ==
    /\ pc[p] = "delete"
    /\ \/ /\ exists' = exists \ (doomed[p] \ members)
          /\ lastSeen' = Set(lastSeen, p, Kept(lastSeen[p], listed[p] \ doomed[p]))
          /\ UNCHANGED faults
       \/ /\ Cancelled(listens[p]) /\ UNCHANGED <<exists, lastSeen, faults>>
       \/ /\ Fault /\ UNCHANGED <<exists, lastSeen>>
    /\ Again(p)
    /\ listed' = Set(listed, p, {}) /\ doomed' = Set(doomed, p, {})
    /\ UNCHANGED <<term, leading, ticks, members>>

Return(p) ==
    /\ pc[p] = "select" /\ Cancelled(listens[p])
    /\ pc' = Set(pc, p, "done")
    /\ lastSeen' = Set(lastSeen, p, <<>>)
    /\ UNCHANGED <<term, leading, listens, ticks, listed, doomed, groups, faults>>

\* Time passes; the loops are prompt, a ticker waits for the one that is not.
Pass ==
    /\ \A p \in Purger : pc[p] = "select" => ticks[p] > 0 /\ ~Cancelled(listens[p])
    /\ ticks' = [p \in Purger |-> IF ticks[p] > 0 THEN ticks[p] - 1 ELSE 0]
    /\ lastSeen' = [p \in Purger |-> [g \in DOMAIN lastSeen[p] |->
                       IF lastSeen[p][g] > TimeLimit THEN lastSeen[p][g]
                       ELSE lastSeen[p][g] + 1]]
    /\ UNCHANGED <<term, leading, pc, listens, listed, doomed, groups, faults>>

Purge(p) == Describe(p) \/ Delete(p) \/ Return(p)

Next ==
    \/ StartLeading \/ StopLeading \/ Pass
    \/ \E g \in Group : Join(g) \/ Part(g)
    \/ \E p \in Purger : Purge(p)

Spec == Init /\ [][Next]_vars
FairSpec == Spec /\ WF_vars(Pass) /\ \A p \in Purger : WF_vars(Purge(p))

-----------------------------------------------------------------------------
\* A group that stays empty while the pod leads is deleted at last, whatever
\* calls failed before, and also when an earlier term's purger is still there.
\* No purger outlives the leadership by more than the purge it is at: one
\* that was overtaken by a new term goes on in that term, and ends with it.
PurgeFollowsLead ==
    /\ \A g \in Group :
          leading /\ g \in exists \ members
              ~> ~leading \/ g \notin exists \/ g \in members
    /\ \A p \in Purger : ~leading ~> leading \/ pc[p] \in {"off", "done"}
=============================================================================
