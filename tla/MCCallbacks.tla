---------------------------- MODULE MCCallbacks ------------------------------
(***************************************************************************)
(* The leader's two callbacks run side by side and share nothing, so each  *)
(* behaviour of this run is a behaviour of one of them: of the loops of    *)
(* BlockProducer, or of the purge of GroupPurge, while the other's         *)
(* variables keep their first value.                                       *)
(***************************************************************************)
EXTENDS BlockProducer

CONSTANTS Group, PollInterval, TimeLimit, MaxPurges, MaxFaults

VARIABLES
    use,                                        \* "produce" or "purge"
    term, leading, purger, listens, ticks, lastSeen, listed, doomed, members,
    exists, faults

purgeVars == <<term, leading, purger, listens, ticks, lastSeen, listed, doomed,
               members, exists, faults>>
allVars   == <<use, vars, purgeVars>>

Purging == INSTANCE GroupPurge WITH pc <- purger, MaxTerms <- MaxPurges

ASSUME Purging!PurgeAssumption

CallbacksInit ==
    /\ use \in {"produce", "purge"}
    /\ Init /\ Purging!Init
    /\ use = "produce" => exists = {}
    /\ use = "purge" => target = 0

ProduceStep(A) == use = "produce" /\ A /\ UNCHANGED <<use, purgeVars>>
PurgeStep(A)   == use = "purge" /\ A /\ UNCHANGED <<use, vars>>

CallbacksNext == ProduceStep(Next) \/ PurgeStep(Purging!Next)

\* The fairness of RecoverySpec and of GroupPurge's FairSpec, for the
\* callback that runs.
CallbacksSpec ==
    /\ CallbacksInit /\ [][CallbacksNext]_allVars
    /\ \A t \in Term, w \in Worker :
        /\ WF_allVars(ProduceStep(Step(t, w)))
        /\ SF_allVars(ProduceStep(Quit(t, w)))
        /\ SF_allVars(ProduceStep(Fetch(t, w) /\ pc'[t][w] = "produce"))
        /\ SF_allVars(ProduceStep(Produce(t, w) /\ pc'[t][w] = "advance"))
    /\ WF_allVars(ProduceStep(NewBlock))
    /\ WF_allVars(PurgeStep(Purging!Pass))
    /\ \A p \in 1..MaxPurges : WF_allVars(PurgeStep(Purging!Purge(p)))

PurgeFollowsLead == Purging!PurgeFollowsLead
=============================================================================
