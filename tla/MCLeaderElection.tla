-------------------------- MODULE MCLeaderElection --------------------------
(***************************************************************************)
(* Model values for the runs of LeaderElection.  The nodes run the same    *)
(* loop and no definition tells one from another, so the safety runs may   *)
(* identify states that differ by a permutation of them; the runs with     *)
(* temporal properties do not.                                             *)
(***************************************************************************)
EXTENDS LeaderElection, TLC

NodeSymmetry == Permutations(Node)
=============================================================================
