-------------------------- MODULE MCBlockConsumer ---------------------------
(***************************************************************************)
(* Model values for the runs of BlockConsumer.  Pods are interchangeable,  *)
(* and so are partitions: the safety runs identify states up to the order  *)
(* of both.                                                                *)
(***************************************************************************)
EXTENDS BlockConsumer, TLC

GroupSymmetry == Permutations(Pod) \cup Permutations(Partition)
=============================================================================
