-------------------------- MODULE MCBlockProducer ---------------------------
(***************************************************************************)
(* Model values for the run of BlockProducer that looks for skipped block  *)
(* numbers.                                                                *)
(***************************************************************************)
EXTENDS BlockProducer
=============================================================================
