---------------------------- MODULE MCBlockLoss -----------------------------
(***************************************************************************)
(* Model values for the safety run of BlockProducer, with the history of   *)
(* BlockLoss.  The workers of a loop are interchangeable: the run          *)
(* identifies states up to their order.                                    *)
(***************************************************************************)
EXTENDS BlockLoss, TLC

\* Bound: while a second term runs the chain has few blocks; the first alone
\* goes far enough to write a number behind a skipped one.
FewBlocks == (\E t \in Term \ {1} : Started(t)) => head <= FromBlock + 2
WorkerSymmetry == Permutations(Worker)
=============================================================================
