---------------------------- MODULE MCBlockSaver ----------------------------
(***************************************************************************)
(* A small chain for the runs of BlockSaver: two blocks that touch a       *)
(* common account, two accounts with one code, a basechain message and a   *)
(* masterchain message from the first block to the second, and an external *)
(* message into the second.                                                *)
(***************************************************************************)
EXTENDS BlockSaver, TLC

CONSTANTS a1, a2, c1

MCTouches     == <<{a1}, {a1, a2}>>
MCCodeOf      == (a1 :> c1) @@ (a2 :> c1)
MCSource      == <<1, 1, 0>>
MCDestination == <<2, 2, 2>>

SaverSymmetry == Permutations(Saver)
=============================================================================
