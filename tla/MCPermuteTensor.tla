-------------------------- MODULE MCPermuteTensor --------------------------
(***************************************************************************)
(* Instance of PermuteTensor for TLC: every permutation of N slots, over   *)
(* every initial content.  With as many blocks as slots the contents       *)
(* include the tensor whose blocks all differ, the one that tells most     *)
(* apart, and those in which two experts have equal bytes.                 *)
(***************************************************************************)
EXTENDS PermuteTensor

MCBlocks == 1 .. N
MCTorn == 0

=============================================================================
