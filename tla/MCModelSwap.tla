---------------------------- MODULE MCModelSwap ----------------------------
(***************************************************************************)
(* Instances of ModelSwap for TLC.                                         *)
(***************************************************************************)
EXTENDS ModelSwap

Symmetry == Permutations(Requests)
=============================================================================
