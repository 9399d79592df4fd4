----------------------------- MODULE MCPlayback -----------------------------
(***************************************************************************)
(* Module Playback for TLC: no run or helper process is special.           *)
(***************************************************************************)
EXTENDS Playback, TLC

Symmetry == Permutations(Runs) \cup Permutations(Procs)
=============================================================================
