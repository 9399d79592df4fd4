------------------------- MODULE MCEngineLifecycle -------------------------
(***************************************************************************)
(* Instances of EngineLifecycle for TLC.                                   *)
(***************************************************************************)
EXTENDS EngineLifecycle, TLC

Symmetry == Permutations(Runs)

\* Everything but pool, which no guard reads and no checked property is about (beyond its type):
\* two states that differ in it alone behave alike.
SafetyView ==
  <<controlVars, statVars, gcVars, signalVars, clockVars, client, children,
    worker, helperVars, callVars>>
=============================================================================
