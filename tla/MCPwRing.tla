------------------------------ MODULE MCPwRing ------------------------------
(***************************************************************************)
(* Module PwRing for TLC.                                                  *)
(***************************************************************************)
EXTENDS PwRing
=============================================================================
