--------------------------- MODULE MCInferenceIpc ---------------------------
(***************************************************************************)
(* Module InferenceIpc for TLC.                                            *)
(***************************************************************************)
EXTENDS InferenceIpc
=============================================================================
