--------------------------- MODULE MCConfigStore ---------------------------
(***************************************************************************)
(* Instances of ConfigStore for TLC: any two commands beside the TUI.      *)
(***************************************************************************)
EXTENDS ConfigStore, TLC

CONSTANTS c1, c2, solo, duo, rock

AllCommands ==
  {<<"save", solo>>, <<"use", solo>>, <<"delete", solo>>, <<"import", duo>>, <<"voice", rock>>}
Interchangeable == Permutations({c1, c2})
=============================================================================
