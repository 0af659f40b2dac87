---------------------------- MODULE MC_ConsoleApp ----------------------------
(***************************************************************************)
(* Small instances of ConsoleApp for TLC: the bounds are in the .cfg.      *)
(***************************************************************************)
EXTENDS ConsoleApp
=============================================================================
