---------------------------- MODULE MC_Minifilter ----------------------------
(***************************************************************************)
(* A small instance of Minifilter for TLC.                                 *)
(***************************************************************************)
EXTENDS Minifilter

CONSTANTS c1, c2, c3
=============================================================================
