---------------------------- MODULE MC_IoctlStack ----------------------------
(***************************************************************************)
(* A small instance of IoctlStack for TLC.                                 *)
(***************************************************************************)
EXTENDS IoctlStack

CONSTANTS k1, k2, k3
=============================================================================
