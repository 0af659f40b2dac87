---------------------------- MODULE MC_StackTrace ----------------------------
(***************************************************************************)
(* A small instance of StackTrace for TLC: one address on either side of   *)
(* ntoskrnl, its base, and two addresses inside.                           *)
(***************************************************************************)
EXTENDS StackTrace

MCAddresses == 1..4
=============================================================================
