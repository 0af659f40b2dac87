---------------------------- MODULE MC_LinkedList ----------------------------
(***************************************************************************)
(* The entries of a small instance of LinkedList for TLC.                  *)
(***************************************************************************)
EXTENDS LinkedList

CONSTANTS e1, e2, e3
=============================================================================
