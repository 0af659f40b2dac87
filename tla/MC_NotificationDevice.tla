------------------------ MODULE MC_NotificationDevice ------------------------
(***************************************************************************)
(* A small instance of NotificationDevice for TLC.                         *)
(***************************************************************************)
EXTENDS NotificationDevice

CONSTANTS k1, k2, h1, m1
=============================================================================
