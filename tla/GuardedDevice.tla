---------------------------- MODULE GuardedDevice ----------------------------
(***************************************************************************)
(* What a remove lock is there to promise: requests enter while the device *)
(* is open only, and it is deleted when the last one has left.  The        *)
(* control devices of NotificationDevice and IoctlStack implement it.      *)
(***************************************************************************)
CONSTANT Requests

VARIABLES
    state,        \* "absent", "open" or "closing"
    inside        \* the requests that may touch the device

gdVars == <<state, inside>>

GDInit == state = "absent" /\ inside = {}

Enter(r) == state = "open" /\ inside' = inside \cup {r} /\ UNCHANGED state

Leave(r) == r \in inside /\ inside' = inside \ {r} /\ UNCHANGED state

Create == state = "absent" /\ state' = "open" /\ UNCHANGED inside

Close == state = "open" /\ state' = "closing" /\ UNCHANGED inside

Delete == state = "closing" /\ inside = {} /\ state' = "absent" /\ UNCHANGED inside

GDNext == Create \/ Close \/ Delete \/ \E r \in Requests : Enter(r) \/ Leave(r)

GDSpec == GDInit /\ [][GDNext]_gdVars
=============================================================================
