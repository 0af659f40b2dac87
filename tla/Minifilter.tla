------------------------------ MODULE Minifilter ------------------------------
(***************************************************************************)
(* The minifilter of Procmon: DriverEntry and DriverUnload, the            *)
(* communication port they create and delete (class FltPort, owned by the  *)
(* UniquePointer gDrvData.CommunicationPort) and the static destructor     *)
(* that the runtime support of CppLib registers and runs.                  *)
(*                                                                         *)
(* The port's callbacks run in the clients' threads, from the moment the   *)
(* server port exists, and meet the destructor in FltPort's push lock.     *)
(* Connecting and disconnecting are one step under the exclusive lock, a   *)
(* message holds the shared lock from one step to another, the destructor  *)
(* the exclusive lock over several; so who holds the lock can be told from *)
(* where the clients and the driver are.                                   *)
(*                                                                         *)
(* Of the filter manager the model assumes that a connection is counted    *)
(* until its disconnect callback begins, that a client whose port is       *)
(* closed gets no new callback, and that closing a port does not wait for  *)
(* a callback already entered.  What comes of a connection accepted after  *)
(* the server port was closed is left open.                                *)
(***************************************************************************)
EXTENDS Naturals, FiniteSets

CONSTANTS
    Clients,          \* client threads, one connection each at a time
    NoClient,         \* the null client port
    Callbacks         \* the message callbacks FltPort may be given

ASSUME MinifilterAssumption == NoClient \notin Clients

NullCallback == "nullptr"

VARIABLES
    drv,              \* where DriverEntry or DriverUnload is
    succeeded,        \* the status DriverEntry ends with
    registered,       \* is the filter registered?
    atexitEntry,      \* is the destructor of gDrvData in gDestructorsList?
    pointer,          \* does gDrvData.CommunicationPort point to an FltPort?
    object,           \* that FltPort: "absent", "invalid" or "open"
    serverOpen,       \* FltPort's server port, as the filter manager sees it
    clientPort,       \* FltPort::clientPort
    onMessage,        \* FltPort::onMessageCallback
    stage,            \* where each client is
    connections,      \* the clients whose client port nobody has closed
    crashed           \* "no", or what brought the system down

driverVars == <<drv, succeeded, registered, atexitEntry>>
ownerVars == <<pointer, object>>
portVars == <<serverOpen, clientPort, connections>>
clientVars == <<stage, onMessage, crashed>>
vars == <<driverVars, ownerVars, portVars, clientVars>>

DriverPcs == {"entry", "register", "port", "start", "running", "destroy",
              "closeClient", "closeServer", "drain", "uninit", "unregister",
              "unfiltered", "failed", "unloaded"}

\* The callback a client is in, waiting for the lock, or "inside" a message.
Waiting == {"connecting", "sending", "disconnecting"}

InCallback == {c \in Clients : stage[c] \in Waiting \cup {"inside"}}

Readers == {c \in Clients : stage[c] = "inside"}
ExclusivelyHeld == drv \in {"closeClient", "closeServer"}
LockFree == ~ExclusivelyHeld /\ Readers = {}

Init ==
    /\ drv = "entry"
    /\ succeeded = TRUE
    /\ registered = FALSE
    /\ atexitEntry = FALSE
    /\ pointer = FALSE
    /\ object = "absent"
    /\ serverOpen = FALSE
    /\ clientPort = NoClient
    /\ onMessage \in Callbacks
    /\ stage = [c \in Clients |-> "idle"]
    /\ connections = {}
    /\ crashed = "no"

\* The driver's thread, and client c, go from one place to another.
Go(from, to) == drv = from /\ drv' = to
Move(c, from, to) == stage[c] = from /\ stage' = [stage EXCEPT ![c] = to]

\* UniquePointer::Update: the pointer has its new value before what it
\* pointed to is deleted.
Update(valid) == pointer' = valid

\* FltPort::CloseClientPort.
CloseClientPort ==
    /\ connections' = connections \ {clientPort}
    /\ clientPort' = NoClient

\* Its client stays in the callback it is in; otherwise it is on its own.
DropClient ==
    IF clientPort \in Clients /\ stage[clientPort] = "connected"
    THEN [stage EXCEPT ![clientPort] = "idle"]
    ELSE stage
-----------------------------------------------------------------------------
(* Slips a rewrite of this code could make; see the note in ThreadPool.    *)

\* The constructor does not call Validate.
CreateUnvalidated ==
    /\ Go("port", "start")
    /\ Update(TRUE)
    /\ object' = "unvalidated"
    /\ serverOpen' = TRUE
    /\ UNCHANGED <<succeeded, registered, atexitEntry, clientPort, connections, clientVars>>

\* Reset deletes the FltPort and keeps the pointer.
ResetKeepingPointer ==
    /\ Go("destroy", "closeClient")
    /\ LockFree
    /\ UNCHANGED <<succeeded, registered, atexitEntry, ownerVars, portVars, clientVars>>

\* The destructor leaves the client its port.
SkipClientPort ==
    /\ Go("closeClient", "closeServer")
    /\ UNCHANGED <<succeeded, registered, atexitEntry, ownerVars, portVars, clientVars>>

\* ConnectNotifyCallback does not look for a connected client.
ConnectOver(c) ==
    /\ Move(c, "connecting", "connected")
    /\ object = "open"
    /\ LockFree
    /\ clientPort' = c
    /\ connections' = connections \cup {c}
    /\ UNCHANGED <<driverVars, ownerVars, serverOpen, onMessage, crashed>>

\* A message callback returns without releasing the shared lock.
KeepSharedLock(c) ==
    /\ stage[c] = "inside"
    /\ UNCHANGED vars
-----------------------------------------------------------------------------
(* DriverEntry.                                                            *)

\* atexit, CppRegisterDestructor: there may be no memory for the entry.
RegisterDestructor == atexitEntry' \in BOOLEAN

\* CppInitializeLib constructs gDrvData.
InitializeLib ==
    /\ Go("entry", "register")
    /\ RegisterDestructor
    /\ UNCHANGED <<succeeded, registered, ownerVars, portVars, clientVars>>

RegisterFilter ==
    /\ registered' \in BOOLEAN
    /\ succeeded' = registered'
    /\ Go("register", IF registered' THEN "port" ELSE "uninit")
    /\ UNCHANGED <<atexitEntry, ownerVars, portVars, clientVars>>

CreatePort ==
    /\ Go("port", "start")
    /\ Update(TRUE)
    /\ object' = "open"
    /\ serverOpen' = TRUE
    /\ UNCHANGED <<succeeded, registered, atexitEntry, clientPort, connections, clientVars>>

\* The filter goes, but status still is what FltRegisterFilter returned.
FailToCreatePort ==
    /\ Go("port", "unfiltered")
    /\ object' \in {"absent", "invalid"}
    /\ Update(object' = "invalid")
    /\ registered' = FALSE
    /\ UNCHANGED <<succeeded, atexitEntry, portVars, clientVars>>

StartFiltering ==
    /\ registered' \in BOOLEAN
    /\ succeeded' = registered'
    /\ Go("start", IF registered' THEN "running" ELSE "destroy")
    /\ UNCHANGED <<atexitEntry, ownerVars, portVars, clientVars>>
-----------------------------------------------------------------------------
(* DriverUnload, and what it shares with a DriverEntry that fails.         *)

BeginUnload ==
    /\ Go("running", "destroy")
    /\ UNCHANGED <<succeeded, registered, atexitEntry, ownerVars, portVars, clientVars>>

\* GdrvUninitGlobalData resets the pointer; ~FltPort begins.
ResetPort ==
    /\ Go("destroy", "closeClient")
    /\ LockFree
    /\ Update(FALSE)
    /\ UNCHANGED <<succeeded, registered, atexitEntry, object, portVars, clientVars>>

DestroyClientPort ==
    /\ Go("closeClient", "closeServer")
    /\ CloseClientPort
    /\ stage' = DropClient
    /\ UNCHANGED <<succeeded, registered, atexitEntry, ownerVars, serverOpen,
                   onMessage, crashed>>

\* The lock guard of ~FltPort ends with its body.
DestroyServerPort ==
    /\ Go("closeServer", "drain")
    /\ serverOpen' = FALSE
    /\ UNCHANGED <<succeeded, registered, atexitEntry, ownerVars, clientPort,
                   connections, clientVars>>

\* ~Pushlock acquires and releases the lock once more; then the memory goes.
FreePort ==
    /\ Go("drain", "uninit")
    /\ LockFree
    /\ object' = "absent"
    /\ UNCHANGED <<succeeded, registered, atexitEntry, pointer, portVars, clientVars>>

\* CppUninitializeLib: the destructor of gDrvData deletes what pointer owns.
Uninitialize ==
    /\ Go("uninit", IF succeeded THEN "unregister" ELSE "failed")
    /\ atexitEntry' = FALSE
    /\ crashed' = IF atexitEntry /\ pointer THEN "double delete" ELSE crashed
    /\ UNCHANGED <<succeeded, registered, ownerVars, portVars, stage, onMessage>>

UnregisterFilter ==
    /\ Go("unregister", "unloaded")
    /\ registered' = FALSE
    /\ UNCHANGED <<succeeded, atexitEntry, ownerVars, portVars, clientVars>>
-----------------------------------------------------------------------------
(* FltPort's callbacks, in the threads of the clients.                     *)

\* MaxConnections is 1.
Connect(c) ==
    /\ serverOpen
    /\ \A d \in Clients : stage[d] \in {"idle", "disconnecting"}
    /\ Move(c, "idle", "connecting")
    /\ UNCHANGED <<driverVars, ownerVars, portVars, onMessage, crashed>>

AcceptClient(c) ==
    /\ \/ Move(c, "connecting", "connected")
       \/ ~serverOpen /\ Move(c, "connecting", "idle")
    /\ object = "open"
    /\ LockFree
    /\ clientPort = NoClient
    /\ clientPort' = c
    /\ connections' = connections \cup {c}
    /\ UNCHANGED <<driverVars, ownerVars, serverOpen, onMessage, crashed>>

RefuseClient(c) ==
    /\ Move(c, "connecting", "idle")
    /\ object = "open"
    /\ LockFree
    /\ clientPort # NoClient
    /\ UNCHANGED <<driverVars, ownerVars, portVars, onMessage, crashed>>

Send(c) ==
    /\ Move(c, "connected", "sending")
    /\ UNCHANGED <<driverVars, ownerVars, portVars, onMessage, crashed>>

\* The callback is called without a look at the pointer.
MessageNotify(c) ==
    /\ stage[c] = "sending"
    /\ object = "open"
    /\ ~ExclusivelyHeld
    /\ IF onMessage = NullCallback
       THEN crashed' = "null callback" /\ UNCHANGED stage
       ELSE Move(c, "sending", "inside") /\ UNCHANGED crashed
    /\ UNCHANGED <<driverVars, ownerVars, portVars, onMessage>>

EndMessage(c) ==
    /\ Move(c, "inside", IF c \in connections THEN "connected" ELSE "idle")
    /\ UNCHANGED <<driverVars, ownerVars, portVars, onMessage, crashed>>

Disconnect(c) ==
    /\ Move(c, "connected", "disconnecting")
    /\ UNCHANGED <<driverVars, ownerVars, portVars, onMessage, crashed>>

DisconnectNotify(c) ==
    /\ stage[c] = "disconnecting"
    /\ object = "open"
    /\ LockFree
    /\ CloseClientPort
    /\ stage' = [DropClient EXCEPT ![c] = "idle"]
    /\ UNCHANGED <<driverVars, ownerVars, serverOpen, onMessage, crashed>>

\* A callback that is still waiting for the lock when the FltPort is freed.
TouchDeleted(c) ==
    /\ stage[c] \in Waiting
    /\ object = "absent"
    /\ \/ crashed' = "deleted port" /\ UNCHANGED stage
       \/ Move(c, stage[c], "idle") /\ UNCHANGED crashed
    /\ UNCHANGED <<driverVars, ownerVars, portVars, onMessage>>
-----------------------------------------------------------------------------
DriverStep ==
    \/ InitializeLib
    \/ RegisterFilter
    \/ CreatePort
    \/ FailToCreatePort
    \/ StartFiltering
    \/ ResetPort
    \/ DestroyClientPort
    \/ DestroyServerPort
    \/ FreePort
    \/ Uninitialize
    \/ UnregisterFilter

Callback(c) ==
    \/ AcceptClient(c)
    \/ RefuseClient(c)
    \/ MessageNotify(c)
    \/ EndMessage(c)
    \/ DisconnectNotify(c)
    \/ TouchDeleted(c)

ClientStep(c) ==
    \/ Connect(c)
    \/ Send(c)
    \/ Disconnect(c)
    \/ Callback(c)

Terminated ==
    /\ drv \in {"unfiltered", "failed", "unloaded"} \/ crashed # "no"
    /\ UNCHANGED vars

Running == crashed = "no"

Next ==
    \/ Running /\ (DriverStep \/ BeginUnload \/ \E c \in Clients : ClientStep(c))
    \/ Terminated

Spec == Init /\ [][Next]_vars

\* The entry and unload threads go on, and so do callbacks once entered; a
\* push lock lets no reader pass an exclusive waiter for ever.
FairSpec ==
    /\ Spec
    /\ WF_vars(Running /\ DriverStep)
    /\ SF_vars(Running /\ (ResetPort \/ FreePort))
    /\ \A c \in Clients : WF_vars(Running /\ Callback(c))
-----------------------------------------------------------------------------
TypeOK ==
    /\ drv \in DriverPcs
    /\ succeeded \in BOOLEAN
    /\ registered \in BOOLEAN
    /\ atexitEntry \in BOOLEAN
    /\ pointer \in BOOLEAN
    /\ object \in {"absent", "invalid", "open"}
    /\ serverOpen \in BOOLEAN
    /\ clientPort \in Clients \cup {NoClient}
    /\ onMessage \in Callbacks
    /\ stage \in [Clients -> Waiting \cup {"idle", "connected", "inside"}]
    /\ connections \subseteq Clients
    /\ crashed \in {"no", "null callback", "deleted port", "double delete"}

(***************************************************************************)
(* While the server port is open a disconnect callback closes the port of  *)
(* the client that disconnects, although its cookie only says which        *)
(* FltPort, it may be late, and the next client may have come to the       *)
(* connect callback before it.  That one is refused, and nobody is at any  *)
(* other time.                                                             *)
(***************************************************************************)
OneClientAtATime ==
    [][\A c \in Clients :
         /\ serverOpen /\ stage[c] = "disconnecting" /\ stage'[c] = "idle"
              => connections \ connections' = {c}
         /\ RefuseClient(c) => stage[clientPort] = "disconnecting"]_vars

(***************************************************************************)
(* When ~FltPort closes the server port no client is connected, and from   *)
(* then on a callback begins only for a client whose connect callback was  *)
(* already waiting for the lock: whoever touches the FltPort after it was  *)
(* freed waited for its lock in the destructor, or got in behind it.       *)
(***************************************************************************)
ClosedToNewCallbacks ==
    [][/\ serverOpen /\ ~serverOpen' => connections' = {}
       /\ \A c \in Clients :
            ~serverOpen /\ c \notin InCallback /\ c \in InCallback'
              => c \in connections]_vars

(***************************************************************************)
(* A driver that was unloaded, or whose DriverEntry returned an error, has *)
(* left no filter, no port, no FltPort and no entry in gDestructorsList,   *)
(* and nothing was deleted twice, by the reset of the global data and by   *)
(* their static destructor.  A driver that stays loaded without a filter,  *)
(* since its port could not be created, has no port a client could reach.  *)
(***************************************************************************)
NothingLeft ==
    /\ drv \in {"failed", "unloaded"} =>
         ~registered /\ ~atexitEntry /\ ~serverOpen /\ object = "absent"
    /\ drv = "unfiltered" => ~registered /\ ~serverOpen /\ InCallback = {}
    /\ crashed # "double delete"

(***************************************************************************)
(* The deletion of the port waits twice for its lock, against callbacks of *)
(* any number of clients, and comes to an end unless the system has been   *)
(* brought down.                                                           *)
(***************************************************************************)
DeletionEnds ==
    drv = "destroy" ~> drv \in {"failed", "unloaded"} \/ crashed # "no"

(***************************************************************************)
(* FltPort is given a message callback: the parameter OnMessageCallback is *)
(* annotated _In_, not _In_opt_, and called without a test.                *)
(***************************************************************************)
MessagesHaveCallback == crashed # "null callback"
=============================================================================
