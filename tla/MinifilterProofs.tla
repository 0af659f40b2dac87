--------------------------- MODULE MinifilterProofs ---------------------------
(***************************************************************************)
(* Theorems about Minifilter for any number of clients: what a driver that *)
(* is gone has left, how the deletion of the port closes it, and who is    *)
(* refused.  They rest on one inductive invariant: Stages says what exists *)
(* at each place of DriverEntry and DriverUnload, the other parts what the *)
(* filter manager's single connection and the port's lock make of the      *)
(* clients.                                                                *)
(***************************************************************************)
EXTENDS Minifilter, TLAPS

\* What there is of filter, pointer, FltPort and server port at each place.
Stages ==
    /\ drv \in {"entry", "register"} => ~registered
    /\ drv = "entry" => ~atexitEntry
    /\ drv \in {"start", "running"} => succeeded
    /\ drv \in {"entry", "register", "port"} => ~pointer /\ object = "absent" /\ succeeded
    /\ drv \in {"start", "running", "destroy", "closeClient", "closeServer", "drain"} =>
         object = "open"
    /\ drv \in {"start", "running", "destroy", "closeClient", "closeServer"} <=> serverOpen
    /\ drv \in {"closeClient", "closeServer", "drain", "uninit", "unregister",
                "failed", "unloaded"} => ~pointer
    /\ drv \in {"uninit", "unregister", "failed", "unloaded"} => object = "absent"
    /\ drv \in {"unregister", "failed", "unloaded"} => ~atexitEntry
    /\ drv \in {"destroy", "closeClient", "closeServer", "drain", "uninit"} /\ ~succeeded =>
         ~registered
    /\ drv \in {"failed", "unloaded", "unfiltered"} => ~registered
    /\ drv \in {"entry", "register", "port", "unfiltered"} =>
         /\ clientPort = NoClient
         /\ connections = {}
         /\ \A c \in Clients : stage[c] = "idle"
    /\ crashed # "double delete"

\* A client is connected only by the client port.
Connected ==
    /\ connections \subseteq {clientPort} \ {NoClient}
    /\ \A c \in Clients : stage[c] = "connected" => c \in connections

\* The destructor holds the lock alone and closes the client port first.
Deleting ==
    /\ drv = "closeServer" => clientPort = NoClient /\ connections = {}
    /\ drv \in {"closeClient", "closeServer"} => \A c \in Clients : stage[c] # "inside"

\* Whoever connects while the server port is open finds everybody else idle
\* or leaving; behind the destructor nobody can be connected before it.
OneComing ==
    \A c, d \in Clients :
      stage[c] = "connecting" =>
        /\ d # c => stage[d] # "connecting"
        /\ d # c /\ serverOpen /\ drv # "closeServer" => stage[d] \in {"idle", "disconnecting"}
        /\ drv \in {"closeServer", "drain"} => clientPort = NoClient

\* Who sends or leaves while the server port is open has the client port.
OnePresent ==
    serverOpen /\ drv # "closeServer" =>
      \A c \in Clients :
        /\ stage[c] \in {"disconnecting", "sending", "inside"} =>
             clientPort = c /\ connections = {c}
        /\ clientPort = c => stage[c] \notin {"idle", "connecting"}

Inv == TypeOK /\ Stages /\ Connected /\ Deleting /\ OneComing /\ OnePresent
-----------------------------------------------------------------------------
\* The first state satisfies the invariant.
LEMMA InitInv == Init => Inv
  BY MinifilterAssumption
  DEF Init, Inv, TypeOK, Stages, Connected, Deleting, OneComing, OnePresent, DriverPcs

\* Each step of DriverEntry and DriverUnload keeps the invariant.
LEMMA DriverKeepsInv ==
  ASSUME Inv, DriverStep \/ BeginUnload
  PROVE  Inv'
  <1> USE MinifilterAssumption
      DEF Inv, vars, driverVars, ownerVars, portVars, clientVars, Go, TypeOK
  <1>1. CASE InitializeLib
    <2>1. TypeOK'
      BY <1>1 DEF InitializeLib, RegisterDestructor, DriverPcs
    <2>2. Stages'
      BY <1>1 DEF InitializeLib, RegisterDestructor, Stages
    <2>3. Connected'
      BY <1>1 DEF InitializeLib, RegisterDestructor, Stages, Connected
    <2>4. Deleting'
      BY <1>1 DEF InitializeLib, RegisterDestructor, Stages, Connected, Deleting
    <2>5. OneComing'
      BY <1>1
      DEF InitializeLib, RegisterDestructor, Stages, Connected, Deleting, OneComing,
          OnePresent
    <2>6. OnePresent'
      BY <1>1
      DEF InitializeLib, RegisterDestructor, Stages, Connected, Deleting, OneComing,
          OnePresent
    <2> QED
      BY <2>1, <2>2, <2>3, <2>4, <2>5, <2>6
  <1>2. CASE RegisterFilter
    <2>1. TypeOK'
      BY <1>2 DEF RegisterFilter, DriverPcs
    <2>2. Stages'
      BY <1>2 DEF RegisterFilter, Stages
    <2>3. Connected'
      BY <1>2 DEF RegisterFilter, Stages, Connected
    <2>4. Deleting'
      BY <1>2 DEF RegisterFilter, Stages, Connected, Deleting
    <2>5. OneComing'
      BY <1>2 DEF RegisterFilter, Stages, Connected, Deleting, OneComing, OnePresent
    <2>6. OnePresent'
      BY <1>2 DEF RegisterFilter, Stages, Connected, Deleting, OneComing, OnePresent
    <2> QED
      BY <2>1, <2>2, <2>3, <2>4, <2>5, <2>6
  <1>3. CASE CreatePort
    <2>1. TypeOK'
      BY <1>3 DEF CreatePort, Update, DriverPcs
    <2>2. Stages'
      BY <1>3 DEF CreatePort, Update, Stages
    <2>3. Connected'
      BY <1>3 DEF CreatePort, Update, Stages, Connected
    <2>4. Deleting'
      BY <1>3 DEF CreatePort, Update, Stages, Connected, Deleting
    <2>5. OneComing'
      BY <1>3
      DEF CreatePort, Update, Stages, Connected, Deleting, OneComing, OnePresent
    <2>6. OnePresent'
      BY <1>3
      DEF CreatePort, Update, Stages, Connected, Deleting, OneComing, OnePresent
    <2> QED
      BY <2>1, <2>2, <2>3, <2>4, <2>5, <2>6
  <1>4. CASE FailToCreatePort
    <2>1. TypeOK'
      BY <1>4 DEF FailToCreatePort, Update, DriverPcs
    <2>2. Stages'
      BY <1>4 DEF FailToCreatePort, Update, Stages
    <2>3. Connected'
      BY <1>4 DEF FailToCreatePort, Update, Stages, Connected
    <2>4. Deleting'
      BY <1>4 DEF FailToCreatePort, Update, Stages, Connected, Deleting
    <2>5. OneComing'
      BY <1>4
      DEF FailToCreatePort, Update, Stages, Connected, Deleting, OneComing, OnePresent
    <2>6. OnePresent'
      BY <1>4
      DEF FailToCreatePort, Update, Stages, Connected, Deleting, OneComing, OnePresent
    <2> QED
      BY <2>1, <2>2, <2>3, <2>4, <2>5, <2>6
  <1>5. CASE StartFiltering
    <2>1. TypeOK'
      BY <1>5 DEF StartFiltering, DriverPcs
    <2>2. Stages'
      BY <1>5 DEF StartFiltering, Stages
    <2>3. Connected'
      BY <1>5 DEF StartFiltering, Stages, Connected
    <2>4. Deleting'
      BY <1>5 DEF StartFiltering, Stages, Connected, Deleting
    <2>5. OneComing'
      BY <1>5 DEF StartFiltering, Stages, Connected, Deleting, OneComing, OnePresent
    <2>6. OnePresent'
      BY <1>5 DEF StartFiltering, Stages, Connected, Deleting, OneComing, OnePresent
    <2> QED
      BY <2>1, <2>2, <2>3, <2>4, <2>5, <2>6
  <1>6. CASE BeginUnload
    <2>1. TypeOK'
      BY <1>6 DEF BeginUnload, DriverPcs
    <2>2. Stages'
      BY <1>6 DEF BeginUnload, Stages
    <2>3. Connected'
      BY <1>6 DEF BeginUnload, Stages, Connected
    <2>4. Deleting'
      BY <1>6 DEF BeginUnload, Stages, Connected, Deleting
    <2>5. OneComing'
      BY <1>6 DEF BeginUnload, Stages, Connected, Deleting, OneComing, OnePresent
    <2>6. OnePresent'
      BY <1>6 DEF BeginUnload, Stages, Connected, Deleting, OneComing, OnePresent
    <2> QED
      BY <2>1, <2>2, <2>3, <2>4, <2>5, <2>6
  <1>7. CASE ResetPort
    <2>1. TypeOK'
      BY <1>7 DEF ResetPort, Update, LockFree, Readers, ExclusivelyHeld, DriverPcs
    <2>2. Stages'
      BY <1>7 DEF ResetPort, Update, LockFree, Readers, ExclusivelyHeld, Stages
    <2>3. Connected'
      BY <1>7
      DEF ResetPort, Update, LockFree, Readers, ExclusivelyHeld, Stages, Connected
    <2>4. Deleting'
      BY <1>7
      DEF ResetPort, Update, LockFree, Readers, ExclusivelyHeld, Stages, Connected,
          Deleting
    <2>5. OneComing'
      BY <1>7
      DEF ResetPort, Update, LockFree, Readers, ExclusivelyHeld, Stages, Connected,
          Deleting, OneComing, OnePresent
    <2>6. OnePresent'
      BY <1>7
      DEF ResetPort, Update, LockFree, Readers, ExclusivelyHeld, Stages, Connected,
          Deleting, OneComing, OnePresent
    <2> QED
      BY <2>1, <2>2, <2>3, <2>4, <2>5, <2>6
  <1>8. CASE DestroyClientPort
    <2>1. TypeOK'
      BY <1>8 DEF DestroyClientPort, CloseClientPort, DropClient, DriverPcs
    <2>2. Stages'
      BY <1>8 DEF DestroyClientPort, CloseClientPort, DropClient, Stages
    <2>3. Connected'
      BY <1>8 DEF DestroyClientPort, CloseClientPort, DropClient, Stages, Connected
    <2>4. Deleting'
      BY <1>8
      DEF DestroyClientPort, CloseClientPort, DropClient, Stages, Connected, Deleting
    <2>5. OneComing'
      BY <1>8, ZenonT(60)
      DEF DestroyClientPort, CloseClientPort, DropClient, Stages, Connected,
          Deleting, OneComing, OnePresent
    <2>6. OnePresent'
      BY <1>8
      DEF DestroyClientPort, CloseClientPort, DropClient, Stages, Connected,
          Deleting, OneComing, OnePresent
    <2> QED
      BY <2>1, <2>2, <2>3, <2>4, <2>5, <2>6
  <1>9. CASE DestroyServerPort
    <2>1. TypeOK'
      BY <1>9 DEF DestroyServerPort, DriverPcs
    <2>2. Stages'
      BY <1>9 DEF DestroyServerPort, Stages
    <2>3. Connected'
      BY <1>9 DEF DestroyServerPort, Stages, Connected
    <2>4. Deleting'
      BY <1>9 DEF DestroyServerPort, Stages, Connected, Deleting
    <2>5. OneComing'
      BY <1>9
      DEF DestroyServerPort, Stages, Connected, Deleting, OneComing, OnePresent
    <2>6. OnePresent'
      BY <1>9
      DEF DestroyServerPort, Stages, Connected, Deleting, OneComing, OnePresent
    <2> QED
      BY <2>1, <2>2, <2>3, <2>4, <2>5, <2>6
  <1>10. CASE FreePort
    <2>1. TypeOK'
      BY <1>10 DEF FreePort, LockFree, Readers, ExclusivelyHeld, DriverPcs
    <2>2. Stages'
      BY <1>10 DEF FreePort, LockFree, Readers, ExclusivelyHeld, Stages
    <2>3. Connected'
      BY <1>10 DEF FreePort, LockFree, Readers, ExclusivelyHeld, Stages, Connected
    <2>4. Deleting'
      BY <1>10
      DEF FreePort, LockFree, Readers, ExclusivelyHeld, Stages, Connected, Deleting
    <2>5. OneComing'
      BY <1>10
      DEF FreePort, LockFree, Readers, ExclusivelyHeld, Stages, Connected, Deleting,
          OneComing, OnePresent
    <2>6. OnePresent'
      BY <1>10
      DEF FreePort, LockFree, Readers, ExclusivelyHeld, Stages, Connected, Deleting,
          OneComing, OnePresent
    <2> QED
      BY <2>1, <2>2, <2>3, <2>4, <2>5, <2>6
  <1>11. CASE Uninitialize
    <2>1. TypeOK'
      BY <1>11 DEF Uninitialize, DriverPcs
    <2>2. Stages'
      BY <1>11 DEF Uninitialize, Stages
    <2>3. Connected'
      BY <1>11 DEF Uninitialize, Stages, Connected
    <2>4. Deleting'
      BY <1>11 DEF Uninitialize, Stages, Connected, Deleting
    <2>5. OneComing'
      BY <1>11 DEF Uninitialize, Stages, Connected, Deleting, OneComing, OnePresent
    <2>6. OnePresent'
      BY <1>11 DEF Uninitialize, Stages, Connected, Deleting, OneComing, OnePresent
    <2> QED
      BY <2>1, <2>2, <2>3, <2>4, <2>5, <2>6
  <1>12. CASE UnregisterFilter
    <2>1. TypeOK'
      BY <1>12 DEF UnregisterFilter, DriverPcs
    <2>2. Stages'
      BY <1>12 DEF UnregisterFilter, Stages
    <2>3. Connected'
      BY <1>12 DEF UnregisterFilter, Stages, Connected
    <2>4. Deleting'
      BY <1>12 DEF UnregisterFilter, Stages, Connected, Deleting
    <2>5. OneComing'
      BY <1>12
      DEF UnregisterFilter, Stages, Connected, Deleting, OneComing, OnePresent
    <2>6. OnePresent'
      BY <1>12
      DEF UnregisterFilter, Stages, Connected, Deleting, OneComing, OnePresent
    <2> QED
      BY <2>1, <2>2, <2>3, <2>4, <2>5, <2>6
  <1> QED
    BY <1>1, <1>2, <1>3, <1>4, <1>5, <1>6, <1>7, <1>8, <1>9, <1>10, <1>11, <1>12
    DEF DriverStep

\* Each step of a client keeps it.
LEMMA ClientKeepsInv ==
  ASSUME Inv, NEW c \in Clients, ClientStep(c)
  PROVE  Inv'
  <1> USE MinifilterAssumption
      DEF Inv, vars, driverVars, ownerVars, portVars, clientVars, Move, Waiting,
          TypeOK
  <1>1. CASE Connect(c)
    <2>1. TypeOK'
      <3>1. stage' \in [Clients -> Waiting \cup {"idle", "connected", "inside"}]
        BY <1>1 DEF Connect
      <3> QED
        BY <1>1, <3>1 DEF Connect
    <2>2. Stages'
      BY <1>1 DEF Connect, Stages
    <2>3. Connected'
      BY <1>1 DEF Connect, Stages, Connected
    <2>4. Deleting'
      BY <1>1 DEF Connect, Stages, Connected, Deleting
    <2>5. OneComing'
      BY <1>1 DEF Connect, Stages, Connected, Deleting, OneComing, OnePresent
    <2>6. OnePresent'
      BY <1>1 DEF Connect, Stages, Connected, Deleting, OneComing, OnePresent
    <2> QED
      BY <2>1, <2>2, <2>3, <2>4, <2>5, <2>6
  <1>2. CASE AcceptClient(c)
    <2>1. TypeOK'
      <3>1. stage' \in [Clients -> Waiting \cup {"idle", "connected", "inside"}]
        BY <1>2 DEF AcceptClient
      <3> QED
        BY <1>2, <3>1 DEF AcceptClient
    <2>2. Stages'
      BY <1>2 DEF AcceptClient, LockFree, Readers, ExclusivelyHeld, Stages
    <2>3. Connected'
      BY <1>2 DEF AcceptClient, LockFree, Readers, ExclusivelyHeld, Stages, Connected
    <2>4. Deleting'
      BY <1>2
      DEF AcceptClient, LockFree, Readers, ExclusivelyHeld, Stages, Connected,
          Deleting
    <2>5. OneComing'
      BY <1>2
      DEF AcceptClient, LockFree, Readers, ExclusivelyHeld, Stages, Connected,
          Deleting, OneComing, OnePresent
    <2>6. OnePresent'
      BY <1>2
      DEF AcceptClient, LockFree, Readers, ExclusivelyHeld, Stages, Connected,
          Deleting, OneComing, OnePresent
    <2> QED
      BY <2>1, <2>2, <2>3, <2>4, <2>5, <2>6
  <1>3. CASE RefuseClient(c)
    <2>1. TypeOK'
      BY <1>3 DEF RefuseClient, LockFree, Readers, ExclusivelyHeld, DriverPcs
    <2>2. Stages'
      BY <1>3 DEF RefuseClient, LockFree, Readers, ExclusivelyHeld, Stages
    <2>3. Connected'
      BY <1>3 DEF RefuseClient, LockFree, Readers, ExclusivelyHeld, Stages, Connected
    <2>4. Deleting'
      BY <1>3
      DEF RefuseClient, LockFree, Readers, ExclusivelyHeld, Stages, Connected,
          Deleting
    <2>5. OneComing'
      BY <1>3
      DEF RefuseClient, LockFree, Readers, ExclusivelyHeld, Stages, Connected,
          Deleting, OneComing, OnePresent
    <2>6. OnePresent'
      BY <1>3
      DEF RefuseClient, LockFree, Readers, ExclusivelyHeld, Stages, Connected,
          Deleting, OneComing, OnePresent
    <2> QED
      BY <2>1, <2>2, <2>3, <2>4, <2>5, <2>6
  <1>4. CASE Send(c)
    <2>1. TypeOK'
      <3>1. stage' \in [Clients -> Waiting \cup {"idle", "connected", "inside"}]
        BY <1>4 DEF Send
      <3> QED
        BY <1>4, <3>1 DEF Send
    <2>2. Stages'
      BY <1>4 DEF Send, Stages
    <2>3. Connected'
      BY <1>4 DEF Send, Stages, Connected
    <2>4. Deleting'
      BY <1>4 DEF Send, Stages, Connected, Deleting
    <2>5. OneComing'
      BY <1>4 DEF Send, Stages, Connected, Deleting, OneComing, OnePresent
    <2>6. OnePresent'
      BY <1>4, ZenonT(60) DEF Send, Stages, Connected, Deleting, OneComing, OnePresent
    <2> QED
      BY <2>1, <2>2, <2>3, <2>4, <2>5, <2>6
  <1>5. CASE MessageNotify(c)
    <2>1. TypeOK'
      <3>1. stage' \in [Clients -> Waiting \cup {"idle", "connected", "inside"}]
        BY <1>5 DEF MessageNotify
      <3> QED
        BY <1>5, <3>1 DEF MessageNotify
    <2>2. Stages'
      BY <1>5 DEF MessageNotify, ExclusivelyHeld, Stages
    <2>3. Connected'
      BY <1>5 DEF MessageNotify, ExclusivelyHeld, Stages, Connected
    <2>4. Deleting'
      BY <1>5 DEF MessageNotify, ExclusivelyHeld, Stages, Connected, Deleting
    <2>5. OneComing'
      BY <1>5, ZenonT(60)
      DEF MessageNotify, ExclusivelyHeld, Stages, Connected, Deleting, OneComing,
          OnePresent
    <2>6. OnePresent'
      <3> SUFFICES ASSUME serverOpen, drv # "closeServer"
                   PROVE  OnePresent'
        BY <1>5 DEF MessageNotify, OnePresent
      <3>1. stage[c] = "sending" /\ connections' = connections /\ clientPort' = clientPort
            /\ (stage' = stage \/ stage' = [stage EXCEPT ![c] = "inside"])
        BY <1>5 DEF MessageNotify
      <3>2. clientPort = c /\ connections = {c}
        BY <3>1 DEF OnePresent
      <3> QED
        BY <3>1, <3>2 DEF OnePresent
    <2> QED
      BY <2>1, <2>2, <2>3, <2>4, <2>5, <2>6
  <1>6. CASE EndMessage(c)
    <2>1. TypeOK'
      <3>1. stage' \in [Clients -> Waiting \cup {"idle", "connected", "inside"}]
        BY <1>6 DEF EndMessage
      <3> QED
        BY <1>6, <3>1 DEF EndMessage
    <2>2. Stages'
      BY <1>6 DEF EndMessage, Stages
    <2>3. Connected'
      BY <1>6 DEF EndMessage, Stages, Connected
    <2>4. Deleting'
      BY <1>6 DEF EndMessage, Stages, Connected, Deleting
    <2>5. OneComing'
      BY <1>6 DEF EndMessage, Stages, Connected, Deleting, OneComing, OnePresent
    <2>6. OnePresent'
      <3> SUFFICES ASSUME serverOpen, drv # "closeServer"
                   PROVE  OnePresent'
        BY <1>6 DEF EndMessage, OnePresent
      <3>1. stage[c] = "inside" /\ connections' = connections /\ clientPort' = clientPort
        BY <1>6 DEF EndMessage
      <3>2. clientPort = c /\ connections = {c}
        BY <3>1 DEF OnePresent
      <3>3. stage' = [stage EXCEPT ![c] = "connected"]
        BY <1>6, <3>2 DEF EndMessage
      <3> QED
        BY <3>1, <3>2, <3>3 DEF OnePresent
    <2> QED
      BY <2>1, <2>2, <2>3, <2>4, <2>5, <2>6
  <1>7. CASE Disconnect(c)
    <2>1. TypeOK'
      <3>1. stage' \in [Clients -> Waiting \cup {"idle", "connected", "inside"}]
        BY <1>7 DEF Disconnect
      <3> QED
        BY <1>7, <3>1 DEF Disconnect
    <2>2. Stages'
      BY <1>7 DEF Disconnect, Stages
    <2>3. Connected'
      BY <1>7 DEF Disconnect, Stages, Connected
    <2>4. Deleting'
      BY <1>7 DEF Disconnect, Stages, Connected, Deleting
    <2>5. OneComing'
      BY <1>7 DEF Disconnect, Stages, Connected, Deleting, OneComing, OnePresent
    <2>6. OnePresent'
      BY <1>7, ZenonT(60) DEF Disconnect, Stages, Connected, Deleting, OneComing, OnePresent
    <2> QED
      BY <2>1, <2>2, <2>3, <2>4, <2>5, <2>6
  <1>8. CASE DisconnectNotify(c)
    <2>1. TypeOK'
      <3>1. DropClient \in [Clients -> Waiting \cup {"idle", "connected", "inside"}]
        BY DEF DropClient
      <3>2. stage' \in [Clients -> Waiting \cup {"idle", "connected", "inside"}]
        BY <1>8, <3>1 DEF DisconnectNotify
      <3> QED
        BY <1>8, <3>2 DEF DisconnectNotify, CloseClientPort
    <2>2. Stages'
      BY <1>8
      DEF DisconnectNotify, CloseClientPort, DropClient, LockFree, Readers,
          ExclusivelyHeld, Stages
    <2>3. Connected'
      BY <1>8
      DEF DisconnectNotify, CloseClientPort, DropClient, LockFree, Readers,
          ExclusivelyHeld, Stages, Connected
    <2>4. Deleting'
      BY <1>8
      DEF DisconnectNotify, CloseClientPort, DropClient, LockFree, Readers,
          ExclusivelyHeld, Stages, Connected, Deleting
    <2>5. OneComing'
      BY <1>8, ZenonT(60)
      DEF DisconnectNotify, CloseClientPort, DropClient, LockFree, Readers,
          ExclusivelyHeld, Stages, Connected, Deleting, OneComing, OnePresent
    <2>6. OnePresent'
      <3> SUFFICES ASSUME serverOpen, drv # "closeServer"
                   PROVE  OnePresent'
        BY <1>8 DEF DisconnectNotify, OnePresent
      <3>1. stage[c] = "disconnecting" /\ connections' = connections \ {clientPort}
            /\ clientPort' = NoClient
        BY <1>8 DEF DisconnectNotify, CloseClientPort
      <3>2. clientPort = c /\ connections = {c}
        BY <3>1 DEF OnePresent
      <3>3. stage' = [stage EXCEPT ![c] = "idle"]
        BY <1>8, <3>1, <3>2 DEF DisconnectNotify, DropClient
      <3> QED
        BY <3>1, <3>2, <3>3 DEF OnePresent
    <2> QED
      BY <2>1, <2>2, <2>3, <2>4, <2>5, <2>6
  <1>9. CASE TouchDeleted(c)
    <2>1. TypeOK'
      <3>1. stage' \in [Clients -> Waiting \cup {"idle", "connected", "inside"}]
        BY <1>9 DEF TouchDeleted
      <3> QED
        BY <1>9, <3>1 DEF TouchDeleted
    <2>2. Stages'
      BY <1>9 DEF TouchDeleted, Stages
    <2>3. Connected'
      BY <1>9 DEF TouchDeleted, Stages, Connected
    <2>4. Deleting'
      BY <1>9 DEF TouchDeleted, Stages, Connected, Deleting
    <2>5. OneComing'
      BY <1>9, ZenonT(60)
      DEF TouchDeleted, Stages, Connected, Deleting, OneComing, OnePresent
    <2>6. OnePresent'
      BY <1>9 DEF TouchDeleted, Stages, Connected, Deleting, OneComing, OnePresent
    <2> QED
      BY <2>1, <2>2, <2>3, <2>4, <2>5, <2>6
  <1> QED
    BY <1>1, <1>2, <1>3, <1>4, <1>5, <1>6, <1>7, <1>8, <1>9 DEF ClientStep, Callback

\* Every step keeps it.
LEMMA StepInv == Inv /\ [Next]_vars => Inv'
  <1> SUFFICES ASSUME Inv, [Next]_vars
               PROVE  Inv'
    OBVIOUS
  <1>1. CASE UNCHANGED vars
    <2> USE <1>1 DEF Inv, vars, driverVars, ownerVars, portVars, clientVars
    <2>1. TypeOK'
      BY DEF TypeOK
    <2>2. Stages'
      BY DEF Stages
    <2>3. Connected'
      BY DEF Connected
    <2>4. Deleting'
      BY DEF Deleting
    <2>5. OneComing'
      BY DEF OneComing
    <2>6. OnePresent'
      BY DEF OnePresent
    <2> QED
      BY <2>1, <2>2, <2>3, <2>4, <2>5, <2>6
  <1>2. CASE DriverStep \/ BeginUnload
    BY <1>2, DriverKeepsInv
  <1>3. CASE \E c \in Clients : ClientStep(c)
    BY <1>3, ClientKeepsInv
  <1> QED
    BY <1>1, <1>2, <1>3 DEF Next, Terminated

\* Inv is an invariant of the minifilter.
THEOREM Invariance == Spec => []Inv
  BY InitInv, StepInv, PTL DEF Spec
-----------------------------------------------------------------------------
(***************************************************************************)
(* The variables keep their types.                                         *)
(***************************************************************************)
THEOREM TypeCorrect == Spec => []TypeOK
  <1>1. Inv => TypeOK
    BY DEF Inv
  <1> QED
    BY <1>1, Invariance, PTL

(***************************************************************************)
(* A driver that is unloaded, that failed or that runs without a filter    *)
(* has left nothing behind, and gDrvData's destructor deletes nothing that *)
(* GdrvUninitGlobalData has deleted, however many clients there are.       *)
(***************************************************************************)
THEOREM NothingLeftEver == Spec => []NothingLeft
  <1>1. Inv => NothingLeft
    BY DEF Inv, Stages, NothingLeft, InCallback, Waiting
  <1> QED
    BY <1>1, Invariance, PTL

(***************************************************************************)
(* ~FltPort closes the server port with no client connected, and whoever   *)
(* enters a callback afterwards got in behind it: the order of its two     *)
(* calls leaves open only what the lock was already waited for.            *)
(***************************************************************************)
THEOREM ClosedAlways == Spec => ClosedToNewCallbacks
  <1> DEFINE Step ==
        /\ serverOpen /\ ~serverOpen' => connections' = {}
        /\ \A c \in Clients :
             ~serverOpen /\ c \notin InCallback /\ c \in InCallback' => c \in connections
  <1>1. Inv /\ [Next]_vars => Step \/ UNCHANGED vars
    <2> SUFFICES ASSUME Inv, Next
                 PROVE  Step \/ UNCHANGED vars
      OBVIOUS
    <2> USE DEF vars, driverVars, ownerVars, portVars, clientVars, InCallback, Waiting
    <2>1. ASSUME DriverStep \/ BeginUnload
          PROVE  Step
      <3>1. serverOpen /\ ~serverOpen' => DestroyServerPort
        BY <2>1
        DEF DriverStep, BeginUnload, InitializeLib, RegisterDestructor,
            RegisterFilter, CreatePort,
            FailToCreatePort, StartFiltering, ResetPort, DestroyClientPort, FreePort,
            Uninitialize, UnregisterFilter
      <3>2. DestroyServerPort => connections' = {}
        BY DEF Inv, Deleting, DestroyServerPort, Go
      <3>3. InCallback' \subseteq InCallback
        BY <2>1
        DEF DriverStep, BeginUnload, InitializeLib, RegisterDestructor,
            RegisterFilter, CreatePort,
            FailToCreatePort, StartFiltering, ResetPort, DestroyClientPort,
            DropClient,
            DestroyServerPort, FreePort, Uninitialize, UnregisterFilter, Inv, TypeOK
      <3> QED
        BY <3>1, <3>2, <3>3
    <2>2. ASSUME NEW c \in Clients, ClientStep(c)
          PROVE  Step
      <3>1. serverOpen' = serverOpen
        BY <2>2
        DEF ClientStep, Callback, Connect, AcceptClient, RefuseClient, Send,
            MessageNotify,
            EndMessage, Disconnect, DisconnectNotify, TouchDeleted
      <3>2. \A d \in Clients : d \notin InCallback /\ d \in InCallback' =>
               d = c /\ (serverOpen \/ stage[c] = "connected")
        BY <2>2
        DEF ClientStep, Callback, Connect, AcceptClient, RefuseClient, Send,
            MessageNotify,
            EndMessage, Disconnect, DisconnectNotify, DropClient, TouchDeleted, Move,
            Inv, TypeOK
      <3> QED
        BY <3>1, <3>2 DEF Inv, Connected
    <2> QED
      BY <2>1, <2>2 DEF Next, Terminated
  <1>2. Spec => [][Step]_vars
    BY <1>1, Invariance, PTL DEF Spec
  <1> QED
    BY <1>2 DEF ClosedToNewCallbacks

(***************************************************************************)
(* A disconnect callback closes the connection of the client that leaves,  *)
(* although its cookie does not name it, and only a client that overtakes  *)
(* such a callback is refused.                                             *)
(***************************************************************************)
THEOREM OneClientAlways == Spec => OneClientAtATime
  <1> DEFINE Step ==
        \A c \in Clients :
          /\ serverOpen /\ stage[c] = "disconnecting" /\ stage'[c] = "idle"
               => connections \ connections' = {c}
          /\ RefuseClient(c) => stage[clientPort] = "disconnecting"
  <1>1. Inv /\ [Next]_vars => Step \/ UNCHANGED vars
    <2> SUFFICES ASSUME Inv, Next, NEW c \in Clients
                 PROVE  \/ /\ serverOpen /\ stage[c] = "disconnecting" /\ stage'[c] = "idle"
                               => connections \ connections' = {c}
                           /\ RefuseClient(c) => stage[clientPort] = "disconnecting"
                        \/ UNCHANGED vars
      OBVIOUS
    <2> USE DEF vars, driverVars, ownerVars, portVars, clientVars
    <2>1. ASSUME serverOpen, stage[c] = "disconnecting", stage'[c] = "idle"
          PROVE  connections \ connections' = {c}
      <3>1. stage # stage'
        BY <2>1
      <3>2. DisconnectNotify(c)
        <4>1. CASE DriverStep \/ BeginUnload
          BY <4>1, <2>1
          DEF DriverStep, BeginUnload, InitializeLib, RegisterDestructor,
              RegisterFilter, CreatePort,
              FailToCreatePort, StartFiltering, ResetPort, DestroyClientPort,
              DropClient,
              DestroyServerPort, FreePort, Uninitialize, UnregisterFilter, Inv, TypeOK
        <4>2. ASSUME NEW d \in Clients, ClientStep(d)
              PROVE  DisconnectNotify(c)
          <5>1. \/ d = c /\ DisconnectNotify(c)
                \/ object = "absent"
            BY <4>2, <2>1
            DEF ClientStep, Callback, Connect, AcceptClient, RefuseClient, Send,
                MessageNotify, EndMessage, Disconnect, DisconnectNotify, DropClient,
                TouchDeleted, Move, Inv, TypeOK
          <5> QED
            BY <5>1, <2>1 DEF Inv, TypeOK, Stages
        <4> QED
          BY <4>1, <4>2, <3>1 DEF Next, Terminated
      <3>3. drv # "closeServer" /\ connections' = connections \ {clientPort}
        BY <3>2 DEF DisconnectNotify, LockFree, ExclusivelyHeld, CloseClientPort
      <3> QED
        BY <2>1, <3>3 DEF Inv, OnePresent
    <2>2. ASSUME RefuseClient(c)
          PROVE  stage[clientPort] = "disconnecting"
      <3>1. /\ stage[c] = "connecting" /\ clientPort # NoClient /\ object = "open"
            /\ drv \notin {"closeClient", "closeServer"}
        BY <2>2 DEF RefuseClient, Move, LockFree, ExclusivelyHeld
      <3>2. clientPort \in Clients
        BY <3>1 DEF Inv, TypeOK
      <3>3. drv # "drain"
        BY <3>1 DEF Inv, OneComing
      <3>4. serverOpen
        BY <3>1, <3>3 DEF Inv, TypeOK, DriverPcs, Stages
      <3>5. clientPort # c /\ stage[clientPort] # "idle"
        BY <3>1, <3>2, <3>4 DEF Inv, OnePresent
      <3> QED
        BY <3>1, <3>2, <3>4, <3>5 DEF Inv, OneComing
    <2> QED
      BY <2>1, <2>2
  <1>2. Spec => [][Step]_vars
    BY <1>1, Invariance, PTL DEF Spec
  <1> QED
    BY <1>2 DEF OneClientAtATime
=============================================================================
