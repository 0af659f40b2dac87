------------------------------ MODULE IoctlStack ------------------------------
(***************************************************************************)
(* The two control drivers: IOCTLFirstDriver passes the requests of its    *)
(* clients down to IOCTLSecondDriver and hears of them again in a          *)
(* completion routine; both guard their device with a remove lock; either  *)
(* can be started and stopped again and again while requests are about.    *)
(*                                                                         *)
(* The First driver opens the Second's device when it starts and closes it *)
(* when it stops.  Those two requests, OpenSecond and CloseSecond, are     *)
(* handled by the Second driver like all others.                           *)
(*                                                                         *)
(* From the I/O manager the model assumes: a device is opened when its     *)
(* driver runs, requests come on an open file only, a file lives until its *)
(* requests are completed, a completion routine is called before its       *)
(* request counts as completed, and DriverUnload is called when the device *)
(* has no file.  What a handler does after it completed a request is       *)
(* covered by none of these.                                               *)
(***************************************************************************)
EXTENDS Naturals, FiniteSets

CONSTANTS
    Controls,                    \* device control requests of the client
    CreateIrp, CloseIrp,         \* create and close of the client's file
    OpenSecond, CloseSecond      \* create and close of the First's own file

ClientIrps == Controls \cup {CreateIrp, CloseIrp}
Irps == ClientIrps \cup {OpenSecond, CloseSecond}

ASSUME StackAssumption ==
    /\ {CreateIrp, CloseIrp, OpenSecond, CloseSecond} \cap Controls = {}
    /\ IsFiniteSet(Controls)
    /\ CreateIrp \notin {CloseIrp, OpenSecond, CloseSecond}
    /\ CloseIrp \notin {OpenSecond, CloseSecond}
    /\ OpenSecond # CloseSecond

VARIABLES
    fpc,             \* where the First's DriverEntry and DriverUnload are
    fDevice,         \* its gDeviceObject, with the remove lock
    fLink,           \* its symbolic link
    fFile,           \* its gFileObjectSecondDriver
    fCount,          \* its remove lock: count,
    fRemoved,        \*   and has the last owner begun to wait?
    spc,             \* where the Second's DriverEntry and DriverUnload are
    sDevice,         \* its gDeviceObject, with the remove lock
    sCount,          \* its remove lock, likewise
    sRemoved,
    ipc,             \* where each request is
    completed        \* the requests that are completed

fLock == <<fCount, fRemoved>>
sLock == <<sCount, sRemoved>>
firstVars == <<fpc, fDevice, fLink, fFile, fLock>>
secondVars == <<spc, sDevice, sLock>>
irpVars == <<ipc, completed>>
vars == <<firstVars, secondVars, irpVars>>

FLock == INSTANCE RemoveLock WITH count <- fCount, removed <- fRemoved
SLock == INSTANCE RemoveLock WITH count <- sCount, removed <- sRemoved

FirstPcs == {"stopped", "create", "open", "opening", "link", "loaded", "failed",
             "acquire", "remove", "wait", "delete", "dereference", "closing"}
SecondPcs == {"stopped", "loaded", "acquire", "remove", "wait", "delete"}
IrpPcs == {"idle", "acquire1", "switch1", "complete1", "release1", "pass",
           "acquire2", "switch2", "complete2", "routine", "release2", "returned"}

Init ==
    /\ fpc = "stopped"
    /\ fDevice = FALSE
    /\ fLink = FALSE
    /\ fFile = FALSE
    /\ fCount = 0
    /\ fRemoved = FALSE
    /\ spc = "stopped"
    /\ sDevice = FALSE
    /\ sCount = 0
    /\ sRemoved = FALSE
    /\ ipc = [i \in Irps |-> "idle"]
    /\ completed = {}

\* A driver's thread, or request i, goes from one place to another.
GoFirst(from, to) == fpc = from /\ fpc' = to
GoSecond(from, to) == spc = from /\ spc' = to
Move(i, from, to) == ipc[i] = from /\ ipc' = [ipc EXCEPT ![i] = to]
-----------------------------------------------------------------------------
(* Slips a rewrite of this code could make; see the note in ThreadPool.    *)

\* The completion routine leaves the lock to the handler, which is done.
KeepLock(i) ==
    /\ Move(i, "routine", "release2")
    /\ completed' = completed \cup {i}
    /\ UNCHANGED <<firstVars, secondVars>>

\* The handler releases the lock itself when it has passed the request on.
PassAndRelease(i) ==
    /\ Move(i, "pass", "acquire2")
    /\ FLock!Release
    /\ UNCHANGED <<fpc, fDevice, fLink, fFile, secondVars, completed>>

\* The clean-up of a failed start forgets the file object.
ForgetFile ==
    /\ GoFirst("failed", "stopped")
    /\ fDevice' = FALSE
    /\ UNCHANGED <<fLink, fFile, fLock, secondVars, irpVars>>

\* The Second driver does not wait for its handlers.
DeleteSecondAtOnce ==
    /\ GoSecond("wait", "delete")
    /\ UNCHANGED <<firstVars, sDevice, sLock, irpVars>>

\* The Second driver's unloading does not acquire its lock first.
RemoveSecondUnacquired ==
    /\ GoSecond("acquire", "remove")
    /\ UNCHANGED <<firstVars, sDevice, sLock, irpVars>>
-----------------------------------------------------------------------------
(* The First driver starts.                                                *)

StartFirst ==
    /\ GoFirst("stopped", "create")
    /\ UNCHANGED <<fDevice, fLink, fFile, fLock, secondVars, irpVars>>

\* IoCreateDevice.
CreateFirstDevice ==
    /\ fDevice' \in BOOLEAN
    /\ GoFirst("create", IF fDevice' THEN "open" ELSE "failed")
    /\ UNCHANGED <<fLink, fFile, fLock, secondVars, irpVars>>

\* IoGetDeviceObjectPointer sends a create request to a Second driver that
\* runs,
OpenSecondDevice ==
    /\ \/ /\ spc = "loaded"
          /\ GoFirst("open", "opening")
          /\ Move(OpenSecond, "idle", "acquire2")
       \/ GoFirst("open", "failed") /\ ipc' = ipc
    /\ UNCHANGED <<fDevice, fLink, fFile, fLock, secondVars, completed>>

\* and returns with the file when that request has been handled.
SecondDeviceOpened ==
    /\ GoFirst("opening", "link")
    /\ ipc[OpenSecond] = "returned"
    /\ fFile' = TRUE
    /\ UNCHANGED <<fDevice, fLink, fLock, secondVars, irpVars>>

\* IoCreateSymbolicLink, then IoInitializeRemoveLock.
CreateLink ==
    /\ \/ GoFirst("link", "loaded") /\ fLink' = TRUE /\ FLock!Initialize
       \/ GoFirst("link", "failed") /\ UNCHANGED <<fLink, fLock>>
    /\ UNCHANGED <<fDevice, fFile, secondVars, irpVars>>

\* The label CleanUp with an error status: the device goes, then the file.
CleanUpFailedStart ==
    /\ GoFirst("failed", IF fFile THEN "dereference" ELSE "stopped")
    /\ fDevice' = FALSE
    /\ UNCHANGED <<fLink, fFile, fLock, secondVars, irpVars>>
-----------------------------------------------------------------------------
(* The First driver stops: IoctlUninitDeviceObject.                        *)

\* DriverUnload is called.
StopFirst ==
    /\ GoFirst("loaded", "acquire")
    /\ ipc[CreateIrp] = "idle" \/ CloseIrp \in completed
    /\ UNCHANGED <<fDevice, fLink, fFile, fLock, secondVars, irpVars>>

AcquireFirstForRemoval ==
    /\ GoFirst("acquire", "remove")
    /\ FLock!Acquire
    /\ UNCHANGED <<fDevice, fLink, fFile, secondVars, irpVars>>

BeginFirstRemoval ==
    /\ GoFirst("remove", "wait")
    /\ FLock!BeginRemoval
    /\ UNCHANGED <<fDevice, fLink, fFile, secondVars, irpVars>>

EndFirstRemoval ==
    /\ GoFirst("wait", "delete")
    /\ FLock!Drained
    /\ UNCHANGED <<fDevice, fLink, fFile, fLock, secondVars, irpVars>>

DeleteFirstDevice ==
    /\ GoFirst("delete", IF fFile THEN "dereference" ELSE "stopped")
    /\ fLink' = FALSE
    /\ fDevice' = FALSE
    /\ UNCHANGED <<fFile, fLock, secondVars, irpVars>>

\* ObDereferenceObject of the last reference sends a close request,
DereferenceFile ==
    /\ GoFirst("dereference", "closing")
    /\ Move(CloseSecond, "idle", "acquire2")
    /\ UNCHANGED <<fDevice, fLink, fFile, fLock, secondVars, completed>>

\* and returns when it has been handled.
FileClosed ==
    /\ GoFirst("closing", "stopped")
    /\ ipc[CloseSecond] = "returned"
    /\ fFile' = FALSE
    /\ ipc' = [ipc EXCEPT ![OpenSecond] = "idle", ![CloseSecond] = "idle"]
    /\ completed' = completed \ {OpenSecond, CloseSecond}
    /\ UNCHANGED <<fDevice, fLink, fLock, secondVars>>

FirstStep ==
    \/ CreateFirstDevice
    \/ OpenSecondDevice
    \/ SecondDeviceOpened
    \/ CreateLink
    \/ CleanUpFailedStart
    \/ AcquireFirstForRemoval
    \/ BeginFirstRemoval
    \/ EndFirstRemoval
    \/ DeleteFirstDevice
    \/ DereferenceFile
    \/ FileClosed
-----------------------------------------------------------------------------
(* The Second driver starts and stops.                                     *)

\* If IoCreateDevice fails the driver stays stopped.
StartSecond ==
    /\ GoSecond("stopped", "loaded")
    /\ sDevice' = TRUE
    /\ SLock!Initialize
    /\ UNCHANGED <<firstVars, irpVars>>

StopSecond ==
    /\ GoSecond("loaded", "acquire")
    /\ ipc[OpenSecond] = "idle" \/ CloseSecond \in completed
    /\ UNCHANGED <<firstVars, sDevice, sLock, irpVars>>

AcquireSecondForRemoval ==
    /\ GoSecond("acquire", "remove")
    /\ SLock!Acquire
    /\ UNCHANGED <<firstVars, sDevice, irpVars>>

BeginSecondRemoval ==
    /\ GoSecond("remove", "wait")
    /\ SLock!BeginRemoval
    /\ UNCHANGED <<firstVars, sDevice, irpVars>>

EndSecondRemoval ==
    /\ GoSecond("wait", "delete")
    /\ SLock!Drained
    /\ UNCHANGED <<firstVars, sDevice, sLock, irpVars>>

DeleteSecondDevice ==
    /\ GoSecond("delete", "stopped")
    /\ sDevice' = FALSE
    /\ UNCHANGED <<firstVars, sLock, irpVars>>

SecondStep ==
    \/ AcquireSecondForRemoval
    \/ BeginSecondRemoval
    \/ EndSecondRemoval
    \/ DeleteSecondDevice
-----------------------------------------------------------------------------
(* The client's requests in the First driver.                              *)

Dispatch(i) ==
    /\ fpc = "loaded"
    /\ i # CreateIrp => CreateIrp \in completed /\ ipc[CloseIrp] = "idle"
    /\ i = CloseIrp => \A c \in Controls : ipc[c] = "idle" \/ c \in completed
    /\ Move(i, "idle", "acquire1")
    /\ UNCHANGED <<firstVars, secondVars, completed>>

\* The client, its file closed and its calls returned, starts afresh.
Reopen ==
    /\ ipc[CloseIrp] = "returned"
    /\ \A i \in ClientIrps : ipc[i] \in {"idle", "returned"}
    /\ ipc' = [i \in Irps |-> IF i \in ClientIrps THEN "idle" ELSE ipc[i]]
    /\ completed' = completed \ ClientIrps
    /\ UNCHANGED <<firstVars, secondVars>>

AcquireFirst(i) ==
    /\ Move(i, "acquire1", IF i \in Controls THEN "switch1" ELSE "pass")
    /\ FLock!Acquire
    /\ UNCHANGED <<fpc, fDevice, fLink, fFile, secondVars, completed>>

\* The switch over the control codes.
SwitchFirst(i) ==
    /\ Move(i, "switch1", "pass") \/ Move(i, "switch1", "complete1")
    /\ UNCHANGED <<firstVars, secondVars, completed>>

\* An unsupported control code is completed and the lock released here.
CompleteFirst(i) ==
    /\ Move(i, "complete1", "release1")
    /\ completed' = completed \cup {i}
    /\ UNCHANGED <<firstVars, secondVars>>

ReleaseFirst(i) ==
    /\ Move(i, "release1", "returned")
    /\ FLock!Release
    /\ UNCHANGED <<fpc, fDevice, fLink, fFile, secondVars, completed>>

\* IoctlPassIrp.
PassIrp(i) ==
    /\ Move(i, "pass", "acquire2")
    /\ UNCHANGED <<firstVars, secondVars, completed>>
-----------------------------------------------------------------------------
(* All requests in the Second driver.                                      *)

AcquireSecond(i) ==
    /\ Move(i, "acquire2", IF i \in Controls THEN "switch2" ELSE "complete2")
    /\ SLock!Acquire
    /\ UNCHANGED <<firstVars, spc, sDevice, completed>>

\* Both codes and the default only choose the status.
SwitchSecond(i) ==
    /\ Move(i, "switch2", "complete2")
    /\ UNCHANGED <<firstVars, secondVars, completed>>

\* IoCompleteRequest calls the First's completion routine, if there is one,
\* before it completes the request.
CompleteSecond(i) ==
    /\ IF i \in ClientIrps
       THEN Move(i, "complete2", "routine") /\ completed' = completed
       ELSE Move(i, "complete2", "release2") /\ completed' = completed \cup {i}
    /\ UNCHANGED <<firstVars, secondVars>>

\* IoctlCompletionRoutine of the First driver.
CompletionRoutine(i) ==
    /\ Move(i, "routine", "release2")
    /\ FLock!Release
    /\ completed' = completed \cup {i}
    /\ UNCHANGED <<fpc, fDevice, fLink, fFile, secondVars>>

ReleaseSecond(i) ==
    /\ Move(i, "release2", "returned")
    /\ SLock!Release
    /\ UNCHANGED <<firstVars, spc, sDevice, completed>>

IrpStep(i) ==
    \/ AcquireFirst(i)
    \/ SwitchFirst(i)
    \/ CompleteFirst(i)
    \/ ReleaseFirst(i)
    \/ PassIrp(i)
    \/ AcquireSecond(i)
    \/ SwitchSecond(i)
    \/ CompleteSecond(i)
    \/ CompletionRoutine(i)
    \/ ReleaseSecond(i)
-----------------------------------------------------------------------------
Next ==
    \/ StartFirst \/ StopFirst \/ FirstStep
    \/ StartSecond \/ StopSecond \/ SecondStep
    \/ Reopen
    \/ \E i \in ClientIrps : Dispatch(i)
    \/ \E i \in Irps : IrpStep(i)

Spec == Init /\ [][Next]_vars

\* Threads inside the drivers are scheduled; nobody must start, stop or open.
Fairness ==
    /\ WF_vars(FirstStep)
    /\ WF_vars(SecondStep)
    /\ \A i \in Irps : WF_vars(IrpStep(i))

FairSpec == Spec /\ Fairness
-----------------------------------------------------------------------------
(***************************************************************************)
(* Properties.                                                             *)
(***************************************************************************)

\* The variables keep their types.
TypeOK ==
    /\ fpc \in FirstPcs
    /\ fDevice \in BOOLEAN
    /\ fLink \in BOOLEAN
    /\ fFile \in BOOLEAN
    /\ fCount \in Nat
    /\ fRemoved \in BOOLEAN
    /\ spc \in SecondPcs
    /\ sDevice \in BOOLEAN
    /\ sCount \in Nat
    /\ sRemoved \in BOOLEAN
    /\ ipc \in [Irps -> IrpPcs]
    /\ completed \subseteq Irps

\* Requests that need the First's device, and those that need the Second's.
UsesFirst(i) ==
    \/ ipc[i] \in {"acquire1", "switch1", "complete1", "release1", "pass", "routine"}
    \/ i \in ClientIrps /\ ipc[i] \in {"acquire2", "switch2", "complete2"}
UsesSecond(i) ==
    ipc[i] \in {"acquire2", "switch2", "complete2", "routine", "release2"}

(***************************************************************************)
(* A request finds each driver's device alive until its last use of the    *)
(* remove lock there, the requests passed from one driver to the other     *)
(* included, whichever driver is stopped in whichever order; a passed      *)
(* request has the First's device until its completion routine has run.    *)
(***************************************************************************)
DevicesOutliveRequests ==
    \A i \in Irps : (UsesFirst(i) => fDevice) /\ (UsesSecond(i) => sDevice)

\* Requests inside either remove lock.
InsideFirst ==
    {i \in ClientIrps : ipc[i] \in {"switch1", "complete1", "release1", "pass",
                                   "acquire2", "switch2", "complete2", "routine"}}
InsideSecond ==
    {i \in Irps : ipc[i] \in {"switch2", "complete2", "routine", "release2"}}

(***************************************************************************)
(* Each driver makes a guarded device of its remove lock: no request gets  *)
(* in once the removal began, although what the acquire returns is not     *)
(* looked at, and the device is deleted when the last one has left, be it  *)
(* in the other driver's thread, by a completion routine.                  *)
(***************************************************************************)
FirstGuard ==
    INSTANCE GuardedDevice WITH
      Requests <- ClientIrps,
      inside <- InsideFirst,
      state <- CASE fpc \in {"loaded", "acquire", "remove"} -> "open"
                 [] fpc \in {"wait", "delete"} -> "closing"
                 [] OTHER -> "absent"
SecondGuard ==
    INSTANCE GuardedDevice WITH
      Requests <- Irps,
      inside <- InsideSecond,
      state <- CASE ~sDevice -> "absent"
                 [] sDevice /\ sRemoved -> "closing"
                 [] OTHER -> "open"

ImplementsGuardedDevices == FirstGuard!GDSpec /\ SecondGuard!GDSpec

(***************************************************************************)
(* A First driver that is not running, be it that its start failed at any  *)
(* of its three steps or that it was stopped, leaves no device, link or    *)
(* file behind: it can be started and the Second driver be stopped.        *)
(***************************************************************************)
StoppedLeavesNothing ==
    fpc = "stopped" => ~fDevice /\ ~fLink /\ ~fFile /\ ipc[OpenSecond] = "idle"

(***************************************************************************)
(* Once DriverUnload is called, either driver's unloading ends.            *)
(***************************************************************************)
UnloadsEnd ==
    /\ fpc = "acquire" ~> fpc = "stopped"
    /\ spc = "acquire" ~> spc = "stopped"
=============================================================================
