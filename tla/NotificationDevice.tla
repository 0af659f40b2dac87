-------------------------- MODULE NotificationDevice --------------------------
(***************************************************************************)
(* The notification driver from DriverEntry to DriverUnload: the search of *)
(* NtImageBase, the registration of the five routines, the control device  *)
(* with its IRP handlers (DeviceObject.cpp), the handle filter of          *)
(* Filter.cpp that protects one process, and the unloading of all of it.   *)
(* Handlers and unloading meet in two locks taken in opposite orders:      *)
(*   - a handler takes the remove lock, then gDrvData.Lock;                *)
(*   - unloading takes gDrvData.Lock, then waits for the remove lock.      *)
(*                                                                         *)
(* gDrvData.Lock is a push lock, only ever taken exclusively.  Nobody but  *)
(* the unloading thread does anything that waits while holding it, so the  *)
(* other critical sections are single steps that need the lock free.       *)
(*                                                                         *)
(* In a checked build an NT_ASSERT that fails stops the machine; in a free *)
(* build it is not there and DriverEntry goes on whatever failed.          *)
(*                                                                         *)
(* From the system the model assumes what drivers are promised: IRPs reach *)
(* the driver after DriverEntry and on an open file only, the file lives   *)
(* until its requests are completed, DriverUnload is called when no file   *)
(* is left, and ObUnRegisterCallbacks waits for running callbacks.  What   *)
(* a handler does after IoCompleteRequest is covered by none of these.     *)
(***************************************************************************)
EXTENDS NtImageBase, FiniteSets

CONSTANTS
    Controls,      \* the IRP_MJ_DEVICE_CONTROL requests
    CreateIrp,     \* the IRP_MJ_CREATE request of the file
    CloseIrp,      \* the IRP_MJ_CLOSE request of the file
    Opens,         \* the calls that create or duplicate a handle
    Pids,          \* the process ids at stake
    MaxUnset       \* bound: how many routines fail to register

NoPid == 0         \* no process is protected

ASSUME DeviceAssumption ==
    /\ CreateIrp # CloseIrp
    /\ {CreateIrp, CloseIrp} \cap Controls = {}
    /\ IsFiniteSet(Controls)
    /\ NoPid \notin Pids
    /\ MaxUnset \in Nat

Irps == Controls \cup {CreateIrp, CloseIrp}

\* The routines in the order DriverEntry registers them in, and in the order
\* DriverUnload removes them in.
RegisterOrder == <<"process", "registry", "image", "handle", "thread">>
RemoveOrder == <<"process", "registry", "image", "thread", "handle">>

VARIABLES
    checked,          \* is this a checked build?
    upc,              \* where the driver's entry and unload routines are
    routines,         \* the routines they have yet to register or remove
    registered,       \* the routines the system calls
    object,           \* the DeviceObject that gDrvData.DeviceObject points to
    lockHeld,         \* does unloading hold gDrvData.Lock?
    ioCount,          \* the remove lock: its count
    removed,          \* the remove lock: has the last owner begun to wait?
    ipc,              \* where the handler of each IRP is
    completed,        \* the IRPs for which IoCompleteRequest was called
    protectedPid,     \* gDrvData.ProtectedProcessPid
    hpc,              \* where each handle request is
    target,           \* the process a handle request is for
    shielded          \* the requests for a process protected from before they
                      \* came on, no other one since (history)

entryVars == <<checked, routines, registered>>
lockVars == <<ioCount, removed>>
irpVars == <<ipc, completed>>
handleVars == <<hpc, target>>
vars == <<imageVars, checked, upc, routines, registered, object, lockHeld,
          ioCount, removed, ipc, completed, protectedPid, hpc, target, shielded>>

\* "hollow" is a DeviceObject whose deviceObject is null.
Objects == {"none", "hollow", "valid", "freed"}
UnloadPcs == {"entry", "image", "register", "loaded", "remove", "lock", "reset",
              "acquire", "release", "wait", "cleanup", "free", "unloaded",
              "bugcheck"}
IrpPcs == {"idle", "acquire", "switch", "protect", "complete", "release",
           "returned"}
HandlePcs == {"idle", "lock", "full", "stripped", "exempt"}

Init ==
    /\ ImageInit
    /\ checked \in BOOLEAN
    /\ upc = "entry"
    /\ routines = RegisterOrder
    /\ registered = {}
    /\ object = "none"
    /\ lockHeld = FALSE
    /\ ioCount = 0
    /\ removed = FALSE
    /\ ipc = [i \in Irps |-> "idle"]
    /\ completed = {}
    /\ protectedPid = NoPid
    /\ hpc = [o \in Opens |-> "idle"]
    /\ target = [o \in Opens |-> NoPid]
    /\ shielded = {}

RLock == INSTANCE RemoveLock WITH count <- ioCount

\* The driver's thread, and request i, go from one place to another.
Go(from, to) == upc = from /\ upc' = to
Move(i, from, to) == ipc[i] = from /\ ipc' = [ipc EXCEPT ![i] = to]

\* What the driver's thread leaves to others, and they to it.
OthersUnchanged == UNCHANGED <<irpVars, handleVars, shielded>>
DriverUnchanged == UNCHANGED <<imageVars, entryVars, upc, object, lockHeld>>

\* Pushlock: nobody owns gDrvData.Lock.
LockFree == ~lockHeld
-----------------------------------------------------------------------------
(* Slips a rewrite of this code could make; see the note in ThreadPool.    *)

\* The request is completed first, the process protected afterwards.
CompleteAndSwitch(i) ==
    /\ Move(i, "switch", "complete") \/ Move(i, "switch", "protect")
    /\ completed' = completed \cup {i}
    /\ DriverUnchanged /\ UNCHANGED <<lockVars, protectedPid, handleVars, shielded>>

\* The destructor waits without having acquired the lock.
RemoveUnacquired ==
    /\ Go("acquire", IF object = "valid" THEN "release" ELSE "bugcheck")
    /\ OthersUnchanged
    /\ UNCHANGED <<imageVars, entryVars, object, lockHeld, lockVars, protectedPid>>

\* The destructor does not wait.
PassRemoval ==
    /\ Go("wait", "cleanup")
    /\ OthersUnchanged
    /\ UNCHANGED <<imageVars, entryVars, object, lockHeld, lockVars, protectedPid>>

\* The handle filter is never removed from the system.
RemoveAllButLast ==
    /\ upc = "remove"
    /\ registered' = registered \ {Head(routines)}
    /\ routines' = Tail(routines)
    /\ upc' = IF Len(routines) = 2 THEN "lock" ELSE "remove"
    /\ OthersUnchanged
    /\ UNCHANGED <<imageVars, checked, object, lockHeld, lockVars, protectedPid>>

\* NT_ASSERT forgotten after a registration.
RegisterUnasserted ==
    /\ upc = "register"
    /\ \/ registered' = registered \cup {Head(routines)}
       \/ registered' = registered
    /\ routines' = IF Len(routines) = 1 THEN RemoveOrder ELSE Tail(routines)
    /\ upc' = IF Len(routines) = 1 THEN "loaded" ELSE "register"
    /\ OthersUnchanged
    /\ UNCHANGED <<imageVars, checked, object, lockHeld, lockVars, protectedPid>>
-----------------------------------------------------------------------------
(* DriverEntry.                                                            *)

\* GdrvInitGlobalData up to its NT_ASSERT.  The constructor of DeviceObject
\* leaves a null deviceObject if the device or its link cannot be made.
CreateDeviceObject ==
    /\ object' \in {"none", "hollow", "valid"}
    /\ IF object' = "valid" THEN RLock!Initialize ELSE UNCHANGED lockVars
    /\ Go("entry", IF object' # "valid" /\ checked THEN "bugcheck" ELSE "image")
    /\ OthersUnchanged
    /\ UNCHANGED <<imageVars, entryVars, lockHeld, protectedPid>>

\* GdrvpInitializeNtImageBase,
FindImageBase ==
    /\ upc = "image"
    /\ SearchStep
    /\ OthersUnchanged
    /\ UNCHANGED <<entryVars, upc, object, lockHeld, lockVars, protectedPid>>

\* and what NT_VERIFY makes of its status.
VerifyImageBase ==
    /\ spc = "returned"
    /\ Go("image", IF base = NoModule /\ checked THEN "bugcheck" ELSE "register")
    /\ OthersUnchanged
    /\ UNCHANGED <<imageVars, entryVars, object, lockHeld, lockVars, protectedPid>>

\* The routines that failed to register.
Unset == Len(RegisterOrder) - Len(routines) - Cardinality(registered)

RegisterRoutine ==
    /\ upc = "register"
    /\ \/ registered' = registered \cup {Head(routines)}
       \/ registered' = registered /\ Unset < MaxUnset
    /\ routines' = IF Len(routines) = 1 THEN RemoveOrder ELSE Tail(routines)
    /\ \/ registered' = registered /\ checked /\ upc' = "bugcheck"
       \/ /\ ~(registered' = registered /\ checked)
          /\ upc' = IF Len(routines) = 1 THEN "loaded" ELSE "register"
    /\ OthersUnchanged
    /\ UNCHANGED <<imageVars, checked, object, lockHeld, lockVars, protectedPid>>
-----------------------------------------------------------------------------
(* The IRP handlers.                                                       *)

\* The I/O manager sends the request to the driver.
Dispatch(i) ==
    /\ upc = "loaded"
    /\ object = "valid"
    /\ i # CreateIrp => CreateIrp \in completed /\ ipc[CloseIrp] = "idle"
    /\ i = CloseIrp => \A c \in Controls : ipc[c] = "idle" \/ c \in completed
    /\ Move(i, "idle", "acquire")
    /\ DriverUnchanged
    /\ UNCHANGED <<lockVars, completed, protectedPid, handleVars, shielded>>

AcquireRemoveLock(i) ==
    /\ Move(i, "acquire", IF i \in Controls THEN "switch" ELSE "complete")
    /\ RLock!Acquire
    /\ DriverUnchanged /\ UNCHANGED <<completed, protectedPid, handleVars, shielded>>

\* The switch over the control codes.  Only the third with a buffer of the
\* right size has something to do.
SwitchControlCode(i) ==
    /\ Move(i, "switch", "complete") \/ Move(i, "switch", "protect")
    /\ DriverUnchanged
    /\ UNCHANGED <<lockVars, completed, protectedPid, handleVars, shielded>>

\* HandleProtectProcess, under gDrvData.Lock.
ProtectProcess(i) ==
    /\ Move(i, "protect", "complete")
    /\ LockFree
    /\ protectedPid' \in Pids \cup {NoPid}
    /\ shielded' = {o \in shielded : target[o] = protectedPid'}
    /\ DriverUnchanged /\ UNCHANGED <<lockVars, completed, handleVars>>

CompleteRequest(i) ==
    /\ Move(i, "complete", "release")
    /\ completed' = completed \cup {i}
    /\ DriverUnchanged /\ UNCHANGED <<lockVars, protectedPid, handleVars, shielded>>

\* The remove lock is found through gDrvData.DeviceObject.
ReleaseRemoveLock(i) ==
    /\ Move(i, "release", "returned")
    /\ RLock!Release
    /\ DriverUnchanged /\ UNCHANGED <<completed, protectedPid, handleVars, shielded>>

IrpStep(i) ==
    \/ AcquireRemoveLock(i)
    \/ SwitchControlCode(i)
    \/ ProtectProcess(i)
    \/ CompleteRequest(i)
    \/ ReleaseRemoveLock(i)
-----------------------------------------------------------------------------
(* FltPreProcessCreateRoutine.                                             *)

\* A handle to a process or thread of process pid is asked for.  Requests of
\* the kernel and of the process itself return before the lock.
EnterHandleFilter(o) ==
    /\ hpc[o] = "idle"
    /\ "handle" \in registered
    /\ \/ \E pid \in Pids :
            /\ target' = [target EXCEPT ![o] = pid]
            /\ shielded' = IF pid = protectedPid THEN shielded \cup {o}
                                                 ELSE shielded
            /\ hpc' = [hpc EXCEPT ![o] = "lock"]
       \/ /\ hpc' = [hpc EXCEPT ![o] = "exempt"]
          /\ UNCHANGED <<target, shielded>>
    /\ DriverUnchanged /\ UNCHANGED <<lockVars, irpVars, protectedPid>>

\* Under gDrvData.Lock: take the terminate right from a protected target.
FilterAccess(o) ==
    /\ hpc[o] = "lock"
    /\ LockFree
    /\ hpc' = [hpc EXCEPT ![o] =
                 IF protectedPid # NoPid /\ target[o] = protectedPid
                 THEN "stripped" ELSE "full"]
    /\ DriverUnchanged
    /\ UNCHANGED <<lockVars, irpVars, protectedPid, target, shielded>>
-----------------------------------------------------------------------------
(* DriverUnload, GdrvUninitGlobalData, ~DeviceObject.                      *)

\* The I/O manager calls DriverUnload when the device has no file.
BeginUnload ==
    /\ Go("loaded", "remove")
    /\ ipc[CreateIrp] = "idle" \/ CloseIrp \in completed
    /\ OthersUnchanged
    /\ UNCHANGED <<imageVars, entryVars, object, lockHeld, lockVars, protectedPid>>

\* Removing a routine waits for its calls; one that is not registered is not
\* found.  What ObUnRegisterCallbacks does with a null handle is left open.
RemoveRoutine ==
    /\ upc = "remove"
    /\ Head(routines) = "handle" => \A o \in Opens : hpc[o] # "lock"
    /\ registered' = registered \ {Head(routines)}
    /\ routines' = Tail(routines)
    /\ \/ upc' = IF Len(routines) = 1 THEN "lock" ELSE "remove"
       \/ Head(routines) = "handle" /\ "handle" \notin registered /\ upc' = "bugcheck"
    /\ OthersUnchanged
    /\ UNCHANGED <<imageVars, checked, object, lockHeld, lockVars, protectedPid>>

LockForUninit ==
    /\ Go("lock", "reset")
    /\ LockFree
    /\ lockHeld' = TRUE
    /\ OthersUnchanged
    /\ UNCHANGED <<imageVars, entryVars, object, lockVars, protectedPid>>

\* Deleting a null pointer does nothing.
ResetGlobalData ==
    /\ Go("reset", IF object = "none" THEN "free" ELSE "acquire")
    /\ protectedPid' = NoPid
    /\ OthersUnchanged
    /\ UNCHANGED <<imageVars, entryVars, object, lockHeld, lockVars>>

\* ~DeviceObject begins: IoctlGetIoRemoveLock reads through deviceObject.
AcquireForRemoval ==
    /\ IF object = "valid" THEN Go("acquire", "release") /\ RLock!Acquire
                           ELSE Go("acquire", "bugcheck") /\ UNCHANGED lockVars
    /\ OthersUnchanged
    /\ UNCHANGED <<imageVars, entryVars, object, lockHeld, protectedPid>>

BeginRemoval ==
    /\ Go("release", "wait")
    /\ RLock!BeginRemoval
    /\ OthersUnchanged
    /\ UNCHANGED <<imageVars, entryVars, object, lockHeld, protectedPid>>

EndRemoval ==
    /\ Go("wait", "cleanup")
    /\ RLock!Drained
    /\ OthersUnchanged
    /\ UNCHANGED <<imageVars, entryVars, object, lockHeld, lockVars, protectedPid>>

\* The symbolic link and the device, with its remove lock, are deleted.
CleanUp ==
    /\ Go("cleanup", "free")
    /\ object' = "hollow"
    /\ OthersUnchanged
    /\ UNCHANGED <<imageVars, entryVars, lockHeld, lockVars, protectedPid>>

\* The object's memory is freed, the pointer cleared and the lock left.
FreeObject ==
    /\ Go("free", "unloaded")
    /\ object' = IF object = "none" THEN "none" ELSE "freed"
    /\ lockHeld' = FALSE
    /\ OthersUnchanged
    /\ UNCHANGED <<imageVars, entryVars, lockVars, protectedPid>>

DriverStep ==
    \/ CreateDeviceObject
    \/ FindImageBase
    \/ VerifyImageBase
    \/ RegisterRoutine
    \/ RemoveRoutine
    \/ LockForUninit
    \/ ResetGlobalData
    \/ AcquireForRemoval
    \/ BeginRemoval
    \/ EndRemoval
    \/ CleanUp
    \/ FreeObject

\* The driver is gone, or the machine is.
Terminated ==
    /\ upc \in {"unloaded", "bugcheck"}
    /\ \A i \in Irps : ipc[i] \in {"idle", "returned"}
    /\ UNCHANGED vars
-----------------------------------------------------------------------------
ModulesChange ==
    /\ upc = "image"
    /\ ModuleChange
    /\ OthersUnchanged
    /\ UNCHANGED <<entryVars, upc, object, lockHeld, lockVars, protectedPid>>

Next ==
    \/ DriverStep
    \/ ModulesChange
    \/ \E i \in Irps : Dispatch(i) \/ IrpStep(i)
    \/ \E o \in Opens : EnterHandleFilter(o) \/ FilterAccess(o)
    \/ BeginUnload
    \/ Terminated

Spec == Init /\ [][Next]_vars

\* Every thread inside the driver is scheduled; a push lock that is free and
\* wanted is granted.
Fairness ==
    /\ WF_vars(DriverStep)
    /\ \A i \in Irps : WF_vars(IrpStep(i))
    /\ \A o \in Opens : WF_vars(FilterAccess(o))

FairSpec == Spec /\ Fairness
-----------------------------------------------------------------------------
(* Properties.                                                             *)

\* The variables keep their types.
TypeOK ==
    /\ ImageTypeOK
    /\ checked \in BOOLEAN
    /\ upc \in UnloadPcs
    /\ routines \in Seq(ToSet(RegisterOrder))
    /\ registered \subseteq ToSet(RegisterOrder)
    /\ object \in Objects
    /\ lockHeld \in BOOLEAN
    /\ ioCount \in Nat
    /\ removed \in BOOLEAN
    /\ ipc \in [Irps -> IrpPcs]
    /\ completed \subseteq Irps
    /\ protectedPid \in Pids \cup {NoPid}
    /\ hpc \in [Opens -> HandlePcs]
    /\ target \in [Opens -> Pids \cup {NoPid}]
    /\ shielded \subseteq Opens

\* The handlers between IoAcquireRemoveLock and IoReleaseRemoveLock.
Inside == {i \in Irps : ipc[i] \in {"switch", "protect", "complete", "release"}}

(***************************************************************************)
(* A handler finds the device, its remove lock and the DeviceObject that   *)
(* leads to it alive up to its IoReleaseRemoveLock, although the request   *)
(* is completed before and unloading may begin there and then.             *)
(***************************************************************************)
DeviceOutlivesHandlers ==
    \A i \in Irps : ipc[i] = "acquire" \/ i \in Inside => object = "valid"

(***************************************************************************)
(* The handlers and ~DeviceObject make a guarded device of the remove lock *)
(* and a count: no handler passes IoAcquireRemoveLock, whose result nobody *)
(* looks at, once the removal began, and the device is deleted when the    *)
(* last one has left.                                                      *)
(***************************************************************************)
Guard ==
    INSTANCE GuardedDevice WITH
      Requests <- Irps,
      inside <- Inside,
      state <- CASE object # "valid" -> "absent"
                 [] object = "valid" /\ removed -> "closing"
                 [] OTHER -> "open"

ImplementsGuardedDevice == Guard!GDSpec

(***************************************************************************)
(* No handler needs gDrvData.Lock while unloading holds it: the order in   *)
(* which the two locks are taken is inverted between HandleProtectProcess  *)
(* and GdrvUninitGlobalData, and only the requests' completion before the  *)
(* release keeps them apart.                                               *)
(***************************************************************************)
LockOrderHarmless ==
    lockHeld => \A i \in Irps : ipc[i] \notin {"acquire", "switch", "protect"}

(***************************************************************************)
(* A handle with full access to a process that was protected when the      *)
(* request came is only granted if a client has protected another one      *)
(* since: unloading, which clears the pid, lifts no protection from a      *)
(* request already in the filter.                                          *)
(***************************************************************************)
ProtectionStands == \A o \in shielded : hpc[o] # "full"

(***************************************************************************)
(* Failures on the way: a search of the module list that no call failed    *)
(* has found the kernel if it is listed, whatever else was loaded and      *)
(* unloaded meanwhile; a checked build that finishes DriverEntry lacks     *)
(* nothing; and no build leaves the system a routine to call when it       *)
(* begins to take the global data apart.                                   *)
(***************************************************************************)
NothingMissedNothingLeft ==
    /\ spc = "returned" /\ ~callFailed => (base = Kernel <=> Kernel \in ToSet(system))
    /\ upc = "loaded" /\ checked =>
         object = "valid" /\ base = Kernel /\ registered = ToSet(RegisterOrder)
    /\ upc \in {"lock", "reset", "acquire", "release", "wait", "cleanup", "free",
                "unloaded"} => registered = {}

(***************************************************************************)
(* DriverEntry ends although its search starts over whenever the module    *)
(* list has grown between the two queries, provided the list settles; and  *)
(* unloading ends, if the device and the handle filter could be made.      *)
(***************************************************************************)
LoadingAndUnloadingEnd ==
    /\ <>[][system' = system]_vars => <>(upc \notin {"entry", "image", "register"})
    /\ upc = "remove" /\ object = "valid" /\ "handle" \in registered ~> upc = "unloaded"
=============================================================================
