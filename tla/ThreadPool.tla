------------------------------ MODULE ThreadPool ------------------------------
(***************************************************************************)
(* The thread pool of the console application, Lab1WPP/ThreadPool.cpp.     *)
(*                                                                         *)
(* Three kinds of threads meet in it:                                      *)
(*   - the owner constructs the pool, calls Shutdown and destroys it;      *)
(*   - each member of Calls is one call of EnqueueItem, made by some       *)
(*     thread that is not a worker; the ThreadWorkerItem it creates is     *)
(*     named by the call;                                                  *)
(*   - each member of Slots is an index of the vector `threads` and the    *)
(*     worker thread created for it, which runs DoWork.                    *)
(*                                                                         *)
(* A step is what a thread does between two points where another thread    *)
(* can notice: taking or leaving itemsLock, reading or writing the         *)
(* unsynchronised flag pendingShutdown, changing an event, waiting.        *)
(* pendingShutdown is a plain bool, written without itemsLock.  On the     *)
(* x86 and x64 builds of the project its store may only be seen late, not  *)
(* torn or undone, and SetEvent right behind it flushes it: a late store   *)
(* is the same store made later, so one atomic step models it.             *)
(***************************************************************************)
EXTENDS Naturals, Sequences

CONSTANTS
    Calls,                \* the calls of EnqueueItem
    RequestedThreads,     \* the constructor's argument, a uint8_t
    HardwareConcurrency,  \* what std::thread::hardware_concurrency() returns
    NoOne                 \* nobody holds itemsLock; no worker item in hand

\* The constructor's correction of its argument.
NoThreads ==
    IF RequestedThreads = 0 \/ RequestedThreads > HardwareConcurrency
    THEN HardwareConcurrency % 256
    ELSE RequestedThreads

Slots == 1..NoThreads

\* hardware_concurrency() is at least 1 and at most 64 on Windows, the size
\* of a processor group, so its conversion to uint8_t never yields zero.
ASSUME ConcurrencyAssumption ==
    /\ RequestedThreads \in 0..255
    /\ HardwareConcurrency \in 1..255
    /\ NoOne \notin Calls
    /\ NoOne \notin Nat
    /\ Calls \cap Nat = {}

TERMINATION_SIGNALED_EVENT == 0
ITEM_ENQUEUED_NOTIFICATION_EVENT == 1
EventIds == {TERMINATION_SIGNALED_EVENT, ITEM_ENQUEUED_NOTIFICATION_EVENT}

Handles == {"null", "open"}

VARIABLES
    pendingShutdown,  \* ThreadPool::pendingShutdown
    threads,          \* ThreadPool::threads, the handle in each slot
    events,           \* ThreadPool::events, the handle of each event
    signaled,         \* the state of each (manual reset) event
    items,            \* ThreadPool::items
    itemsLock,        \* who holds ThreadPool::itemsLock
    dpc,              \* where each worker is in DoWork
    draining,         \* has the worker left DoWork's first loop?
    workerItem,       \* the item a worker holds
    epc,              \* where each call is in EnqueueItem
    opc,              \* where the owner is
    goal,             \* what the owner is doing the current steps for
    completed         \* the items whose callback has returned (history)

poolVars == <<pendingShutdown, threads, events, signaled, items, itemsLock>>
workerVars == <<dpc, draining, workerItem, completed>>
ownerVars == <<opc, goal>>
vars == <<pendingShutdown, threads, events, signaled, items, itemsLock,
          dpc, draining, workerItem, epc, opc, goal, completed>>

WorkerPcs == {"none", "loop", "lock", "take", "reset", "run", "wait", "exited"}
CallPcs == {"idle", "lock", "check", "push", "signal", "accepted", "refused"}
OwnerPcs == {"events", "threads", "ready", "flag", "signal", "wait", "dispose",
             "destroyed", "failed"}
Goals == {"construct", "none", "shutdown", "destroy", "unwind"}

Init ==
    /\ pendingShutdown = FALSE
    /\ threads = [s \in Slots |-> "null"]
    /\ events = [e \in EventIds |-> "null"]
    /\ signaled = [e \in EventIds |-> FALSE]
    /\ items = << >>
    /\ itemsLock = NoOne
    /\ dpc = [s \in Slots |-> "none"]
    /\ draining = [s \in Slots |-> FALSE]
    /\ workerItem = [s \in Slots |-> NoOne]
    /\ epc = [c \in Calls |-> "idle"]
    /\ opc = "events"
    /\ goal = "construct"
    /\ completed = {}

\* The first index at which a loop over the vector f meets handle h.
IsFirst(f, h, i) == f[i] = h /\ \A j \in DOMAIN f : j < i => f[j] # h

All(f, h) == \A i \in DOMAIN f : f[i] = h
-----------------------------------------------------------------------------
(***************************************************************************)
(* Slips a rewrite of this code could make.  No behaviour of Spec takes    *)
(* them: each is put in the place of the action it is named after to see   *)
(* that a property notices.                                                *)
(***************************************************************************)

\* The constructor cleans up with Shutdown: SetEvent on a handle it lacks.
CreateEventOrShutdown ==
    /\ opc = "events"
    /\ \E e \in EventIds :
         /\ IsFirst(events, "null", e)
         /\ \/ /\ events' = [events EXCEPT ![e] = "open"]
               /\ opc' = IF e = ITEM_ENQUEUED_NOTIFICATION_EVENT
                         THEN "threads" ELSE "events"
               /\ goal' = goal
            \/ opc' = "flag" /\ goal' = "unwind" /\ events' = events
    /\ UNCHANGED <<pendingShutdown, threads, signaled, items, itemsLock,
                   workerVars, epc>>

\* Shutdown relies on the flag and forgets the sleeping workers.
SkipTermination ==
    /\ opc = "signal"
    /\ opc' = "wait"
    /\ UNCHANGED <<poolVars, workerVars, epc, goal>>

\* The lock is left before the event is brought up to date.
PushItemAndUnlock(c) ==
    /\ epc[c] = "push"
    /\ items' = Append(items, c)
    /\ itemsLock' = NoOne
    /\ epc' = [epc EXCEPT ![c] = "signal"]
    /\ UNCHANGED <<pendingShutdown, threads, events, signaled, workerVars,
                   ownerVars>>

\* size() > 1 in place of size() == 1.
SignalLaterItem(c) ==
    /\ epc[c] = "signal"
    /\ signaled' = [signaled EXCEPT ![ITEM_ENQUEUED_NOTIFICATION_EVENT] =
                        @ \/ Len(items) > 1]
    /\ itemsLock' = NoOne
    /\ epc' = [epc EXCEPT ![c] = "accepted"]
    /\ UNCHANGED <<pendingShutdown, threads, events, items, workerVars,
                   ownerVars>>

\* A worker that sees the flag returns: no second loop.
TestLoopAndLeave(s) ==
    /\ dpc[s] = "loop"
    /\ dpc' = [dpc EXCEPT ![s] = IF pendingShutdown THEN "exited" ELSE "lock"]
    /\ UNCHANGED <<poolVars, draining, workerItem, completed, epc, ownerVars>>

\* The result of GetWorkerItem is called without a look at it.
RunNoItem(s) ==
    /\ dpc[s] = "take"
    /\ items = << >>
    /\ itemsLock' = NoOne
    /\ dpc' = [dpc EXCEPT ![s] = "run"]
    /\ UNCHANGED <<pendingShutdown, threads, events, signaled, items,
                   draining, workerItem, completed, epc, ownerVars>>

\* A stack in place of the queue.
TakeNewestItem(s) ==
    /\ dpc[s] = "take"
    /\ items # << >>
    /\ workerItem' = [workerItem EXCEPT ![s] = items[Len(items)]]
    /\ items' = SubSeq(items, 1, Len(items) - 1)
    /\ dpc' = [dpc EXCEPT ![s] = "reset"]
    /\ UNCHANGED <<pendingShutdown, threads, events, signaled, itemsLock,
                   draining, completed, epc, ownerVars>>
-----------------------------------------------------------------------------
(***************************************************************************)
(* The owner: constructor, Shutdown, destructor.                           *)
(***************************************************************************)

\* One turn of the constructor's first loop.  If CreateEvent fails,
\* CleanupThreadPool runs (not Shutdown) and the constructor throws.
CreateEvent ==
    /\ opc = "events"
    /\ \E e \in EventIds :
         /\ IsFirst(events, "null", e)
         /\ \/ /\ events' = [events EXCEPT ![e] = "open"]
               /\ opc' = IF e = ITEM_ENQUEUED_NOTIFICATION_EVENT
                         THEN "threads" ELSE "events"
               /\ goal' = goal
            \/ /\ opc' = "wait"
               /\ goal' = "unwind"
               /\ events' = events
    /\ UNCHANGED <<pendingShutdown, threads, signaled, items, itemsLock,
                   workerVars, epc>>

\* One turn of the constructor's second loop.  The worker may run DoWork at
\* once.  If CreateThread fails, Shutdown and CleanupThreadPool run and the
\* constructor throws.
CreateThread ==
    /\ opc = "threads"
    /\ \E s \in Slots :
         /\ IsFirst(threads, "null", s)
         /\ \/ /\ threads' = [threads EXCEPT ![s] = "open"]
               /\ dpc' = [dpc EXCEPT ![s] = "loop"]
               /\ IF s = NoThreads
                  THEN opc' = "ready" /\ goal' = "none"
                  ELSE UNCHANGED ownerVars
            \/ /\ opc' = "flag"
               /\ goal' = "unwind"
               /\ UNCHANGED <<threads, dpc>>
    /\ UNCHANGED <<pendingShutdown, events, signaled, items, itemsLock,
                   draining, workerItem, completed, epc>>

\* An explicit call of Shutdown; it may be made more than once.
BeginShutdown ==
    /\ opc = "ready"
    /\ opc' = "flag"
    /\ goal' = "shutdown"
    /\ UNCHANGED <<poolVars, workerVars, epc>>

\* The destructor.  The object's lifetime ends here, so no EnqueueItem call
\* may be in progress, as for any C++ object.
BeginDestroy ==
    /\ opc = "ready"
    /\ \A c \in Calls : epc[c] \in {"idle", "accepted", "refused"}
    /\ opc' = "flag"
    /\ goal' = "destroy"
    /\ UNCHANGED <<poolVars, workerVars, epc>>

SetPendingShutdown ==
    /\ opc = "flag"
    /\ pendingShutdown' = TRUE
    /\ opc' = "signal"
    /\ UNCHANGED <<threads, events, signaled, items, itemsLock, workerVars,
                   epc, goal>>

SignalTermination ==
    /\ opc = "signal"
    /\ signaled' = [signaled EXCEPT ![TERMINATION_SIGNALED_EVENT] = TRUE]
    /\ opc' = "wait"
    /\ UNCHANGED <<pendingShutdown, threads, events, items, itemsLock,
                   workerVars, epc, goal>>

\* WaitThreads waits for the threads in slot order, skipping null handles.
WaitThread ==
    /\ opc = "wait"
    /\ \E s \in Slots :
         /\ IsFirst(threads, "open", s)
         /\ dpc[s] = "exited"
         /\ threads' = [threads EXCEPT ![s] = "null"]
    /\ UNCHANGED <<pendingShutdown, events, signaled, items, itemsLock,
                   workerVars, epc, ownerVars>>

\* WaitThreads returns.  CleanupThreadPool's second WaitThreads meets null
\* handles only, so it is this same step.
EndWait ==
    /\ opc = "wait"
    /\ All(threads, "null")
    /\ IF goal = "shutdown"
       THEN opc' = "ready" /\ goal' = "none"
       ELSE opc' = "dispose" /\ goal' = goal
    /\ UNCHANGED <<poolVars, workerVars, epc>>

DisposeEvent ==
    /\ opc = "dispose"
    /\ \E e \in EventIds :
         /\ IsFirst(events, "open", e)
         /\ events' = [events EXCEPT ![e] = "null"]
    /\ UNCHANGED <<pendingShutdown, threads, signaled, items, itemsLock,
                   workerVars, epc, ownerVars>>

EndDispose ==
    /\ opc = "dispose"
    /\ All(events, "null")
    /\ opc' = IF goal = "destroy" THEN "destroyed" ELSE "failed"
    /\ UNCHANGED <<poolVars, workerVars, epc, goal>>

\* The steps the owner's thread takes once it is inside a member function.
OwnerStep ==
    \/ CreateEvent
    \/ CreateThread
    \/ SetPendingShutdown
    \/ SignalTermination
    \/ WaitThread
    \/ EndWait
    \/ DisposeEvent
    \/ EndDispose
-----------------------------------------------------------------------------
(***************************************************************************)
(* EnqueueItem.                                                            *)
(***************************************************************************)

\* The pool is constructed and its destructor has not begun.
Usable == opc \notin {"events", "threads"} /\ goal \in {"none", "shutdown"}

CallEnqueueItem(c) ==
    /\ epc[c] = "idle"
    /\ Usable
    /\ epc' = [epc EXCEPT ![c] = "lock"]
    /\ UNCHANGED <<poolVars, workerVars, ownerVars>>

LockForEnqueue(c) ==
    /\ epc[c] = "lock"
    /\ itemsLock = NoOne
    /\ itemsLock' = c
    /\ epc' = [epc EXCEPT ![c] = "check"]
    /\ UNCHANGED <<pendingShutdown, threads, events, signaled, items,
                   workerVars, ownerVars>>

\* The test of pendingShutdown; the exception leaves the lock_guard.
CheckPendingShutdown(c) ==
    /\ epc[c] = "check"
    /\ IF pendingShutdown
       THEN /\ epc' = [epc EXCEPT ![c] = "refused"]
            /\ itemsLock' = NoOne
       ELSE /\ epc' = [epc EXCEPT ![c] = "push"]
            /\ itemsLock' = itemsLock
    /\ UNCHANGED <<pendingShutdown, threads, events, signaled, items,
                   workerVars, ownerVars>>

PushItem(c) ==
    /\ epc[c] = "push"
    /\ items' = Append(items, c)
    /\ epc' = [epc EXCEPT ![c] = "signal"]
    /\ UNCHANGED <<pendingShutdown, threads, events, signaled, itemsLock,
                   workerVars, ownerVars>>

SignalItem(c) ==
    /\ epc[c] = "signal"
    /\ signaled' = IF Len(items) = 1
                   THEN [signaled EXCEPT ![ITEM_ENQUEUED_NOTIFICATION_EVENT] = TRUE]
                   ELSE signaled
    /\ itemsLock' = NoOne
    /\ epc' = [epc EXCEPT ![c] = "accepted"]
    /\ UNCHANGED <<pendingShutdown, threads, events, items, workerVars,
                   ownerVars>>

\* The steps of a call that has been made.
EnqueueStep(c) ==
    \/ LockForEnqueue(c)
    \/ CheckPendingShutdown(c)
    \/ PushItem(c)
    \/ SignalItem(c)
-----------------------------------------------------------------------------
(***************************************************************************)
(* DoWork and GetWorkerItem.                                               *)
(***************************************************************************)

\* The condition of DoWork's first loop.
TestLoop(s) ==
    /\ dpc[s] = "loop"
    /\ draining' = [draining EXCEPT ![s] = pendingShutdown]
    /\ dpc' = [dpc EXCEPT ![s] = "lock"]
    /\ UNCHANGED <<poolVars, workerItem, completed, epc, ownerVars>>

LockForGet(s) ==
    /\ dpc[s] = "lock"
    /\ itemsLock = NoOne
    /\ itemsLock' = s
    /\ dpc' = [dpc EXCEPT ![s] = "take"]
    /\ UNCHANGED <<pendingShutdown, threads, events, signaled, items,
                   draining, workerItem, completed, epc, ownerVars>>

\* GetWorkerItem returns nullptr: the first loop waits, the second ends.
FindNoItem(s) ==
    /\ dpc[s] = "take"
    /\ items = << >>
    /\ itemsLock' = NoOne
    /\ dpc' = [dpc EXCEPT ![s] = IF draining[s] THEN "exited" ELSE "wait"]
    /\ UNCHANGED <<pendingShutdown, threads, events, signaled, items,
                   draining, workerItem, completed, epc, ownerVars>>

TakeItem(s) ==
    /\ dpc[s] = "take"
    /\ items # << >>
    /\ workerItem' = [workerItem EXCEPT ![s] = Head(items)]
    /\ items' = Tail(items)
    /\ dpc' = [dpc EXCEPT ![s] = "reset"]
    /\ UNCHANGED <<pendingShutdown, threads, events, signaled, itemsLock,
                   draining, completed, epc, ownerVars>>

ResetItemEvent(s) ==
    /\ dpc[s] = "reset"
    /\ signaled' = IF items = << >>
                   THEN [signaled EXCEPT ![ITEM_ENQUEUED_NOTIFICATION_EVENT] = FALSE]
                   ELSE signaled
    /\ itemsLock' = NoOne
    /\ dpc' = [dpc EXCEPT ![s] = "run"]
    /\ UNCHANGED <<pendingShutdown, threads, events, items, draining,
                   workerItem, completed, epc, ownerVars>>

\* The callback, which runs while dpc is "run", returns.
FinishItem(s) ==
    /\ dpc[s] = "run"
    /\ completed' = completed \cup {workerItem[s]}
    /\ workerItem' = [workerItem EXCEPT ![s] = NoOne]
    /\ dpc' = [dpc EXCEPT ![s] = IF draining[s] THEN "lock" ELSE "loop"]
    /\ UNCHANGED <<poolVars, draining, epc, ownerVars>>

\* WaitForMultipleObjects, any event, no timeout.
WakeUp(s) ==
    /\ dpc[s] = "wait"
    /\ \E e \in EventIds : signaled[e]
    /\ dpc' = [dpc EXCEPT ![s] = "loop"]
    /\ UNCHANGED <<poolVars, draining, workerItem, completed, epc, ownerVars>>

DoWork(s) ==
    \/ TestLoop(s)
    \/ LockForGet(s)
    \/ FindNoItem(s)
    \/ TakeItem(s)
    \/ ResetItemEvent(s)
    \/ FinishItem(s)
    \/ WakeUp(s)
-----------------------------------------------------------------------------
\* The object is gone and its threads have ended: nothing is left to happen.
Terminated ==
    /\ opc \in {"destroyed", "failed"}
    /\ UNCHANGED vars

Next ==
    \/ OwnerStep
    \/ BeginShutdown
    \/ BeginDestroy
    \/ \E c \in Calls : CallEnqueueItem(c) \/ EnqueueStep(c)
    \/ \E s \in Slots : DoWork(s)
    \/ Terminated

Spec == Init /\ [][Next]_vars

\* The scheduler runs every ready thread: a thread inside the pool's code
\* keeps going, and a callback returns.  Nobody is obliged to call anything.
Fairness ==
    /\ WF_vars(OwnerStep)
    /\ \A c \in Calls : WF_vars(EnqueueStep(c))
    /\ \A s \in Slots : WF_vars(DoWork(s))

FairSpec == Spec /\ Fairness
-----------------------------------------------------------------------------
(***************************************************************************)
(* Properties.                                                             *)
(***************************************************************************)

\* The variables keep their types.
TypeOK ==
    /\ pendingShutdown \in BOOLEAN
    /\ threads \in [Slots -> Handles]
    /\ events \in [EventIds -> Handles]
    /\ signaled \in [EventIds -> BOOLEAN]
    /\ items \in Seq(Calls)
    /\ itemsLock \in Slots \cup Calls \cup {NoOne}
    /\ dpc \in [Slots -> WorkerPcs]
    /\ draining \in [Slots -> BOOLEAN]
    /\ workerItem \in [Slots -> Calls \cup {NoOne}]
    /\ epc \in [Calls -> CallPcs]
    /\ opc \in OwnerPcs
    /\ goal \in Goals
    /\ completed \subseteq Calls

Queued(c) == \E i \in 1..Len(items) : items[i] = c
Held(c) == \E s \in Slots : workerItem[s] = c
Running == {workerItem[s] : s \in Slots} \ {NoOne}

\* WaitThreads has returned after pendingShutdown was set.
Closed == pendingShutdown /\ All(threads, "null")

(***************************************************************************)
(* Once Shutdown has waited for the threads, every call that EnqueueItem   *)
(* accepted, those that raced with Shutdown included, has had its callback *)
(* run, and no call is on its way to be accepted: the flag is written      *)
(* without the lock, but tested with it, and a worker leaves only after a  *)
(* look at the queue made under the lock and after the flag.               *)
(***************************************************************************)
ShutdownDrains ==
    Closed =>
      /\ items = << >>
      /\ Running = {}
      /\ \A c \in Calls : epc[c] \notin {"push", "signal"}
      /\ \A c \in Calls : epc[c] = "accepted" => c \in completed

(***************************************************************************)
(* The notification event tells the truth whenever nobody holds itemsLock: *)
(* it is set exactly when there are items.  A worker that waits on it then *)
(* neither sleeps on a full queue nor spins on an empty one, though it is  *)
(* set only by the first item and reset only by the last.                  *)
(***************************************************************************)
EventMatchesQueue ==
    itemsLock = NoOne =>
      (signaled[ITEM_ENQUEUED_NOTIFICATION_EVENT] <=> items # << >>)

(***************************************************************************)
(* No handle is used after DisposeEvents or CloseHandle, or before it was  *)
(* created, on any path, those where the constructor fails included: a     *)
(* wait, SetEvent or ResetEvent finds its events open, and a slot's handle *)
(* outlives its worker, so the object is not freed under a thread.         *)
(***************************************************************************)
HandlesOpenWhileUsed ==
    /\ opc = "signal" => events[TERMINATION_SIGNALED_EVENT] = "open"
    /\ \A c \in Calls :
         epc[c] = "signal" => events[ITEM_ENQUEUED_NOTIFICATION_EVENT] = "open"
    /\ \A s \in Slots :
         dpc[s] \notin {"none", "exited"} => threads[s] = "open" /\ All(events, "open")

(***************************************************************************)
(* An accepted item is always in exactly one place: once in the queue, in  *)
(* the hands of one worker, or completed.  Nothing else is in any of them. *)
(***************************************************************************)
ExactlyOnce ==
    /\ \A c \in Calls :
         /\ epc[c] \in {"signal", "accepted"} <=> (Queued(c) \/ Held(c) \/ c \in completed)
         /\ Queued(c) => ~Held(c)
         /\ c \in completed => ~Queued(c) /\ ~Held(c)
    /\ \A i, j \in 1..Len(items) : items[i] = items[j] => i = j
    /\ \A s, t \in Slots :
         workerItem[s] = workerItem[t] /\ workerItem[s] # NoOne => s = t

(***************************************************************************)
(* The pool behaves as a WorkQueue: items are begun in the order in which  *)
(* they were accepted, each once, and the pool closes only when drained.   *)
(***************************************************************************)
WQ == INSTANCE WorkQueue WITH
        phase <- IF ~pendingShutdown THEN "open"
                 ELSE IF All(threads, "null") THEN "closed" ELSE "closing",
        queue <- items,
        running <- Running,
        done <- completed

ImplementsWorkQueue == WQ!WQSpec

(***************************************************************************)
(* No wake-up is lost: an accepted item is run, whether or not the pool is *)
(* ever shut down.                                                         *)
(***************************************************************************)
EveryAcceptedRuns ==
    \A c \in Calls : epc[c] = "accepted" ~> c \in completed

(***************************************************************************)
(* Shutdown, wherever it is called from (the user, the destructor, a       *)
(* failing constructor), returns.                                          *)
(***************************************************************************)
ShutdownReturns ==
    opc = "flag" ~> opc \in {"ready", "destroyed", "failed"}
=============================================================================
