--------------------------- MODULE ThreadPoolProofs ---------------------------
(***************************************************************************)
(* Proofs, for any number of calls and workers, of the safety properties   *)
(* of ThreadPool and of the refinement of WorkQueue.                       *)
(***************************************************************************)
EXTENDS ThreadPool, TLAPS

ITEM == ITEM_ENQUEUED_NOTIFICATION_EVENT

(***************************************************************************)
(* The inductive invariant, in parts.                                      *)
(***************************************************************************)

\* itemsLock is held by the thread whose program counter says so.
LockInv ==
    /\ \A s \in Slots : dpc[s] \in {"take", "reset"} <=> itemsLock = s
    /\ \A c \in Calls : epc[c] \in {"check", "push", "signal"} <=> itemsLock = c

\* What the owner does determines what it does it for.
GoalInv ==
    /\ opc \in {"events", "threads"} <=> goal = "construct"
    /\ opc = "ready" <=> goal = "none"
    /\ goal = "construct" => ~pendingShutdown
    /\ opc \in {"dispose", "destroyed", "failed"} => goal \in {"destroy", "unwind"}
    /\ goal \in {"none", "shutdown", "destroy"} => \A s \in Slots : dpc[s] # "none"
    /\ \A c \in Calls :
         epc[c] # "idle" => goal \in {"none", "shutdown", "destroy"}
    /\ \A c \in Calls :
         epc[c] \in {"lock", "check", "push", "signal"} => goal # "destroy"

\* A worker has a handle, and while one has, the events exist.
HandleInv ==
    /\ \A s \in Slots : dpc[s] = "none" => threads[s] = "null"
    /\ \A s \in Slots : dpc[s] \notin {"none", "exited"} => threads[s] = "open"
    /\ opc = "events" => All(threads, "null")
    /\ opc \in {"dispose", "destroyed", "failed"} => All(threads, "null")
    /\ opc \in {"threads", "ready", "flag", "signal"} => All(events, "open")
    /\ goal \in {"none", "shutdown"} => All(events, "open")
    /\ All(threads, "null") \/ All(events, "open")

\* Who has left the first loop saw the flag; who has left the second left
\* an empty queue behind, to which nobody can add.
DrainInv ==
    /\ \A s \in Slots : draining[s] => pendingShutdown
    /\ \A s \in Slots : dpc[s] = "exited" => draining[s]
    /\ \A s \in Slots : dpc[s] = "exited" =>
         items = << >> /\ \A c \in Calls : epc[c] \notin {"push", "signal"}

\* The event and the queue, also while one of the two is being updated.
EventInv ==
    /\ \A c \in Calls : epc[c] = "signal" =>
         items # << >> /\ (signaled[ITEM] <=> Len(items) > 1)
    /\ \A s \in Slots : dpc[s] = "reset" => signaled[ITEM]
    /\ \/ \E c \in Calls : epc[c] = "signal"
       \/ \E s \in Slots : dpc[s] = "reset"
       \/ signaled[ITEM] <=> items # << >>

\* A worker holds an item exactly from the pop to the end of its callback.
HeldInv ==
    \A s \in Slots : workerItem[s] # NoOne <=> dpc[s] \in {"reset", "run"}

Inv ==
    /\ TypeOK
    /\ LockInv
    /\ GoalInv
    /\ HandleInv
    /\ DrainInv
    /\ EventInv
    /\ HeldInv
    /\ ExactlyOnce

\* There is at least one worker slot: the constructor's correction never
\* yields 0.
LEMMA SlotsAreNat == Slots \subseteq Nat /\ NoThreads \in Slots /\ 1 \in Slots
BY ConcurrencyAssumption DEF Slots, NoThreads

\* A worker starts in a slot that had none, and nothing else is disturbed.
LEMMA CreateThreadFacts ==
  ASSUME Inv, CreateThread
  PROVE  /\ \E s \in Slots : /\ dpc[s] = "none"
                            /\ dpc' \in {dpc, [dpc EXCEPT ![s] = "loop"]}
                            /\ threads' \in {threads, [threads EXCEPT ![s] = "open"]}
         /\ opc' \in {"threads", "ready", "flag"}
         /\ goal' \in {"construct", "none", "unwind"}
         /\ UNCHANGED <<pendingShutdown, events, signaled, items, itemsLock,
                        draining, workerItem, completed, epc>>
<1>1. PICK s \in Slots :
        /\ IsFirst(threads, "null", s)
        /\ \/ /\ threads' = [threads EXCEPT ![s] = "open"]
              /\ dpc' = [dpc EXCEPT ![s] = "loop"]
              /\ IF s = NoThreads
                 THEN opc' = "ready" /\ goal' = "none"
                 ELSE UNCHANGED ownerVars
           \/ opc' = "flag" /\ goal' = "unwind" /\ UNCHANGED <<threads, dpc>>
  BY DEF CreateThread
<1>2. threads[s] = "null" /\ opc = "threads"
  BY <1>1 DEF IsFirst, CreateThread
<1>3. dpc[s] = "none" /\ goal = "construct"
  BY <1>2 DEF Inv, TypeOK, GoalInv, HandleInv, DrainInv
<1> QED
  BY <1>1, <1>2, <1>3 DEF CreateThread, ownerVars

\* Every step keeps the types; FinishItem because a running worker has an
\* item.
LEMMA TypeOKStep == Inv /\ [Next]_vars => TypeOK'
<1> SUFFICES ASSUME Inv, [Next]_vars PROVE TypeOK'
  OBVIOUS
<1> USE ConcurrencyAssumption, SlotsAreNat
  DEF Inv, TypeOK, poolVars, workerVars, ownerVars, EventIds,
      TERMINATION_SIGNALED_EVENT, ITEM_ENQUEUED_NOTIFICATION_EVENT, ITEM,
      Handles, WorkerPcs, CallPcs, OwnerPcs, Goals, HeldInv
<1>1. CASE CreateEvent
  BY <1>1 DEF CreateEvent
<1>2. CASE CreateThread
  BY <1>2, CreateThreadFacts
<1>3. CASE BeginShutdown
  BY <1>3 DEF BeginShutdown
<1>4. CASE BeginDestroy
  BY <1>4 DEF BeginDestroy
<1>5. CASE SetPendingShutdown
  BY <1>5 DEF SetPendingShutdown
<1>6. CASE SignalTermination
  BY <1>6 DEF SignalTermination
<1>7. CASE WaitThread
  BY <1>7 DEF WaitThread
<1>8. CASE EndWait
  BY <1>8 DEF EndWait
<1>9. CASE DisposeEvent
  BY <1>9 DEF DisposeEvent
<1>10. CASE EndDispose
  BY <1>10 DEF EndDispose
<1>11. ASSUME NEW c \in Calls, CallEnqueueItem(c) PROVE TypeOK'
  BY <1>11 DEF CallEnqueueItem
<1>12. ASSUME NEW c \in Calls, LockForEnqueue(c) PROVE TypeOK'
  BY <1>12 DEF LockForEnqueue
<1>13. ASSUME NEW c \in Calls, CheckPendingShutdown(c) PROVE TypeOK'
  BY <1>13 DEF CheckPendingShutdown
<1>14. ASSUME NEW c \in Calls, PushItem(c) PROVE TypeOK'
  BY <1>14 DEF PushItem
<1>15. ASSUME NEW c \in Calls, SignalItem(c) PROVE TypeOK'
  BY <1>15 DEF SignalItem
<1>16. ASSUME NEW s \in Slots, TestLoop(s) PROVE TypeOK'
  BY <1>16 DEF TestLoop
<1>17. ASSUME NEW s \in Slots, LockForGet(s) PROVE TypeOK'
  BY <1>17 DEF LockForGet
<1>18. ASSUME NEW s \in Slots, FindNoItem(s) PROVE TypeOK'
  BY <1>18 DEF FindNoItem
<1>19. ASSUME NEW s \in Slots, TakeItem(s) PROVE TypeOK'
  BY <1>19 DEF TakeItem
<1>20. ASSUME NEW s \in Slots, ResetItemEvent(s) PROVE TypeOK'
  BY <1>20 DEF ResetItemEvent
<1>21. ASSUME NEW s \in Slots, FinishItem(s) PROVE TypeOK'
  BY <1>21 DEF FinishItem
<1>22. ASSUME NEW s \in Slots, WakeUp(s) PROVE TypeOK'
  BY <1>22 DEF WakeUp
<1>23. CASE UNCHANGED vars
  BY <1>23 DEF vars
<1> QED
  BY <1>1, <1>2, <1>3, <1>4, <1>5, <1>6, <1>7, <1>8, <1>9, <1>10, <1>11,
     <1>12, <1>13, <1>14, <1>15, <1>16, <1>17, <1>18, <1>19, <1>20, <1>21,
     <1>22, <1>23 DEF Next, OwnerStep, EnqueueStep, DoWork, Terminated

\* Every step keeps HeldInv: GetWorkerItem hands out an item with the pc
\* that runs it.
LEMMA HeldStep == Inv /\ [Next]_vars => HeldInv'
<1> SUFFICES ASSUME Inv, [Next]_vars PROVE HeldInv'
  OBVIOUS
<1> USE ConcurrencyAssumption, SlotsAreNat
  DEF Inv, HeldInv, poolVars, workerVars, ownerVars, TypeOK
<1>1. CASE CreateEvent
  BY <1>1 DEF CreateEvent
<1>2. CASE CreateThread
  BY <1>2, CreateThreadFacts
<1>3. CASE BeginShutdown
  BY <1>3 DEF BeginShutdown
<1>4. CASE BeginDestroy
  BY <1>4 DEF BeginDestroy
<1>5. CASE SetPendingShutdown
  BY <1>5 DEF SetPendingShutdown
<1>6. CASE SignalTermination
  BY <1>6 DEF SignalTermination
<1>7. CASE WaitThread
  BY <1>7 DEF WaitThread
<1>8. CASE EndWait
  BY <1>8 DEF EndWait
<1>9. CASE DisposeEvent
  BY <1>9 DEF DisposeEvent
<1>10. CASE EndDispose
  BY <1>10 DEF EndDispose
<1>11. ASSUME NEW c \in Calls, CallEnqueueItem(c) PROVE HeldInv'
  BY <1>11 DEF CallEnqueueItem
<1>12. ASSUME NEW c \in Calls, LockForEnqueue(c) PROVE HeldInv'
  BY <1>12 DEF LockForEnqueue
<1>13. ASSUME NEW c \in Calls, CheckPendingShutdown(c) PROVE HeldInv'
  BY <1>13 DEF CheckPendingShutdown
<1>14. ASSUME NEW c \in Calls, PushItem(c) PROVE HeldInv'
  BY <1>14 DEF PushItem
<1>15. ASSUME NEW c \in Calls, SignalItem(c) PROVE HeldInv'
  BY <1>15 DEF SignalItem
<1>16. ASSUME NEW s \in Slots, TestLoop(s) PROVE HeldInv'
  BY <1>16 DEF TestLoop
<1>17. ASSUME NEW s \in Slots, LockForGet(s) PROVE HeldInv'
  BY <1>17 DEF LockForGet
<1>18. ASSUME NEW s \in Slots, FindNoItem(s) PROVE HeldInv'
  BY <1>18 DEF FindNoItem
<1>19. ASSUME NEW s \in Slots, TakeItem(s) PROVE HeldInv'
  BY <1>19 DEF TakeItem
<1>20. ASSUME NEW s \in Slots, ResetItemEvent(s) PROVE HeldInv'
  BY <1>20 DEF ResetItemEvent
<1>21. ASSUME NEW s \in Slots, FinishItem(s) PROVE HeldInv'
  BY <1>21 DEF FinishItem
<1>22. ASSUME NEW s \in Slots, WakeUp(s) PROVE HeldInv'
  BY <1>22 DEF WakeUp
<1>23. CASE UNCHANGED vars
  BY <1>23 DEF vars
<1> QED
  BY <1>1, <1>2, <1>3, <1>4, <1>5, <1>6, <1>7, <1>8, <1>9, <1>10, <1>11,
     <1>12, <1>13, <1>14, <1>15, <1>16, <1>17, <1>18, <1>19, <1>20, <1>21,
     <1>22, <1>23 DEF Next, OwnerStep, EnqueueStep, DoWork, Terminated

\* Every step keeps LockInv: itemsLock is taken and left with its
\* lock_guard.
LEMMA LockStep == Inv /\ [Next]_vars => LockInv'
<1> SUFFICES ASSUME Inv, [Next]_vars PROVE LockInv'
  OBVIOUS
<1> USE ConcurrencyAssumption, SlotsAreNat
  DEF Inv, LockInv, poolVars, workerVars, ownerVars, TypeOK
<1>1. CASE CreateEvent
  BY <1>1 DEF CreateEvent
<1>2. CASE CreateThread
  BY <1>2, CreateThreadFacts
<1>3. CASE BeginShutdown
  BY <1>3 DEF BeginShutdown
<1>4. CASE BeginDestroy
  BY <1>4 DEF BeginDestroy
<1>5. CASE SetPendingShutdown
  BY <1>5 DEF SetPendingShutdown
<1>6. CASE SignalTermination
  <2>1. UNCHANGED <<dpc, epc, itemsLock>>
    BY <1>6 DEF SignalTermination
  <2> QED BY <2>1
<1>7. CASE WaitThread
  BY <1>7 DEF WaitThread
<1>8. CASE EndWait
  BY <1>8 DEF EndWait
<1>9. CASE DisposeEvent
  BY <1>9 DEF DisposeEvent
<1>10. CASE EndDispose
  BY <1>10 DEF EndDispose
<1>11. ASSUME NEW c \in Calls, CallEnqueueItem(c) PROVE LockInv'
  BY <1>11 DEF CallEnqueueItem
<1>12. ASSUME NEW c \in Calls, LockForEnqueue(c) PROVE LockInv'
  BY <1>12 DEF LockForEnqueue
<1>13. ASSUME NEW c \in Calls, CheckPendingShutdown(c) PROVE LockInv'
  BY <1>13 DEF CheckPendingShutdown
<1>14. ASSUME NEW c \in Calls, PushItem(c) PROVE LockInv'
  BY <1>14 DEF PushItem
<1>15. ASSUME NEW c \in Calls, SignalItem(c) PROVE LockInv'
  BY <1>15 DEF SignalItem
<1>16. ASSUME NEW s \in Slots, TestLoop(s) PROVE LockInv'
  BY <1>16 DEF TestLoop
<1>17. ASSUME NEW s \in Slots, LockForGet(s) PROVE LockInv'
  BY <1>17 DEF LockForGet
<1>18. ASSUME NEW s \in Slots, FindNoItem(s) PROVE LockInv'
  BY <1>18 DEF FindNoItem
<1>19. ASSUME NEW s \in Slots, TakeItem(s) PROVE LockInv'
  BY <1>19 DEF TakeItem
<1>20. ASSUME NEW s \in Slots, ResetItemEvent(s) PROVE LockInv'
  BY <1>20 DEF ResetItemEvent
<1>21. ASSUME NEW s \in Slots, FinishItem(s) PROVE LockInv'
  BY <1>21 DEF FinishItem
<1>22. ASSUME NEW s \in Slots, WakeUp(s) PROVE LockInv'
  BY <1>22 DEF WakeUp
<1>23. CASE UNCHANGED vars
  BY <1>23 DEF vars
<1> QED
  BY <1>1, <1>2, <1>3, <1>4, <1>5, <1>6, <1>7, <1>8, <1>9, <1>10, <1>11,
     <1>12, <1>13, <1>14, <1>15, <1>16, <1>17, <1>18, <1>19, <1>20, <1>21,
     <1>22, <1>23 DEF Next, OwnerStep, EnqueueStep, DoWork, Terminated

\* Every step keeps GoalInv: the owner's path through constructor, Shutdown,
\* destructor.
LEMMA GoalStep == Inv /\ [Next]_vars => GoalInv'
<1> SUFFICES ASSUME Inv, [Next]_vars PROVE GoalInv'
  OBVIOUS
<1> USE ConcurrencyAssumption, SlotsAreNat
  DEF Inv, GoalInv, poolVars, workerVars, ownerVars, TypeOK, Usable,
      HandleInv, IsFirst
<1>1. CASE CreateEvent
  BY <1>1 DEF CreateEvent
<1>2. CASE CreateThread
  <2>1. PICK s \in Slots :
          /\ IsFirst(threads, "null", s)
          /\ \/ /\ dpc' = [dpc EXCEPT ![s] = "loop"]
                /\ IF s = NoThreads
                   THEN opc' = "ready" /\ goal' = "none"
                   ELSE UNCHANGED ownerVars
             \/ opc' = "flag" /\ goal' = "unwind" /\ dpc' = dpc
    BY <1>2 DEF CreateThread
  <2>2. goal = "construct" /\ UNCHANGED <<pendingShutdown, epc>>
    BY <1>2 DEF CreateThread
  <2>3. ASSUME goal' = "none" PROVE \A t \in Slots : dpc'[t] # "none"
    <3>1. s = NoThreads /\ dpc' = [dpc EXCEPT ![s] = "loop"]
      BY <2>1, <2>2, <2>3
    <3>2. \A t \in Slots : t # s => t < s
      BY <3>1 DEF Slots, NoThreads
    <3>3. \A t \in Slots : t # s => threads[t] # "null"
      BY <3>2, <2>1
    <3> QED BY <3>1, <3>3
  <2> QED BY <2>1, <2>2, <2>3, <1>2 DEF CreateThread
<1>3. CASE BeginShutdown
  BY <1>3 DEF BeginShutdown
<1>4. CASE BeginDestroy
  BY <1>4 DEF BeginDestroy
<1>5. CASE SetPendingShutdown
  BY <1>5 DEF SetPendingShutdown
<1>6. CASE SignalTermination
  BY <1>6 DEF SignalTermination
<1>7. CASE WaitThread
  BY <1>7 DEF WaitThread
<1>8. CASE EndWait
  BY <1>8 DEF EndWait, Goals
<1>9. CASE DisposeEvent
  BY <1>9 DEF DisposeEvent
<1>10. CASE EndDispose
  BY <1>10 DEF EndDispose
<1>11. ASSUME NEW c \in Calls, CallEnqueueItem(c) PROVE GoalInv'
  BY <1>11 DEF CallEnqueueItem
<1>12. ASSUME NEW c \in Calls, LockForEnqueue(c) PROVE GoalInv'
  BY <1>12 DEF LockForEnqueue
<1>13. ASSUME NEW c \in Calls, CheckPendingShutdown(c) PROVE GoalInv'
  BY <1>13 DEF CheckPendingShutdown
<1>14. ASSUME NEW c \in Calls, PushItem(c) PROVE GoalInv'
  BY <1>14 DEF PushItem
<1>15. ASSUME NEW c \in Calls, SignalItem(c) PROVE GoalInv'
  BY <1>15 DEF SignalItem
<1>16. ASSUME NEW s \in Slots, TestLoop(s) PROVE GoalInv'
  BY <1>16 DEF TestLoop
<1>17. ASSUME NEW s \in Slots, LockForGet(s) PROVE GoalInv'
  BY <1>17 DEF LockForGet
<1>18. ASSUME NEW s \in Slots, FindNoItem(s) PROVE GoalInv'
  BY <1>18 DEF FindNoItem
<1>19. ASSUME NEW s \in Slots, TakeItem(s) PROVE GoalInv'
  BY <1>19 DEF TakeItem
<1>20. ASSUME NEW s \in Slots, ResetItemEvent(s) PROVE GoalInv'
  BY <1>20 DEF ResetItemEvent
<1>21. ASSUME NEW s \in Slots, FinishItem(s) PROVE GoalInv'
  BY <1>21 DEF FinishItem
<1>22. ASSUME NEW s \in Slots, WakeUp(s) PROVE GoalInv'
  BY <1>22 DEF WakeUp
<1>23. CASE UNCHANGED vars
  BY <1>23 DEF vars
<1> QED
  BY <1>1, <1>2, <1>3, <1>4, <1>5, <1>6, <1>7, <1>8, <1>9, <1>10, <1>11,
     <1>12, <1>13, <1>14, <1>15, <1>16, <1>17, <1>18, <1>19, <1>20, <1>21,
     <1>22, <1>23 DEF Next, OwnerStep, EnqueueStep, DoWork, Terminated

\* Every step keeps EventInv: set by the first item in, reset by the last
\* item out.
LEMMA EventStep == Inv /\ [Next]_vars => EventInv'
<1> SUFFICES ASSUME Inv, [Next]_vars PROVE EventInv'
  OBVIOUS
<1> USE ConcurrencyAssumption, SlotsAreNat
  DEF Inv, EventInv, poolVars, workerVars, ownerVars, EventIds,
      TERMINATION_SIGNALED_EVENT, ITEM_ENQUEUED_NOTIFICATION_EVENT, ITEM,
      TypeOK, LockInv
<1>1. CASE CreateEvent
  BY <1>1 DEF CreateEvent
<1>2. CASE CreateThread
  BY <1>2, CreateThreadFacts
<1>3. CASE BeginShutdown
  BY <1>3 DEF BeginShutdown
<1>4. CASE BeginDestroy
  BY <1>4 DEF BeginDestroy
<1>5. CASE SetPendingShutdown
  BY <1>5 DEF SetPendingShutdown
<1>6. CASE SignalTermination
  BY <1>6 DEF SignalTermination
<1>7. CASE WaitThread
  BY <1>7 DEF WaitThread
<1>8. CASE EndWait
  BY <1>8 DEF EndWait
<1>9. CASE DisposeEvent
  BY <1>9 DEF DisposeEvent
<1>10. CASE EndDispose
  BY <1>10 DEF EndDispose
<1>11. ASSUME NEW c \in Calls, CallEnqueueItem(c) PROVE EventInv'
  BY <1>11 DEF CallEnqueueItem
<1>12. ASSUME NEW c \in Calls, LockForEnqueue(c) PROVE EventInv'
  BY <1>12 DEF LockForEnqueue
<1>13. ASSUME NEW c \in Calls, CheckPendingShutdown(c) PROVE EventInv'
  BY <1>13 DEF CheckPendingShutdown
<1>14. ASSUME NEW c \in Calls, PushItem(c) PROVE EventInv'
  <2>1. items \in Seq(Calls) /\ items' = Append(items, c) /\ signaled' = signaled
    BY <1>14 DEF PushItem
  <2>2. Len(items') = Len(items) + 1 /\ Len(items) \in Nat /\ items' # << >>
    BY <2>1
  <2>3. itemsLock = c /\ epc[c] = "push"
    BY <1>14 DEF PushItem
  <2>4. /\ \A d \in Calls : epc[d] # "signal"
        /\ \A s \in Slots : dpc[s] # "reset"
    BY <2>3, SlotsAreNat
  <2>5. signaled[ITEM] <=> items # << >>
    BY <2>4
  <2>6. signaled'[ITEM] <=> Len(items') > 1
    BY <2>1, <2>2, <2>5
  <2> QED BY <2>2, <2>4, <2>6, <1>14 DEF PushItem
<1>15. ASSUME NEW c \in Calls, SignalItem(c) PROVE EventInv'
  BY <1>15 DEF SignalItem
<1>16. ASSUME NEW s \in Slots, TestLoop(s) PROVE EventInv'
  BY <1>16 DEF TestLoop
<1>17. ASSUME NEW s \in Slots, LockForGet(s) PROVE EventInv'
  BY <1>17 DEF LockForGet
<1>18. ASSUME NEW s \in Slots, FindNoItem(s) PROVE EventInv'
  BY <1>18 DEF FindNoItem
<1>19. ASSUME NEW s \in Slots, TakeItem(s) PROVE EventInv'
  <2>1. itemsLock = s /\ dpc[s] = "take" /\ items # << >> /\ signaled' = signaled
    BY <1>19 DEF TakeItem
  <2>2. /\ \A d \in Calls : epc[d] # "signal"
        /\ \A t \in Slots : dpc[t] # "reset"
    BY <2>1, SlotsAreNat
  <2>3. signaled'[ITEM]
    BY <2>1, <2>2
  <2> QED BY <2>2, <2>3, <1>19 DEF TakeItem
<1>20. ASSUME NEW s \in Slots, ResetItemEvent(s) PROVE EventInv'
  BY <1>20 DEF ResetItemEvent
<1>21. ASSUME NEW s \in Slots, FinishItem(s) PROVE EventInv'
  BY <1>21 DEF FinishItem
<1>22. ASSUME NEW s \in Slots, WakeUp(s) PROVE EventInv'
  BY <1>22 DEF WakeUp
<1>23. CASE UNCHANGED vars
  BY <1>23 DEF vars
<1> QED
  BY <1>1, <1>2, <1>3, <1>4, <1>5, <1>6, <1>7, <1>8, <1>9, <1>10, <1>11,
     <1>12, <1>13, <1>14, <1>15, <1>16, <1>17, <1>18, <1>19, <1>20, <1>21,
     <1>22, <1>23 DEF Next, OwnerStep, EnqueueStep, DoWork, Terminated

\* Every step keeps ExactlyOnce: an item moves from queue to worker to
\* completed.
LEMMA ExactlyOnceStep == Inv /\ [Next]_vars => ExactlyOnce'
<1> SUFFICES ASSUME Inv, [Next]_vars PROVE ExactlyOnce'
  OBVIOUS
<1> USE ConcurrencyAssumption, SlotsAreNat
  DEF Inv, ExactlyOnce, poolVars, workerVars, ownerVars, TypeOK, Queued,
      Held
<1>1. CASE CreateEvent
  BY <1>1 DEF CreateEvent
<1>2. CASE CreateThread
  BY <1>2, CreateThreadFacts
<1>3. CASE BeginShutdown
  BY <1>3 DEF BeginShutdown
<1>4. CASE BeginDestroy
  BY <1>4 DEF BeginDestroy
<1>5. CASE SetPendingShutdown
  BY <1>5 DEF SetPendingShutdown
<1>6. CASE SignalTermination
  BY <1>6 DEF SignalTermination
<1>7. CASE WaitThread
  BY <1>7 DEF WaitThread
<1>8. CASE EndWait
  BY <1>8 DEF EndWait
<1>9. CASE DisposeEvent
  BY <1>9 DEF DisposeEvent
<1>10. CASE EndDispose
  BY <1>10 DEF EndDispose
<1>11. ASSUME NEW c \in Calls, CallEnqueueItem(c) PROVE ExactlyOnce'
  BY <1>11 DEF CallEnqueueItem
<1>12. ASSUME NEW c \in Calls, LockForEnqueue(c) PROVE ExactlyOnce'
  BY <1>12 DEF LockForEnqueue
<1>13. ASSUME NEW c \in Calls, CheckPendingShutdown(c) PROVE ExactlyOnce'
  BY <1>13 DEF CheckPendingShutdown
<1>14. ASSUME NEW c \in Calls, PushItem(c) PROVE ExactlyOnce'
  <2>1. c \notin completed /\ ~Queued(c) /\ ~Held(c)
    BY <1>14 DEF PushItem
  <2>2. items' = Append(items, c) /\ Len(items') = Len(items) + 1
    BY <1>14 DEF PushItem
  <2>3. /\ \A i \in 1..Len(items) : items'[i] = items[i]
        /\ items'[Len(items) + 1] = c
    BY <2>2
  <2>4. \A d \in Calls : Queued(d)' <=> Queued(d) \/ d = c
    BY <2>2, <2>3
  <2>5. \A i, j \in 1..Len(items') : items'[i] = items'[j] => i = j
    BY <2>1, <2>2, <2>3
  <2>6. workerItem' = workerItem /\ completed' = completed /\ epc' = [epc EXCEPT ![c] = "signal"]
    BY <1>14 DEF PushItem
  <2>7. \A d \in Calls : Held(d)' <=> Held(d)
    BY <2>6
  <2>8. \A d \in Calls : epc'[d] \in {"signal", "accepted"} <=> epc[d] \in {"signal", "accepted"} \/ d = c
    BY <2>6
  <2>9. \A d \in Calls : epc'[d] \in {"signal", "accepted"} <=> (Queued(d)' \/ Held(d)' \/ d \in completed')
    BY <2>4, <2>6, <2>7, <2>8
  <2> QED BY <2>1, <2>4, <2>5, <2>6, <2>7, <2>9
<1>15. ASSUME NEW c \in Calls, SignalItem(c) PROVE ExactlyOnce'
  BY <1>15 DEF SignalItem
<1>16. ASSUME NEW s \in Slots, TestLoop(s) PROVE ExactlyOnce'
  BY <1>16 DEF TestLoop
<1>17. ASSUME NEW s \in Slots, LockForGet(s) PROVE ExactlyOnce'
  BY <1>17 DEF LockForGet
<1>18. ASSUME NEW s \in Slots, FindNoItem(s) PROVE ExactlyOnce'
  BY <1>18 DEF FindNoItem
<1>19. ASSUME NEW s \in Slots, TakeItem(s) PROVE ExactlyOnce'
  <2> DEFINE h == Head(items)
  <2>1. items # << >> /\ items' = Tail(items) /\ h = items[1]
        /\ Len(items') = Len(items) - 1 /\ Len(items) \in Nat \ {0} /\ h \in Calls
    BY <1>19 DEF TakeItem
  <2>2. \A i \in 1..Len(items') : items'[i] = items[i + 1]
    BY <2>1
  <2>3. workerItem' = [workerItem EXCEPT ![s] = h] /\ workerItem[s] = NoOne
    BY <1>19 DEF TakeItem, HeldInv
  <2>4. Queued(h) /\ ~Held(h) /\ h \notin completed
    BY <2>1
  <2>5. ASSUME NEW d \in Calls PROVE Queued(d)' <=> Queued(d) /\ d # h
    <3>1. ASSUME Queued(d)' PROVE Queued(d) /\ d # h
      <4>1. PICK i \in 1..Len(items') : items'[i] = d
        BY <3>1
      <4>2. i + 1 \in 1..Len(items) /\ items[i + 1] = d /\ i + 1 # 1 /\ 1 \in 1..Len(items)
        BY <4>1, <2>1, <2>2
      <4> QED BY <4>2, <2>1
    <3>2. ASSUME Queued(d), d # h PROVE Queued(d)'
      <4>1. PICK i \in 1..Len(items) : items[i] = d
        BY <3>2
      <4>2. i # 1
        BY <4>1, <3>2, <2>1
      <4>3. i - 1 \in 1..Len(items') /\ (i - 1) + 1 = i
        BY <4>1, <4>2, <2>1
      <4>4. items'[i - 1] = d
        BY <4>1, <4>3, <2>2
      <4> QED BY <4>3, <4>4
    <3> QED BY <3>1, <3>2
  <2>6. \A d \in Calls : Held(d)' <=> Held(d) \/ d = h
    BY <2>3, <2>1
  <2>7. ASSUME NEW i \in 1..Len(items'), NEW j \in 1..Len(items'), items'[i] = items'[j]
        PROVE  i = j
    <3>1. i + 1 \in 1..Len(items) /\ j + 1 \in 1..Len(items) /\ items[i + 1] = items[j + 1]
      BY <2>7, <2>1, <2>2
    <3>2. i + 1 = j + 1
      BY <3>1
    <3> QED BY <3>2
  <2>8. completed' = completed /\ epc' = epc
    BY <1>19 DEF TakeItem
  <2>9. \A t, u \in Slots : workerItem'[t] = workerItem'[u] /\ workerItem'[t] # NoOne => t = u
    BY <2>3, <2>4
  <2> QED BY <2>4, <2>5, <2>6, <2>7, <2>8, <2>9
<1>20. ASSUME NEW s \in Slots, ResetItemEvent(s) PROVE ExactlyOnce'
  BY <1>20 DEF ResetItemEvent
<1>21. ASSUME NEW s \in Slots, FinishItem(s) PROVE ExactlyOnce'
  <2> DEFINE w == workerItem[s]
  <2>1. w \in Calls
    BY <1>21 DEF FinishItem, HeldInv
  <2>2. workerItem' = [workerItem EXCEPT ![s] = NoOne] /\ completed' = completed \cup {w}
        /\ items' = items /\ epc' = epc
    BY <1>21 DEF FinishItem
  <2>3. \A d \in Calls : Held(d)' <=> Held(d) /\ d # w
    BY <2>1, <2>2
  <2>4. \A d \in Calls : Queued(d)' <=> Queued(d)
    BY <2>2
  <2>5. Held(w) /\ ~Queued(w)
    BY <2>1
  <2>6. \A t, u \in Slots : workerItem'[t] = workerItem'[u] /\ workerItem'[t] # NoOne => t = u
    BY <2>2
  <2> QED BY <2>1, <2>2, <2>3, <2>4, <2>5, <2>6
<1>22. ASSUME NEW s \in Slots, WakeUp(s) PROVE ExactlyOnce'
  BY <1>22 DEF WakeUp
<1>23. CASE UNCHANGED vars
  BY <1>23 DEF vars
<1> QED
  BY <1>1, <1>2, <1>3, <1>4, <1>5, <1>6, <1>7, <1>8, <1>9, <1>10, <1>11,
     <1>12, <1>13, <1>14, <1>15, <1>16, <1>17, <1>18, <1>19, <1>20, <1>21,
     <1>22, <1>23 DEF Next, OwnerStep, EnqueueStep, DoWork, Terminated

\* Every step keeps HandleInv: handles are closed only behind the wait for
\* the threads.
LEMMA HandleStep == Inv /\ [Next]_vars => HandleInv'
<1> SUFFICES ASSUME Inv, [Next]_vars PROVE HandleInv'
  OBVIOUS
<1> USE ConcurrencyAssumption, SlotsAreNat
  DEF Inv, HandleInv, poolVars, workerVars, ownerVars, EventIds,
      TERMINATION_SIGNALED_EVENT, ITEM_ENQUEUED_NOTIFICATION_EVENT, ITEM,
      TypeOK, GoalInv, All, IsFirst
<1>1. CASE CreateEvent
  <2>1. PICK e \in EventIds :
          /\ IsFirst(events, "null", e)
          /\ \/ /\ events' = [events EXCEPT ![e] = "open"]
                /\ opc' = IF e = ITEM THEN "threads" ELSE "events"
                /\ goal' = goal
             \/ opc' = "wait" /\ goal' = "unwind" /\ events' = events
    BY <1>1 DEF CreateEvent
  <2>2. opc' = "threads" => All(events, "open")'
    <3>1. SUFFICES ASSUME opc' = "threads" PROVE All(events, "open")'
      OBVIOUS
    <3>2. e = 1 /\ events' = [events EXCEPT ![1] = "open"]
      BY <2>1, <3>1
    <3>3. events[0] = "open"
      BY <2>1, <3>2 DEF Handles
    <3> QED BY <3>2, <3>3
  <2>3. UNCHANGED <<threads, dpc>> /\ opc = "events" /\ goal = "construct"
    BY <1>1 DEF CreateEvent
  <2>4. All(threads, "null")' /\ opc' \in {"events", "threads", "wait"} /\ goal' \in {"construct", "unwind"}
    BY <2>1, <2>3
  <2> QED BY <2>2, <2>3, <2>4
<1>2. CASE CreateThread
  BY <1>2 DEF CreateThread
<1>3. CASE BeginShutdown
  BY <1>3 DEF BeginShutdown
<1>4. CASE BeginDestroy
  BY <1>4 DEF BeginDestroy
<1>5. CASE SetPendingShutdown
  BY <1>5 DEF SetPendingShutdown
<1>6. CASE SignalTermination
  BY <1>6 DEF SignalTermination
<1>7. CASE WaitThread
  BY <1>7 DEF WaitThread
<1>8. CASE EndWait
  BY <1>8 DEF EndWait
<1>9. CASE DisposeEvent
  BY <1>9 DEF DisposeEvent
<1>10. CASE EndDispose
  BY <1>10 DEF EndDispose
<1>11. ASSUME NEW c \in Calls, CallEnqueueItem(c) PROVE HandleInv'
  BY <1>11 DEF CallEnqueueItem
<1>12. ASSUME NEW c \in Calls, LockForEnqueue(c) PROVE HandleInv'
  BY <1>12 DEF LockForEnqueue
<1>13. ASSUME NEW c \in Calls, CheckPendingShutdown(c) PROVE HandleInv'
  BY <1>13 DEF CheckPendingShutdown
<1>14. ASSUME NEW c \in Calls, PushItem(c) PROVE HandleInv'
  BY <1>14 DEF PushItem
<1>15. ASSUME NEW c \in Calls, SignalItem(c) PROVE HandleInv'
  BY <1>15 DEF SignalItem
<1>16. ASSUME NEW s \in Slots, TestLoop(s) PROVE HandleInv'
  BY <1>16 DEF TestLoop
<1>17. ASSUME NEW s \in Slots, LockForGet(s) PROVE HandleInv'
  BY <1>17 DEF LockForGet
<1>18. ASSUME NEW s \in Slots, FindNoItem(s) PROVE HandleInv'
  BY <1>18 DEF FindNoItem
<1>19. ASSUME NEW s \in Slots, TakeItem(s) PROVE HandleInv'
  BY <1>19 DEF TakeItem
<1>20. ASSUME NEW s \in Slots, ResetItemEvent(s) PROVE HandleInv'
  BY <1>20 DEF ResetItemEvent
<1>21. ASSUME NEW s \in Slots, FinishItem(s) PROVE HandleInv'
  BY <1>21 DEF FinishItem
<1>22. ASSUME NEW s \in Slots, WakeUp(s) PROVE HandleInv'
  BY <1>22 DEF WakeUp
<1>23. CASE UNCHANGED vars
  BY <1>23 DEF vars
<1> QED
  BY <1>1, <1>2, <1>3, <1>4, <1>5, <1>6, <1>7, <1>8, <1>9, <1>10, <1>11,
     <1>12, <1>13, <1>14, <1>15, <1>16, <1>17, <1>18, <1>19, <1>20, <1>21,
     <1>22, <1>23 DEF Next, OwnerStep, EnqueueStep, DoWork, Terminated

\* Every step keeps DrainInv: a worker's last look at the queue is final.
LEMMA DrainStep == Inv /\ [Next]_vars => DrainInv'
<1> SUFFICES ASSUME Inv, [Next]_vars PROVE DrainInv'
  OBVIOUS
<1> USE ConcurrencyAssumption, SlotsAreNat
  DEF Inv, DrainInv, poolVars, workerVars, ownerVars, TypeOK, LockInv,
      GoalInv
<1>1. CASE CreateEvent
  BY <1>1 DEF CreateEvent
<1>2. CASE CreateThread
  BY <1>2, CreateThreadFacts
<1>3. CASE BeginShutdown
  BY <1>3 DEF BeginShutdown
<1>4. CASE BeginDestroy
  BY <1>4 DEF BeginDestroy
<1>5. CASE SetPendingShutdown
  BY <1>5 DEF SetPendingShutdown
<1>6. CASE SignalTermination
  BY <1>6 DEF SignalTermination
<1>7. CASE WaitThread
  BY <1>7 DEF WaitThread
<1>8. CASE EndWait
  BY <1>8 DEF EndWait
<1>9. CASE DisposeEvent
  BY <1>9 DEF DisposeEvent
<1>10. CASE EndDispose
  BY <1>10 DEF EndDispose
<1>11. ASSUME NEW c \in Calls, CallEnqueueItem(c) PROVE DrainInv'
  BY <1>11 DEF CallEnqueueItem
<1>12. ASSUME NEW c \in Calls, LockForEnqueue(c) PROVE DrainInv'
  BY <1>12 DEF LockForEnqueue
<1>13. ASSUME NEW c \in Calls, CheckPendingShutdown(c) PROVE DrainInv'
  BY <1>13 DEF CheckPendingShutdown
<1>14. ASSUME NEW c \in Calls, PushItem(c) PROVE DrainInv'
  BY <1>14 DEF PushItem
<1>15. ASSUME NEW c \in Calls, SignalItem(c) PROVE DrainInv'
  BY <1>15 DEF SignalItem
<1>16. ASSUME NEW s \in Slots, TestLoop(s) PROVE DrainInv'
  BY <1>16 DEF TestLoop
<1>17. ASSUME NEW s \in Slots, LockForGet(s) PROVE DrainInv'
  BY <1>17 DEF LockForGet
<1>18. ASSUME NEW s \in Slots, FindNoItem(s) PROVE DrainInv'
  BY <1>18 DEF FindNoItem
<1>19. ASSUME NEW s \in Slots, TakeItem(s) PROVE DrainInv'
  BY <1>19 DEF TakeItem
<1>20. ASSUME NEW s \in Slots, ResetItemEvent(s) PROVE DrainInv'
  BY <1>20 DEF ResetItemEvent
<1>21. ASSUME NEW s \in Slots, FinishItem(s) PROVE DrainInv'
  BY <1>21 DEF FinishItem
<1>22. ASSUME NEW s \in Slots, WakeUp(s) PROVE DrainInv'
  BY <1>22 DEF WakeUp
<1>23. CASE UNCHANGED vars
  BY <1>23 DEF vars
<1> QED
  BY <1>1, <1>2, <1>3, <1>4, <1>5, <1>6, <1>7, <1>8, <1>9, <1>10, <1>11,
     <1>12, <1>13, <1>14, <1>15, <1>16, <1>17, <1>18, <1>19, <1>20, <1>21,
     <1>22, <1>23 DEF Next, OwnerStep, EnqueueStep, DoWork, Terminated

\* The constructor starts in Inv.
LEMMA InvInit == Init => Inv
<1> SUFFICES ASSUME Init PROVE Inv
  OBVIOUS
<1> USE ConcurrencyAssumption, SlotsAreNat DEF Init
<1>1. TypeOK
  <2>1. items \in Seq(Calls) /\ completed \subseteq Calls
    OBVIOUS
  <2>2. /\ threads \in [Slots -> Handles] /\ events \in [EventIds -> Handles]
        /\ signaled \in [EventIds -> BOOLEAN] /\ draining \in [Slots -> BOOLEAN]
    BY DEF Handles
  <2>3. /\ dpc \in [Slots -> WorkerPcs] /\ epc \in [Calls -> CallPcs]
        /\ workerItem \in [Slots -> Calls \cup {NoOne}]
    BY DEF WorkerPcs, CallPcs
  <2> QED BY <2>1, <2>2, <2>3 DEF TypeOK, OwnerPcs, Goals
<1>2. LockInv /\ GoalInv /\ HandleInv /\ DrainInv /\ HeldInv
  BY DEF LockInv, GoalInv, HandleInv, DrainInv, HeldInv, All
<1>3. EventInv /\ ExactlyOnce
  BY DEF EventInv, ExactlyOnce, Queued, Held, ITEM, EventIds, ITEM_ENQUEUED_NOTIFICATION_EVENT
<1> QED BY <1>1, <1>2, <1>3 DEF Inv

\* Inv holds in every reachable state of the pool, for any number of calls
\* and workers.
THEOREM Invariance == Spec => []Inv
<1>1. Inv /\ [Next]_vars => Inv'
  BY TypeOKStep, LockStep, GoalStep, HandleStep, DrainStep, EventStep, HeldStep,
     ExactlyOnceStep DEF Inv
<1> QED BY InvInit, <1>1, PTL DEF Spec

\* If WaitThreads is behind the owner, worker 1 exited and left nothing, or
\* no worker was ever made and EnqueueItem never called.
LEMMA InvImpliesShutdownDrains == Inv => ShutdownDrains
<1> SUFFICES ASSUME Inv, Closed PROVE
      /\ items = << >> /\ Running = {}
      /\ \A c \in Calls : epc[c] \notin {"push", "signal"}
      /\ \A c \in Calls : epc[c] = "accepted" => c \in completed
  BY DEF ShutdownDrains
<1> USE SlotsAreNat DEF Inv
<1>1. \A s \in Slots : dpc[s] \in {"none", "exited"} /\ workerItem[s] = NoOne
  BY DEF TypeOK, Closed, All, HandleInv, HeldInv
<1>2. CASE dpc[1] = "exited"
  <2>1. items = << >> /\ \A c \in Calls : epc[c] \notin {"push", "signal"}
    BY <1>2 DEF DrainInv
  <2> QED BY <1>1, <2>1, ConcurrencyAssumption DEF Running, ExactlyOnce, Queued, Held
<1>3. CASE dpc[1] = "none"
  <2>1. \A c \in Calls : epc[c] = "idle"
    BY <1>3 DEF GoalInv
  <2>2. \A c \in Calls : ~Queued(c)
    BY <2>1 DEF ExactlyOnce
  <2>3. ASSUME items # << >> PROVE FALSE
    <3>1. items[1] \in Calls /\ 1 \in 1..Len(items)
      BY <2>3 DEF TypeOK
    <3> QED BY <3>1, <2>2 DEF Queued
  <2> QED BY <1>1, <2>1, <2>3 DEF Running
<1> QED BY <1>1, <1>2, <1>3

\* The variables of the pool keep their types.
THEOREM TypeCorrect == Spec => []TypeOK
BY Invariance, PTL DEF Inv

\* Shutdown leaves no accepted call behind that has not run (Shutdown,
\* DoWork's second loop, EnqueueItem's test under the lock).
THEOREM ShutdownDrainsAlways == Spec => []ShutdownDrains
BY Invariance, InvImpliesShutdownDrains, PTL

\* Outside itemsLock the notification event is set exactly when there are
\* items (EnqueueItem, GetWorkerItem).
THEOREM EventMatchesQueueAlways == Spec => []EventMatchesQueue
<1>1. Inv => EventMatchesQueue
  BY ConcurrencyAssumption DEF Inv, EventInv, LockInv, EventMatchesQueue, ITEM, Slots
<1> QED BY Invariance, <1>1, PTL

\* No event or thread handle is used before its creation or after its
\* disposal (constructor, CleanupThreadPool, DisposeEvents).
THEOREM HandlesAlwaysOpen == Spec => []HandlesOpenWhileUsed
<1>1. Inv => HandlesOpenWhileUsed
  BY DEF Inv, TypeOK, GoalInv, HandleInv, HandlesOpenWhileUsed, All, EventIds
<1> QED BY Invariance, <1>1, PTL

\* Every accepted item is in one place: queue, one worker, or completed.
THEOREM ExactlyOnceAlways == Spec => []ExactlyOnce
BY Invariance, PTL DEF Inv

\* The initial states of the pool are initial states of WorkQueue.
LEMMA RefinementInit == Init => WQ!WQInit
<1> SUFFICES ASSUME Init PROVE WQ!WQInit
  OBVIOUS
<1>1. Running = {}
  BY DEF Init, Running
<1> QED BY <1>1 DEF Init, WQ!WQInit

\* Each step of the pool is a step of WorkQueue or changes nothing it shows.
LEMMA RefinementStep == Inv /\ Inv' /\ [Next]_vars => [WQ!WQNext]_(WQ!wqVars)
<1> SUFFICES ASSUME Inv, Inv', [Next]_vars PROVE [WQ!WQNext]_(WQ!wqVars)
  OBVIOUS
<1> USE ConcurrencyAssumption DEF Inv
<1> DEFINE Quiet == UNCHANGED <<pendingShutdown, threads, items, workerItem, completed>>
<1>1. ASSUME Quiet PROVE UNCHANGED WQ!wqVars
  BY <1>1 DEF WQ!wqVars, Running, All
<1>2. CASE CreateThread
  <2>1. ~pendingShutdown /\ ~pendingShutdown'
    BY <1>2, CreateThreadFacts DEF CreateThread, GoalInv
  <2>2. UNCHANGED <<items, workerItem, completed>>
    BY <1>2, CreateThreadFacts
  <2> QED BY <2>1, <2>2 DEF WQ!wqVars, Running
<1>3. ShutdownDrains /\ ShutdownDrains'
  <2>1. ShutdownDrains
    BY InvImpliesShutdownDrains
  <2> QED BY <2>1, InvImpliesShutdownDrains, PTL
<1>4. CASE SetPendingShutdown
  <2>1. pendingShutdown' /\ UNCHANGED <<threads, items, workerItem, completed>>
    BY <1>4 DEF SetPendingShutdown, workerVars
  <2>2. UNCHANGED <<items, Running, completed>> /\ (All(threads, "null")' <=> All(threads, "null"))
    BY <2>1 DEF Running, All
  <2>3. CASE pendingShutdown
    BY <2>1, <2>2, <2>3 DEF WQ!wqVars
  <2>4. CASE ~pendingShutdown /\ All(threads, "null")
    <3>1. Closed'
      BY <2>1, <2>2, <2>4 DEF Closed
    <3>2. items = << >> /\ Running = {}
      BY <3>1, <2>2, <1>3 DEF ShutdownDrains
    <3>3. WQ!Finish
      BY <3>2, <2>1, <2>2, <2>4 DEF WQ!Finish, WQ!Drained
    <3> QED BY <3>3 DEF WQ!WQNext
  <2>5. CASE ~pendingShutdown /\ ~All(threads, "null")
    <3>1. WQ!Close
      BY <2>1, <2>2, <2>5 DEF WQ!Close
    <3> QED BY <3>1 DEF WQ!WQNext
  <2> QED BY <2>3, <2>4, <2>5
<1>5. CASE WaitThread
  <2>1. UNCHANGED <<pendingShutdown, items, workerItem, completed>>
    BY <1>5 DEF WaitThread, workerVars
  <2>2. UNCHANGED <<items, Running, completed>> /\ ~All(threads, "null")
    BY <1>5, <2>1 DEF Running, All, WaitThread, IsFirst, TypeOK
  <2>3. CASE pendingShutdown /\ All(threads, "null")'
    <3>1. items = << >> /\ Running = {}
      BY <2>1, <2>2, <2>3, <1>3 DEF ShutdownDrains, Closed
    <3>2. WQ!Finish
      BY <3>1, <2>1, <2>2, <2>3 DEF WQ!Finish, WQ!Drained
    <3> QED BY <3>2 DEF WQ!WQNext
  <2>4. CASE ~(pendingShutdown /\ All(threads, "null")')
    BY <2>1, <2>2, <2>4 DEF WQ!wqVars
  <2> QED BY <2>3, <2>4
<1>6. ASSUME NEW c \in Calls, PushItem(c) PROVE WQ!WQNext
  <2>1. /\ UNCHANGED <<pendingShutdown, threads, completed, workerItem>>
        /\ items' = Append(items, c) /\ epc[c] = "push"
    BY <1>6 DEF PushItem, workerVars
  <2>2. ~Closed
    BY <2>1, <1>3 DEF ShutdownDrains
  <2>3. c \notin completed /\ ~Queued(c) /\ ~Held(c)
    BY <2>1 DEF ExactlyOnce
  <2>4. c \notin WQ!Known
    BY <2>3 DEF WQ!Known, Queued, Held, Running
  <2>5. UNCHANGED Running /\ (All(threads, "null")' <=> All(threads, "null"))
    BY <2>1 DEF Running, All
  <2>6. WQ!Submit(c)
    BY <2>1, <2>2, <2>4, <2>5 DEF WQ!Submit, Closed
  <2> QED BY <2>6 DEF WQ!WQNext
<1>7. ASSUME NEW s \in Slots, TakeItem(s) PROVE WQ!WQNext
  <2>1. /\ UNCHANGED <<pendingShutdown, threads, completed>>
        /\ items # << >> /\ items' = Tail(items) /\ dpc[s] = "take"
        /\ workerItem' = [workerItem EXCEPT ![s] = Head(items)]
    BY <1>7 DEF TakeItem
  <2>2. Head(items) # NoOne /\ workerItem[s] = NoOne
    <3>1. items \in Seq(Calls)
      BY DEF TypeOK
    <3>2. Head(items) \in Calls
      BY <2>1, <3>1
    <3> QED BY <2>1, <3>2 DEF TypeOK, HeldInv
  <2>3. Running' = Running \cup {Head(items)}
    BY <2>1, <2>2 DEF Running, TypeOK
  <2>4. All(threads, "null")' <=> All(threads, "null")
    BY <2>1 DEF All
  <2>5. WQ!Begin
    BY <2>1, <2>3, <2>4 DEF WQ!Begin
  <2> QED BY <2>5 DEF WQ!WQNext
<1>8. ASSUME NEW s \in Slots, FinishItem(s) PROVE WQ!WQNext
  <2>1. /\ UNCHANGED <<pendingShutdown, threads, items>> /\ dpc[s] = "run"
        /\ workerItem' = [workerItem EXCEPT ![s] = NoOne]
        /\ completed' = completed \cup {workerItem[s]}
    BY <1>8 DEF FinishItem, poolVars
  <2>2. workerItem[s] \in Calls /\ workerItem[s] \in Running
    BY <2>1 DEF TypeOK, HeldInv, Running
  <2>3. Running' = Running \ {workerItem[s]}
    BY <2>1, <2>2 DEF Running, TypeOK, ExactlyOnce
  <2>4. All(threads, "null")' <=> All(threads, "null")
    BY <2>1 DEF All
  <2>5. WQ!End(workerItem[s])
    BY <2>1, <2>2, <2>3, <2>4 DEF WQ!End
  <2> QED BY <2>2, <2>5 DEF WQ!WQNext
<1>9. CASE \/ CreateEvent \/ BeginShutdown \/ BeginDestroy \/ SignalTermination
          \/ EndWait \/ DisposeEvent \/ EndDispose \/ UNCHANGED vars
  <2>1. Quiet
    BY <1>9 DEF CreateEvent, BeginShutdown, BeginDestroy, SignalTermination, EndWait,
         DisposeEvent, EndDispose, poolVars, workerVars, vars
  <2> QED BY <1>1, <2>1
<1>10. ASSUME NEW c \in Calls,
              \/ CallEnqueueItem(c) \/ LockForEnqueue(c)
              \/ CheckPendingShutdown(c) \/ SignalItem(c)
       PROVE  UNCHANGED WQ!wqVars
  <2>1. Quiet
    BY <1>10 DEF CallEnqueueItem, LockForEnqueue, CheckPendingShutdown, SignalItem,
         poolVars, workerVars
  <2> QED BY <1>1, <2>1
<1>11. ASSUME NEW s \in Slots,
              \/ TestLoop(s) \/ LockForGet(s) \/ FindNoItem(s)
              \/ ResetItemEvent(s) \/ WakeUp(s)
       PROVE  UNCHANGED WQ!wqVars
  <2>1. Quiet
    BY <1>11 DEF TestLoop, LockForGet, FindNoItem, ResetItemEvent, WakeUp, poolVars
  <2> QED BY <1>1, <2>1
<1> QED
  BY <1>2, <1>4, <1>5, <1>6, <1>7, <1>8, <1>9, <1>10, <1>11
  DEF Next, OwnerStep, EnqueueStep, DoWork, Terminated

\* The pool implements WorkQueue: FIFO, each item once, closed only when
\* drained.
THEOREM Refinement == Spec => ImplementsWorkQueue
<1>1. Inv /\ Inv' /\ [Next]_vars => [WQ!WQNext]_(WQ!wqVars)
  BY RefinementStep
<1> QED
  BY RefinementInit, <1>1, Invariance, PTL DEF Spec, ImplementsWorkQueue, WQ!WQSpec
-----------------------------------------------------------------------------
(***************************************************************************)
(* What is safety of EveryAcceptedRuns and ShutdownReturns: whoever waits  *)
(* waits for somebody who can go on.                                       *)
(***************************************************************************)

\* The conditions of a worker's next step, and of a call's, hold.
WorkerReady(s) ==
    \/ dpc[s] \in {"loop", "take", "reset", "run"}
    \/ dpc[s] = "lock" /\ itemsLock = NoOne
    \/ dpc[s] = "wait" /\ \E e \in EventIds : signaled[e]

CallReady(c) ==
    \/ epc[c] \in {"check", "push", "signal"}
    \/ epc[c] = "lock" /\ itemsLock = NoOne

\* Who holds itemsLock does not wait.  A worker sleeps while there are items
\* only if the call that pushed the first of them is about to set the event,
\* and no worker sleeps while WaitThreads waits for it: each has ended, can go
\* on, or waits for the lock.
NobodyStuck ==
    /\ itemsLock # NoOne =>
         \/ \E s \in Slots : itemsLock = s /\ WorkerReady(s)
         \/ \E c \in Calls : itemsLock = c /\ CallReady(c)
    /\ \A s \in Slots :
         dpc[s] = "wait" /\ ~WorkerReady(s) =>
           \/ items = << >>
           \/ \E c \in Calls : itemsLock = c /\ epc[c] = "signal" /\ Len(items) = 1
    /\ opc = "wait" =>
         \A s \in Slots : threads[s] = "open" =>
           \/ dpc[s] = "exited" \/ WorkerReady(s)
           \/ dpc[s] = "lock" /\ itemsLock # NoOne

\* The termination event is set before anybody waits for a worker.
TerminationInv ==
    opc = "wait" => signaled[TERMINATION_SIGNALED_EVENT] \/ All(threads, "null")

\* Every step keeps it.
LEMMA TerminationStep == Inv /\ TerminationInv /\ [Next]_vars => TerminationInv'
<1> SUFFICES ASSUME Inv, TerminationInv, [Next]_vars PROVE TerminationInv'
  OBVIOUS
<1> USE DEF TerminationInv
<1>1. CASE opc' # "wait"
  BY <1>1
<1>2. ASSUME UNCHANGED <<opc, threads>>, opc = "wait",
             signaled' = signaled \/ \E b \in BOOLEAN : signaled' = [signaled EXCEPT ![ITEM] = b]
      PROVE  TerminationInv'
  BY <1>2 DEF Inv, TypeOK, EventIds, ITEM, ITEM_ENQUEUED_NOTIFICATION_EVENT,
     TERMINATION_SIGNALED_EVENT
<1>3. CASE CreateEvent
  BY <1>3 DEF CreateEvent, Inv, HandleInv, All
<1>4. CASE SignalTermination
  <2>1. signaled'[TERMINATION_SIGNALED_EVENT]
    BY <1>4 DEF SignalTermination, Inv, TypeOK, EventIds
  <2> QED BY <2>1
<1>5. CASE WaitThread
  <2>1. CASE signaled[TERMINATION_SIGNALED_EVENT]
    BY <1>5, <2>1 DEF WaitThread
  <2>2. CASE All(threads, "null")
    BY <1>5, <2>2 DEF WaitThread, IsFirst, All, Inv, TypeOK
  <2> QED BY <1>5, <2>1, <2>2 DEF WaitThread
<1>6. CASE CreateThread \/ SetPendingShutdown \/ EndWait \/ DisposeEvent \/ EndDispose
           \/ BeginShutdown \/ BeginDestroy
  BY <1>1, <1>6 DEF CreateThread, SetPendingShutdown, EndWait, DisposeEvent, EndDispose,
     BeginShutdown, BeginDestroy, ownerVars
<1>7. ASSUME NEW c \in Calls, CallEnqueueItem(c) \/ EnqueueStep(c) PROVE TerminationInv'
  BY <1>1, <1>2, <1>7 DEF CallEnqueueItem, EnqueueStep, LockForEnqueue,
     CheckPendingShutdown, PushItem, SignalItem, poolVars, ownerVars, ITEM
<1>8. ASSUME NEW s \in Slots, DoWork(s) PROVE TerminationInv'
  BY <1>1, <1>2, <1>8 DEF DoWork, TestLoop, LockForGet, FindNoItem, TakeItem,
     ResetItemEvent, FinishItem, WakeUp, poolVars, ownerVars, ITEM
<1>9. CASE UNCHANGED vars
  BY <1>9 DEF vars, All
<1> QED
  BY <1>3, <1>4, <1>5, <1>6, <1>7, <1>8, <1>9 DEF Next, OwnerStep, Terminated

\* In no reachable state, for any number of workers and calls, do threads of
\* the pool wait for each other or for an event that nobody will set.
THEOREM NobodyEverStuck == Spec => []NobodyStuck
<1>1. Init => TerminationInv
  BY DEF Init, TerminationInv
<1>2. Inv /\ TerminationInv => NobodyStuck
  <2> SUFFICES ASSUME Inv, TerminationInv PROVE NobodyStuck
    OBVIOUS
  <2>1. itemsLock # NoOne =>
          \/ \E s \in Slots : itemsLock = s /\ WorkerReady(s)
          \/ \E c \in Calls : itemsLock = c /\ CallReady(c)
    BY DEF Inv, TypeOK, LockInv, WorkerReady, CallReady
  <2>2. ASSUME NEW s \in Slots, dpc[s] = "wait", ~WorkerReady(s)
        PROVE  \/ items = << >>
               \/ \E c \in Calls : itemsLock = c /\ epc[c] = "signal" /\ Len(items) = 1
    <3>1. ~signaled[ITEM] /\ ~signaled[TERMINATION_SIGNALED_EVENT]
      BY <2>2 DEF WorkerReady, EventIds, ITEM
    <3>2. CASE \E c \in Calls : epc[c] = "signal"
      <4>1. PICK c \in Calls : epc[c] = "signal"
        BY <3>2
      <4>2. items # << >> /\ ~(Len(items) > 1) /\ itemsLock = c
        BY <3>1, <4>1 DEF Inv, EventInv, LockInv
      <4>3. Len(items) = 1
        <5>1. items \in Seq(Calls)
          BY DEF Inv, TypeOK
        <5>2. Len(items) \in Nat /\ Len(items) # 0
          BY <4>2, <5>1
        <5>3. \A n \in Nat : n # 0 /\ ~(n > 1) => n = 1
          OBVIOUS
        <5>4. ~(Len(items) > 1)
          BY <4>2
        <5> QED BY <5>2, <5>3, <5>4
      <4> QED BY <4>1, <4>2, <4>3
    <3>3. CASE ~ \E c \in Calls : epc[c] = "signal"
      BY <3>1, <3>3 DEF Inv, EventInv
    <3> QED BY <3>2, <3>3
  <2>3. ASSUME opc = "wait", NEW s \in Slots, threads[s] = "open"
        PROVE  \/ dpc[s] = "exited" \/ WorkerReady(s)
               \/ dpc[s] = "lock" /\ itemsLock # NoOne
    <3>1. signaled[TERMINATION_SIGNALED_EVENT]
      <4>1. ~All(threads, "null")
        BY <2>3 DEF All, Inv, TypeOK
      <4> QED BY <2>3, <4>1 DEF TerminationInv
    <3>2. dpc[s] \in WorkerPcs \ {"none"}
      BY <2>3 DEF Inv, TypeOK, HandleInv
    <3> QED BY <3>1, <3>2 DEF WorkerReady, WorkerPcs, EventIds
  <2> QED BY <2>1, <2>2, <2>3 DEF NobodyStuck
<1> QED BY <1>1, <1>2, Invariance, TerminationStep, PTL DEF Spec
==============================================================================
