------------------------- MODULE ProcessMonitorProofs -------------------------
(***************************************************************************)
(* Theorems about ProcessMonitor for any number of processes, threads and  *)
(* ids, and about StackTrace, the traces it compares, for stacks of any    *)
(* depth.                                                                  *)
(*                                                                         *)
(* Why an unlocked pointer to an entry is good takes the system's side as  *)
(* well as the driver's: the entries are of processes that live and ids    *)
(* are unique among those, so an exit deletes its own process's entry      *)
(* only, and a process does not exit while a thread is inserted.           *)
(***************************************************************************)
EXTENDS ProcessMonitor, StackTrace, ListLemmas, FiniteSetTheorems

\* What DriverEntry and DriverUnload have made and left of the two routines.
Driver ==
    /\ "process" \in registered => phase \in {"process", "loaded"}
    /\ "thread" \in registered => phase \in {"loaded", "unloading"}
    /\ phase \in {"entry", "constructed"} => collector = << >>
    /\ phase \in {"uninit", "unloaded"} => goodTrace = Nothing
    /\ phase = "unloaded" /\ listed => collector = << >>
    /\ \A t \in Threads : tpc[t] \in InRoutine => phase \in {"loaded", "unloading"}

\* The system: ids are unique among those who live, a process has one first
\* thread, and lives as long as threads are inserted.
System ==
    /\ \A p, q \in Processes :
         life[p] = "alive" /\ life[q] = "alive" /\ pid[p] = pid[q] => p = q
    /\ \A t \in Threads :
         /\ tpc[t] = "idle" <=> owner[t] = Nothing
         /\ tpc[t] \notin {"idle", "done"} => life[owner[t]] = "alive"
         /\ owner[t] # Nothing => life[owner[t]] # "absent"
         /\ tpc[t] = "processNotify" => first[t] /\ owner[t] \notin allocated
         /\ first[t] => tpc[t] # "idle"
    /\ \A t, u \in Threads : first[t] /\ first[u] /\ owner[t] = owner[u] => t = u
    /\ \A p \in Processes : life[p] = "absent" => p \notin allocated

\* No entry is in the collector twice.
Distinct == Once(collector)

\* Whatever was allocated is held or deleted, never both.
Memory ==
    /\ allocated \ freed = (ToSet(collector) \cup {goodTrace}) \ {Nothing}
    /\ freed \subseteq allocated
    /\ \A t \in Threads : t \in allocated => tpc[t] \in {"compare", "done"}

\* The pointer of a creation leads to an entry with its process's id.
Pointers ==
    \A t \in Threads :
      /\ tpc[t] \in {"test", "mark"} =>
           entry[t] \in ToSet(collector) /\ pid[entry[t]] = pid[owner[t]]
      /\ tpc[t] \in {"idle", "processNotify", "threadNotify", "find"} => entry[t] = Nothing

\* A creation that has been dealt with has marked its entry.
Reports ==
    /\ \A t \in Threads :
         tpc[t] \in {"keep", "compare", "done"} /\ entry[t] # Nothing => entry[t] \in marked
    /\ \A t \in Threads : \A u \in earlier[t] : tpc[u] = "done"
    /\ \A t \in Threads :
         \/ tpc[t] \in {"mark", "keep", "compare"}
         \/ tpc[t] = "done" /\ entry[t] # Nothing /\ verdict[t] # "remote"
         => \A u \in earlier[t] : entry[u] # entry[t]

Inv ==
    /\ TypeOK
    /\ Driver
    /\ System
    /\ Distinct
    /\ CollectorHoldsLiving
    /\ Memory
    /\ Pointers
    /\ Reports
-----------------------------------------------------------------------------
\* FindProcessUnsafe returns an entry with the id, if there is one.
LEMMA Found ==
  ASSUME TypeOK, NEW id
  PROVE  /\ FindProcessUnsafe(id) # Nothing =>
              /\ FindProcessUnsafe(id) \in ToSet(collector)
              /\ pid[FindProcessUnsafe(id)] = id
         /\ FindProcessUnsafe(id) = Nothing => \A q \in ToSet(collector) : pid[q] # id
  <1> DEFINE hits == {i \in DOMAIN collector : pid[collector[i]] = id}
  <1>1. DOMAIN collector = 1 .. Len(collector) /\ Len(collector) \in Nat
        /\ \A i \in DOMAIN collector : collector[i] \in Processes
    BY DEF TypeOK
  <1>2. CASE hits = {}
    BY <1>2 DEF FindProcessUnsafe, ToSet
  <1>3. CASE hits # {}
    <2>1. hits \in SUBSET Nat
      BY <1>1
    <2>2. Min(hits) \in hits
      BY <1>3, <2>1, LeastNumber
    <2>3. FindProcessUnsafe(id) = collector[Min(hits)]
      BY <1>3 DEF FindProcessUnsafe
    <2>4. FindProcessUnsafe(id) \in Processes
      BY <1>1, <2>2, <2>3
    <2> QED
      BY <2>2, <2>3, <2>4, MonitorAssumption DEF ToSet
  <1> QED
    BY <1>2, <1>3

\* The collector's three operations, seen as operations on a set.
LEMMA Inserted ==
  ASSUME TypeOK, Distinct, NEW q \in Processes, q \notin ToSet(collector), InsertProcess(q)
  PROVE  /\ collector' \in Seq(Processes) /\ Distinct'
         /\ \/ ToSet(collector') = ToSet(collector) /\ allocated' = allocated
            \/ ToSet(collector') = ToSet(collector) \cup {q} /\ allocated' = allocated \cup {q}
  <1>1. CASE UNCHANGED <<collector, allocated>>
    BY <1>1 DEF TypeOK, Distinct
  <1>2. CASE collector' = Append(collector, q) /\ allocated' = allocated \cup {q}
    <2>1. collector \in Seq(Processes)
      BY DEF TypeOK
    <2>2. /\ Append(collector, q) \in Seq(Processes)
          /\ ToSet(Append(collector, q)) = ToSet(collector) \cup {q}
          /\ Once(Append(collector, q))
      BY <2>1, AppendedItem DEF Distinct
    <2> QED
      BY <1>2, <2>2 DEF Distinct
  <1> QED
    BY <1>1, <1>2 DEF InsertProcess

LEMMA Terminating ==
  ASSUME TypeOK, Distinct, NEW id, TerminateProcess(id)
  PROVE  /\ collector' \in Seq(Processes) /\ Distinct'
         /\ \/ /\ ToSet(collector') = ToSet(collector) /\ freed' = freed
               /\ \A q \in ToSet(collector) : pid[q] # id
            \/ \E q \in ToSet(collector) :
                 /\ pid[q] = id
                 /\ ToSet(collector') = ToSet(collector) \ {q}
                 /\ freed' = freed \cup {q}
  <1>1. CASE FindProcessUnsafe(id) = Nothing
    BY <1>1, Found DEF TerminateProcess, TypeOK, Distinct
  <1>2. CASE FindProcessUnsafe(id) # Nothing
    <2>1. PICK i \in DOMAIN collector : collector[i] = FindProcessUnsafe(id) /\ DeleteEntry(i)
      BY <1>2 DEF TerminateProcess
    <2>2. i \in 1 .. Len(collector) /\ collector \in Seq(Processes)
      BY <2>1 DEF TypeOK
    <2>3. collector' \in Seq(Processes)
      BY <2>1, <2>2, MovedItems DEF DeleteEntry
    <2>4. ToSet(collector') = ToSet(collector) \ {collector[i]} /\ Once(collector')
      BY <2>1, <2>2, DeletedItems DEF DeleteEntry, Distinct
    <2> QED
      BY <1>2, <2>1, <2>3, <2>4, Found DEF DeleteEntry, Distinct
  <1> QED
    BY <1>1, <1>2

\* Entries of processes that live are told apart by their ids.
LEMMA LivingDistinct ==
  ASSUME TypeOK, System, Distinct, \A q \in ToSet(collector) : life[q] = "alive"
  PROVE  CollectorHoldsLiving
  <1>1. \A i \in DOMAIN collector : collector[i] \in ToSet(collector) /\ collector[i] \in Processes
    BY DEF ToSet, TypeOK
  <1> QED
    BY <1>1 DEF CollectorHoldsLiving, System, Distinct, Once

\* The entries in the collector are allocated, so their processes were there.
LEMMA Entries ==
  ASSUME Inv
  PROVE  /\ \A i \in DOMAIN collector : collector[i] \in ToSet(collector)
         /\ \A q \in ToSet(collector) : /\ q \in Processes
                                       /\ q \in allocated \ freed
                                       /\ life[q] # "absent"
  <1>1. \A i \in DOMAIN collector : collector[i] \in ToSet(collector) /\ collector[i] \in Processes
    BY DEF Inv, ToSet, TypeOK
  <1>2. \A q \in ToSet(collector) : q \in Processes
    BY <1>1 DEF ToSet
  <1> QED
    BY <1>1, <1>2, MonitorAssumption DEF Inv, Memory, System

\* The system's creations keep the invariant.
LEMMA CreationsKeepInv ==
  ASSUME Inv, NEW t \in Threads, NEW q \in Processes, CreateProcess(t, q) \/ CreateThread(t, q)
  PROVE  Inv'
  <1> USE MonitorAssumption DEF Inv, vars, driverVars, processVars, dataVars, heapVars, tellVars, threadVars, Move, TypeOK
  <1>1. CASE CreateProcess(t, q)
    <2>1. Distinct' /\ CollectorHoldsLiving'
      <3>1. Distinct' /\ life[q] = "absent" /\ \A i \in DOMAIN collector : collector[i] # q
        BY <1>1, Entries DEF CreateProcess, Distinct
      <3> QED
        BY <1>1, <3>1, Entries DEF CreateProcess, CollectorHoldsLiving
    <2>2. TypeOK'
      BY <1>1 DEF CreateProcess, Phases, ThreadPcs, InRoutine
    <2>3. Driver'
      BY <1>1 DEF CreateProcess, Driver, InRoutine
    <2>4. System'
      BY <1>1 DEF CreateProcess, System
    <2>5. Memory'
      BY <1>1 DEF CreateProcess, Memory, System, Driver
    <2>6. Pointers'
      BY <1>1, Entries DEF CreateProcess, Pointers, System
    <2>7. Reports'
      BY <1>1 DEF CreateProcess, Reports, System, Pointers
    <2> QED
      BY <2>1, <2>2, <2>3, <2>4, <2>5, <2>6, <2>7
  <1>2. CASE CreateThread(t, q)
    <2>1. Distinct' /\ CollectorHoldsLiving'
      BY <1>2 DEF CreateThread, Distinct, CollectorHoldsLiving
    <2>2. TypeOK'
      BY <1>2 DEF CreateThread, Phases, ThreadPcs, InRoutine
    <2>3. Driver'
      BY <1>2 DEF CreateThread, Driver, InRoutine
    <2>4. System'
      BY <1>2 DEF CreateThread, System
    <2>5. Memory'
      BY <1>2 DEF CreateThread, Memory, System, Driver
    <2>6. Pointers'
      BY <1>2 DEF CreateThread, Pointers, System
    <2>7. Reports'
      BY <1>2 DEF CreateThread, Reports, System, Pointers
    <2> QED
      BY <2>1, <2>2, <2>3, <2>4, <2>5, <2>6, <2>7
  <1> QED
    BY <1>1, <1>2

\* The steps of the thread routine keep it.
LEMMA ThreadKeepsInv ==
  ASSUME Inv, NEW t \in Threads,
         \/ NotifyThread(t) \/ FindProcess(t) \/ TestMainThread(t)
         \/ MarkMainThread(t) \/ KeepGoodTrace(t) \/ CompareTrace(t)
  PROVE  Inv'
  <1> USE MonitorAssumption DEF Inv, vars, driverVars, processVars, dataVars, heapVars, tellVars, threadVars, Move, TypeOK
  <1>1. CASE NotifyThread(t)
    <2>1. Distinct' /\ CollectorHoldsLiving'
      BY <1>1 DEF NotifyThread, Distinct, CollectorHoldsLiving
    <2>2. TypeOK'
      BY <1>1 DEF NotifyThread, Phases, ThreadPcs, InRoutine
    <2>3. Driver'
      BY <1>1 DEF NotifyThread, Driver, InRoutine
    <2>4. System'
      BY <1>1 DEF NotifyThread, System
    <2>5. Memory'
      BY <1>1 DEF NotifyThread, Memory, System, Driver
    <2>6. Pointers'
      BY <1>1 DEF NotifyThread, Pointers, System
    <2>7. Reports'
      BY <1>1 DEF NotifyThread, Reports, System, Pointers
    <2> QED
      BY <2>1, <2>2, <2>3, <2>4, <2>5, <2>6, <2>7
  <1>2. CASE FindProcess(t)
    <2>1. Distinct' /\ CollectorHoldsLiving'
      BY <1>2 DEF FindProcess, Distinct, CollectorHoldsLiving
    <2>2. TypeOK'
      <3>1. FindProcessUnsafe(pid[owner[t]]) \in Processes \cup {Nothing}
        BY Found, Entries
      <3> QED
        BY <1>2, <3>1 DEF FindProcess, Phases, ThreadPcs, InRoutine
    <2>3. Driver'
      BY <1>2 DEF FindProcess, Driver, InRoutine
    <2>4. System'
      BY <1>2 DEF FindProcess, System
    <2>5. Memory'
      BY <1>2 DEF FindProcess, Memory, System, Driver
    <2>6. Pointers'
      BY <1>2, Found DEF FindProcess, Pointers, System
    <2>7. Reports'
      BY <1>2 DEF FindProcess, Reports, System, Pointers
    <2> QED
      BY <2>1, <2>2, <2>3, <2>4, <2>5, <2>6, <2>7
  <1>3. CASE TestMainThread(t)
    <2>1. Distinct' /\ CollectorHoldsLiving'
      BY <1>3 DEF TestMainThread, Distinct, CollectorHoldsLiving
    <2>2. TypeOK'
      BY <1>3 DEF TestMainThread, Phases, ThreadPcs, InRoutine
    <2>3. Driver'
      BY <1>3 DEF TestMainThread, Driver, InRoutine
    <2>4. System'
      BY <1>3 DEF TestMainThread, System
    <2>5. Memory'
      BY <1>3 DEF TestMainThread, Memory, System, Driver
    <2>6. Pointers'
      BY <1>3 DEF TestMainThread, Pointers, System
    <2>7. Reports'
      BY <1>3, Entries DEF TestMainThread, Reports, System, Pointers
    <2> QED
      BY <2>1, <2>2, <2>3, <2>4, <2>5, <2>6, <2>7
  <1>4. CASE MarkMainThread(t)
    <2>1. Distinct' /\ CollectorHoldsLiving'
      BY <1>4 DEF MarkMainThread, Distinct, CollectorHoldsLiving
    <2>2. TypeOK'
      BY <1>4, Entries DEF MarkMainThread, Phases, ThreadPcs, InRoutine, Pointers
    <2>3. Driver'
      BY <1>4 DEF MarkMainThread, Driver, InRoutine
    <2>4. System'
      BY <1>4 DEF MarkMainThread, System
    <2>5. Memory'
      BY <1>4 DEF MarkMainThread, Memory, System, Driver
    <2>6. Pointers'
      BY <1>4 DEF MarkMainThread, Pointers, System
    <2>7. Reports'
      BY <1>4 DEF MarkMainThread, Reports, System, Pointers
    <2> QED
      BY <2>1, <2>2, <2>3, <2>4, <2>5, <2>6, <2>7
  <1>5. CASE KeepGoodTrace(t)
    <2>1. Distinct' /\ CollectorHoldsLiving'
      BY <1>5 DEF KeepGoodTrace, Distinct, CollectorHoldsLiving
    <2>2. TypeOK'
      BY <1>5 DEF KeepGoodTrace, Phases, ThreadPcs, InRoutine
    <2>3. Driver'
      BY <1>5 DEF KeepGoodTrace, Driver, InRoutine
    <2>4. System'
      BY <1>5 DEF KeepGoodTrace, System
    <2>5. Memory'
      BY <1>5 DEF KeepGoodTrace, Memory, System, Driver
    <2>6. Pointers'
      BY <1>5 DEF KeepGoodTrace, Pointers, System
    <2>7. Reports'
      BY <1>5 DEF KeepGoodTrace, Reports, System, Pointers
    <2> QED
      BY <2>1, <2>2, <2>3, <2>4, <2>5, <2>6, <2>7
  <1>6. CASE CompareTrace(t)
    <2>1. Distinct' /\ CollectorHoldsLiving'
      BY <1>6 DEF CompareTrace, Distinct, CollectorHoldsLiving
    <2>2. TypeOK'
      BY <1>6 DEF CompareTrace, Phases, ThreadPcs, InRoutine
    <2>3. Driver'
      BY <1>6 DEF CompareTrace, Driver, InRoutine
    <2>4. System'
      BY <1>6 DEF CompareTrace, System
    <2>5. Memory'
      BY <1>6 DEF CompareTrace, Memory, System, Driver
    <2>6. Pointers'
      BY <1>6 DEF CompareTrace, Pointers, System
    <2>7. Reports'
      BY <1>6 DEF CompareTrace, Reports, System, Pointers
    <2> QED
      BY <2>1, <2>2, <2>3, <2>4, <2>5, <2>6, <2>7
  <1> QED
    BY <1>1, <1>2, <1>3, <1>4, <1>5, <1>6

\* The steps of DriverEntry and DriverUnload keep it.
LEMMA DriverKeepsInv ==
  ASSUME Inv, DriverStep
  PROVE  Inv'
  <1> USE MonitorAssumption DEF Inv, vars, driverVars, processVars, dataVars, heapVars, tellVars, threadVars, Go, TypeOK
  <1>1. CASE RegisterProcessRoutine
    <2>1. Distinct' /\ CollectorHoldsLiving'
      BY <1>1
      DEF RegisterProcessRoutine, Distinct, CollectorHoldsLiving, Driver, ToSet
    <2>2. TypeOK'
      BY <1>1 DEF RegisterProcessRoutine, Phases, ThreadPcs, InRoutine
    <2>3. Driver'
      BY <1>1 DEF RegisterProcessRoutine, Driver, InRoutine
    <2>4. System'
      BY <1>1 DEF RegisterProcessRoutine, System
    <2>5. Memory'
      BY <1>1 DEF RegisterProcessRoutine, Memory, System, Driver
    <2>6. Pointers'
      BY <1>1 DEF RegisterProcessRoutine, Pointers, System
    <2>7. Reports'
      BY <1>1 DEF RegisterProcessRoutine, Reports, System, Pointers
    <2> QED
      BY <2>1, <2>2, <2>3, <2>4, <2>5, <2>6, <2>7
  <1>2. CASE RegisterThreadRoutine
    <2>1. Distinct' /\ CollectorHoldsLiving'
      BY <1>2 DEF RegisterThreadRoutine, Distinct, CollectorHoldsLiving
    <2>2. TypeOK'
      BY <1>2 DEF RegisterThreadRoutine, Phases, ThreadPcs, InRoutine
    <2>3. Driver'
      BY <1>2 DEF RegisterThreadRoutine, Driver, InRoutine
    <2>4. System'
      BY <1>2 DEF RegisterThreadRoutine, System
    <2>5. Memory'
      BY <1>2 DEF RegisterThreadRoutine, Memory, System, Driver
    <2>6. Pointers'
      BY <1>2 DEF RegisterThreadRoutine, Pointers, System
    <2>7. Reports'
      BY <1>2 DEF RegisterThreadRoutine, Reports, System, Pointers
    <2> QED
      BY <2>1, <2>2, <2>3, <2>4, <2>5, <2>6, <2>7
  <1>3. CASE RemoveProcessRoutine
    <2>1. Distinct' /\ CollectorHoldsLiving'
      BY <1>3 DEF RemoveProcessRoutine, Distinct, CollectorHoldsLiving
    <2>2. TypeOK'
      BY <1>3 DEF RemoveProcessRoutine, Phases, ThreadPcs, InRoutine
    <2>3. Driver'
      BY <1>3 DEF RemoveProcessRoutine, Driver, InRoutine
    <2>4. System'
      BY <1>3 DEF RemoveProcessRoutine, System
    <2>5. Memory'
      BY <1>3 DEF RemoveProcessRoutine, Memory, System, Driver
    <2>6. Pointers'
      BY <1>3 DEF RemoveProcessRoutine, Pointers, System
    <2>7. Reports'
      BY <1>3 DEF RemoveProcessRoutine, Reports, System, Pointers
    <2> QED
      BY <2>1, <2>2, <2>3, <2>4, <2>5, <2>6, <2>7
  <1>4. CASE RemoveThreadRoutine
    <2>1. Distinct' /\ CollectorHoldsLiving'
      BY <1>4 DEF RemoveThreadRoutine, Distinct, CollectorHoldsLiving
    <2>2. TypeOK'
      BY <1>4 DEF RemoveThreadRoutine, Phases, ThreadPcs, InRoutine
    <2>3. Driver'
      BY <1>4 DEF RemoveThreadRoutine, Driver, InRoutine
    <2>4. System'
      BY <1>4 DEF RemoveThreadRoutine, System
    <2>5. Memory'
      BY <1>4 DEF RemoveThreadRoutine, Memory, System, Driver
    <2>6. Pointers'
      BY <1>4 DEF RemoveThreadRoutine, Pointers, System
    <2>7. Reports'
      BY <1>4 DEF RemoveThreadRoutine, Reports, System, Pointers
    <2> QED
      BY <2>1, <2>2, <2>3, <2>4, <2>5, <2>6, <2>7
  <1>5. CASE DeleteGoodTrace
    <2>1. Distinct' /\ CollectorHoldsLiving'
      BY <1>5 DEF DeleteGoodTrace, Distinct, CollectorHoldsLiving
    <2>2. TypeOK'
      BY <1>5 DEF DeleteGoodTrace, Phases, ThreadPcs, InRoutine, Memory
    <2>3. Driver'
      BY <1>5 DEF DeleteGoodTrace, Driver, InRoutine
    <2>4. System'
      BY <1>5 DEF DeleteGoodTrace, System
    <2>5. Memory'
      BY <1>5, Entries DEF DeleteGoodTrace, Memory, System, Driver, Phases
    <2>6. Pointers'
      BY <1>5 DEF DeleteGoodTrace, Pointers, System
    <2>7. Reports'
      BY <1>5 DEF DeleteGoodTrace, Reports, System, Pointers
    <2> QED
      BY <2>1, <2>2, <2>3, <2>4, <2>5, <2>6, <2>7
  <1>6. CASE ConstructGlobals
    <2>1. Distinct' /\ CollectorHoldsLiving'
      BY <1>6 DEF ConstructGlobals, Distinct, CollectorHoldsLiving
    <2>2. TypeOK'
      BY <1>6 DEF ConstructGlobals, RegisterDestructor, Phases, ThreadPcs, InRoutine
    <2>3. Driver'
      BY <1>6 DEF ConstructGlobals, Driver, InRoutine
    <2>4. System'
      BY <1>6 DEF ConstructGlobals, System
    <2>5. Memory'
      BY <1>6 DEF ConstructGlobals, Memory, System, Driver
    <2>6. Pointers'
      BY <1>6 DEF ConstructGlobals, Pointers, System
    <2>7. Reports'
      BY <1>6 DEF ConstructGlobals, Reports, System, Pointers
    <2> QED
      BY <2>1, <2>2, <2>3, <2>4, <2>5, <2>6, <2>7
  <1>7. CASE DestroyGlobals
    <2>1. /\ phase = "uninit" /\ phase' = "unloaded" /\ goodTrace = Nothing
          /\ UNCHANGED <<registered, listed, processVars, marked, goodTrace, allocated, threadVars>>
          /\ "process" \notin registered
          /\ \A t \in Threads : tpc[t] \notin InRoutine
      BY <1>7 DEF DestroyGlobals, Driver
    <2>2. \/ listed /\ collector' = << >> /\ freed' = freed \cup ToSet(collector)
          \/ ~listed /\ collector' = collector /\ freed' = freed
      BY <1>7 DEF DestroyGlobals, Flush
    <2>3. ToSet(<< >>) = {}
      BY DEF ToSet
    <2>4. Distinct' /\ CollectorHoldsLiving'
      BY <2>1, <2>2 DEF Distinct, Once, CollectorHoldsLiving
    <2>5. TypeOK'
      <3>1. collector' \in Seq(Processes)
        <4>1. << >> \in Seq(Processes)
          OBVIOUS
        <4>2. collector \in Seq(Processes)
          OBVIOUS
        <4> QED
          BY <2>2, <4>1, <4>2
      <3>2. freed' \subseteq allocated
        BY <2>2, Entries
      <3> QED
        BY <2>1, <3>1, <3>2 DEF Phases
    <2>6. Driver' /\ System'
      BY <2>1, <2>2 DEF Driver, System
    <2>7. Memory'
      BY <2>1, <2>2, <2>3, Entries DEF Memory
    <2>8. Pointers' /\ Reports'
      BY <2>1 DEF Pointers, Reports, InRoutine
    <2> QED
      BY <2>4, <2>5, <2>6, <2>7, <2>8
  <1> QED
    BY <1>1, <1>2, <1>3, <1>4, <1>5, <1>6, <1>7 DEF DriverStep

\* The exit of a process deletes no entry but its own.
LEMMA ExitKeepsInv ==
  ASSUME Inv, NEW q \in Processes, ExitProcess(q)
  PROVE  Inv'
  <1> USE MonitorAssumption DEF Inv, vars, driverVars, processVars, dataVars, heapVars, tellVars, threadVars
  <1>1. CASE "process" \in registered
    <2>1. /\ life[q] = "alive" /\ life' = [life EXCEPT ![q] = "gone"]
          /\ \A t \in Threads : owner[t] = q => tpc[t] = "done"
          /\ TerminateProcess(pid[q])
          /\ UNCHANGED <<driverVars, pid, marked, goodTrace, allocated, threadVars>>
      BY <1>1 DEF ExitProcess
    <2>2. collector' \in Seq(Processes) /\ Distinct'
      BY <2>1, Terminating
    <2>3. \A r \in ToSet(collector) : life[r] = "alive" /\ (pid[r] = pid[q] => r = q)
      BY <1>1, <2>1, Entries DEF CollectorHoldsLiving, System
    <2>4. /\ ToSet(collector') = ToSet(collector) \ {q}
          /\ freed' = IF q \in ToSet(collector) THEN freed \cup {q} ELSE freed
      BY <2>1, <2>3, Terminating
    <2>5. TypeOK'
      BY <2>1, <2>2, <2>4, Entries DEF TypeOK
    <2>6. Driver'
      BY <1>1, <2>1 DEF Driver
    <2>7. System'
      BY <2>1 DEF System, TypeOK
    <2>8. CollectorHoldsLiving'
      <3>1. \A r \in ToSet(collector') : life'[r] = "alive"
        BY <2>1, <2>3, <2>4, Entries DEF TypeOK
      <3>2. \A i \in DOMAIN collector' : collector'[i] \in ToSet(collector')
                                           /\ collector'[i] \in Processes
        BY <2>2 DEF ToSet
      <3> QED
        BY <2>2, <2>7, <3>1, <3>2 DEF CollectorHoldsLiving, System, Distinct, Once
    <2>9. Memory'
      BY <2>1, <2>4, Entries DEF Memory, TypeOK
    <2>10. Pointers'
      BY <2>1, <2>3, <2>4 DEF Pointers, System, TypeOK
    <2>11. Reports'
      BY <2>1 DEF Reports
    <2> QED
      BY <2>2, <2>5, <2>6, <2>7, <2>8, <2>9, <2>10, <2>11
  <1>2. CASE "process" \notin registered
    <2>1. /\ life[q] = "alive" /\ life' = [life EXCEPT ![q] = "gone"]
          /\ \A t \in Threads : owner[t] = q => tpc[t] = "done"
          /\ UNCHANGED <<driverVars, pid, marked, goodTrace, allocated, threadVars>>
          /\ UNCHANGED <<collector, freed>>
      BY <1>2 DEF ExitProcess
    <2>2. TypeOK'
      BY <2>1 DEF TypeOK
    <2>3. System'
      BY <2>1 DEF System, TypeOK
    <2>4. Driver' /\ Distinct' /\ CollectorHoldsLiving'
      BY <1>2, <2>1 DEF Driver, Distinct, CollectorHoldsLiving
    <2>5. Memory' /\ Pointers' /\ Reports'
      BY <2>1 DEF Memory, Pointers, Reports
    <2> QED
      BY <2>2, <2>3, <2>4, <2>5
  <1> QED
    BY <1>1, <1>2

\* So does the entry of a process that was not there before.
LEMMA NotifyProcessKeepsInv ==
  ASSUME Inv, NEW t \in Threads, NotifyProcess(t)
  PROVE  Inv'
  <1> USE MonitorAssumption DEF Inv, vars, driverVars, processVars, dataVars, heapVars, tellVars, threadVars
  <1> DEFINE q == owner[t]
  <1>1. /\ tpc[t] = "processNotify" /\ tpc' = [tpc EXCEPT ![t] = "threadNotify"]
        /\ UNCHANGED <<driverVars, processVars, marked, goodTrace, freed, tellVars, entry, verdict>>
    BY DEF NotifyProcess, Move
  <1>2. q \in Processes /\ life[q] = "alive" /\ q \notin allocated
    BY <1>1 DEF System, TypeOK
  <1>3. q \notin ToSet(collector)
    BY <1>2, Entries
  <1>4. /\ collector' \in Seq(Processes) /\ Distinct'
        /\ \/ ToSet(collector') = ToSet(collector) /\ allocated' = allocated
           \/ ToSet(collector') = ToSet(collector) \cup {q} /\ allocated' = allocated \cup {q}
    <2>1. CASE "process" \in registered
      BY <1>2, <1>3, <2>1, Inserted DEF NotifyProcess
    <2>2. CASE "process" \notin registered
      BY <2>2 DEF NotifyProcess, Distinct, TypeOK
    <2> QED
      BY <2>1, <2>2
  <1>5. "process" \notin registered => collector' = collector
    BY DEF NotifyProcess
  <1>6. TypeOK'
    BY <1>1, <1>2, <1>4 DEF TypeOK, ThreadPcs
  <1>7. Driver'
    BY <1>1, <1>5 DEF Driver, InRoutine, TypeOK
  <1>8. System'
    BY <1>1, <1>2, <1>4 DEF System, TypeOK
  <1>9. CollectorHoldsLiving'
    <2>1. CASE "process" \in registered
      <3>1. \A r \in ToSet(collector') : life'[r] = "alive"
        BY <1>1, <1>2, <1>4, <2>1 DEF CollectorHoldsLiving
      <3>2. \A i \in DOMAIN collector' : collector'[i] \in ToSet(collector')
                                           /\ collector'[i] \in Processes
        BY <1>4 DEF ToSet
      <3> QED
        BY <1>4, <1>8, <3>1, <3>2 DEF CollectorHoldsLiving, System, Distinct, Once
    <2>2. CASE "process" \notin registered
      BY <1>1, <2>2 DEF CollectorHoldsLiving
    <2> QED
      BY <2>1, <2>2
  <1>10. Memory'
    BY <1>1, <1>2, <1>4 DEF Memory, TypeOK
  <1>11. Pointers'
    BY <1>1, <1>4 DEF Pointers, TypeOK
  <1>12. Reports'
    BY <1>1 DEF Reports, TypeOK
  <1> QED
    BY <1>4, <1>6, <1>7, <1>8, <1>9, <1>10, <1>11, <1>12

\* The first state satisfies the invariant.
LEMMA InitInv == Init => Inv
  <1> SUFFICES ASSUME Init PROVE Inv
    OBVIOUS
  <1> USE MonitorAssumption DEF Init
  <1>1. TypeOK
    <2>1. phase \in Phases /\ registered = {} /\ listed \in BOOLEAN
      BY DEF Phases
    <2>2. /\ pid \in [Processes -> Pids \cup {Nothing}]
          /\ life \in [Processes -> {"absent", "alive", "gone"}]
      OBVIOUS
    <2>3. collector \in Seq(Processes) /\ marked = {} /\ allocated = {} /\ freed = {}
      OBVIOUS
    <2>4. tpc \in [Threads -> ThreadPcs] /\ first \in [Threads -> BOOLEAN]
      BY DEF ThreadPcs
    <2>5. /\ owner \in [Threads -> Processes \cup {Nothing}]
          /\ entry \in [Threads -> Processes \cup {Nothing}]
          /\ verdict \in [Threads -> {"none", "remote", "hollow"}]
          /\ earlier \in [Threads -> SUBSET Threads]
      OBVIOUS
    <2> QED
      BY <2>1, <2>2, <2>3, <2>4, <2>5 DEF TypeOK
  <1>2. Driver /\ System
    BY DEF Driver, System, InRoutine
  <1>3. Distinct /\ CollectorHoldsLiving
    BY DEF Distinct, Once, CollectorHoldsLiving
  <1>4. Memory /\ Pointers /\ Reports
    BY DEF Memory, Pointers, Reports, ToSet
  <1> QED
    BY <1>1, <1>2, <1>3, <1>4 DEF Inv

\* Every step keeps it.
LEMMA StepInv == Inv /\ [Next]_vars => Inv'
  <1> SUFFICES ASSUME Inv, [Next]_vars PROVE Inv'
    OBVIOUS
  <1>1. CASE \E t \in Threads, q \in Processes : CreateProcess(t, q) \/ CreateThread(t, q)
    BY <1>1, CreationsKeepInv
  <1>2. CASE \E q \in Processes : ExitProcess(q)
    BY <1>2, ExitKeepsInv
  <1>3. CASE \E t \in Threads : ThreadStep(t)
    BY <1>3, NotifyProcessKeepsInv, ThreadKeepsInv DEF ThreadStep
  <1>4. CASE DriverStep
    BY <1>4, DriverKeepsInv
  <1>5. CASE UNCHANGED vars
    BY <1>5
    DEF Inv, vars, driverVars, processVars, dataVars, heapVars, tellVars, threadVars,
        TypeOK, Driver, System, Distinct, CollectorHoldsLiving, Memory, Pointers,
        Reports
  <1> QED
    BY <1>1, <1>2, <1>3, <1>4, <1>5 DEF Next, Terminated
-----------------------------------------------------------------------------
\* The invariant holds in every state the driver reaches.
THEOREM Invariance == Spec => []Inv
  <1> QED
    BY InitInv, StepInv, PTL DEF Spec

\* Every variable of the monitor keeps its type: what was deleted, in
\* particular, had been allocated.
THEOREM TypeCorrect == Spec => []TypeOK
  <1>1. Inv => TypeOK
    BY DEF Inv
  <1> QED
    BY <1>1, Invariance, PTL

\* For any number of processes, threads and ids, whatever exits or unloads
\* meanwhile: FltpHandleThreadCreate never uses a deleted Process entry, and
\* runs between the registration of its routine and its removal only.
THEOREM EntriesOutlive == Spec => []NoUseAfterDelete
  <1>1. Inv => NoUseAfterDelete
    BY Entries DEF Inv, Driver, Pointers, NoUseAfterDelete
  <1> QED
    BY <1>1, Invariance, PTL

\* GetProcess finds the right process, however often ids are used again.
THEOREM CollectorSound == Spec => []CollectorHoldsLiving
  <1>1. Inv => CollectorHoldsLiving
    BY DEF Inv
  <1> QED
    BY <1>1, Invariance, PTL

\* Only creations that overlap slip through the test for the main thread.
THEOREM LaterReported == Spec => []LaterCreationReported
  <1>1. Inv => LaterCreationReported
    BY DEF Inv, Reports, LaterCreationReported
  <1> QED
    BY <1>1, Invariance, PTL

\* No entry and no good trace is lost or deleted twice; unloading deletes
\* all of them if the destructor of gDrvData is listed.
THEOREM AllMemoryAccounted == Spec => []MemoryAccounted
  <1>1. Inv => MemoryAccounted
    <2> SUFFICES ASSUME Inv PROVE MemoryAccounted
      OBVIOUS
    <2>1. phase = "unloaded" /\ listed => (ToSet(collector) \cup {goodTrace}) \ {Nothing} = {}
      BY DEF Inv, Driver, ToSet
    <2> QED
      BY <2>1 DEF Inv, Memory, TypeOK, MemoryAccounted
  <1> QED
    BY <1>1, Invariance, PTL
-----------------------------------------------------------------------------
(***************************************************************************)
(* The traces.  The range of a trace is an interval, empty or not, of its  *)
(* frames, so that the comparison, which only has the indexes, can be      *)
(* about the runs they bound.                                              *)
(***************************************************************************)

\* A loop ends at the first of its stops, or behind the last frame.
LEMMA LoopEnds ==
  ASSUME NEW n \in Nat, NEW Stops, NEW i \in 0..n
  PROVE  /\ Loop(i, n, Stops) \in i..n
         /\ Loop(i, n, Stops) = n \/ Loop(i, n, Stops) \in Stops
         /\ \A j \in i..n : j < Loop(i, n, Stops) => j \notin Stops
  <1> DEFINE Step(f) == [k \in 0..n |-> IF k = n \/ k \in Stops THEN k ELSE f[k + 1]]
             at == CHOOSE f : f = Step(f)
             ends(k) == {j \in k..n : j = n \/ j \in Stops}
             nearest == [k \in 0..n |-> Min(ends(k))]
  <1>1. Loop(i, n, Stops) = at[i]
    BY DEF Loop
  <1>2. \A k \in 0..n : nearest[k] \in ends(k) /\ \A j \in ends(k) : nearest[k] <= j
    <2> SUFFICES ASSUME NEW k \in 0..n
                 PROVE  Min(ends(k)) \in ends(k) /\ \A j \in ends(k) : Min(ends(k)) <= j
      OBVIOUS
    <2>1. ends(k) \in SUBSET Nat /\ n \in ends(k)
      OBVIOUS
    <2> HIDE DEF ends
    <2> QED
      BY <2>1, LeastNumber
  <1>3. nearest = Step(nearest)
    <2> SUFFICES ASSUME NEW k \in 0..n
                 PROVE  nearest[k] = IF k = n \/ k \in Stops THEN k ELSE nearest[k + 1]
      BY DEF nearest
    <2> HIDE DEF nearest
    <2>1. CASE k = n \/ k \in Stops
      <3>1. k \in ends(k) /\ \A j \in ends(k) : k <= j /\ j \in Nat
        BY <2>1
      <3> QED
        BY <1>2, <2>1, <3>1
    <2>2. CASE k # n /\ k \notin Stops
      <3>1. k + 1 \in 0..n /\ ends(k) = ends(k + 1) /\ ends(k) \subseteq Nat
        BY <2>2
      <3>2. nearest[k] <= nearest[k + 1] /\ nearest[k + 1] <= nearest[k]
            /\ nearest[k] \in Nat /\ nearest[k + 1] \in Nat
        BY <1>2, <3>1
      <3> QED
        BY <2>2, <3>2
    <2> QED
      BY <2>1, <2>2
  <1>4. at = Step(at)
    <2> HIDE DEF Step, nearest
    <2> QED
      BY <1>3
  <1> HIDE DEF at, nearest
  \* There is no last frame at which the two functions differ.
  <1>5. \A k \in 0..n : at[k] = nearest[k]
    <2> DEFINE wrong == {m \in 0..n : at[n - m] # nearest[n - m]}
    <2>1. CASE wrong # {}
      <3>1. wrong \in SUBSET Nat
        OBVIOUS
      <3> DEFINE m == Min(wrong)
      <3>2. m \in wrong /\ \A j \in wrong : m <= j
        BY <2>1, <3>1, LeastNumber
      <3> HIDE DEF m
      <3>3. /\ n - m \in 0..n
            /\ at[n - m] = IF n - m = n \/ n - m \in Stops THEN n - m ELSE at[n - m + 1]
            /\ nearest[n - m] = IF n - m = n \/ n - m \in Stops THEN n - m ELSE nearest[n - m + 1]
        <4>1. m \in 0..n /\ n - m \in 0..n
          BY <3>2
        <4>2. at[n - m] = Step(at)[n - m] /\ nearest[n - m] = Step(nearest)[n - m]
          BY <1>3, <1>4
        <4> QED
          BY <4>1, <4>2
      <3>4. m # 0
        BY <3>2, <3>3
      <3>5. m - 1 \in 0..n /\ m - 1 \notin wrong /\ n - (m - 1) = n - m + 1
        <4>1. m \in 0..n /\ m - 1 \in 0..n /\ ~(m <= m - 1)
          BY <3>2, <3>4
        <4> QED
          BY <3>2, <4>1
      <3>6. at[n - m + 1] = nearest[n - m + 1]
        BY <3>5
      <3> QED
        BY <3>2, <3>3, <3>6
    <2>2. CASE wrong = {}
      <3> SUFFICES ASSUME NEW k \in 0..n PROVE at[k] = nearest[k]
        OBVIOUS
      <3>1. n - k \in 0..n /\ n - (n - k) = k
        OBVIOUS
      <3> QED
        BY <2>2, <3>1
    <2> QED
      BY <2>1, <2>2
  <1>6. Loop(i, n, Stops) \in ends(i) /\ \A j \in ends(i) : Loop(i, n, Stops) <= j
    BY <1>1, <1>2, <1>5
  <1> QED
    BY <1>6

\* A range is the first run of frames in ntoskrnl, or (0,0) without one.
FirstNtRun(t) ==
    /\ t.ntStartIdx \in Int /\ t.ntEndIdx \in Int
    /\ t.ntStartIdx .. t.ntEndIdx = IF NtCalls(t) = {} THEN {0} ELSE NtCalls(t)

\* The constructor's loops and corrections find it.
LEMMA NtRangeFinds ==
  ASSUME NEW n \in Nat, NEW b \in [0..(n - 1) -> Addresses], NEW t, t.backtrace = b,
         NEW start, start = Loop(0, n, NtFrames(b)),
         t.ntStartIdx = NtRange(b, n, start).first,
         t.ntEndIdx = NtRange(b, n, start).last
  PROVE  FirstNtRun(t)
  <1> DEFINE Nt == NtFrames(b)
             stop == Loop(start, n, DOMAIN b \ Nt)
  <1>1. /\ Nt \subseteq 0..(n - 1) /\ DOMAIN b = 0..(n - 1)
        /\ NtCalls(t) = {i \in Nt : \A j \in 0..i : \A k \in 0..j : k \in Nt => j \in Nt}
    BY DEF NtFrames, NtCalls
  <1>2. /\ start \in 0..n
        /\ start = n \/ start \in Nt
        /\ \A j \in 0..n : j < start => j \notin Nt
    BY LoopEnds
  <1>3. /\ stop \in start..n
        /\ stop = n \/ stop \in DOMAIN b \ Nt
        /\ \A j \in start..n : j < stop => j \notin DOMAIN b \ Nt
    BY <1>2, LoopEnds
  <1>4. NtRange(b, n, start) = IF stop - 1 < start THEN [first |-> 0, last |-> 0]
                               ELSE [first |-> start, last |-> stop - 1]
    BY DEF NtRange
  <1> HIDE DEF Nt, stop
  <1>5. CASE start = n
    <2>1. stop = n /\ Nt = {}
      BY <1>1, <1>2, <1>3, <1>5
    <2>2. t.ntStartIdx = 0 /\ t.ntEndIdx = 0 /\ NtCalls(t) = {}
      BY <1>1, <1>4, <1>5, <2>1
    <2> QED
      BY <2>2 DEF FirstNtRun
  <1>6. CASE start # n
    <2>1. start \in Nt /\ stop # start
      BY <1>1, <1>2, <1>3, <1>6
    <2>2. t.ntStartIdx = start /\ t.ntEndIdx = stop - 1
      BY <1>2, <1>3, <1>4, <2>1
    <2>3. \A j \in start..(stop - 1) : j \in Nt
      BY <1>1, <1>2, <1>3
    <2>4. \A i \in start..(stop - 1) : i \in NtCalls(t)
      <3> SUFFICES ASSUME NEW i \in start..(stop - 1), NEW j \in 0..i, NEW k \in 0..j, k \in Nt
                   PROVE  j \in Nt
        BY <1>1, <2>3
      <3>1. ~(k < start) /\ k \in Nat
        BY <1>1, <1>2
      <3>2. j \in start..(stop - 1)
        BY <1>2, <1>3, <3>1
      <3> QED
        BY <2>3, <3>2
    <2>5. \A i \in NtCalls(t) : i \in start..(stop - 1)
      <3> SUFFICES ASSUME NEW i \in NtCalls(t), ~(i \in start..(stop - 1)) PROVE FALSE
        OBVIOUS
      <3>1. i \in Nt /\ i \in 0..(n - 1)
        BY <1>1
      <3>2. ~(i < start)
        BY <1>2, <3>1
      <3>3. stop \in 0..i /\ start \in 0..stop
        BY <1>2, <1>3, <3>1, <3>2
      <3>4. stop \in Nt
        BY <1>1, <2>1, <3>3
      <3> QED
        BY <1>1, <1>3, <3>4
    <2>6. start..(stop - 1) = NtCalls(t) /\ start \in start..(stop - 1)
      <3>1. start \in start..(stop - 1)
        BY <1>2, <1>3, <2>1
      <3> QED
        BY <2>4, <2>5, <3>1
    <2>7. NtCalls(t) # {} /\ start \in Int /\ stop - 1 \in Int
      <3>1. start \in Int /\ stop - 1 \in Int
        BY <1>2, <1>3
      <3>2. start \in NtCalls(t)
        BY <2>6
      <3> QED
        BY <3>1, <3>2
    <2> QED
      BY <2>2, <2>6, <2>7 DEF FirstNtRun
  <1> QED
    BY <1>5, <1>6

\* What a StackTrace object can be.
Traces == {Empty} \cup {Construct(s) : s \in Stacks}

\* So it is with every trace.
LEMMA TracesHaveRange ==
  ASSUME NEW t \in Traces
  PROVE  FirstNtRun(t) /\ t.stackframes <= MaxFrames
  <1>1. CASE t = Empty
    <2>1. /\ t.backtrace = << >> /\ t.stackframes = 0
          /\ t.ntStartIdx = 0 /\ t.ntEndIdx = 0 /\ NtCalls(t) = {}
      BY <1>1 DEF Empty, NtCalls
    <2> QED
      BY <2>1, TraceAssumption DEF FirstNtRun
  <1>2. ASSUME NEW s \in Stacks, t = Construct(s)
        PROVE  FirstNtRun(t) /\ t.stackframes <= MaxFrames
    <2>1. PICK d \in 1..MaxDepth : s \in [0..(d - 1) -> Addresses]
      BY DEF Stacks
    <2>2. Depth(s) = d /\ d \in Nat
      <3>1. 0 \in Int /\ d - 1 \in Int /\ d \in Nat /\ ~(0 > d - 1) /\ d - 1 - 0 + 1 = d
        BY TraceAssumption
      <3>2. Cardinality(0..(d - 1)) = d
        BY <3>1, FS_Interval
      <3> QED
        BY <2>1, <3>1, <3>2 DEF Depth
    <2> DEFINE n == IF Depth(s) < MaxFrames THEN Depth(s) ELSE MaxFrames
               b == [i \in 0..(n - 1) |-> s[i]]
               start == Loop(0, n, NtFrames(b))
    <2>3. n \in Nat /\ n <= MaxFrames /\ n <= d
      BY <2>2, TraceAssumption
    <2>4. /\ t.backtrace = b /\ t.stackframes = n
          /\ t.ntStartIdx = NtRange(b, n, start).first
          /\ t.ntEndIdx = NtRange(b, n, start).last
      BY <1>2 DEF Construct
    <2> HIDE DEF n
    <2>5. b \in [0..(n - 1) -> Addresses]
      <3>1. \A i \in 0..(n - 1) : i \in 0..(d - 1)
        BY <2>2, <2>3
      <3> QED
        BY <2>1, <3>1
    <2> HIDE DEF b, start
    <2>6. FirstNtRun(t)
      <3>1. start = Loop(0, n, NtFrames(b))
        BY DEF start
      <3> QED
        BY <2>3, <2>4, <2>5, <3>1, NtRangeFinds
    <2> QED
      BY <2>3, <2>4, <2>6
  <1> QED
    BY <1>1, <1>2 DEF Traces

\* A trace with ntoskrnl frames has as many as its range is long.
LEMMA RunLength ==
  ASSUME NEW t \in Traces
  PROVE  /\ NtCalls(t) = {} => t.ntStartIdx = 0 /\ t.ntEndIdx = 0 /\ Cardinality(NtCalls(t)) = 0
         /\ NtCalls(t) # {} =>
              /\ Cardinality(NtCalls(t)) = t.ntEndIdx - t.ntStartIdx + 1
              /\ t.ntStartIdx <= t.ntEndIdx
         /\ t.ntStartIdx \in Int /\ t.ntEndIdx \in Int
  <1> DEFINE a == t.ntStartIdx
             z == t.ntEndIdx
  <1>1. a \in Int /\ z \in Int /\ a .. z = IF NtCalls(t) = {} THEN {0} ELSE NtCalls(t)
    BY TracesHaveRange DEF FirstNtRun
  <1> HIDE DEF a, z
  <1>2. CASE NtCalls(t) = {}
    <2>1. 0 \in a .. z /\ a \in a .. z /\ z \in a .. z
      BY <1>1, <1>2
    <2>2. a = 0 /\ z = 0
      BY <1>1, <1>2, <2>1
    <2> QED
      BY <1>2, <2>2, FS_EmptySet DEF a, z
  <1>3. CASE NtCalls(t) # {}
    <2>1. a <= z
      BY <1>1, <1>3
    <2>2. Cardinality(a .. z) = IF a > z THEN 0 ELSE z - a + 1
      BY <1>1, FS_Interval
    <2> QED
      BY <1>1, <1>3, <2>1, <2>2 DEF a, z
  <1> QED
    BY <1>2, <1>3

\* What the comparison shows of any two traces.
LEMMA Compared ==
  ASSUME NEW t \in Traces, NEW o \in Traces, NEW n, n = Cardinality(NtCalls(t))
  PROVE  /\ SameRuns(t, o, n) => AreNtTracesSame(t, o)
         /\ n > 0 /\ NtCalls(o) # {} /\ AreNtTracesSame(t, o) => SameRuns(t, o, n - 1)
  <1>1. NtCalls(t) = {} => n = 0 /\ t.ntStartIdx = 0 /\ t.ntEndIdx = 0
    BY RunLength
  <1>2. NtCalls(t) # {} => n = t.ntEndIdx - t.ntStartIdx + 1 /\ n > 0
    BY RunLength
  <1>3. t.ntStartIdx \in Int /\ t.ntEndIdx \in Int /\ o.ntStartIdx \in Int /\ o.ntEndIdx \in Int
    BY RunLength
  <1>4. NtCalls(o) = {} => Cardinality(NtCalls(o)) = 0 /\ o.ntStartIdx = 0 /\ o.ntEndIdx = 0
    BY RunLength
  <1>5. NtCalls(o) # {} =>
          Cardinality(NtCalls(o)) = o.ntEndIdx - o.ntStartIdx + 1 /\ Cardinality(NtCalls(o)) > 0
    BY RunLength
  <1>6. ASSUME SameRuns(t, o, n) PROVE AreNtTracesSame(t, o)
    <2>1. t.ntEndIdx - t.ntStartIdx = o.ntEndIdx - o.ntStartIdx
      BY <1>1, <1>2, <1>3, <1>4, <1>5, <1>6 DEF SameRuns
    <2>2. 0..(t.ntEndIdx - t.ntStartIdx - 1) \subseteq 0..(n - 1)
      BY <1>1, <1>2, <1>3
    <2> QED
      BY <1>6, <2>1, <2>2 DEF SameRuns, NtAddress, AreNtTracesSame
  <1>7. ASSUME n > 0, NtCalls(o) # {}, AreNtTracesSame(t, o) PROVE SameRuns(t, o, n - 1)
    <2>1. n = t.ntEndIdx - t.ntStartIdx + 1
      BY <1>1, <1>2, <1>7
    <2>2. Cardinality(NtCalls(t)) = Cardinality(NtCalls(o))
      BY <1>3, <1>5, <1>7, <2>1 DEF AreNtTracesSame
    <2>3. n - 1 - 1 = t.ntEndIdx - t.ntStartIdx - 1
      BY <1>3, <2>1
    <2> QED
      BY <1>7, <2>2, <2>3 DEF SameRuns, NtAddress, AreNtTracesSame
  <1> QED
    BY <1>6, <1>7

-----------------------------------------------------------------------------
\* Either object is without frames or what the constructor makes of a thread's.
TraceInv ==
    /\ DOMAIN stack = {Good, New}
    /\ trace \in [{Good, New} -> Traces]

\* Nothing else becomes of the two objects, whatever the threads' stacks.
THEOREM TracesConstructed == TraceSpec => []TraceInv
  <1>1. TraceInit => TraceInv
    BY DEF TraceInit, TraceInv, Traces
  <1>2. TraceInv /\ [TraceNext]_traceVars => TraceInv'
    <2> SUFFICES ASSUME TraceInv, [TraceNext]_traceVars PROVE TraceInv'
      OBVIOUS
    <2>1. ASSUME NEW x \in {Good, New}, Capture(x) PROVE TraceInv'
      <3>1. PICK s \in Stacks : stack' = [stack EXCEPT ![x] = s]
        BY <2>1 DEF Capture
      <3>2. DOMAIN stack' = {Good, New} /\ stack'[x] = s
        BY <2>1, <3>1 DEF TraceInv
      <3>3. Construct(stack'[x]) \in Traces
        BY <3>2 DEF Traces
      <3> QED
        BY <2>1, <3>2, <3>3 DEF TraceInv, Capture
    <2>2. CASE UNCHANGED traceVars
      BY <2>2 DEF TraceInv, traceVars
    <2> QED
      BY <2>1, <2>2 DEF TraceNext
  <1> QED
    BY <1>1, <1>2, PTL DEF TraceSpec

\* For threads of any depth, any addresses and any size of the array: the
\* constructor's range is the first run of ntoskrnl frames, wherever it begins
\* and ends, and (0,0) if there is none.
THEOREM RangeFound == TraceSpec => []RangeIsFirstNtRun
  <1>1. TraceInv => RangeIsFirstNtRun
    BY TracesHaveRange DEF TraceInv, RangeIsFirstNtRun, FirstNtRun
  <1> QED
    BY <1>1, TracesConstructed, PTL

\* For the same: AreNtTracesSame raises no alarm about a run that only lies at
\* other indexes, and takes no two for the same whose runs differ in length or
\* before their outermost frame.
THEOREM SameIsRight == TraceSpec => []SameMeansSameRun
  <1>1. TraceInv => SameMeansSameRun
    BY Compared DEF TraceInv, SameMeansSameRun, DisplacementIgnored, HollowNoticed
  <1> QED
    BY <1>1, TracesConstructed, PTL

\* Which of two traces that are the same becomes the good one, for which the
\* creations race in FltpCheckAndSetGlobalStackTrace, makes no difference: a
\* third is like the one just when it is like the other.
THEOREM AnyGoodTraceWillDo ==
  ASSUME NEW t \in Traces, NEW o \in Traces, NEW u \in Traces, AreNtTracesSame(t, o)
  PROVE  AreNtTracesSame(t, u) <=> AreNtTracesSame(o, u)
  BY DEF AreNtTracesSame
=============================================================================
