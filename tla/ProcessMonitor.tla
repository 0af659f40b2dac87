---------------------------- MODULE ProcessMonitor ----------------------------
(***************************************************************************)
(* What the notification driver keeps about processes and threads: the     *)
(* process and thread routines of Filter.cpp, the ProcessCollector they    *)
(* share, the good stack trace, and how DriverEntry and DriverUnload       *)
(* construct, register, remove and destroy all this, in a free build: no   *)
(* assertion stops a driver one of whose routines could not be registered. *)
(*                                                                         *)
(* The collector is only touched under its own push lock, the good trace   *)
(* is only set under gDrvData.Lock, and nothing waits inside: each such    *)
(* section is one step.  What is between them is not locked: GetProcess    *)
(* hands a pointer out of the lock, and the flag wasMainThreadCreated is   *)
(* tested and set in two steps.                                            *)
(*                                                                         *)
(* From the system the model assumes: the process routine is told of a new *)
(* process by whoever inserts its first thread, before that thread's own   *)
(* notification and with nothing to hold back the insertion of a second    *)
(* thread; a process exits when no thread is being inserted into it; its   *)
(* id is free for another process after the exit was told; and removing a  *)
(* routine waits for the calls that are in it.                             *)
(***************************************************************************)
EXTENDS Naturals, Sequences, SequencesExt

CONSTANTS
    Processes,    \* the processes over time; also names their Process entries
    Threads,      \* the threads over time
    Pids,         \* the process ids there are to share
    Nothing       \* a null pointer

ASSUME MonitorAssumption ==
    /\ Nothing \notin Processes \cup Threads \cup Pids
    /\ Processes \cap Threads = {}

VARIABLES
    phase,        \* how far DriverEntry and DriverUnload have come
    registered,   \* which of the two routines the system calls
    listed,       \* is gDrvData's destructor in gDestructorsList?
    pid,          \* the id of each process
    life,         \* the life of each process
    collector,    \* ProcessCollector::activeProcesses
    marked,       \* the entries whose wasMainThreadCreated is set
    goodTrace,    \* gDrvData.ProcessCreateGoodStackTrace: who captured it
    allocated,    \* the Process entries and good traces made,
    freed,        \*   and those deleted
    tpc,          \* where the creation of each thread is
    owner,        \* the process a thread is created in
    first,        \* is it the first thread of its process?
    entry,        \* the pointer FltpHandleThreadCreate got
    verdict,      \* what it reported
    earlier       \* the creations already over when this one was told (history)

driverVars == <<phase, registered, listed>>
processVars == <<pid, life>>
heapVars == <<allocated, freed>>
dataVars == <<collector, marked, goodTrace, heapVars>>
tellVars == <<owner, first, earlier>>
threadVars == <<tpc, tellVars, entry, verdict>>
vars == <<driverVars, processVars, dataVars, threadVars>>

\* "process" and "loaded": DriverEntry has tried to register the routine for
\* processes, then for threads; "unloading" and "removed": DriverUnload has
\* removed them in this order.
Phases == {"entry", "constructed", "process", "loaded", "unloading", "removed",
           "uninit", "unloaded"}
ThreadPcs == {"idle", "processNotify", "threadNotify", "find", "test", "mark",
              "keep", "compare", "done"}
InRoutine == {"find", "test", "mark", "keep", "compare"}

Init ==
    /\ phase = "entry"
    /\ registered = {}
    /\ listed = FALSE
    /\ pid = [p \in Processes |-> Nothing]
    /\ life = [p \in Processes |-> "absent"]
    /\ collector = << >>
    /\ marked = {}
    /\ goodTrace = Nothing
    /\ allocated = {}
    /\ freed = {}
    /\ tpc = [t \in Threads |-> "idle"]
    /\ owner = [t \in Threads |-> Nothing]
    /\ first = [t \in Threads |-> FALSE]
    /\ entry = [t \in Threads |-> Nothing]
    /\ verdict = [t \in Threads |-> "none"]
    /\ earlier = [t \in Threads |-> {}]

\* FindProcessUnsafe: the first entry with this id, or a null pointer.
FindProcessUnsafe(id) ==
    LET hits == {i \in DOMAIN collector : pid[collector[i]] = id}
    IN  IF hits = {} THEN Nothing ELSE collector[Min(hits)]

\* DriverEntry or DriverUnload, and the creation of thread t, go on.
Go(from, to) == phase = from /\ phase' = to
Move(t, from, to) == tpc[t] = from /\ tpc' = [tpc EXCEPT ![t] = to]
\* RemoveEntry and delete of the i-th entry.
DeleteEntry(i) ==
    /\ collector' = RemoveAt(collector, i)
    /\ freed' = freed \cup {collector[i]}
-----------------------------------------------------------------------------
(* Slips a rewrite of this code could make; see the note in ThreadPool.    *)

\* The thread routine is removed without waiting for its calls.
RemoveAtOnce ==
    /\ Go("unloading", "removed")
    /\ registered' = registered \ {"thread"}
    /\ UNCHANGED <<listed, processVars, dataVars, threadVars>>

\* The oldest entry is taken for the right one.
TerminateOldest(id) ==
    IF FindProcessUnsafe(id) = Nothing THEN UNCHANGED <<collector, freed>>
                                       ELSE DeleteEntry(1)

\* The result of FindProcessUnsafe is not looked at.
TerminateUnlooked(id) ==
    /\ collector' = SelectSeq(collector, LAMBDA q : q # FindProcessUnsafe(id))
    /\ freed' = freed \cup {FindProcessUnsafe(id)}

\* SetMainThreadCreated is lost.
PassUnmarked(t) ==
    /\ Move(t, "mark", "keep")
    /\ UNCHANGED <<driverVars, processVars, dataVars, tellVars, entry, verdict>>

\* The test for a trace is made outside the lock, and stale inside.
ReplaceGoodTrace(t) ==
    /\ Move(t, "keep", "compare")
    /\ goodTrace' = t
    /\ allocated' = allocated \cup {t}
    /\ UNCHANGED <<driverVars, processVars, collector, marked, freed, tellVars,
                   entry, verdict>>
-----------------------------------------------------------------------------
(* The ProcessCollector, always under its lock.                            *)

\* InsertProcess.  The allocation may fail.
InsertProcess(p) ==
    \/ collector' = Append(collector, p) /\ allocated' = allocated \cup {p}
    \/ UNCHANGED <<collector, allocated>>

TerminateProcess(id) ==
    LET found == FindProcessUnsafe(id)
    IN  IF found = Nothing THEN UNCHANGED <<collector, freed>>
        ELSE \E i \in DOMAIN collector : collector[i] = found /\ DeleteEntry(i)

\* ~ProcessCollector.
Flush == collector' = << >> /\ freed' = freed \cup ToSet(collector)
-----------------------------------------------------------------------------
(* Processes and threads come and go.                                      *)

\* The first thread of a process, inserted by another process.
CreateProcess(t, p) ==
    /\ life[p] = "absent"
    /\ Move(t, "idle", "processNotify")
    /\ \E id \in Pids :
         /\ \A q \in Processes : life[q] = "alive" => pid[q] # id
         /\ pid' = [pid EXCEPT ![p] = id]
    /\ life' = [life EXCEPT ![p] = "alive"]
    /\ owner' = [owner EXCEPT ![t] = p]
    /\ first' = [first EXCEPT ![t] = TRUE]
    /\ UNCHANGED <<driverVars, dataVars, earlier, entry, verdict>>

\* A further thread, inserted by another process.  Those a process creates
\* for itself return from the routine at once.
CreateThread(t, p) ==
    /\ life[p] = "alive"
    /\ Move(t, "idle", "threadNotify")
    /\ owner' = [owner EXCEPT ![t] = p]
    /\ UNCHANGED <<driverVars, processVars, dataVars, first, earlier, entry, verdict>>

\* The exit of a process: FltpHandleProcessTerminate.
ExitProcess(p) ==
    /\ life[p] = "alive"
    /\ \A t \in Threads : owner[t] = p => tpc[t] = "done"
    /\ life' = [life EXCEPT ![p] = "gone"]
    /\ IF "process" \in registered THEN TerminateProcess(pid[p])
                                     ELSE UNCHANGED <<collector, freed>>
    /\ UNCHANGED <<driverVars, pid, marked, goodTrace, allocated, threadVars>>
-----------------------------------------------------------------------------
(* The notifications of a creation.                                        *)

\* FltpHandleProcessCreate.
NotifyProcess(t) ==
    /\ Move(t, "processNotify", "threadNotify")
    /\ IF "process" \in registered THEN InsertProcess(owner[t])
                                     ELSE UNCHANGED <<collector, allocated>>
    /\ UNCHANGED <<driverVars, processVars, marked, goodTrace, freed, tellVars,
                   entry, verdict>>

NotifyThread(t) ==
    /\ Move(t, "threadNotify", IF "thread" \in registered THEN "find" ELSE "done")
    /\ earlier' = [earlier EXCEPT ![t] = {u \in Threads : tpc[u] = "done"}]
    /\ UNCHANGED <<driverVars, processVars, dataVars, owner, first, entry, verdict>>

\* GetProcess.
FindProcess(t) ==
    /\ LET found == FindProcessUnsafe(pid[owner[t]])
       IN  /\ Move(t, "find", IF found = Nothing THEN "done" ELSE "test")
           /\ entry' = [entry EXCEPT ![t] = found]
    /\ UNCHANGED <<driverVars, processVars, dataVars, tellVars, verdict>>

\* WasMainThreadCreated: what comes later is reported as a remote thread.
TestMainThread(t) ==
    /\ IF entry[t] \in marked
       THEN /\ Move(t, "test", "done")
            /\ verdict' = [verdict EXCEPT ![t] = "remote"]
       ELSE Move(t, "test", "mark") /\ UNCHANGED verdict
    /\ UNCHANGED <<driverVars, processVars, dataVars, tellVars, entry>>

\* SetMainThreadCreated.
MarkMainThread(t) ==
    /\ Move(t, "mark", "keep")
    /\ marked' = marked \cup {entry[t]}
    /\ UNCHANGED <<driverVars, processVars, collector, goodTrace, heapVars,
                   tellVars, entry, verdict>>

\* FltpCheckAndSetGlobalStackTrace.  The allocation may fail.
KeepGoodTrace(t) ==
    /\ Move(t, "keep", "compare")
    /\ \/ /\ goodTrace = Nothing
          /\ goodTrace' = t
          /\ allocated' = allocated \cup {t}
       \/ UNCHANGED <<goodTrace, allocated>>
    /\ UNCHANGED <<driverVars, processVars, collector, marked, freed, tellVars,
                   entry, verdict>>

\* AreNtTracesSame, if there is a good trace.  A creation has the same frames
\* of the kernel as its own good trace.
CompareTrace(t) ==
    /\ Move(t, "compare", "done")
    /\ \/ UNCHANGED verdict
       \/ /\ goodTrace \notin {Nothing, t}
          /\ verdict' = [verdict EXCEPT ![t] = "hollow"]
    /\ UNCHANGED <<driverVars, processVars, dataVars, tellVars, entry>>

ThreadStep(t) ==
    \/ NotifyProcess(t)
    \/ NotifyThread(t)
    \/ FindProcess(t)
    \/ TestMainThread(t)
    \/ MarkMainThread(t)
    \/ KeepGoodTrace(t)
    \/ CompareTrace(t)
-----------------------------------------------------------------------------
(* DriverEntry and DriverUnload.                                           *)

\* atexit, CppRegisterDestructor: there may be no memory for the entry.
RegisterDestructor == listed' \in BOOLEAN

\* CppInitializeDestructorsList, CppCallStaticConstructors: gDrvData is
\* constructed.
ConstructGlobals ==
    /\ Go("entry", "constructed")
    /\ RegisterDestructor
    /\ UNCHANGED <<registered, processVars, dataVars, threadVars>>

\* A routine that cannot be registered is noticed by an assertion only.
RegisterProcessRoutine ==
    /\ Go("constructed", "process")
    /\ registered' \in {registered, registered \cup {"process"}}
    /\ UNCHANGED <<listed, processVars, dataVars, threadVars>>

RegisterThreadRoutine ==
    /\ Go("process", "loaded")
    /\ registered' \in {registered, registered \cup {"thread"}}
    /\ UNCHANGED <<listed, processVars, dataVars, threadVars>>

RemoveProcessRoutine ==
    /\ Go("loaded", "unloading")
    /\ registered' = registered \ {"process"}
    /\ UNCHANGED <<listed, processVars, dataVars, threadVars>>

RemoveThreadRoutine ==
    /\ \A t \in Threads : tpc[t] \notin InRoutine
    /\ Go("unloading", "removed")
    /\ registered' = registered \ {"thread"}
    /\ UNCHANGED <<listed, processVars, dataVars, threadVars>>

\* GdrvUninitGlobalData deletes the good trace.
DeleteGoodTrace ==
    /\ Go("removed", "uninit")
    /\ goodTrace' = Nothing
    /\ freed' = freed \cup ({goodTrace} \ {Nothing})
    /\ UNCHANGED <<registered, listed, processVars, collector, marked, allocated,
                   threadVars>>

\* CppCallStaticDestructors: the destructors that are listed run.
DestroyGlobals ==
    /\ Go("uninit", "unloaded")
    /\ IF listed THEN Flush ELSE UNCHANGED <<collector, freed>>
    /\ UNCHANGED <<registered, listed, processVars, marked, goodTrace, allocated,
                   threadVars>>

DriverStep ==
    \/ ConstructGlobals
    \/ RegisterProcessRoutine
    \/ RegisterThreadRoutine
    \/ RemoveProcessRoutine
    \/ RemoveThreadRoutine
    \/ DeleteGoodTrace
    \/ DestroyGlobals

\* The driver is gone and the threads there may be have been created.
Terminated ==
    /\ phase = "unloaded"
    /\ \A t \in Threads : tpc[t] \in {"idle", "done"}
    /\ UNCHANGED vars

Next ==
    \/ \E t \in Threads, p \in Processes : CreateProcess(t, p) \/ CreateThread(t, p)
    \/ \E p \in Processes : ExitProcess(p)
    \/ \E t \in Threads : ThreadStep(t)
    \/ DriverStep
    \/ Terminated

Spec == Init /\ [][Next]_vars
-----------------------------------------------------------------------------
(* Properties.                                                             *)

\* The variables keep their types.
TypeOK ==
    /\ phase \in Phases
    /\ registered \subseteq {"process", "thread"}
    /\ listed \in BOOLEAN
    /\ pid \in [Processes -> Pids \cup {Nothing}]
    /\ life \in [Processes -> {"absent", "alive", "gone"}]
    /\ collector \in Seq(Processes)
    /\ marked \subseteq Processes
    /\ goodTrace \in Threads \cup {Nothing}
    /\ allocated \subseteq Processes \cup Threads
    /\ freed \subseteq allocated
    /\ tpc \in [Threads -> ThreadPcs]
    /\ owner \in [Threads -> Processes \cup {Nothing}]
    /\ first \in [Threads -> BOOLEAN]
    /\ entry \in [Threads -> Processes \cup {Nothing}]
    /\ verdict \in [Threads -> {"none", "remote", "hollow"}]
    /\ earlier \in [Threads -> SUBSET Threads]

(***************************************************************************)
(* FltpHandleThreadCreate, which uses its Process pointer outside the      *)
(* collector's lock and the good trace outside gDrvData.Lock, uses neither *)
(* after it was deleted by an exit or by unloading.                        *)
(***************************************************************************)
NoUseAfterDelete ==
    \A t \in Threads :
      /\ tpc[t] \in {"test", "mark"} => entry[t] \notin freed
      /\ tpc[t] \in InRoutine => phase \in {"loaded", "unloading"}

(***************************************************************************)
(* While the process routine is registered the collector holds processes   *)
(* that live, no two with the same id and none twice, although ids are     *)
(* used again: GetProcess finds the right process.                         *)
(***************************************************************************)
CollectorHoldsLiving ==
    "process" \in registered =>
      /\ \A p \in ToSet(collector) : life[p] = "alive"
      /\ \A i, j \in DOMAIN collector :
           pid[collector[i]] = pid[collector[j]] => i = j

(***************************************************************************)
(* A creation by another process that is told after an earlier one into    *)
(* the same entry was dealt with is reported as remote: only creations     *)
(* that overlap can slip through the unlocked test of                      *)
(* WasMainThreadCreated.                                                   *)
(***************************************************************************)
LaterCreationReported ==
    \A t \in Threads :
      (/\ tpc[t] = "done"
       /\ entry[t] # Nothing
       /\ \E u \in earlier[t] : entry[u] = entry[t])
      => verdict[t] = "remote"

(***************************************************************************)
(* Whoever allocated it, in whatever overlap, an entry or a good trace is  *)
(* deleted or still held where unloading will find it, never both; and an  *)
(* unloaded driver has deleted all of them, whichever routine could not be *)
(* registered, unless its destructor could not be listed.                  *)
(***************************************************************************)
MemoryAccounted ==
    LET held == (ToSet(collector) \cup {goodTrace}) \ {Nothing}
    IN  /\ allocated = held \cup freed
        /\ held \cap freed = {}
        /\ phase = "unloaded" /\ listed => held = {}

(***************************************************************************)
(* A thread reported as "truly a remote thread" (Filter.cpp:95) is not the *)
(* first thread of its process.  The code does not guarantee it.           *)
(***************************************************************************)
ReportedIsRemote ==
    \A t \in Threads : verdict[t] = "remote" => ~first[t]
=============================================================================
