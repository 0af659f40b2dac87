# DMSK: specifications, model checking and proofs

This directory holds TLA+ specifications of the programs in this repository: a
console application with a thread pool (`Lab1WPP`), two stacked control drivers
(`IOCTLFirstDriver`, `IOCTLSecondDriver`), a notification driver
(`NotificationDriver`) and the beginnings of a minifilter (`Procmon`). TLC checks
them on small instances; TLAPS proves every safety property and every refinement
that a passing run checks, for any number of threads, requests, clients, processes,
entries or frames.

Contents

1. The system: inventory
2. The modules and how they correspond to the code
3. The runs: what each checks, its bounds, its fairness
4. The proofs
5. What the code does not do as it says
6. What is assumed, and what is not modelled
7. The plan

## 1. The system: inventory

| Part | State it keeps | Operations | Meets | What is hard |
|---|---|---|---|---|
| Thread pool (`Lab1WPP/ThreadPool.cpp`) | `pendingShutdown`, the vector of thread handles, two manual-reset events, the deque `items` under `itemsLock` | constructor, `EnqueueItem`, `Shutdown`, destructor; `DoWork` and `GetWorkerItem` in the workers | owner, callers, workers | `pendingShutdown` is written without the lock; the event says "there are items" and is set and reset apart from the queue; every handle can fail to be created |
| Commands (`Source.cpp`, `CommandInterpreter.cpp`, `ProcessUtils.cpp`, `RemoteThread.cpp`, `Ioctl.cpp`) | the standard input's failure bits, what a command has open, what earlier ones have lost, a `cmd.exe` it created | one action per command and per call in it that may fail | the console, ntdll, the notification driver's and the First driver's devices | many early returns and exceptions, each with something to release; retries of a query whose answer grows; a stream's failbit shared by two readers |
| Global data (`Lab1WPP/GlobalData.cpp`) | the pool, the imports of ntdll | construction before `main` (`SolveImports`), destruction after it (`CleanImports`) | the commands | an import that is missing, a pool that is replaced |
| First control driver (`IOCTLFirstDriver`) | its device with a remove lock, a link, the file of the Second's device | start, stop, three IRP handlers, a completion routine | its clients, the Second driver | a lock is taken in a handler and released in a completion routine, which runs inside the other driver |
| Second control driver (`IOCTLSecondDriver`) | its device with a remove lock | start, stop, three IRP handlers | its clients, the First driver | requests are completed before the lock is released |
| Loading and unloading of the notification driver (`DriverEntry.cpp`, `GlobalData.cpp`) | the five routines the system calls, the global data | the search for ntoskrnl, five registrations, five removals | everything in this driver | each step can fail, and an `NT_ASSERT` is the only one to notice, in a checked build; the module list changes between the two queries of the search |
| Control device of the notification driver (`DeviceObject.cpp`, `GlobalData.cpp`) | `DeviceObject`, its device, the remove lock, `gDrvData.Lock`, `ProtectedProcessPid` | three IRP handlers, creation, destruction | the console application, the handle filter | two locks taken in opposite orders by handlers and unloading |
| Handle filter (`Filter.cpp`, `FltPreProcessCreateRoutine`) | none of its own | strips the access rights of a handle to the protected process | the control device | it runs in any thread, up to its unregistration |
| Process and thread monitor (`Filter.cpp`, `ProcessCollector.cpp`, `Process.hpp`) | the collector's list of `Process` entries under a push lock, `wasMainThreadCreated` in each, the good stack trace | process creation and exit, thread creation, registration and removal | the system's notifications, in any thread | a pointer is handed out of the lock; a flag is tested and set in two steps; process ids are used again; allocations fail |
| C++ runtime of the notification driver (`cpp_crt_data_section.cpp`) | the list of destructors | static constructors, `atexit`, static destructors | the driver's global data | `atexit` may fail, and the destructor is then never called |
| Linked list (`LinkedList.hpp`) | a ring of entries, `noElements` | insert at both ends, remove, iterate, flush | the collector | removed entries keep their links; the counter is unsigned |
| Stack traces (`StackTrace.cpp`) | captured frames and the range of the first run inside ntoskrnl | construction, comparison | the monitor | three corrections by one; traces without a run |
| Minifilter (`Procmon/Minifilter/Minifilter.cpp`, `GlobalData.cpp`) | the filter, the port it owns | `DriverEntry` with each failure, `DriverUnload` | the filter manager | half-failed starts |
| Communication port (`FltPort.cpp`) | client and server port, push lock, message callback | construction, destruction, connect, disconnect and message callbacks | user-mode clients | the callbacks run against the destructor; a disconnect names no connection |
| Runtime support (`Procmon/CppLib`) | the list of static destructors, owning pointers, locks | start, stop, `UniquePointer::Update`, `Pushlock` | the minifilter | an object deleted by its owner and by the static destructor |

How the parts interact. The console application sends IOCTLs to the First driver,
which passes them down to the Second, and to the notification driver, which
protects the process whose id it is told. Inside the notification driver the
control device and the handle filter share `gDrvData`; the monitor shares with
them only the order in which unloading takes everything down. The monitor uses the
linked list and the stack traces. The minifilter is a driver of its own; nothing
in the repository connects to its port yet.

What would make each part correct:

- pool: an accepted item runs once, `Shutdown` returns, and returns only when all
  accepted items have run; no handle is used before its creation or after its
  disposal;
- commands: whatever fails, a command comes back and has released what it held (a
  string that cannot be allocated in a dump is the exception the code makes);
- control drivers: a device outlives the handlers in it, the remove lock counts
  them exactly, an unload that begins ends;
- control device: the same, under the inverted lock order; protection is not
  lifted from a request that is in the filter;
- loading: a list of modules that changes does not hide the kernel; a checked build
  that is loaded lacks nothing; no build takes data apart that a registered routine
  uses; loading and unloading end;
- monitor: nothing deleted is used, the collector holds the living processes, a
  thread put into a process by another process after its first is reported, and what
  was allocated is deleted once;
- list, traces: what an ordered list and a comparison of runs promise;
- minifilter: a disconnect closes its own connection, an unloaded or failed driver
  leaves nothing, no new callback once the port is closed.

## 2. The modules and how they correspond to the code

| Module | Stands for | Composes with |
|---|---|---|
| `WorkQueue` | abstract: what a pool promises (FIFO, once, closed when drained) | implemented by `ThreadPool` |
| `ThreadPool` | `Lab1WPP/ThreadPool.cpp` | |
| `ConsoleApp` | `main`, the commands, global data | uses a pool as a unit: constructed, shut down, destroyed |
| `RemoveLock` | the kernel's remove lock, as the drivers use it | instantiated once by `NotificationDevice`, twice by `IoctlStack` |
| `GuardedDevice` | abstract: requests enter an open device and it is deleted when the last has left | implemented by `NotificationDevice` and by each driver of `IoctlStack` |
| `IoctlStack` | both control drivers and the requests that pass through both | two `RemoveLock`s |
| `NtImageBase` | the search for ntoskrnl in the module list (`GlobalData.cpp`) | the part of `NotificationDevice` between device and registrations |
| `NotificationDevice` | `DriverEntry`, control device, handle filter, `DriverUnload` | extends `NtImageBase`, one `RemoveLock` |
| `ProcessMonitor` | collector, process and thread routines, good trace, static construction and destruction | uses a list of objects and an abstract comparison |
| `ObjectList` | abstract: a list that owns its objects | implemented by `LinkedList` |
| `LinkedList` | `LinkedList.hpp` | |
| `StackTrace` | constructor and comparison of stack traces | |
| `Minifilter` | `DriverEntry`, `DriverUnload`, `FltPort`, the parts of CppLib they use | |
| `ThreadPoolProofs`, `NotificationDeviceProofs`, `IoctlStackProofs`, `ProcessMonitorProofs`, `MinifilterProofs`, `LinkedListProofs`, `ConsoleAppProofs` | theorems, section 4 | each extends the module it is named after, `ProcessMonitorProofs` also `StackTrace`, which the monitor uses |
| `ListLemmas` | facts about sequences the proofs share | |

Each `MC_` module instantiates one of them for TLC.

In all of them an action is what one thread does between two points where another
could notice. Critical sections in which nothing waits are single steps that need
the lock free; a lock is a variable only where it is held across steps. Program
counters are named after what the thread does next. A history variable is said to
be one where it is declared. Near its head each module has a section of *slips*:
variants of actions that a rewrite could make. No behaviour of the specification
takes them; each replaces its action to see that a property notices.

**ThreadPool.** `opc` and `goal` are the owner in the constructor, `Shutdown` or
the destructor, `epc[c]` one call of `EnqueueItem`, `dpc[s]` the worker whose
handle is `threads[s]`. The reads and the one write of `pendingShutdown` are steps
of their own, since no lock covers them. `EnqueueItem` is entry, lock, test, push,
set event and unlock; `GetWorkerItem` is lock, test and pop, reset event and
unlock. A failing constructor cleans up (`unwind`), as `CleanupThreadPool` and
`DisposeEvents` do. An argument of 0 or above `hardware_concurrency()` is
corrected; this is why `ThreadPoolTests.cpp:76` expects the smaller of 5 and it,
and why a pool that is asked for 5 workers may have fewer.

**WorkQueue.** `Close` is the moment `pendingShutdown` is set; submissions may
still be taken until `Finish`, because a caller may have tested the flag before.

**ConsoleApp.** One thread, one program counter. `held` is what the current
command must release, a subset of a fixed set of resources; each system call and
each allocation of a command has a successful and a failing outcome; exceptions go
where `Execute` catches them. Two of them pass a `CleanUp` label: that of the string
for a process's command line (`ReadProcess`) and that of the string for its name
(`FailName`). What the dump held then goes from `held` to `leaked` (`Abandon`), a
history variable, as the program keeps no record of it. `input` is the lines typed ahead, `failed` the stream's failbit.

**RemoveLock** is a count and the mark that removal has begun. `Acquire` on a lock
so marked counts nothing, as `IoAcquireRemoveLock` fails then, but the handler goes
on, since none of the drivers looks at the result: that such a handler does no harm
is for the modules that use the lock to show.

**IoctlStack.** `ipc[i]` is where request i is, through both drivers; `fpc` and
`spc` the start and stop of each. The First driver's own open of the Second's device
and its close are requests like the others. A client can open the device again after
it closed it (`Reopen`), and both drivers can be started and stopped without end.
The comment `IOCTLFirstDriver/ioctl.c:33-34` worries that the driver may be
unloaded inside its completion routine; in the model no order of the code's own
steps could bring that about, because the I/O manager's references to an open file
already exclude it, so no property is stated about it.

**NtImageBase.** `modulesSize` is the room in the buffer, in modules. The list
grows at its end and shrinks anywhere but at its head, where the kernel is, between
any two steps of the search; the search retries when the second query fails.

**NotificationDevice.** `upc` is the driver's thread from `DriverEntry` through
`DriverUnload` with `~DeviceObject`; `routines` are those it has yet to register or
remove, in the orders of the two functions, which differ. `checked` says whether an
`NT_ASSERT` stops the machine (the state `bugcheck`) or is not there. `ipc[i]` is
a handler between acquiring and releasing the remove lock, `hpc[o]` a request in
the handle filter. In a free build a device that could not be created leads at
unload to `bugcheck` as well: there the destructor dereferences a null pointer.

**ProcessMonitor.** A `Process` entry has the name of its process, so that a
pointer kept after the exit can be told from the next process with the same id.
`tpc[t]` is a creation between the system's two notifications, `GetProcess`, the
test of `wasMainThreadCreated`, its setting, and the comparison with the good
trace. The collector's operations are named after the code's
(`FindProcessUnsafe`, `InsertProcess`, `TerminateProcess`, and `Flush` for the
destructor); `allocated` and `freed` are the heap, entries and good traces alike.
`ConstructGlobals` and `DestroyGlobals` are the runtime support around the driver,
whose `atexit` may not find memory for its entry.

**LinkedList** has `flink` and `blink` as functions on nodes; its refinement of
`ObjectList` maps the abstract sequence to what iterating from `begin()` to
`end()` yields. **StackTrace** computes the range with the code's two loops and
corrections, over LONG values that may pass through -1, and compares with a
definition of "the first run of frames in ntoskrnl" that does not use loops.

**Minifilter.** `drv` is `DriverEntry` or `DriverUnload`, down to the steps of
`~FltPort`: close the client port, close the server port, release, acquire once
more in `~Pushlock`, free. `stage[c]` is a client thread and the callback it is in.
The lock needs no variable: who holds it follows from where everybody is.
`pointer` (who owns) and `object` (what is allocated) are apart, because the reset
clears one before it deletes the other. `succeeded` is the status `DriverEntry` ends
with, which stays a success when the port could not be created: the driver then is
loaded without a filter (`unfiltered`). A callback still waiting for the lock when
the port is freed may then bring the system down or pass unnoticed
(`TouchDeleted`): the model has that race, since the code has it.

## 3. The runs

All runs end within two minutes. Those that pass check deadlock, except where noted.

| Run | Bounds | Distinct states | Shows |
|---|---|---|---|
| `threadpool` | 2 workers, 3 submissions | 42481 | `ShutdownDrains`, `EventMatchesQueue` whenever the lock is free, `HandlesOpenWhileUsed`; the pool implements `WorkQueue`; every accepted item runs and every `Shutdown` returns |
| `notification_device` | 2 device controls, create, close, 1 handle request, 2 pids, the kernel and 1 other module, 1 failing registration, either build | 398227 | `DeviceOutlivesHandlers`, `LockOrderHarmless`, `ProtectionStands`, `NothingMissedNothingLeft`; the remove lock implements `GuardedDevice`; `LoadingAndUnloadingEnd` |
| `process_monitor_safety` | 2 processes, 3 threads, 2 ids, any allocation and registration may fail | 106569 (up to symmetry) | `NoUseAfterDelete`, `CollectorHoldsLiving`, `LaterCreationReported`, `MemoryAccounted` |
| `process_monitor_remote` | 1 process, 2 threads | | finding, section 5 |
| `ioctl_stack` | 3 device controls, create, close, the First's own open and close, any number of starts and stops | 9433 | `DevicesOutliveRequests`, `StoppedLeavesNothing`; both remove locks implement `GuardedDevice`; `UnloadsEnd` |
| `linked_list` | 3 entries | 5234 | `LinksSound`, refinement of `ObjectList`, `FlushEmpties` |
| `console_app` | 2 lines typed ahead, 2 processes listed | 493858 | `OnlyStringsLeak`, `PoolsAccountedFor`, `CommandsEnd`, `ExitHeeded` unless standard input fails |
| `console_app_exit` | 1 line, 1 process | | finding |
| `stack_trace` | addresses 1 to 4 around ntoskrnl, 3 frames captured of up to 4 | 116281 | `RangeIsFirstNtRun`; `SameMeansSameRun`: same runs and only those (up to the outermost frame) compare equal |
| `stack_trace_calls` | 2 frames | | finding |
| `minifilter` | 3 clients, with and without a message callback | 2520 | `OneClientAtATime`, `ClosedToNewCallbacks`, `NothingLeft`, `DeletionEnds` |
| `minifilter_message` | 2 clients, the null callback of `DriverEntry` | | finding |

What the less obvious of them say:

- `ImplementsGuardedDevice(s)`: no handler is inside the device before it is open or
  after its removal began, and it is deleted when none is inside, although nobody
  looks at what `IoAcquireRemoveLock` returns, and although in the First driver the
  lock is released by a completion routine in the other driver's thread.
- `NothingMissedNothingLeft`: a search in which no call failed has found the kernel
  if it is listed, however the list changed; a checked build that is loaded has
  device, base address and all five routines; no routine is registered any more
  when either build takes its global data apart.
- `MemoryAccounted`: `allocated` is what is held plus what is freed, and nothing is
  in both, so two creations that both find no good trace do not lose one; an
  unloaded driver holds nothing, unless its destructor could not be listed.
- `OnlyStringsLeak`: whatever fails in a command, by return, by `goto` or by an
  exception, everything is released and `cmd.exe` is gone, with one exception: the
  two strings of a dump. What they lose is the snapshot, the process handle, or the
  list of processes together with a process handle.
- `LaterCreationReported`: the unlocked test can only let creations through that
  overlap.
- `OneClientAtATime`: `DisconnectNotifyCallback` closes whatever client
  port there is; that it is the right one depends on the next client being refused
  as long as the late disconnect has not run.

Why the bounds suffice. Two workers and three submissions have a worker that
drains while another takes, a submission that races the flag behind one that was
accepted before it, and a queue longer than one. Two device controls have one
request under each of the inverted locks at once; one module besides the kernel can
come between the two queries, so that the buffer is too small, and go, so that it
is too large; one registration that fails at a time is every registration once
(`MaxUnset`). Two processes with two ids have an id used again and two that live
side by side; three threads have two creations that overlap and one after both.
Three controls in the control drivers have one in each driver and one in the
completion routine. Three list entries have one with two neighbours that are no
head. Addresses 1 to 4 have both bounds of the module and two addresses in it.
Three clients have one leaving, one connected or connecting, one waiting.
`MaxTyped`, `MaxProcesses`, `MaxUnset` and `MaxDepth` are the only cut-offs of
something that is larger in the program; two lines typed ahead are a line that is
spoiled and an Exit behind it. The proofs are for every value of all of these.

Fairness is what schedulers give, and no more:

- threads that are inside a function of the code go on (weak fairness), as every
  thread of a Windows system eventually runs; nothing makes a client send, a user
  type or an administrator unload;
- a pool worker that waits is scheduled once an event is set (the events are
  manual-reset and stay set until the queue is empty); weak fairness per thread is
  enough for the pool's mutex, the remove locks and the drivers' push lock, because
  nobody takes them again and again for ever while somebody waits;
- `Minifilter`: strong fairness of the two acquisitions of the push lock in the
  destructor, since a connected client may send message after message; a push lock
  queues a waiting writer and lets later readers wait behind it;
- `ConsoleApp`: the list of processes does not outgrow every buffer for ever
  (`SF_vars(FillList)`); without that the retry loop of `ProcessUtils.cpp` need not
  end;
- `NotificationDevice`: `LoadingAndUnloadingEnd` asks that the module list settles
  (`<>[][system' = system]_vars`): the retry loop of `GlobalData.cpp:41` has no
  bound of its own. Nothing makes it settle, so this is in the property and not in
  the fairness;
- the list: `Flush`, once begun, goes on.

`CHECK_DEADLOCK FALSE` is given for `ConsoleApp`, which may wait for a line that
never comes, and for `StackTrace`, which ends after two captures.

## 4. The proofs

Seven modules prove theorems about the module they are named after, from its
`Spec`, for every value of its constants that its one assumption allows;
`ProcessMonitorProofs` holds the theorems about `StackTrace` as well, whose
specification is called `TraceSpec` for that reason. In each,
`Inv` is an inductive invariant, `Invariance` states `Spec => []Inv`, and the
listed properties follow from it; there is one lemma for each group of actions and
in it one step per action, with one step per conjunct of the invariant that the
action can disturb.

| Module | Theorems | For |
|---|---|---|
| `ThreadPoolProofs` | `TypeCorrect`, `ShutdownDrainsAlways`, `EventMatchesQueueAlways`, `HandlesAlwaysOpen`, `ExactlyOnceAlways`, `NobodyEverStuck`, `Refinement` | any set of calls, any argument of the constructor |
| `NotificationDeviceProofs` | `TypeCorrect`, `DeviceOutlives`, `LockOrderAlwaysHarmless`, `ProtectionAlwaysStands`, `NothingMissed`, `Guarded` | any finite set of control requests, any handle requests, pids, modules, any `MaxUnset` |
| `IoctlStackProofs` | `TypeCorrect`, `DevicesOutlive`, `StoppedClean`, `Guarded` | any finite set of control requests |
| `ProcessMonitorProofs` | `TypeCorrect`, `EntriesOutlive`, `CollectorSound`, `LaterReported`, `AllMemoryAccounted` | any processes, threads and ids |
| (the same, of `StackTrace`) | `RangeFound`, `SameIsRight`, `AnyGoodTraceWillDo` | any addresses, any place and size of ntoskrnl, stacks and arrays of any length |
| `MinifilterProofs` | `TypeCorrect`, `NothingLeftEver`, `ClosedAlways`, `OneClientAlways` | any clients, any message callbacks |
| `LinkedListProofs` | `TypeCorrect`, `LinksAlwaysSound`, `CountMeetsRing`, `FlushCountsDown`, `Refinement` | any finite set of entries |
| `ConsoleAppProofs` | `TypeCorrect`, `NothingElseLeaks`, `PoolsAlwaysAccounted`, `NoEndlessWait`, `CommandsCountDown`, `ExitNeverLost` | any `MaxTyped` and `MaxProcesses` |

The assumptions are in the modules that declare the constants, and TLC evaluates
them in every run: that names differ which must; that sets are finite which are
counted (`Controls`, `Entries`); and of the pool that the argument is a `uint8_t`
and `hardware_concurrency()` lies in 1..255 (a Windows processor group has at most
64).

None of the properties is inductive. What is added to them:

**ThreadPool.** `LockInv` (the lock is held by the thread whose program counter
says so), `GoalInv` (where the owner is determines which calls can be under way),
`HandleInv` (a worker that has not left has an open handle, and while one thread
handle is open both events are), `EventInv` (the event and the queue agree, except
at the one thread between changing the one and the other), `HeldInv`, and
`DrainInv`, the heart of it: a worker that has left leaves an empty queue behind to
which nobody can add, because a caller that could has taken the lock, and tested
the flag, before. The flag is not under the lock, but its test is. The refinement
maps `phase` to the flag and, for "closed", to the disposal of the last thread
handle, `queue` to `items`, `running` to what the workers hold; each action is a
`WorkQueue` action or a stutter, and `Finish` needs `ShutdownDrains`.

**NotificationDevice.** `Counts` makes the remove lock's count the cardinality of
the handlers inside, plus one for the driver until the removal began; it needs
`Device`, which says when there is a device at all. `ClientFile` is why the inverted
lock order is harmless: whoever is still about when `DriverUnload` begins has
completed its request, and a handler takes `gDrvData.Lock` only before that.
`Search` carries that the first module is the same in the list and in the buffer
and that no other can be the kernel; `Routines` that what is registered and what is
left to register make up all five, and when unloading, that what is registered is
among what is left to remove.

**IoctlStack.** `FirstCounts` and `SecondCounts` as above, one for each lock;
`FirstStages` and `OwnFile` tie the First's file of the Second's device to the place
of its start and stop; `SecondRuns`: as long as that file is open the Second runs,
which is what makes a request passed down find the Second's device.

**ProcessMonitor.** Why an unlocked pointer is good takes the system's side as well
as the driver's. `System`: ids are unique among the processes that live, a process
lives as long as threads are inserted into it. With `CollectorHoldsLiving` an exit
therefore deletes no entry but its own process's, which no creation points to:
`Pointers` says that a pointer leads to an entry in the collector with the id of
the creation's process. After the process routine has been removed nothing is
deleted any more until the thread routine has gone too (`Driver`); this is the half
that depends on the order of the removals. `Memory` and `Reports` are invariants of
the heap and of the flag.

**Minifilter.** `Stages` says what exists at each place of `DriverEntry` and
`DriverUnload`; `OneComing` and `OnePresent` are what the single connection and the
lock make of the clients: who leaves has the client port, and who comes finds
everybody else idle or leaving.

**LinkedList.** That the neighbours of every node know it is preserved by removal
only if the entries cannot form a ring of their own: else `Flush`, which goes by
the count, would unlink the list from itself. The invariant says that there is a
sequence of the linked entries, each in it once and as many as are counted, that
`flink` runs through from the list to the list and `blink` back (`Lists`, `Runs`).
`RunsInserted` and `RunsUnlinked` say what the assignments of an insertion behind
the k-th node and of `RemoveEntry` make of such links, and `InsertedItem` and its
counterpart in `ListLemmas` what becomes of the sequence. `WalkShows` is the other
half: following such links from `begin()` to `end()` yields just that sequence,
although `Walk` is defined by recursion. So every operation, seen through an
iteration, changes a sequence as `ObjectList` says (`Refinement`), and the count is
zero exactly when the list is its own neighbour (`CountMeetsRing`).

**StackTrace.** `LoopEnds`: a loop of the constructor ends at the first frame that
breaks it, or behind the last. From it `NtRangeFinds` gets the range with its
corrections, in the three cases that no frame lies in ntoskrnl, that the run ends
before the last frame, and that it ends with it. The comparison only has the
indexes; `RunLength` makes them the number of frames in the run, except for a trace
without one, whose range (0,0) is as long as that of a single frame: this is why
`SameIsRight` excludes it on one side (section 5).

**ConsoleApp.** `Holding` says what may be held at each place of a command, and what
may have been lost: for the latter it needs that a process is held wherever the
command line is read, and that no dump holds both a snapshot and a list. `Pools` says
where there is a pool.

Of liveness the part that is safety is proved where a loop has to end: the steps of
`Flush` and of a command leave less to do each time (`FlushCountsDown`,
`CommandsCountDown`), with numbers of steps that follow from the number of entries
and of processes; the one exception is the retry of `ProcessUtils.cpp` with a larger
buffer. The two waits of CreateRemoteThread are for something that ends
(`NoEndlessWait`), and an Exit cannot be read by anything but `main`
(`ExitNeverLost`), which is as much of `ExitHeeded` as does not depend on fairness.
In the pool no thread waits for one that waits in turn (`NobodyEverStuck`): who holds
`itemsLock` can go on, a worker sleeps beside items only while a call is about to set
the event, and since the termination event is set before `WaitThreads` begins
(`TerminationInv`) none of the workers it waits for stays asleep. "Can go on" is
spelled out as the guard of the thread's next action, `ENABLED` being out of reach.

How recursive functions are reasoned about. The library's induction theorems cannot
be used with the provers at hand. `Walk` and `Loop` are therefore treated in two
steps: a function that is known from elsewhere (the k-th node of the list; the
least stop from k on) satisfies the recursive equation, so what CHOOSE picks does;
and two functions that satisfy it are equal, since the set of the places where they
differ would have a least member (`LeastNumber`), at whose neighbour they agree.

`ListLemmas` proves what these need of sequences: the least number of a set, head
and tail, deletion from the middle, appending, and that no element occurs twice.

Only model-checked:

- liveness (`EveryAcceptedRuns`, `ShutdownReturns`, `LoadingAndUnloadingEnd`,
  `UnloadsEnd`, `FlushEmpties`, `CommandsEnd`, `ExitHeeded`, `DeletionEnds`): TLAPS
  1.4.5 does not handle `ENABLED`, and so neither fairness.

## 5. What the code does not do as it says

Each is a run whose one property TLC refutes.

1. `Filter.cpp:95` calls what reaches the branch a remote thread. The flag
   `wasMainThreadCreated` is tested and set in two unlocked steps, and nothing
   orders the notifications of two creations into one process: the first thread of
   a process can be the one that is reported (`process_monitor_remote`).
2. `CommandInterpreter.cpp:77`: Exit "performs a clean exit of the application". A
   pid that cannot be read (line 162) leaves the failbit of `std::cin` set; every
   later `getline` fails, `main` executes ProtectProcess again and again and an
   Exit typed later is never read (`console_app_exit`).
3. `StackTrace.cpp:78`: "number of calls from ntoskrnl should be the same". A trace
   without a frame there is given the range (0,0), the length of a run of one
   frame; the two compare equal (`stack_trace_calls`).
4. `FltPort.cpp:11` annotates the message callback `_In_`; `DriverEntry` passes
   `nullptr` (`Minifilter.cpp:40`) and the callback is called without a test
   (`minifilter_message`).

Beyond these the hazard list in `PROJECT.json` names places the models show or
touch and for which no text of the repository says what should happen: the start
of the minifilter that succeeds without a filter, the window in `~FltPort`, the two
strings whose allocation, when it fails, loses a dump's handles
(`ProcessUtils.cpp:68`, `ProcessUtils.cpp:113`), the
assertions that are the only notice of a failed registration.

## 6. What is assumed, and what is not modelled

Assumed of the system, each in the head comment of the module:

- the I/O manager calls `DriverUnload` when the device has no file, and a file lives
  until its requests are completed; neither covers what a handler does after
  `IoCompleteRequest`;
- unregistering a notification or object callback waits for running ones. What
  `ObUnRegisterCallbacks` does with the null handle of a registration that failed
  is left open: it may do nothing or bring the machine down;
- the second query of the module list fails only if the buffer is too small, and
  writes the size of what it copied;
- the process routine is told of a process by whoever inserts its first thread,
  before that thread's own notification; ids are unique among processes that live;
- the filter manager counts a connection until its disconnect callback begins, and
  gives a client whose port is closed no new callback. Whether closing a port waits
  for a callback already entered the code does not tell. The model takes it that it
  does not; if it did, `~FltPort`, which holds the lock that callbacks take, and
  such a callback would wait for each other.

Left out:

- a `std::function` of a pool item that throws, and callers that use a pool while
  it is destroyed: the first ends the process, the second no caller does;
- in the console application, a failure to allocate while an exception is reported
  (`CommandInterpreter.cpp:99`), which ends the process and with it all it holds;
- messages of the log, WPP, formatting, `PrintNtStackTrace`; image load and
  registry notifications, which only log (their registration and removal are in
  `NotificationDevice`); instance callbacks of the minifilter, which only trace;
- in `Procmon/CppLib`, what the minifilter does not use: `Spinlock`, `Eresource`,
  the global operators `new` and `delete`; likewise the two unused locks of the
  notification driver's `Lock.hpp`;
- `DynamicImports.hpp` and `NtDefinitions.hpp`, which are declarations; tests (the
  expectations of `ThreadPoolTests.cpp` are covered by `threadpool`); scripts,
  installation and project files; `Procmon/Procmon`, which has no source.

## 7. The plan

Done: all components of the inventory. In order: `WorkQueue` and `ThreadPool` with
proofs; `NotificationDevice`; `ProcessMonitor`; `IoctlStack`; `ObjectList` and
`LinkedList`; `ConsoleApp`; `StackTrace`; `Minifilter`; then `RemoveLock` and
`GuardedDevice` under both device modules, `NtImageBase` and the whole of
`DriverEntry` and `DriverUnload`, the heap and the runtime support in
`ProcessMonitor`, the failing starts of the minifilter; and the proofs about all of
them, last the refinement of `ObjectList` and the loops of `StackTrace`.

Left: what `NobodyEverStuck` says of the pool for the waits of the drivers, that is
for the remove locks, the push locks and the destructor of the port; and `ProcessMonitor` stated on `ObjectList` rather than
on a sequence of its own. Should a client of the minifilter's port be written, its
protocol belongs beside `Minifilter`.
