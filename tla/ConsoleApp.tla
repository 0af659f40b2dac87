------------------------------ MODULE ConsoleApp ------------------------------
(***************************************************************************)
(* The console application around the thread pool: main's loop over the    *)
(* lines of standard input, the commands of CommandInterpreter with what   *)
(* they acquire and release, and GlobalData from its construction before   *)
(* main to its destruction after it.                                       *)
(*                                                                         *)
(* One thread runs all of it, but what it calls may fail at every point,   *)
(* and standard input is shared by main, which reads lines, and            *)
(* ProtectProcess, which reads a number.  A pool is constructed, shut down *)
(* and destroyed in a step each: that these come to an end is what the     *)
(* module ThreadPool shows.  Help changes nothing.  The two commands that  *)
(* send an IOCTL without input are one here.  Wherever a dump allocates,   *)
(* the allocation may fail.                                                *)
(***************************************************************************)
EXTENDS Naturals, Sequences, FiniteSets

CONSTANTS
    MaxTyped,         \* bound: lines typed ahead
    MaxProcesses      \* bound: processes a dump lists

ASSUME ConsoleAssumption == MaxTyped \in Nat /\ MaxProcesses \in Nat

ToolHelp == "DumpProcessesToolHelp32"
PsApi == "DumpProcessesPsApi"
ZwQuery == "DumpProcessesZwQuerySystemInformation"
Commands == {"Start", "Stop", ToolHelp, PsApi, ZwQuery, "SendIoctl",
             "ProtectProcess", "CreateRemoteThread", "Exit"}

\* A line is a command, a number, nothing at all, or something else.
NoText == ""
Lines == Commands \cup {"number", NoText, "else"}

Imports == 1..3       \* the three functions of ntdll, in SolveImports' order

VARIABLES
    pc,           \* where the thread is
    running,      \* gGlobalData.IsApplicationRunning
    pools,        \* the ThreadPool objects that exist
    poolRuns,     \* does gGlobalData.ThreadPool point to one?
    ntdll,        \* gGlobalData.NtDllModuleHandle
    imports,      \* the functions that are resolved
    input,        \* the lines typed and not read
    closed,       \* has standard input come to its end?
    failed,       \* is std::cin's failbit set?
    command,      \* main's variable
    held,         \* the handles and buffers a command holds
    leaked,       \* history: those that commands before it left behind
    left,         \* the processes a dump has yet to visit
    cmd           \* the cmd.exe that CreateRemoteThread started

poolVars == <<pools, poolRuns>>
importVars == <<ntdll, imports>>
inputVars == <<input, closed, failed>>
resourceVars == <<held, leaked, left, cmd>>
vars == <<pc, running, pools, poolRuns, ntdll, imports, input, closed, failed,
          command, held, leaked, left, cmd>>

Pcs == {"load", "import", "prompt", "execute", "construct", "shut", "destroy",
        "snapshot", "enumerate", "size", "allocate", "fill", "open", "read",
        "close", "endDump", "pid", "device", "control", "closeDevice", "cmd",
        "remote", "terminate", "waitRemote", "waitCmd", "clean", "exited",
        "aborted"}
Resources == {"snapshot", "buffer", "process", "device", "cmdProcess",
              "cmdThread", "remoteThread"}

Init ==
    /\ pc = "load"
    /\ running = TRUE
    /\ pools = 0
    /\ poolRuns = FALSE
    /\ ntdll = FALSE
    /\ imports = {}
    /\ input = << >>
    /\ closed = FALSE
    /\ failed = FALSE
    /\ command = NoText
    /\ held = {}
    /\ leaked = {}
    /\ left = 0
    /\ cmd = "none"

Goto(from, to) == pc = from /\ pc' = to
Hold(r) == held' = held \cup r /\ UNCHANGED <<leaked, left, cmd>>
Drop(r) == held' = held \ r /\ UNCHANGED <<leaked, left, cmd>>

\* After a command, by its return or by an exception that Execute catches,
\* main looks whether it goes on.
Back == IF running THEN "prompt" ELSE "clean"

\* An exception that passes every CleanUp: nobody knows any more what the
\* command held.
Abandon ==
    /\ pc' = Back
    /\ held' = {} /\ leaked' = leaked \cup held /\ left' = 0
    /\ UNCHANGED cmd
-----------------------------------------------------------------------------
(* Slips a rewrite could make. *)

\* Start does not look for a pool.
StartAnother ==
    /\ command = "Start"
    /\ Goto("execute", "construct")
    /\ UNCHANGED <<running, poolVars, importVars, inputVars, command, resourceVars>>

\* A failure to fill the buffer is thrown without deleting it.
ThrowWithBuffer ==
    /\ pc = "fill" /\ pc' \in {"size", Back}
    /\ UNCHANGED <<running, poolVars, importVars, inputVars, command, resourceVars>>

\* Stop does not look for a pool.
StopAny ==
    /\ command = "Stop"
    /\ Goto("execute", "shut")
    /\ UNCHANGED <<running, poolVars, importVars, inputVars, command, resourceVars>>

\* cmd.exe is waited for, but not terminated.
LeaveCmd ==
    /\ Goto("terminate", "waitRemote")
    /\ UNCHANGED <<running, poolVars, importVars, inputVars, command, resourceVars>>

\* Exit is only remembered.
ExitLater ==
    /\ command = "Exit"
    /\ Goto("execute", "prompt")
    /\ UNCHANGED <<running, poolVars, importVars, inputVars, command, resourceVars>>
-----------------------------------------------------------------------------
(***************************************************************************)
(* GlobalData before and after main.                                       *)
(***************************************************************************)

\* LoadLibrary; an exception here ends the program.
LoadNtdll ==
    /\ \/ Goto("load", "import") /\ ntdll' = TRUE
       \/ Goto("load", "aborted") /\ ntdll' = FALSE
    /\ UNCHANGED <<running, poolVars, imports, inputVars, command, resourceVars>>

\* GetProcAddress, one after the other, then main begins;
ResolveImport ==
    /\ pc = "import"
    /\ imports' = imports \cup {Cardinality(imports) + 1}
    /\ pc' = IF imports' = Imports THEN "prompt" ELSE "import"
    /\ UNCHANGED <<running, poolVars, ntdll, inputVars, command, resourceVars>>

\* or CleanImports and an exception.
FailImport ==
    /\ Goto("import", "aborted")
    /\ ntdll' = FALSE
    /\ imports' = {}
    /\ UNCHANGED <<running, poolVars, inputVars, command, resourceVars>>

\* ~GlobalData: CleanImports, then the members: a pool is destroyed.
DestroyGlobalData ==
    /\ Goto("clean", "exited")
    /\ ntdll' = FALSE
    /\ imports' = {}
    /\ pools' = IF poolRuns THEN pools - 1 ELSE pools
    /\ poolRuns' = FALSE
    /\ UNCHANGED <<running, inputVars, command, resourceVars>>
-----------------------------------------------------------------------------
(***************************************************************************)
(* Standard input.                                                         *)
(***************************************************************************)

Type(line) ==
    /\ ~closed /\ Len(input) < MaxTyped
    /\ input' = Append(input, line)
    /\ UNCHANGED <<pc, running, poolVars, importVars, closed, failed, command,
                   resourceVars>>

CloseInput ==
    /\ ~closed
    /\ closed' = TRUE
    /\ UNCHANGED <<pc, running, poolVars, importVars, input, failed, command,
                   resourceVars>>

\* std::getline.  It waits for a line; at the end of the input it fails with
\* an empty one; on a stream that failed before it leaves `command` alone.
ReadCommand ==
    /\ Goto("prompt", "execute")
    /\ \/ /\ ~failed /\ input # << >>
          /\ command' = Head(input)
          /\ input' = Tail(input)
          /\ failed' = FALSE
       \/ /\ ~failed /\ input = << >> /\ closed
          /\ command' = NoText
          /\ failed' = TRUE
          /\ input' = input
       \/ failed /\ UNCHANGED <<command, input, failed>>
    /\ UNCHANGED <<running, poolVars, importVars, closed, resourceVars>>

\* std::cin >> pid.  It skips empty lines and takes a number, whose line
\* stays behind empty; at anything else and at the end it fails.  Either way
\* the IOCTL is sent.
ReadPid ==
    /\ pc = "pid"
    /\ \/ /\ ~failed /\ input # << >> /\ Head(input) = NoText
          /\ input' = Tail(input)
          /\ UNCHANGED <<pc, failed>>
       \/ /\ ~failed /\ input # << >> /\ Head(input) = "number"
          /\ input' = <<NoText>> \o Tail(input)
          /\ pc' = "device" /\ failed' = FALSE
       \/ /\ failed \/ IF input = << >> THEN closed ELSE Head(input) \notin {NoText, "number"}
          /\ pc' = "device" /\ failed' = TRUE
          /\ input' = input
    /\ UNCHANGED <<running, poolVars, importVars, closed, command, resourceVars>>
-----------------------------------------------------------------------------
(***************************************************************************)
(* CommandInterpreter::Execute finds a handler, or none.                   *)
(***************************************************************************)

\* The commands with a handler of several steps, and where it begins.
Handlers ==
    {<<ToolHelp, "snapshot">>, <<PsApi, "enumerate">>, <<ZwQuery, "size">>,
     <<"SendIoctl", "device">>, <<"ProtectProcess", "pid">>,
     <<"CreateRemoteThread", "cmd">>}

ExecuteHandler ==
    /\ \E begin \in Pcs : <<command, begin>> \in Handlers /\ Goto("execute", begin)
    /\ UNCHANGED <<running, poolVars, importVars, inputVars, command, resourceVars>>

NoHandler ==
    /\ command \notin Commands
    /\ Goto("execute", "prompt")
    /\ UNCHANGED <<running, poolVars, importVars, inputVars, command, resourceVars>>

ExitCommand ==
    /\ command = "Exit"
    /\ Goto("execute", "clean")
    /\ running' = FALSE
    /\ UNCHANGED <<poolVars, importVars, inputVars, command, resourceVars>>

StartThreadPoolCommand ==
    /\ command = "Start"
    /\ Goto("execute", IF poolRuns THEN Back ELSE "construct")
    /\ UNCHANGED <<running, poolVars, importVars, inputVars, command, resourceVars>>

\* The constructor throws when an event or a thread cannot be created;
ConstructPool ==
    /\ Goto("construct", Back)
    /\ \/ pools' = pools + 1 /\ poolRuns' = TRUE
       \/ UNCHANGED poolVars
    /\ UNCHANGED <<running, importVars, inputVars, command, resourceVars>>

StopThreadPoolCommand ==
    /\ command = "Stop"
    /\ Goto("execute", IF poolRuns THEN "shut" ELSE Back)
    /\ UNCHANGED <<running, poolVars, importVars, inputVars, command, resourceVars>>

ShutdownPool ==
    /\ Goto("shut", "destroy")
    /\ UNCHANGED <<running, poolVars, importVars, inputVars, command, resourceVars>>

DestroyPool ==
    /\ Goto("destroy", Back)
    /\ pools' = pools - 1
    /\ poolRuns' = FALSE
    /\ UNCHANGED <<running, importVars, inputVars, command, resourceVars>>
-----------------------------------------------------------------------------
(***************************************************************************)
(* The three dumps.  Each finds its processes in a way of its own,         *)
(***************************************************************************)

CreateSnapshot ==
    /\ \/ /\ pc = "snapshot"
          /\ held' = held \cup {"snapshot"}
          /\ left' \in 0..MaxProcesses     \* 0: Process32FirstW fails
          /\ pc' = "open"
       \/ Goto("snapshot", Back) /\ UNCHANGED <<held, left>>
    /\ UNCHANGED <<running, poolVars, importVars, inputVars, command, leaked, cmd>>

EnumerateProcesses ==
    /\ \/ Goto("enumerate", "open") /\ left' \in 1..MaxProcesses
       \/ Goto("enumerate", Back) /\ left' = left
    /\ UNCHANGED <<running, poolVars, importVars, inputVars, command, held, leaked, cmd>>

QuerySize ==
    /\ pc = "size" /\ pc' \in {"allocate", Back}
    /\ UNCHANGED <<running, poolVars, importVars, inputVars, command, resourceVars>>

AllocateList ==
    /\ \/ Goto("allocate", "fill") /\ Hold({"buffer"})
       \/ Goto("allocate", Back) /\ UNCHANGED resourceVars
    /\ UNCHANGED <<running, poolVars, importVars, inputVars, command>>

FillList ==
    /\ Goto("fill", "open") /\ left' \in 1..MaxProcesses
    /\ UNCHANGED <<running, poolVars, importVars, inputVars, command, held, leaked, cmd>>

\* More than ten new processes: free the list and try again; else throw.
FailFillList ==
    /\ pc = "fill" /\ pc' \in {"size", Back}
    /\ Drop({"buffer"})
    /\ UNCHANGED <<running, poolVars, importVars, inputVars, command>>

\* and visits each.  ToolHelp first prints its name, of which it makes a
\* string;
FailName ==
    /\ left > 0 /\ "snapshot" \in held
    /\ pc = "open" /\ Abandon
    /\ UNCHANGED <<running, poolVars, importVars, inputVars, command>>

\* all go on with PupDumpProcess,
OpenProcess ==
    /\ left > 0
    /\ \/ Goto("open", "read") /\ Hold({"process"})
       \/ /\ pc = "open" /\ left' = left - 1
          /\ UNCHANGED <<pc, held, leaked, cmd>>
    /\ UNCHANGED <<running, poolVars, importVars, inputVars, command>>

\* which goes on to close the process after the first of four calls that
\* fails, or not at all if the string for the command line, sized as the
\* process says, cannot be allocated,
ReadProcess ==
    /\ pc = "read"
    /\ \/ pc' = "close" /\ UNCHANGED resourceVars
       \/ Abandon
    /\ UNCHANGED <<running, poolVars, importVars, inputVars, command>>

CloseProcess ==
    /\ Goto("close", "open")
    /\ held' = held \ {"process"}
    /\ left' = left - 1
    /\ UNCHANGED <<running, poolVars, importVars, inputVars, command, leaked, cmd>>

EndDump ==
    /\ left = 0
    /\ Goto("open", Back)
    /\ Drop({"snapshot", "buffer"})
    /\ UNCHANGED <<running, poolVars, importVars, inputVars, command>>
-----------------------------------------------------------------------------
(***************************************************************************)
(* IoctlSendIoctl, and the remote thread in a process of its own.          *)
(***************************************************************************)

OpenDevice ==
    /\ \/ Goto("device", "control") /\ Hold({"device"})
       \/ Goto("device", Back) /\ UNCHANGED resourceVars
    /\ UNCHANGED <<running, poolVars, importVars, inputVars, command>>

\* A failure is only reported.
ControlDevice ==
    /\ Goto("control", "closeDevice")
    /\ UNCHANGED <<running, poolVars, importVars, inputVars, command, resourceVars>>

CloseDevice ==
    /\ Goto("closeDevice", Back)
    /\ Drop({"device"})
    /\ UNCHANGED <<running, poolVars, importVars, inputVars, command>>

OpenCmd ==
    /\ \/ /\ Goto("cmd", "remote")
          /\ held' = held \cup {"cmdProcess", "cmdThread"}
          /\ cmd' = "alive"
       \/ Goto("cmd", Back) /\ UNCHANGED <<held, cmd>>
    /\ UNCHANGED <<running, poolVars, importVars, inputVars, command, leaked, left>>

\* Somebody closes its console.
CmdExits ==
    /\ cmd = "alive"
    /\ cmd' = "dead"
    /\ UNCHANGED <<pc, running, poolVars, importVars, inputVars, command, held,
                   leaked, left>>

\* A failure is only reported.
CreateRemoteThread ==
    /\ Goto("remote", "terminate")
    /\ Hold({"remoteThread"}) \/ UNCHANGED resourceVars
    /\ UNCHANGED <<running, poolVars, importVars, inputVars, command>>

TerminateCmd ==
    /\ Goto("terminate", "waitRemote")
    /\ cmd' = "dead"
    /\ UNCHANGED <<running, poolVars, importVars, inputVars, command, held, leaked, left>>

\* The remote thread ends with its process at the latest.
WaitRemoteThread ==
    /\ "remoteThread" \in held => cmd = "dead"
    /\ Goto("waitRemote", "waitCmd")
    /\ Drop({"remoteThread"})
    /\ UNCHANGED <<running, poolVars, importVars, inputVars, command>>

WaitCmd ==
    /\ cmd = "dead"
    /\ Goto("waitCmd", Back)
    /\ Drop({"cmdProcess", "cmdThread"})
    /\ UNCHANGED <<running, poolVars, importVars, inputVars, command>>
-----------------------------------------------------------------------------
\* What the application's thread does next.
Step ==
    \/ LoadNtdll \/ ResolveImport \/ FailImport \/ DestroyGlobalData
    \/ ReadCommand \/ ReadPid \/ ExecuteHandler \/ NoHandler \/ ExitCommand
    \/ StartThreadPoolCommand \/ ConstructPool
    \/ StopThreadPoolCommand \/ ShutdownPool \/ DestroyPool
    \/ CreateSnapshot \/ EnumerateProcesses
    \/ QuerySize \/ AllocateList \/ FillList \/ FailFillList
    \/ FailName \/ OpenProcess \/ ReadProcess \/ CloseProcess \/ EndDump
    \/ OpenDevice \/ ControlDevice \/ CloseDevice
    \/ OpenCmd \/ CreateRemoteThread \/ TerminateCmd
    \/ WaitRemoteThread \/ WaitCmd

Next ==
    \/ Step
    \/ \E line \in Lines : Type(line)
    \/ CloseInput
    \/ CmdExits

Spec == Init /\ [][Next]_vars

\* The thread runs on; nobody must type or close anything.  The list of
\* processes is not for ever found too small: it would take ten new
\* processes between two calls, each time.
FairSpec == Spec /\ WF_vars(Step) /\ SF_vars(FillList)
-----------------------------------------------------------------------------
(***************************************************************************)
(* Properties.                                                             *)
(***************************************************************************)

\* The variables keep their types.
TypeOK ==
    /\ pc \in Pcs
    /\ running \in BOOLEAN /\ poolRuns \in BOOLEAN /\ ntdll \in BOOLEAN
    /\ pools \in Nat
    /\ imports \subseteq Imports
    /\ input \in Seq(Lines) /\ command \in Lines
    /\ closed \in BOOLEAN /\ failed \in BOOLEAN
    /\ held \subseteq Resources /\ leaked \subseteq Resources
    /\ left \in 0..MaxProcesses
    /\ cmd \in {"none", "alive", "dead"}

(***************************************************************************)
(* However a command ended, it has left no cmd.exe running, and it has     *)
(* released every handle and buffer, unless it is a dump in which a string *)
(* could not be allocated (ProcessUtils.cpp:68 and :113): that loses the   *)
(* snapshot or the handle of the process, and the list of processes only   *)
(* together with such a handle.                                            *)
(***************************************************************************)
OnlyStringsLeak ==
    /\ pc \in {"prompt", "clean", "exited"} => held = {} /\ cmd # "alive"
    /\ leaked \subseteq {"snapshot", "buffer", "process"}
    /\ "buffer" \in leaked => "process" \in leaked

(***************************************************************************)
(* There is a thread pool exactly when gGlobalData.ThreadPool says so,     *)
(* never two, not even while Start replaces the pointer; and when the      *)
(* application has exited there is none, and ntdll is released.            *)
(***************************************************************************)
PoolsAccountedFor ==
    /\ pools = IF poolRuns THEN 1 ELSE 0
    /\ pc = "construct" => pools = 0
    /\ pc \in {"exited", "aborted"} => pools = 0 /\ ~ntdll

(***************************************************************************)
(* Every command comes back to the prompt or to the exit, as long as the   *)
(* user types the number that ProtectProcess asks for.                     *)
(***************************************************************************)
CommandsEnd ==
    pc \in Pcs \ {"pid"} ~> pc \in {"prompt", "pid", "exited", "aborted"}

ExitTyped == \E i \in DOMAIN input : input[i] = "Exit"

(***************************************************************************)
(* An Exit that was typed ends the application, whatever else was typed    *)
(* before, unless standard input fails.                                    *)
(***************************************************************************)
ExitHeeded == ExitTyped ~> (pc \in {"exited", "aborted"} \/ failed)

(***************************************************************************)
(* "Performs a clean exit of the application" (CommandInterpreter.cpp:77): *)
(* an Exit that was typed ends the application.                            *)
(***************************************************************************)
ExitEndsApplication == ExitTyped ~> pc \in {"exited", "aborted"}
=============================================================================
