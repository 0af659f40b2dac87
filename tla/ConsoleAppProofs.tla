---------------------------- MODULE ConsoleAppProofs ----------------------------
(***************************************************************************)
(* Theorems about ConsoleApp, for any number of lines typed ahead and of   *)
(* processes listed: where the thread is determines what the command holds *)
(* and whether there is a pool, however it came there.                     *)
(***************************************************************************)
EXTENDS ConsoleApp, FiniteSetTheorems, TLAPS

\* The functions of ntdll are resolved one after the other.
Importing ==
    /\ imports \in {{}, {1}, {1, 2}, Imports}
    /\ pc \in {"load", "import"} => imports # Imports

\* What a command may hold in the middle of its work: nothing elsewhere.
Held ==
    CASE pc = "open" -> {"snapshot", "buffer"}
      [] pc \in {"read", "close"} -> {"snapshot", "buffer", "process"}
      [] pc = "fill" -> {"buffer"}
      [] pc \in {"control", "closeDevice"} -> {"device"}
      [] pc \in {"remote", "waitCmd"} -> {"cmdProcess", "cmdThread"}
      [] pc \in {"terminate", "waitRemote"} -> {"cmdProcess", "cmdThread", "remoteThread"}
      [] OTHER -> {}

Holding ==
    /\ held \subseteq Held
    /\ leaked \subseteq {"snapshot", "buffer", "process"}
    /\ "buffer" \in leaked => "process" \in leaked
    /\ pc = "read" => "process" \in held
    /\ "snapshot" \in held => "buffer" \notin held
    /\ cmd = "alive" => pc \in {"remote", "terminate"}
    /\ pc \in {"waitRemote", "waitCmd"} => cmd = "dead"
    /\ pc \in {"read", "close"} => left > 0

\* The pool the global data point to is the only one.
Pools ==
    /\ pools = IF poolRuns THEN 1 ELSE 0
    /\ pc \in {"load", "import", "construct", "exited", "aborted"} => ~poolRuns
    /\ pc \in {"shut", "destroy"} => poolRuns
    /\ pc \in {"exited", "aborted"} => ~ntdll

Inv == TypeOK /\ Importing /\ Holding /\ Pools
-----------------------------------------------------------------------------
\* The line with nothing on it is a line.
LEMMA EmptyLine == NoText \in Lines
  BY DEF Lines

\* GlobalData before and after main keep the invariant.
LEMMA GlobalDataKeepsInv ==
  ASSUME Inv, LoadNtdll \/ ResolveImport \/ FailImport \/ DestroyGlobalData
  PROVE  Inv'
  <1> USE ConsoleAssumption DEF Inv, importVars, inputVars, poolVars, resourceVars, Goto, Back, Hold, Drop, Abandon
  <1>1. CASE LoadNtdll
    <2>1. TypeOK'
      BY <1>1 DEF LoadNtdll, TypeOK, Pcs, Lines, Resources, Pools
    <2>2. Importing'
      BY <1>1 DEF LoadNtdll, Importing, Imports
    <2>3. Holding'
      BY <1>1 DEF LoadNtdll, Holding, Held, TypeOK
    <2>4. Pools'
      BY <1>1 DEF LoadNtdll, Pools
    <2> QED
      BY <2>1, <2>2, <2>3, <2>4
  <1>2. CASE ResolveImport
    <2>1. imports' \in {{1}, {1, 2}, {1, 2, 3}}
      <3>1. Cardinality({}) = 0 /\ Cardinality({1}) = 1
        BY FS_EmptySet, FS_Singleton
      <3>2. Cardinality({1, 2}) = 2
        <4>1. {1, 2} = {1} \cup {2} /\ 2 \notin {1}
          OBVIOUS
        <4>2. IsFiniteSet({1})
          BY FS_Singleton
        <4> QED
          BY <3>1, <4>1, <4>2, FS_AddElement
      <3> QED
        BY <1>2, <3>1, <3>2 DEF ResolveImport, Importing, Imports
    <2>2. TypeOK' /\ Importing'
      <3>1. pc' \in Pcs
        BY <1>2 DEF ResolveImport, Pcs
      <3>2. imports' \subseteq Imports /\ Importing'
        BY <1>2, <2>1 DEF ResolveImport, Importing, Imports
      <3> QED
        BY <1>2, <3>1, <3>2 DEF ResolveImport, TypeOK
    <2>3. Holding' /\ Pools'
      BY <1>2 DEF ResolveImport, Holding, Held, Pools
    <2> QED
      BY <2>2, <2>3
  <1>3. CASE FailImport
    <2>1. TypeOK'
      BY <1>3 DEF FailImport, TypeOK, Pcs, Lines, Resources, Pools
    <2>2. Importing'
      BY <1>3 DEF FailImport, Importing, Imports
    <2>3. Holding'
      BY <1>3 DEF FailImport, Holding, Held, TypeOK
    <2>4. Pools'
      BY <1>3 DEF FailImport, Pools
    <2> QED
      BY <2>1, <2>2, <2>3, <2>4
  <1>4. CASE DestroyGlobalData
    <2>1. TypeOK'
      <3>1. pc' \in Pcs
        BY <1>4 DEF DestroyGlobalData, Pcs
      <3>2. pools' \in Nat
        BY <1>4 DEF DestroyGlobalData, TypeOK, Pools
      <3>3. imports' \subseteq Imports
        BY <1>4 DEF DestroyGlobalData, Imports
      <3> QED
        BY <1>4, <3>1, <3>2, <3>3 DEF DestroyGlobalData, TypeOK
    <2>2. Importing'
      BY <1>4 DEF DestroyGlobalData, Importing, Imports
    <2>3. Holding'
      BY <1>4 DEF DestroyGlobalData, Holding, Held, TypeOK
    <2>4. Pools'
      BY <1>4 DEF DestroyGlobalData, Pools
    <2> QED
      BY <2>1, <2>2, <2>3, <2>4
  <1> QED
    BY <1>1, <1>2, <1>3, <1>4

\* So do the two readers of standard input,
LEMMA InputKeepsInv ==
  ASSUME Inv, ReadCommand \/ ReadPid
  PROVE  Inv'
  <1> USE ConsoleAssumption DEF Inv, importVars, inputVars, poolVars, resourceVars, Goto, Back, Hold, Drop, Abandon
  <1>1. CASE ReadCommand
    <2>1. TypeOK'
      <3>1. pc' \in Pcs
        BY <1>1 DEF ReadCommand, Pcs
      <3>2. input # << >> => Head(input) \in Lines /\ Tail(input) \in Seq(Lines)
        BY <1>1 DEF ReadCommand, TypeOK
      <3>3. command' \in Lines /\ failed' \in BOOLEAN
        BY <1>1, <3>2, EmptyLine DEF ReadCommand, TypeOK
      <3>4. input' \in Seq(Lines)
        BY <1>1, <3>2, EmptyLine DEF ReadCommand, TypeOK
      <3> QED
        BY <1>1, <3>1, <3>2, <3>3, <3>4 DEF ReadCommand, TypeOK
    <2>2. Importing'
      BY <1>1 DEF ReadCommand, Importing, Imports
    <2>3. Holding'
      BY <1>1 DEF ReadCommand, Holding, Held, TypeOK
    <2>4. Pools'
      BY <1>1 DEF ReadCommand, Pools
    <2> QED
      BY <2>1, <2>2, <2>3, <2>4
  <1>2. CASE ReadPid
    <2>1. TypeOK'
      <3>1. pc' \in Pcs
        BY <1>2 DEF ReadPid, Pcs
      <3>2. input # << >> => Head(input) \in Lines /\ Tail(input) \in Seq(Lines)
        BY <1>2 DEF ReadPid, TypeOK
      <3>3. command' \in Lines /\ failed' \in BOOLEAN
        BY <1>2, EmptyLine DEF ReadPid, TypeOK
      <3>4. input # << >> => <<NoText>> \o Tail(input) \in Seq(Lines)
        BY <1>2, <3>2, EmptyLine DEF ReadPid
      <3>5. input' \in Seq(Lines)
        BY <1>2, <3>2, <3>4 DEF ReadPid, TypeOK
      <3> QED
        BY <1>2, <3>1, <3>2, <3>3, <3>4, <3>5 DEF ReadPid, TypeOK
    <2>2. Importing'
      BY <1>2 DEF ReadPid, Importing, Imports
    <2>3. Holding'
      BY <1>2 DEF ReadPid, Holding, Held, TypeOK
    <2>4. Pools'
      BY <1>2 DEF ReadPid, Pools
    <2> QED
      BY <2>1, <2>2, <2>3, <2>4
  <1> QED
    BY <1>1, <1>2

\* the choice of a handler and the commands of the pool,
LEMMA ExecuteKeepsInv ==
  ASSUME Inv, ExecuteHandler \/ NoHandler \/ ExitCommand \/ StartThreadPoolCommand \/ ConstructPool \/ StopThreadPoolCommand \/ ShutdownPool \/ DestroyPool
  PROVE  Inv'
  <1> USE ConsoleAssumption DEF Inv, importVars, inputVars, poolVars, resourceVars, Goto, Back, Hold, Drop, Abandon
  <1>1. CASE ExecuteHandler
    <2>0. /\ pc = "execute" /\ pc' \in {"snapshot", "enumerate", "size", "device", "pid", "cmd"}
          /\ UNCHANGED <<running, poolVars, importVars, inputVars, command, resourceVars>>
      BY <1>1 DEF ExecuteHandler, Handlers
    <2>1. TypeOK'
      BY <1>1, <2>0 DEF TypeOK, Pcs, Lines, Resources, Pools
    <2>2. Importing'
      BY <1>1, <2>0 DEF Importing, Imports
    <2>3. Holding'
      BY <1>1, <2>0 DEF Holding, Held, TypeOK
    <2>4. Pools'
      BY <1>1, <2>0 DEF Pools
    <2> QED
      BY <2>1, <2>2, <2>3, <2>4
  <1>2. CASE NoHandler
    <2>1. TypeOK'
      BY <1>2 DEF NoHandler, TypeOK, Pcs, Lines, Resources, Pools
    <2>2. Importing'
      BY <1>2 DEF NoHandler, Importing, Imports
    <2>3. Holding'
      BY <1>2 DEF NoHandler, Holding, Held, TypeOK
    <2>4. Pools'
      BY <1>2 DEF NoHandler, Pools
    <2> QED
      BY <2>1, <2>2, <2>3, <2>4
  <1>3. CASE ExitCommand
    <2>1. TypeOK'
      BY <1>3 DEF ExitCommand, TypeOK, Pcs, Lines, Resources, Pools
    <2>2. Importing'
      BY <1>3 DEF ExitCommand, Importing, Imports
    <2>3. Holding'
      BY <1>3 DEF ExitCommand, Holding, Held, TypeOK
    <2>4. Pools'
      BY <1>3 DEF ExitCommand, Pools
    <2> QED
      BY <2>1, <2>2, <2>3, <2>4
  <1>4. CASE StartThreadPoolCommand
    <2>1. TypeOK'
      BY <1>4 DEF StartThreadPoolCommand, TypeOK, Pcs, Lines, Resources, Pools
    <2>2. Importing'
      BY <1>4 DEF StartThreadPoolCommand, Importing, Imports
    <2>3. Holding'
      BY <1>4 DEF StartThreadPoolCommand, Holding, Held, TypeOK
    <2>4. Pools'
      BY <1>4 DEF StartThreadPoolCommand, Pools
    <2> QED
      BY <2>1, <2>2, <2>3, <2>4
  <1>5. CASE ConstructPool
    <2>1. TypeOK'
      <3>1. pc' \in Pcs
        BY <1>5 DEF ConstructPool, Pcs
      <3>2. pools' \in Nat
        BY <1>5 DEF ConstructPool, TypeOK, Pools
      <3>3. poolRuns' \in BOOLEAN
        BY <1>5 DEF ConstructPool, TypeOK
      <3> QED
        BY <1>5, <3>1, <3>2, <3>3 DEF ConstructPool, TypeOK
    <2>2. Importing'
      BY <1>5 DEF ConstructPool, Importing, Imports
    <2>3. Holding'
      BY <1>5 DEF ConstructPool, Holding, Held, TypeOK
    <2>4. Pools'
      BY <1>5 DEF ConstructPool, Pools
    <2> QED
      BY <2>1, <2>2, <2>3, <2>4
  <1>6. CASE StopThreadPoolCommand
    <2>1. TypeOK'
      BY <1>6 DEF StopThreadPoolCommand, TypeOK, Pcs, Lines, Resources, Pools
    <2>2. Importing'
      BY <1>6 DEF StopThreadPoolCommand, Importing, Imports
    <2>3. Holding'
      BY <1>6 DEF StopThreadPoolCommand, Holding, Held, TypeOK
    <2>4. Pools'
      BY <1>6 DEF StopThreadPoolCommand, Pools
    <2> QED
      BY <2>1, <2>2, <2>3, <2>4
  <1>7. CASE ShutdownPool
    <2>1. TypeOK'
      BY <1>7 DEF ShutdownPool, TypeOK, Pcs, Lines, Resources, Pools
    <2>2. Importing'
      BY <1>7 DEF ShutdownPool, Importing, Imports
    <2>3. Holding'
      BY <1>7 DEF ShutdownPool, Holding, Held, TypeOK
    <2>4. Pools'
      BY <1>7 DEF ShutdownPool, Pools
    <2> QED
      BY <2>1, <2>2, <2>3, <2>4
  <1>8. CASE DestroyPool
    <2>1. TypeOK'
      <3>1. pc' \in Pcs
        BY <1>8 DEF DestroyPool, Pcs
      <3>2. pools' \in Nat
        BY <1>8 DEF DestroyPool, TypeOK, Pools
      <3> QED
        BY <1>8, <3>1, <3>2 DEF DestroyPool, TypeOK
    <2>2. Importing'
      BY <1>8 DEF DestroyPool, Importing, Imports
    <2>3. Holding'
      BY <1>8 DEF DestroyPool, Holding, Held, TypeOK
    <2>4. Pools'
      BY <1>8 DEF DestroyPool, Pools
    <2> QED
      BY <2>1, <2>2, <2>3, <2>4
  <1> QED
    BY <1>1, <1>2, <1>3, <1>4, <1>5, <1>6, <1>7, <1>8

\* the three dumps,
LEMMA DumpKeepsInv ==
  ASSUME Inv, CreateSnapshot \/ EnumerateProcesses \/ QuerySize \/ AllocateList \/ FillList \/ FailFillList \/ FailName \/ OpenProcess \/ ReadProcess \/ CloseProcess \/ EndDump
  PROVE  Inv'
  <1> USE ConsoleAssumption DEF Inv, importVars, inputVars, poolVars, resourceVars, Goto, Back, Hold, Drop, Abandon
  <1>1. CASE CreateSnapshot
    <2>1. TypeOK'
      BY <1>1, ZenonT(60) DEF CreateSnapshot, TypeOK, Pcs, Lines, Resources, Pools
    <2>2. Importing'
      BY <1>1 DEF CreateSnapshot, Importing, Imports
    <2>3. Holding'
      BY <1>1 DEF CreateSnapshot, Holding, Held, TypeOK
    <2>4. Pools'
      BY <1>1 DEF CreateSnapshot, Pools
    <2> QED
      BY <2>1, <2>2, <2>3, <2>4
  <1>2. CASE EnumerateProcesses
    <2>1. TypeOK'
      <3>1. pc' \in Pcs
        BY <1>2 DEF EnumerateProcesses, Pcs
      <3>2. left' \in 0 .. MaxProcesses
        BY <1>2 DEF EnumerateProcesses, TypeOK, Holding
      <3> QED
        BY <1>2, <3>1, <3>2 DEF EnumerateProcesses, TypeOK
    <2>2. Importing'
      BY <1>2 DEF EnumerateProcesses, Importing, Imports
    <2>3. Holding'
      BY <1>2 DEF EnumerateProcesses, Holding, Held, TypeOK
    <2>4. Pools'
      BY <1>2 DEF EnumerateProcesses, Pools
    <2> QED
      BY <2>1, <2>2, <2>3, <2>4
  <1>3. CASE QuerySize
    <2>1. TypeOK'
      BY <1>3 DEF QuerySize, TypeOK, Pcs, Lines, Resources, Pools
    <2>2. Importing'
      BY <1>3 DEF QuerySize, Importing, Imports
    <2>3. Holding'
      BY <1>3 DEF QuerySize, Holding, Held, TypeOK
    <2>4. Pools'
      BY <1>3 DEF QuerySize, Pools
    <2> QED
      BY <2>1, <2>2, <2>3, <2>4
  <1>4. CASE AllocateList
    <2>1. TypeOK'
      BY <1>4, ZenonT(60) DEF AllocateList, TypeOK, Pcs, Lines, Resources, Pools
    <2>2. Importing'
      BY <1>4 DEF AllocateList, Importing, Imports
    <2>3. Holding'
      BY <1>4 DEF AllocateList, Holding, Held, TypeOK
    <2>4. Pools'
      BY <1>4 DEF AllocateList, Pools
    <2> QED
      BY <2>1, <2>2, <2>3, <2>4
  <1>5. CASE FillList
    <2>1. TypeOK'
      <3>1. pc' \in Pcs
        BY <1>5 DEF FillList, Pcs
      <3>2. left' \in 0 .. MaxProcesses
        BY <1>5 DEF FillList, TypeOK, Holding
      <3> QED
        BY <1>5, <3>1, <3>2 DEF FillList, TypeOK
    <2>2. Importing'
      BY <1>5 DEF FillList, Importing, Imports
    <2>3. Holding'
      BY <1>5 DEF FillList, Holding, Held, TypeOK
    <2>4. Pools'
      BY <1>5 DEF FillList, Pools
    <2> QED
      BY <2>1, <2>2, <2>3, <2>4
  <1>6. CASE FailFillList
    <2>1. TypeOK'
      BY <1>6 DEF FailFillList, TypeOK, Pcs, Lines, Resources, Pools
    <2>2. Importing'
      BY <1>6 DEF FailFillList, Importing, Imports
    <2>3. Holding'
      BY <1>6 DEF FailFillList, Holding, Held, TypeOK
    <2>4. Pools'
      BY <1>6 DEF FailFillList, Pools
    <2> QED
      BY <2>1, <2>2, <2>3, <2>4
  <1>7. CASE OpenProcess
    <2>1. TypeOK'
      <3>1. pc' \in Pcs
        BY <1>7 DEF OpenProcess, Pcs
      <3>2. left' \in 0 .. MaxProcesses
        BY <1>7 DEF OpenProcess, TypeOK, Holding
      <3>3. held' \subseteq Resources
        BY <1>7 DEF OpenProcess, TypeOK, Resources
      <3> QED
        BY <1>7, <3>1, <3>2, <3>3 DEF OpenProcess, TypeOK
    <2>2. Importing'
      BY <1>7 DEF OpenProcess, Importing, Imports
    <2>3. Holding'
      BY <1>7 DEF OpenProcess, Holding, Held, TypeOK
    <2>4. Pools'
      BY <1>7 DEF OpenProcess, Pools
    <2> QED
      BY <2>1, <2>2, <2>3, <2>4
  <1>8. CASE ReadProcess
    <2>1. TypeOK'
      <3>1. pc' \in Pcs
        BY <1>8 DEF ReadProcess, Pcs
      <3>2. left' \in 0 .. MaxProcesses
        BY <1>8 DEF ReadProcess, TypeOK
      <3>3. held' \subseteq Resources /\ leaked' \subseteq Resources
        BY <1>8 DEF ReadProcess, TypeOK
      <3> QED
        BY <1>8, <3>1, <3>2, <3>3 DEF ReadProcess, TypeOK
    <2>2. Importing'
      BY <1>8 DEF ReadProcess, Importing, Imports
    <2>3. Holding'
      BY <1>8 DEF ReadProcess, Holding, Held, TypeOK
    <2>4. Pools'
      BY <1>8 DEF ReadProcess, Pools
    <2> QED
      BY <2>1, <2>2, <2>3, <2>4
  <1>9. CASE CloseProcess
    <2>1. TypeOK'
      <3>1. pc' \in Pcs
        BY <1>9 DEF CloseProcess, Pcs
      <3>2. left' \in 0 .. MaxProcesses
        BY <1>9 DEF CloseProcess, TypeOK, Holding
      <3>3. held' \subseteq Resources
        BY <1>9 DEF CloseProcess, TypeOK, Resources
      <3> QED
        BY <1>9, <3>1, <3>2, <3>3 DEF CloseProcess, TypeOK
    <2>2. Importing'
      BY <1>9 DEF CloseProcess, Importing, Imports
    <2>3. Holding'
      BY <1>9 DEF CloseProcess, Holding, Held, TypeOK
    <2>4. Pools'
      BY <1>9 DEF CloseProcess, Pools
    <2> QED
      BY <2>1, <2>2, <2>3, <2>4
  <1>10. CASE EndDump
    <2>1. TypeOK'
      BY <1>10 DEF EndDump, TypeOK, Pcs, Lines, Resources, Pools
    <2>2. Importing'
      BY <1>10 DEF EndDump, Importing, Imports
    <2>3. Holding'
      BY <1>10 DEF EndDump, Holding, Held, TypeOK
    <2>4. Pools'
      BY <1>10 DEF EndDump, Pools
    <2> QED
      BY <2>1, <2>2, <2>3, <2>4
  <1>11. CASE FailName
    <2>1. TypeOK'
      <3>1. pc' \in Pcs
        BY <1>11 DEF FailName, Pcs
      <3>2. left' \in 0 .. MaxProcesses
        BY <1>11 DEF FailName
      <3>3. held' \subseteq Resources /\ leaked' \subseteq Resources
        BY <1>11 DEF FailName, TypeOK
      <3> QED
        BY <1>11, <3>1, <3>2, <3>3 DEF FailName, TypeOK
    <2>2. Importing'
      BY <1>11 DEF FailName, Importing, Imports
    <2>3. Holding'
      BY <1>11 DEF FailName, Holding, Held, TypeOK
    <2>4. Pools'
      BY <1>11 DEF FailName, Pools
    <2> QED
      BY <2>1, <2>2, <2>3, <2>4
  <1> QED
    BY <1>1, <1>2, <1>3, <1>4, <1>5, <1>6, <1>7, <1>8, <1>9, <1>10, <1>11

\* the IOCTLs and the remote thread
LEMMA DeviceKeepsInv ==
  ASSUME Inv, OpenDevice \/ ControlDevice \/ CloseDevice \/ OpenCmd \/ CreateRemoteThread \/ TerminateCmd \/ WaitRemoteThread \/ WaitCmd
  PROVE  Inv'
  <1> USE ConsoleAssumption DEF Inv, importVars, inputVars, poolVars, resourceVars, Goto, Back, Hold, Drop, Abandon
  <1>1. CASE OpenDevice
    <2>1. TypeOK'
      BY <1>1, ZenonT(60) DEF OpenDevice, TypeOK, Pcs, Lines, Resources, Pools
    <2>2. Importing'
      BY <1>1 DEF OpenDevice, Importing, Imports
    <2>3. Holding'
      BY <1>1 DEF OpenDevice, Holding, Held, TypeOK
    <2>4. Pools'
      BY <1>1 DEF OpenDevice, Pools
    <2> QED
      BY <2>1, <2>2, <2>3, <2>4
  <1>2. CASE ControlDevice
    <2>1. TypeOK'
      BY <1>2 DEF ControlDevice, TypeOK, Pcs, Lines, Resources, Pools
    <2>2. Importing'
      BY <1>2 DEF ControlDevice, Importing, Imports
    <2>3. Holding'
      BY <1>2 DEF ControlDevice, Holding, Held, TypeOK
    <2>4. Pools'
      BY <1>2 DEF ControlDevice, Pools
    <2> QED
      BY <2>1, <2>2, <2>3, <2>4
  <1>3. CASE CloseDevice
    <2>1. TypeOK'
      BY <1>3 DEF CloseDevice, TypeOK, Pcs, Lines, Resources, Pools
    <2>2. Importing'
      BY <1>3 DEF CloseDevice, Importing, Imports
    <2>3. Holding'
      BY <1>3 DEF CloseDevice, Holding, Held, TypeOK
    <2>4. Pools'
      BY <1>3 DEF CloseDevice, Pools
    <2> QED
      BY <2>1, <2>2, <2>3, <2>4
  <1>4. CASE OpenCmd
    <2>1. TypeOK'
      BY <1>4, ZenonT(60) DEF OpenCmd, TypeOK, Pcs, Lines, Resources, Pools
    <2>2. Importing'
      BY <1>4 DEF OpenCmd, Importing, Imports
    <2>3. Holding'
      BY <1>4 DEF OpenCmd, Holding, Held, TypeOK
    <2>4. Pools'
      BY <1>4 DEF OpenCmd, Pools
    <2> QED
      BY <2>1, <2>2, <2>3, <2>4
  <1>5. CASE CreateRemoteThread
    <2>1. TypeOK'
      BY <1>5 DEF CreateRemoteThread, TypeOK, Pcs, Lines, Resources, Pools
    <2>2. Importing'
      BY <1>5 DEF CreateRemoteThread, Importing, Imports
    <2>3. Holding'
      BY <1>5 DEF CreateRemoteThread, Holding, Held, TypeOK
    <2>4. Pools'
      BY <1>5 DEF CreateRemoteThread, Pools
    <2> QED
      BY <2>1, <2>2, <2>3, <2>4
  <1>6. CASE TerminateCmd
    <2>1. TypeOK'
      BY <1>6 DEF TerminateCmd, TypeOK, Pcs, Lines, Resources, Pools
    <2>2. Importing'
      BY <1>6 DEF TerminateCmd, Importing, Imports
    <2>3. Holding'
      BY <1>6 DEF TerminateCmd, Holding, Held, TypeOK
    <2>4. Pools'
      BY <1>6 DEF TerminateCmd, Pools
    <2> QED
      BY <2>1, <2>2, <2>3, <2>4
  <1>7. CASE WaitRemoteThread
    <2>1. TypeOK'
      BY <1>7 DEF WaitRemoteThread, TypeOK, Pcs, Lines, Resources, Pools
    <2>2. Importing'
      BY <1>7 DEF WaitRemoteThread, Importing, Imports
    <2>3. Holding'
      BY <1>7 DEF WaitRemoteThread, Holding, Held, TypeOK
    <2>4. Pools'
      BY <1>7 DEF WaitRemoteThread, Pools
    <2> QED
      BY <2>1, <2>2, <2>3, <2>4
  <1>8. CASE WaitCmd
    <2>1. TypeOK'
      BY <1>8 DEF WaitCmd, TypeOK, Pcs, Lines, Resources, Pools
    <2>2. Importing'
      BY <1>8 DEF WaitCmd, Importing, Imports
    <2>3. Holding'
      BY <1>8 DEF WaitCmd, Holding, Held, TypeOK
    <2>4. Pools'
      BY <1>8 DEF WaitCmd, Pools
    <2> QED
      BY <2>1, <2>2, <2>3, <2>4
  <1> QED
    BY <1>1, <1>2, <1>3, <1>4, <1>5, <1>6, <1>7, <1>8


\* and what others do meanwhile.
LEMMA OthersKeepInv ==
  ASSUME Inv, (\E line \in Lines : Type(line)) \/ CloseInput \/ CmdExits
  PROVE  Inv'
  <1> USE DEF Inv, importVars, inputVars, poolVars, resourceVars
  <1>1. CASE \E line \in Lines : Type(line)
    BY <1>1 DEF Type, TypeOK, Importing, Holding, Held, Pools
  <1>2. CASE CloseInput
    BY <1>2 DEF CloseInput, TypeOK, Importing, Holding, Held, Pools
  <1>3. CASE CmdExits
    BY <1>3 DEF CmdExits, TypeOK, Importing, Holding, Held, Pools
  <1> QED
    BY <1>1, <1>2, <1>3

\* The first state satisfies the invariant.
LEMMA InitInv == Init => Inv
  <1> SUFFICES ASSUME Init PROVE Inv
    OBVIOUS
  <1>1. TypeOK
    <2>1. /\ pc = "load" /\ input = << >> /\ command = NoText /\ left = 0 /\ pools = 0
          /\ running \in BOOLEAN /\ poolRuns \in BOOLEAN /\ ntdll \in BOOLEAN
          /\ imports = {} /\ closed \in BOOLEAN /\ failed \in BOOLEAN
          /\ held = {} /\ leaked = {} /\ cmd = "none"
      BY DEF Init
    <2>2. pc \in Pcs /\ command \in Lines
      BY <2>1 DEF Pcs, Lines
    <2>3. input \in Seq(Lines)
      BY <2>1
    <2>4. left \in 0 .. MaxProcesses /\ pools \in Nat
      BY <2>1, ConsoleAssumption
    <2> QED
      BY <2>1, <2>2, <2>3, <2>4 DEF TypeOK
  <1>2. Importing
    <2>1. 1 \in Imports /\ imports = {}
      BY DEF Init, Imports
    <2> QED
      BY <2>1 DEF Importing
  <1>3. Holding /\ Pools
    BY DEF Init, Holding, Held, Pools
  <1> QED
    BY <1>1, <1>2, <1>3 DEF Inv

\* So every step keeps it.
LEMMA StepInv == Inv /\ [Next]_vars => Inv'
  <1> SUFFICES ASSUME Inv, [Next]_vars PROVE Inv'
    OBVIOUS
  <1>1. CASE Step
    BY <1>1, GlobalDataKeepsInv, InputKeepsInv, ExecuteKeepsInv, DumpKeepsInv,
       DeviceKeepsInv DEF Step
  <1>2. CASE (\E line \in Lines : Type(line)) \/ CloseInput \/ CmdExits
    BY <1>2, OthersKeepInv
  <1>3. CASE UNCHANGED vars
    BY <1>3 DEF Inv, vars, TypeOK, Importing, Holding, Held, Pools
  <1> QED
    BY <1>1, <1>2, <1>3 DEF Next
-----------------------------------------------------------------------------
\* The invariant holds whatever is typed and whatever fails.
THEOREM Invariance == Spec => []Inv
  <1> QED
    BY InitInv, StepInv, PTL DEF Spec

\* Every variable of the application keeps its type.
THEOREM TypeCorrect == Spec => []TypeOK
  <1>1. Inv => TypeOK
    BY DEF Inv
  <1> QED
    BY <1>1, Invariance, PTL

\* A command that came back has left no cmd.exe and holds nothing; all that
\* can ever be lost are the snapshot, the list and the process of a dump in
\* which a string could not be allocated, the list never without a process.
THEOREM NothingElseLeaks == Spec => []OnlyStringsLeak
  <1>1. Inv => OnlyStringsLeak
    BY DEF Inv, Holding, Held, OnlyStringsLeak
  <1> QED
    BY <1>1, Invariance, PTL

\* There is one thread pool or none, as gGlobalData.ThreadPool says, and none
\* and no ntdll when the application has exited.
THEOREM PoolsAlwaysAccounted == Spec => []PoolsAccountedFor
  <1>1. Inv => PoolsAccountedFor
    BY DEF Inv, Pools, PoolsAccountedFor
  <1> QED
    BY <1>1, Invariance, PTL

\* The thread waits without a limit for its remote thread and for cmd.exe:
\* only when cmd.exe was terminated or had ended before.
WaitsEnd == pc \in {"waitRemote", "waitCmd"} => cmd = "dead"

\* None of the two waits is for ever, whatever failed before it.
THEOREM NoEndlessWait == Spec => []WaitsEnd
  <1>1. Inv => WaitsEnd
    BY DEF Inv, Holding, WaitsEnd
  <1> QED
    BY <1>1, Invariance, PTL

\* Inside a command, but for the question for a number.
InCommand ==
    Pcs \ {"load", "import", "prompt", "pid", "clean", "exited", "aborted"}

\* How many steps of a command are ahead of the thread at most, when the list
\* of processes is not found too small.
Ahead ==
    CASE pc = "execute" -> 3 * MaxProcesses + 8
      [] pc = "size" -> 3 * MaxProcesses + 4
      [] pc = "allocate" -> 3 * MaxProcesses + 3
      [] pc \in {"snapshot", "enumerate", "fill"} -> 3 * MaxProcesses + 2
      [] pc = "open" -> 3 * left + 1
      [] pc = "read" -> 3 * left
      [] pc = "close" -> 3 * left - 1
      [] pc = "cmd" -> 6
      [] pc = "remote" -> 5
      [] pc = "terminate" -> 4
      [] pc \in {"device", "waitRemote"} -> 3
      [] pc \in {"control", "waitCmd", "shut"} -> 2
      [] OTHER -> 1

\* A step of a command ends it, asks for a number, tries again with a larger
\* list of processes, or leaves fewer steps ahead.
CountsDown ==
    Step /\ pc \in InCommand =>
      /\ Ahead \in Nat
      /\ \/ pc' \in {"prompt", "clean", "pid"}
         \/ pc = "fill" /\ pc' = "size"
         \/ pc' \in InCommand /\ Ahead' < Ahead

\* Every command is bounded by the number of processes, but for the retries
\* of ProcessUtils.cpp, the only loop that has no bound of its own.
THEOREM CommandsCountDown == Spec => [][CountsDown]_vars
  <1>1. ASSUME Inv, Step, pc \in InCommand PROVE CountsDown
    <2>1. left \in Nat /\ left <= MaxProcesses /\ MaxProcesses \in Nat
      BY <1>1, ConsoleAssumption DEF Inv, TypeOK
    <2> USE DEF CountsDown, InCommand, Pcs, Ahead, Goto, Back, Hold, Drop, Abandon, resourceVars
    <2>2. /\ pc \in {"read", "close"} => left > 0
          /\ pc \in Pcs /\ pc \notin {"load", "import", "prompt", "pid", "clean"}
      BY <1>1 DEF Inv, Holding, TypeOK
    <2>3. CASE ExecuteHandler
      BY <1>1, <2>1, <2>2, <2>3 DEF ExecuteHandler, Handlers
    <2>4. CASE NoHandler \/ ExitCommand
      BY <1>1, <2>1, <2>2, <2>4 DEF NoHandler, ExitCommand
    <2>5. CASE StartThreadPoolCommand \/ StopThreadPoolCommand
      BY <1>1, <2>1, <2>2, <2>5 DEF StartThreadPoolCommand, StopThreadPoolCommand
    <2>6. CASE ConstructPool \/ ShutdownPool \/ DestroyPool
      BY <1>1, <2>1, <2>2, <2>6 DEF ConstructPool, ShutdownPool, DestroyPool
    <2>7. CASE CreateSnapshot \/ EnumerateProcesses
      BY <1>1, <2>1, <2>2, <2>7 DEF CreateSnapshot, EnumerateProcesses
    <2>8. CASE QuerySize \/ AllocateList
      BY <1>1, <2>1, <2>2, <2>8 DEF QuerySize, AllocateList
    <2>9. CASE FillList \/ FailFillList
      BY <1>1, <2>1, <2>2, <2>9 DEF FillList, FailFillList
    <2>10. CASE FailName \/ OpenProcess
      BY <1>1, <2>1, <2>2, <2>10 DEF FailName, OpenProcess
    <2>11. CASE ReadProcess \/ CloseProcess
      BY <1>1, <2>1, <2>2, <2>11 DEF ReadProcess, CloseProcess
    <2>12. CASE EndDump
      BY <1>1, <2>1, <2>2, <2>12 DEF EndDump
    <2>13. CASE OpenDevice \/ ControlDevice \/ CloseDevice
      BY <1>1, <2>1, <2>2, <2>13 DEF OpenDevice, ControlDevice, CloseDevice
    <2>14. CASE OpenCmd \/ CreateRemoteThread \/ TerminateCmd
      BY <1>1, <2>1, <2>2, <2>14 DEF OpenCmd, CreateRemoteThread, TerminateCmd
    <2>15. CASE WaitRemoteThread \/ WaitCmd
      BY <1>1, <2>1, <2>2, <2>15 DEF WaitRemoteThread, WaitCmd
    <2> QED
      BY <1>1, <2>2, <2>3, <2>4, <2>5, <2>6, <2>7, <2>8, <2>9, <2>10, <2>11, <2>12, <2>13, <2>14, <2>15
      DEF Step, LoadNtdll, ResolveImport, FailImport, DestroyGlobalData, ReadCommand, ReadPid
  <1>2. Inv /\ [Next]_vars => [CountsDown]_vars
    BY <1>1 DEF CountsDown
  <1> QED
    BY <1>2, Invariance, PTL DEF Spec

\* An Exit that was typed stays in the input until it is read as a command.
ExitKept ==
    ExitTyped =>
      \/ ExitTyped'
      \/ pc = "prompt" /\ pc' = "execute" /\ command' = "Exit"

\* No other read of the input, not ProtectProcess's for a number either, takes
\* an Exit away.
THEOREM ExitNeverLost == Spec => [][ExitKept]_vars
  <1>1. ASSUME Inv, Next, ExitTyped PROVE ExitKept
    <2>1. PICK i \in DOMAIN input : input[i] = "Exit"
      BY <1>1 DEF ExitTyped
    <2>2. input \in Seq(Lines) /\ Len(input) \in Nat /\ DOMAIN input = 1..Len(input)
      BY <1>1 DEF Inv, TypeOK
    <2>3. ASSUME i # 1, NEW line, input' = Tail(input) \/ input' = <<line>> \o Tail(input)
          PROVE  ExitTyped'
      <3>1. CASE input' = Tail(input)
        <4>1. i - 1 \in DOMAIN Tail(input) /\ Tail(input)[i - 1] = "Exit"
          BY <2>1, <2>2, <2>3
        <4> QED
          BY <3>1, <4>1 DEF ExitTyped
      <3>2. CASE input' = <<line>> \o Tail(input)
        <4>1. i \in DOMAIN input' /\ input'[i] = "Exit"
          BY <2>1, <2>2, <2>3, <3>2
        <4> QED
          BY <4>1 DEF ExitTyped
      <3> QED
        BY <2>3, <3>1, <3>2
    <2>4. i = 1 => input # << >> /\ Head(input) = "Exit"
      BY <2>1, <2>2
    <2>5. CASE UNCHANGED input
      BY <1>1, <2>5 DEF ExitTyped, ExitKept
    <2>6. CASE ReadCommand
      <3>1. CASE input' = Tail(input) /\ command' = Head(input)
        BY <2>3, <2>4, <2>6, <3>1 DEF ReadCommand, Goto, ExitKept
      <3> QED
        BY <2>5, <2>6, <3>1 DEF ReadCommand
    <2>7. CASE ReadPid
      <3>1. CASE /\ input # << >> /\ Head(input) \in {NoText, "number"}
                 /\ input' = Tail(input) \/ input' = <<NoText>> \o Tail(input)
        <4>1. i # 1
          BY <2>4, <3>1 DEF NoText
        <4> QED
          BY <2>3, <3>1, <4>1 DEF ExitKept
      <3> QED
        BY <2>5, <2>7, <3>1 DEF ReadPid
    <2>8. CASE \E line \in Lines : Type(line)
      <3>1. PICK line \in Lines : input' = Append(input, line)
        BY <2>8 DEF Type
      <3>2. i \in DOMAIN input' /\ input'[i] = "Exit"
        BY <2>1, <2>2, <3>1
      <3> QED
        BY <3>2 DEF ExitTyped, ExitKept
    <2> USE DEF inputVars, Hold, Drop, Abandon
    <2>9. CASE LoadNtdll \/ ResolveImport \/ FailImport \/ DestroyGlobalData
      BY <2>5, <2>9 DEF LoadNtdll, ResolveImport, FailImport, DestroyGlobalData
    <2>10. CASE ExecuteHandler \/ NoHandler \/ ExitCommand
      BY <2>5, <2>10 DEF ExecuteHandler, NoHandler, ExitCommand
    <2>11. CASE \/ StartThreadPoolCommand \/ ConstructPool
                \/ StopThreadPoolCommand \/ ShutdownPool \/ DestroyPool
      BY <2>5, <2>11 DEF StartThreadPoolCommand, ConstructPool, StopThreadPoolCommand,
         ShutdownPool, DestroyPool
    <2>12. CASE \/ CreateSnapshot \/ EnumerateProcesses
                \/ QuerySize \/ AllocateList \/ FillList \/ FailFillList
      BY <2>5, <2>12 DEF CreateSnapshot, EnumerateProcesses, QuerySize, AllocateList,
         FillList, FailFillList
    <2>13. CASE FailName \/ OpenProcess \/ ReadProcess \/ CloseProcess \/ EndDump
      BY <2>5, <2>13 DEF FailName, OpenProcess, ReadProcess, CloseProcess, EndDump
    <2>14. CASE OpenDevice \/ ControlDevice \/ CloseDevice
      BY <2>5, <2>14 DEF OpenDevice, ControlDevice, CloseDevice
    <2>15. CASE \/ OpenCmd \/ CreateRemoteThread \/ TerminateCmd
                \/ WaitRemoteThread \/ WaitCmd \/ CmdExits \/ CloseInput
      BY <2>5, <2>15 DEF OpenCmd, CreateRemoteThread, TerminateCmd, WaitRemoteThread,
         WaitCmd, CmdExits, CloseInput
    <2> QED
      BY <1>1, <2>6, <2>7, <2>8, <2>9, <2>10, <2>11, <2>12, <2>13, <2>14, <2>15
      DEF Next, Step
  <1>2. Inv /\ [Next]_vars => [ExitKept]_vars
    BY <1>1 DEF ExitKept
  <1> QED
    BY <1>2, Invariance, PTL DEF Spec
=============================================================================
