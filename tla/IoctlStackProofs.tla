--------------------------- MODULE IoctlStackProofs ---------------------------
(***************************************************************************)
(* Theorems about IoctlStack for any number of control requests at a time. *)
(* The inductive invariant says what each driver has at each place of its  *)
(* start and stop, that either remove lock counts the requests inside,     *)
(* and what the I/O manager's order of opening, use and closing of a file  *)
(* leaves to be about when a driver is not running: never more than        *)
(* handlers which have completed their request.                            *)
(***************************************************************************)
EXTENDS IoctlStack, FiniteSetTheorems, TLAPS

\* What the First driver has at each place.
FirstStages ==
    /\ fpc \in {"open", "opening", "link", "loaded", "acquire", "remove", "wait",
                "delete"} => fDevice
    /\ fpc \in {"stopped", "create", "dereference", "closing"} => ~fDevice
    /\ fLink <=> fpc \in {"loaded", "acquire", "remove", "wait", "delete"}
    /\ fpc \in {"link", "loaded", "acquire", "remove", "wait", "delete",
                "dereference", "closing"} => fFile
    /\ fpc \in {"stopped", "create", "open", "opening"} => ~fFile

\* The remove locks count who is inside, and the driver.
FirstCounts ==
    /\ fpc \in {"loaded", "acquire", "remove"} => ~fRemoved
    /\ fpc \in {"loaded", "acquire"} => fCount = 1 + Cardinality(InsideFirst)
    /\ fpc = "remove" => fCount = 2 + Cardinality(InsideFirst)
    /\ fpc = "wait" => fRemoved /\ fCount = Cardinality(InsideFirst)
    /\ fpc \notin {"loaded", "acquire", "remove", "wait"} => InsideFirst = {}

SecondCounts ==
    /\ sDevice <=> spc # "stopped"
    /\ spc \in {"loaded", "acquire", "remove"} => ~sRemoved
    /\ spc \in {"loaded", "acquire"} => sCount = 1 + Cardinality(InsideSecond)
    /\ spc = "remove" => sCount = 2 + Cardinality(InsideSecond)
    /\ spc = "wait" => sCount = Cardinality(InsideSecond)
    /\ spc \in {"wait", "delete"} => sRemoved
    /\ spc \in {"delete", "stopped"} => InsideSecond = {}

\* The First's own two requests follow its file.
OwnFile ==
    /\ \A i \in {OpenSecond, CloseSecond} :
         ipc[i] \in {"idle", "acquire2", "complete2", "release2", "returned"}
    /\ ipc[OpenSecond] = "idle" <=> ~fFile /\ fpc # "opening"
    /\ fFile => ipc[OpenSecond] = "returned"
    /\ ipc[CloseSecond] = "idle" <=> fpc # "closing"

\* A request is completed by, and only by, those who then release the locks.
Completed ==
    completed = {i \in Irps : ipc[i] \in {"release1", "release2", "returned"}}

\* The client opens its file, uses it and closes it, while the First runs.
ClientFile ==
    /\ \A i \in ClientIrps : i # CreateIrp /\ ipc[i] # "idle" => CreateIrp \in completed
    /\ ipc[CloseIrp] # "idle" =>
         \A c \in Controls : ipc[c] = "idle" \/ c \in completed
    /\ fpc # "loaded" => \A i \in ClientIrps : ipc[i] = "idle" \/ i \in completed

\* As long as the First has its file open, the Second runs.
SecondRuns ==
    ipc[OpenSecond] # "idle" /\ CloseSecond \notin completed => spc = "loaded"

Inv ==
    /\ TypeOK
    /\ FirstStages
    /\ FirstCounts
    /\ SecondCounts
    /\ OwnFile
    /\ Completed
    /\ ClientFile
    /\ SecondRuns
-----------------------------------------------------------------------------
\* Finitely many requests are inside either lock.
LEMMA InsideFinite ==
  /\ IsFiniteSet(InsideFirst) /\ Cardinality(InsideFirst) \in Nat
  /\ IsFiniteSet(InsideSecond) /\ Cardinality(InsideSecond) \in Nat
  /\ InsideFirst # {} => Cardinality(InsideFirst) > 0
  /\ InsideSecond # {} => Cardinality(InsideSecond) > 0
  <1>1. IsFiniteSet({CreateIrp, CloseIrp}) /\ IsFiniteSet({OpenSecond, CloseSecond})
    <2>1. ASSUME NEW x, NEW y
          PROVE  IsFiniteSet({x, y})
      <3>1. IsFiniteSet({x}) /\ IsFiniteSet({y})
        BY FS_Singleton
      <3>2. IsFiniteSet({x} \cup {y})
        BY <3>1, FS_Union
      <3>3. {x, y} = {x} \cup {y}
        OBVIOUS
      <3> QED
        BY <3>2, <3>3
    <2> QED
      BY <2>1
  <1>2. IsFiniteSet(ClientIrps) /\ IsFiniteSet(Irps)
    BY <1>1, StackAssumption, FS_Union DEF ClientIrps, Irps
  <1>3. InsideFirst \subseteq ClientIrps /\ InsideSecond \subseteq Irps
    BY DEF InsideFirst, InsideSecond
  <1> QED
    BY <1>2, <1>3, FS_Subset, FS_CardinalityType, FS_EmptySet

\* A request that moves changes the two counts by itself alone.
LEMMA Crossing ==
  ASSUME TypeOK, NEW i \in Irps, NEW from, NEW to, Move(i, from, to)
  PROVE  /\ i \in InsideFirst' /\ i \notin InsideFirst =>
              /\ InsideFirst' = InsideFirst \cup {i}
              /\ Cardinality(InsideFirst') = Cardinality(InsideFirst) + 1
         /\ i \notin InsideFirst' /\ i \in InsideFirst =>
              /\ InsideFirst' = InsideFirst \ {i}
              /\ Cardinality(InsideFirst') = Cardinality(InsideFirst) - 1
         /\ (i \in InsideFirst' <=> i \in InsideFirst) => InsideFirst' = InsideFirst
         /\ i \in InsideSecond' /\ i \notin InsideSecond =>
              /\ InsideSecond' = InsideSecond \cup {i}
              /\ Cardinality(InsideSecond') = Cardinality(InsideSecond) + 1
         /\ i \notin InsideSecond' /\ i \in InsideSecond =>
              /\ InsideSecond' = InsideSecond \ {i}
              /\ Cardinality(InsideSecond') = Cardinality(InsideSecond) - 1
         /\ (i \in InsideSecond' <=> i \in InsideSecond) => InsideSecond' = InsideSecond
  <1>1. \A j \in Irps \ {i} : ipc'[j] = ipc[j]
    BY DEF Move, TypeOK
  <1>2. ClientIrps \subseteq Irps
    BY DEF Irps
  <1>3. InsideFirst' \ {i} = InsideFirst \ {i} /\ InsideSecond' \ {i} = InsideSecond \ {i}
    BY <1>1, <1>2 DEF InsideFirst, InsideSecond
  <1>4. i \in InsideFirst' /\ i \notin InsideFirst => InsideFirst' = InsideFirst \cup {i}
    BY <1>3
  <1>5. i \notin InsideFirst' /\ i \in InsideFirst => InsideFirst' = InsideFirst \ {i}
    BY <1>3
  <1>6. i \in InsideSecond' /\ i \notin InsideSecond => InsideSecond' = InsideSecond \cup {i}
    BY <1>3
  <1>7. i \notin InsideSecond' /\ i \in InsideSecond => InsideSecond' = InsideSecond \ {i}
    BY <1>3
  <1>8. (i \in InsideFirst' <=> i \in InsideFirst) => InsideFirst' = InsideFirst
    BY <1>3
  <1>9. (i \in InsideSecond' <=> i \in InsideSecond) => InsideSecond' = InsideSecond
    BY <1>3
  <1>10. i \in InsideFirst' /\ i \notin InsideFirst =>
           Cardinality(InsideFirst') = Cardinality(InsideFirst) + 1
    BY <1>4, InsideFinite, FS_AddElement
  <1>11. i \notin InsideFirst' /\ i \in InsideFirst =>
           Cardinality(InsideFirst') = Cardinality(InsideFirst) - 1
    BY <1>5, InsideFinite, FS_RemoveElement
  <1>12. i \in InsideSecond' /\ i \notin InsideSecond =>
           Cardinality(InsideSecond') = Cardinality(InsideSecond) + 1
    BY <1>6, InsideFinite, FS_AddElement
  <1>13. i \notin InsideSecond' /\ i \in InsideSecond =>
           Cardinality(InsideSecond') = Cardinality(InsideSecond) - 1
    BY <1>7, InsideFinite, FS_RemoveElement
  <1> QED
    BY <1>4, <1>5, <1>6, <1>7, <1>8, <1>9, <1>10, <1>11, <1>12, <1>13

\* The first state satisfies the invariant.
LEMMA InitInv == Init => Inv
  <1> SUFFICES ASSUME Init
               PROVE  Inv
    OBVIOUS
  <1>1. TypeOK
    BY DEF Init, TypeOK, FirstPcs, SecondPcs, IrpPcs
  <1>2. FirstStages /\ FirstCounts /\ SecondCounts
    BY DEF Init, FirstStages, FirstCounts, SecondCounts, InsideFirst, InsideSecond,
       ClientIrps, Irps
  <1>3. OwnFile /\ Completed /\ ClientFile /\ SecondRuns
    BY DEF Init, OwnFile, Completed, ClientFile, SecondRuns, ClientIrps, Irps
  <1> QED
    BY <1>1, <1>2, <1>3 DEF Inv

\* The First driver's steps that send no request keep the invariant.
LEMMA FirstKeepsInv ==
  ASSUME Inv, 
         \/ StartFirst \/ CreateFirstDevice \/ SecondDeviceOpened \/ CreateLink
         \/ CleanUpFailedStart \/ StopFirst \/ AcquireFirstForRemoval \/ BeginFirstRemoval
         \/ EndFirstRemoval \/ DeleteFirstDevice
  PROVE  Inv'
  <1> USE StackAssumption, InsideFinite
      DEF Inv, vars, firstVars, secondVars, irpVars, fLock, sLock, GoFirst, TypeOK,
          ClientIrps, Irps
  <1>0. ipc' = ipc => InsideFirst' = InsideFirst /\ InsideSecond' = InsideSecond
    BY DEF InsideFirst, InsideSecond
  <1>a. UNCHANGED <<secondVars, irpVars>> => SecondCounts' /\ Completed'
    BY <1>0 DEF SecondCounts, Completed
  <1>1. CASE StartFirst
    <2>1. TypeOK'
      BY <1>1 DEF StartFirst, FirstPcs, SecondPcs, IrpPcs
    <2>2. FirstStages'
      BY <1>1 DEF StartFirst, FirstStages
    <2>3. FirstCounts'
      BY <1>1, <1>0 DEF StartFirst, FirstStages, FirstCounts
    <2>4. OwnFile'
      BY <1>1 DEF StartFirst, OwnFile, FirstStages
    <2>5. ClientFile'
      BY <1>1 DEF StartFirst, ClientFile, Completed
    <2>6. SecondRuns'
      BY <1>1 DEF StartFirst, SecondRuns, OwnFile, Completed
    <2>7. UNCHANGED <<secondVars, irpVars>>
      BY <1>1 DEF StartFirst
    <2> QED
      BY <2>1, <2>2, <2>3, <2>4, <2>5, <2>6, <2>7, <1>a
  <1>2. CASE CreateFirstDevice
    <2>1. TypeOK'
      BY <1>2 DEF CreateFirstDevice, FirstPcs, SecondPcs, IrpPcs
    <2>2. FirstStages'
      BY <1>2 DEF CreateFirstDevice, FirstStages
    <2>3. FirstCounts'
      BY <1>2, <1>0 DEF CreateFirstDevice, FirstStages, FirstCounts
    <2>4. OwnFile'
      BY <1>2 DEF CreateFirstDevice, OwnFile, FirstStages
    <2>5. ClientFile'
      BY <1>2 DEF CreateFirstDevice, ClientFile, Completed
    <2>6. SecondRuns'
      BY <1>2 DEF CreateFirstDevice, SecondRuns, OwnFile, Completed
    <2>7. UNCHANGED <<secondVars, irpVars>>
      BY <1>2 DEF CreateFirstDevice
    <2> QED
      BY <2>1, <2>2, <2>3, <2>4, <2>5, <2>6, <2>7, <1>a
  <1>3. CASE SecondDeviceOpened
    <2>1. TypeOK'
      BY <1>3 DEF SecondDeviceOpened, FirstPcs, SecondPcs, IrpPcs
    <2>2. FirstStages'
      BY <1>3 DEF SecondDeviceOpened, FirstStages
    <2>3. FirstCounts'
      BY <1>3, <1>0 DEF SecondDeviceOpened, FirstStages, FirstCounts
    <2>4. OwnFile'
      BY <1>3 DEF SecondDeviceOpened, OwnFile, FirstStages
    <2>5. ClientFile'
      BY <1>3 DEF SecondDeviceOpened, ClientFile, Completed
    <2>6. SecondRuns'
      BY <1>3 DEF SecondDeviceOpened, SecondRuns, OwnFile, Completed
    <2>7. UNCHANGED <<secondVars, irpVars>>
      BY <1>3 DEF SecondDeviceOpened
    <2> QED
      BY <2>1, <2>2, <2>3, <2>4, <2>5, <2>6, <2>7, <1>a
  <1>4. CASE CreateLink
    <2>1. TypeOK'
      <3>1. CASE GoFirst("link", "loaded") /\ fLink' = TRUE /\ FLock!Initialize
        BY <1>4, <3>1 DEF CreateLink, FLock!Initialize, FirstPcs
      <3>2. CASE GoFirst("link", "failed") /\ UNCHANGED <<fLink, fLock>>
        BY <1>4, <3>2 DEF CreateLink, FirstPcs
      <3> QED
        BY <1>4, <3>1, <3>2 DEF CreateLink
    <2>2. FirstStages'
      BY <1>4 DEF CreateLink, FLock!Initialize, FirstStages
    <2>3. FirstCounts'
      BY <1>4, <1>0, FS_EmptySet
      DEF CreateLink, FLock!Initialize, FirstStages, FirstCounts
    <2>4. OwnFile'
      BY <1>4 DEF CreateLink, FLock!Initialize, OwnFile, FirstStages
    <2>5. ClientFile'
      BY <1>4 DEF CreateLink, FLock!Initialize, ClientFile, Completed
    <2>6. SecondRuns'
      BY <1>4 DEF CreateLink, FLock!Initialize, SecondRuns, OwnFile, Completed
    <2>7. UNCHANGED <<secondVars, irpVars>>
      BY <1>4 DEF CreateLink, FLock!Initialize
    <2> QED
      BY <2>1, <2>2, <2>3, <2>4, <2>5, <2>6, <2>7, <1>a
  <1>5. CASE CleanUpFailedStart
    <2>1. TypeOK'
      BY <1>5 DEF CleanUpFailedStart, FirstPcs, SecondPcs, IrpPcs
    <2>2. FirstStages'
      BY <1>5 DEF CleanUpFailedStart, FirstStages
    <2>3. FirstCounts'
      BY <1>5, <1>0 DEF CleanUpFailedStart, FirstStages, FirstCounts
    <2>4. OwnFile'
      BY <1>5 DEF CleanUpFailedStart, OwnFile, FirstStages
    <2>5. ClientFile'
      BY <1>5 DEF CleanUpFailedStart, ClientFile, Completed
    <2>6. SecondRuns'
      BY <1>5 DEF CleanUpFailedStart, SecondRuns, OwnFile, Completed
    <2>7. UNCHANGED <<secondVars, irpVars>>
      BY <1>5 DEF CleanUpFailedStart
    <2> QED
      BY <2>1, <2>2, <2>3, <2>4, <2>5, <2>6, <2>7, <1>a
  <1>6. CASE StopFirst
    <2>1. TypeOK'
      BY <1>6 DEF StopFirst, FirstPcs, SecondPcs, IrpPcs
    <2>2. FirstStages'
      BY <1>6 DEF StopFirst, FirstStages
    <2>3. FirstCounts'
      BY <1>6, <1>0 DEF StopFirst, FirstStages, FirstCounts
    <2>4. OwnFile'
      BY <1>6 DEF StopFirst, OwnFile, FirstStages
    <2>5. ClientFile'
      BY <1>6 DEF StopFirst, ClientFile, Completed
    <2>6. SecondRuns'
      BY <1>6 DEF StopFirst, SecondRuns, OwnFile, Completed
    <2>7. UNCHANGED <<secondVars, irpVars>>
      BY <1>6 DEF StopFirst
    <2> QED
      BY <2>1, <2>2, <2>3, <2>4, <2>5, <2>6, <2>7, <1>a
  <1>7. CASE AcquireFirstForRemoval
    <2>1. TypeOK'
      BY <1>7 DEF AcquireFirstForRemoval, FLock!Acquire, FirstPcs, SecondPcs, IrpPcs
    <2>2. FirstStages'
      BY <1>7 DEF AcquireFirstForRemoval, FLock!Acquire, FirstStages
    <2>3. FirstCounts'
      BY <1>7, <1>0
      DEF AcquireFirstForRemoval, FLock!Acquire, FirstStages, FirstCounts
    <2>4. OwnFile'
      BY <1>7 DEF AcquireFirstForRemoval, FLock!Acquire, OwnFile, FirstStages
    <2>5. ClientFile'
      BY <1>7 DEF AcquireFirstForRemoval, FLock!Acquire, ClientFile, Completed
    <2>6. SecondRuns'
      BY <1>7
      DEF AcquireFirstForRemoval, FLock!Acquire, SecondRuns, OwnFile, Completed
    <2>7. UNCHANGED <<secondVars, irpVars>>
      BY <1>7 DEF AcquireFirstForRemoval, FLock!Acquire
    <2> QED
      BY <2>1, <2>2, <2>3, <2>4, <2>5, <2>6, <2>7, <1>a
  <1>8. CASE BeginFirstRemoval
    <2>1. TypeOK'
      BY <1>8
      DEF BeginFirstRemoval, FLock!BeginRemoval, FirstPcs, SecondPcs, IrpPcs,
          FirstCounts
    <2>2. FirstStages'
      BY <1>8 DEF BeginFirstRemoval, FLock!BeginRemoval, FirstStages
    <2>3. FirstCounts'
      BY <1>8, <1>0
      DEF BeginFirstRemoval, FLock!BeginRemoval, FirstStages, FirstCounts
    <2>4. OwnFile'
      BY <1>8 DEF BeginFirstRemoval, FLock!BeginRemoval, OwnFile, FirstStages
    <2>5. ClientFile'
      BY <1>8 DEF BeginFirstRemoval, FLock!BeginRemoval, ClientFile, Completed
    <2>6. SecondRuns'
      BY <1>8
      DEF BeginFirstRemoval, FLock!BeginRemoval, SecondRuns, OwnFile, Completed
    <2>7. UNCHANGED <<secondVars, irpVars>>
      BY <1>8 DEF BeginFirstRemoval, FLock!BeginRemoval
    <2> QED
      BY <2>1, <2>2, <2>3, <2>4, <2>5, <2>6, <2>7, <1>a
  <1>9. CASE EndFirstRemoval
    <2>1. TypeOK'
      BY <1>9 DEF EndFirstRemoval, FLock!Drained, FirstPcs, SecondPcs, IrpPcs
    <2>2. FirstStages'
      BY <1>9 DEF EndFirstRemoval, FLock!Drained, FirstStages
    <2>3. FirstCounts'
      BY <1>9, <1>0, FS_EmptySet
      DEF EndFirstRemoval, FLock!Drained, FirstStages, FirstCounts
    <2>4. OwnFile'
      BY <1>9 DEF EndFirstRemoval, FLock!Drained, OwnFile, FirstStages
    <2>5. ClientFile'
      BY <1>9 DEF EndFirstRemoval, FLock!Drained, ClientFile, Completed
    <2>6. SecondRuns'
      BY <1>9 DEF EndFirstRemoval, FLock!Drained, SecondRuns, OwnFile, Completed
    <2>7. UNCHANGED <<secondVars, irpVars>>
      BY <1>9 DEF EndFirstRemoval, FLock!Drained
    <2> QED
      BY <2>1, <2>2, <2>3, <2>4, <2>5, <2>6, <2>7, <1>a
  <1>10. CASE DeleteFirstDevice
    <2>1. TypeOK'
      BY <1>10 DEF DeleteFirstDevice, FirstPcs, SecondPcs, IrpPcs
    <2>2. FirstStages'
      BY <1>10 DEF DeleteFirstDevice, FirstStages
    <2>3. FirstCounts'
      BY <1>10, <1>0 DEF DeleteFirstDevice, FirstStages, FirstCounts
    <2>4. OwnFile'
      BY <1>10 DEF DeleteFirstDevice, OwnFile, FirstStages
    <2>5. ClientFile'
      BY <1>10 DEF DeleteFirstDevice, ClientFile, Completed
    <2>6. SecondRuns'
      BY <1>10 DEF DeleteFirstDevice, SecondRuns, OwnFile, Completed
    <2>7. UNCHANGED <<secondVars, irpVars>>
      BY <1>10 DEF DeleteFirstDevice
    <2> QED
      BY <2>1, <2>2, <2>3, <2>4, <2>5, <2>6, <2>7, <1>a
  <1> QED
    BY <1>1, <1>2, <1>3, <1>4, <1>5, <1>6, <1>7, <1>8, <1>9, <1>10

\* The Second driver's steps keep it.
LEMMA SecondKeepsInv ==
  ASSUME Inv, 
         \/ StartSecond \/ StopSecond \/ AcquireSecondForRemoval
         \/ BeginSecondRemoval \/ EndSecondRemoval \/ DeleteSecondDevice
  PROVE  Inv'
  <1> USE StackAssumption, InsideFinite
      DEF Inv, vars, firstVars, secondVars, irpVars, fLock, sLock, GoSecond, TypeOK,
          ClientIrps, Irps
  <1>0. ipc' = ipc => InsideFirst' = InsideFirst /\ InsideSecond' = InsideSecond
    BY DEF InsideFirst, InsideSecond
  <1>a. UNCHANGED <<firstVars, irpVars>> =>
          FirstStages' /\ FirstCounts' /\ OwnFile' /\ Completed' /\ ClientFile'
    BY <1>0 DEF FirstStages, FirstCounts, OwnFile, Completed, ClientFile
  <1>1. CASE StartSecond
    <2>1. TypeOK'
      BY <1>1 DEF StartSecond, SLock!Initialize, FirstPcs, SecondPcs, IrpPcs
    <2>2. SecondCounts'
      BY <1>1, <1>0, FS_EmptySet DEF StartSecond, SLock!Initialize, SecondCounts
    <2>3. SecondRuns'
      BY <1>1 DEF StartSecond, SLock!Initialize, SecondRuns, OwnFile, Completed
    <2>4. UNCHANGED <<firstVars, irpVars>>
      BY <1>1 DEF StartSecond, SLock!Initialize
    <2> QED
      BY <2>1, <2>2, <2>3, <2>4, <1>a
  <1>2. CASE StopSecond
    <2>1. TypeOK'
      BY <1>2 DEF StopSecond, FirstPcs, SecondPcs, IrpPcs
    <2>2. SecondCounts'
      BY <1>2, <1>0 DEF StopSecond, SecondCounts
    <2>3. SecondRuns'
      BY <1>2 DEF StopSecond, SecondRuns, OwnFile, Completed
    <2>4. UNCHANGED <<firstVars, irpVars>>
      BY <1>2 DEF StopSecond
    <2> QED
      BY <2>1, <2>2, <2>3, <2>4, <1>a
  <1>3. CASE AcquireSecondForRemoval
    <2>1. TypeOK'
      BY <1>3 DEF AcquireSecondForRemoval, SLock!Acquire, FirstPcs, SecondPcs, IrpPcs
    <2>2. SecondCounts'
      BY <1>3, <1>0 DEF AcquireSecondForRemoval, SLock!Acquire, SecondCounts
    <2>3. SecondRuns'
      BY <1>3
      DEF AcquireSecondForRemoval, SLock!Acquire, SecondRuns, OwnFile, Completed
    <2>4. UNCHANGED <<firstVars, irpVars>>
      BY <1>3 DEF AcquireSecondForRemoval, SLock!Acquire
    <2> QED
      BY <2>1, <2>2, <2>3, <2>4, <1>a
  <1>4. CASE BeginSecondRemoval
    <2>1. TypeOK'
      BY <1>4
      DEF BeginSecondRemoval, SLock!BeginRemoval, FirstPcs, SecondPcs, IrpPcs,
          SecondCounts
    <2>2. SecondCounts'
      BY <1>4, <1>0 DEF BeginSecondRemoval, SLock!BeginRemoval, SecondCounts
    <2>3. SecondRuns'
      BY <1>4
      DEF BeginSecondRemoval, SLock!BeginRemoval, SecondRuns, OwnFile, Completed
    <2>4. UNCHANGED <<firstVars, irpVars>>
      BY <1>4 DEF BeginSecondRemoval, SLock!BeginRemoval
    <2> QED
      BY <2>1, <2>2, <2>3, <2>4, <1>a
  <1>5. CASE EndSecondRemoval
    <2>1. TypeOK'
      BY <1>5 DEF EndSecondRemoval, SLock!Drained, FirstPcs, SecondPcs, IrpPcs
    <2>2. SecondCounts'
      BY <1>5, <1>0, FS_EmptySet DEF EndSecondRemoval, SLock!Drained, SecondCounts
    <2>3. SecondRuns'
      BY <1>5 DEF EndSecondRemoval, SLock!Drained, SecondRuns, OwnFile, Completed
    <2>4. UNCHANGED <<firstVars, irpVars>>
      BY <1>5 DEF EndSecondRemoval, SLock!Drained
    <2> QED
      BY <2>1, <2>2, <2>3, <2>4, <1>a
  <1>6. CASE DeleteSecondDevice
    <2>1. TypeOK'
      BY <1>6 DEF DeleteSecondDevice, FirstPcs, SecondPcs, IrpPcs
    <2>2. SecondCounts'
      BY <1>6, <1>0 DEF DeleteSecondDevice, SecondCounts
    <2>3. SecondRuns'
      BY <1>6 DEF DeleteSecondDevice, SecondRuns, OwnFile, Completed
    <2>4. UNCHANGED <<firstVars, irpVars>>
      BY <1>6 DEF DeleteSecondDevice
    <2> QED
      BY <2>1, <2>2, <2>3, <2>4, <1>a
  <1> QED
    BY <1>1, <1>2, <1>3, <1>4, <1>5, <1>6

\* Where a request is tells what runs: a client's request that is not yet
\* completed needs the First, a request of the Second's the Second.
LEMMA Presence ==
  ASSUME Inv, NEW i \in Irps
  PROVE  /\ i \in ClientIrps /\ ipc[i] \notin {"idle", "release1", "release2", "returned"}
              => fpc = "loaded"
         /\ ipc[i] \in {"acquire1", "switch1", "complete1", "release1", "pass", "routine"}
              => i \in ClientIrps
         /\ ipc[i] \in {"acquire2", "switch2", "complete2", "routine"} => spc = "loaded"
  <1> USE StackAssumption DEF Inv, Irps, ClientIrps
  <1>1. i \in ClientIrps /\ ipc[i] \notin {"idle", "release1", "release2", "returned"}
          => fpc = "loaded"
    BY DEF ClientFile, Completed
  <1>2. ipc[i] \in {"acquire1", "switch1", "complete1", "release1", "pass", "routine"}
          => i \in ClientIrps
    BY DEF OwnFile
  <1>3. ASSUME ipc[i] \in {"acquire2", "switch2", "complete2", "routine"}
        PROVE  spc = "loaded"
    <2>1. CASE i \in ClientIrps
      <3>1. fFile /\ fpc # "closing"
        BY <1>1, <1>3, <2>1 DEF FirstStages
      <3> QED
        BY <3>1 DEF OwnFile, SecondRuns, Completed
    <2>2. CASE i = OpenSecond
      <3>1. ~fFile
        BY <1>3, <2>2 DEF OwnFile
      <3>2. fpc # "closing"
        BY <3>1 DEF FirstStages
      <3> QED
        BY <1>3, <2>2, <3>2 DEF OwnFile, SecondRuns, Completed
    <2>3. CASE i = CloseSecond
      <3>1. fFile
        BY <1>3, <2>3 DEF OwnFile, FirstStages
      <3> QED
        BY <1>3, <2>3, <3>1 DEF OwnFile, SecondRuns, Completed
    <2> QED
      BY <2>1, <2>2, <2>3
  <1> QED
    BY <1>1, <1>2, <1>3

\* A request's steps keep the invariant.
LEMMA RequestKeepsInv ==
  ASSUME Inv, NEW i \in Irps, (i \in ClientIrps /\ Dispatch(i)) \/ IrpStep(i)
  PROVE  Inv'
  <1> USE StackAssumption, InsideFinite
      DEF Inv, vars, firstVars, secondVars, irpVars, fLock, sLock, Move, TypeOK,
          ClientIrps, Irps
  <1>1. CASE i \in ClientIrps /\ Dispatch(i)
    <2>1. ipc[i] = "idle" /\ ipc' = [ipc EXCEPT ![i] = ipc'[i]]
      BY <1>1 DEF Dispatch
    <2>2. /\ InsideFirst' = InsideFirst
          /\ InsideSecond' = InsideSecond
      BY <1>1, <2>1, Presence, Crossing DEF Dispatch, InsideFirst, InsideSecond
    <2>3. TypeOK'
      BY <1>1, <2>1 DEF Dispatch, FirstPcs, SecondPcs, IrpPcs
    <2>4. FirstStages'
      BY <1>1, <2>1 DEF Dispatch, FirstStages
    <2>5. FirstCounts'
      BY <1>1, <2>1, <2>2, Presence DEF Dispatch, FirstStages, FirstCounts
    <2>6. SecondCounts'
      BY <1>1, <2>1, <2>2, Presence DEF Dispatch, SecondCounts
    <2>7. OwnFile'
      BY <1>1, <2>1 DEF Dispatch, OwnFile, FirstStages
    <2>8. Completed'
      BY <1>1, <2>1 DEF Dispatch, Completed
    <2>9. ClientFile'
      BY <1>1, <2>1, Presence DEF Dispatch, ClientFile, Completed
    <2>10. SecondRuns'
      BY <1>1, <2>1, Presence DEF Dispatch, SecondRuns, OwnFile, Completed
    <2> QED
      BY <2>3, <2>4, <2>5, <2>6, <2>7, <2>8, <2>9, <2>10
  <1>2. CASE AcquireFirst(i)
    <2>1. ipc[i] = "acquire1" /\ ipc' = [ipc EXCEPT ![i] = ipc'[i]]
      BY <1>2 DEF AcquireFirst
    <2>2. /\ Cardinality(InsideFirst') = Cardinality(InsideFirst) + 1
          /\ InsideSecond' = InsideSecond
      BY <1>2, <2>1, Presence, Crossing DEF AcquireFirst, InsideFirst, InsideSecond
    <2>3. TypeOK'
      BY <1>2, <2>1 DEF AcquireFirst, FLock!Acquire, FirstPcs, SecondPcs, IrpPcs
    <2>4. FirstStages'
      BY <1>2, <2>1 DEF AcquireFirst, FLock!Acquire, FirstStages
    <2>5. FirstCounts'
      BY <1>2, <2>1, <2>2, Presence
      DEF AcquireFirst, FLock!Acquire, FirstStages, FirstCounts
    <2>6. SecondCounts'
      BY <1>2, <2>1, <2>2, Presence DEF AcquireFirst, FLock!Acquire, SecondCounts
    <2>7. OwnFile'
      BY <1>2, <2>1 DEF AcquireFirst, FLock!Acquire, OwnFile, FirstStages
    <2>8. Completed'
      BY <1>2, <2>1 DEF AcquireFirst, FLock!Acquire, Completed
    <2>9. ClientFile'
      BY <1>2, <2>1, Presence DEF AcquireFirst, FLock!Acquire, ClientFile, Completed
    <2>10. SecondRuns'
      BY <1>2, <2>1, Presence
      DEF AcquireFirst, FLock!Acquire, SecondRuns, OwnFile, Completed
    <2> QED
      BY <2>3, <2>4, <2>5, <2>6, <2>7, <2>8, <2>9, <2>10
  <1>3. CASE SwitchFirst(i)
    <2>1. ipc[i] = "switch1" /\ ipc' = [ipc EXCEPT ![i] = ipc'[i]]
      BY <1>3 DEF SwitchFirst
    <2>2. /\ InsideFirst' = InsideFirst
          /\ InsideSecond' = InsideSecond
      BY <1>3, <2>1, Presence, Crossing DEF SwitchFirst, InsideFirst, InsideSecond
    <2>3. TypeOK'
      BY <1>3, <2>1 DEF SwitchFirst, FirstPcs, SecondPcs, IrpPcs
    <2>4. FirstStages'
      BY <1>3, <2>1 DEF SwitchFirst, FirstStages
    <2>5. FirstCounts'
      BY <1>3, <2>1, <2>2, Presence DEF SwitchFirst, FirstStages, FirstCounts
    <2>6. SecondCounts'
      BY <1>3, <2>1, <2>2, Presence DEF SwitchFirst, SecondCounts
    <2>7. OwnFile'
      BY <1>3, <2>1 DEF SwitchFirst, OwnFile, FirstStages
    <2>8. Completed'
      BY <1>3, <2>1 DEF SwitchFirst, Completed
    <2>9. ClientFile'
      BY <1>3, <2>1, Presence DEF SwitchFirst, ClientFile, Completed
    <2>10. SecondRuns'
      BY <1>3, <2>1, Presence DEF SwitchFirst, SecondRuns, OwnFile, Completed
    <2> QED
      BY <2>3, <2>4, <2>5, <2>6, <2>7, <2>8, <2>9, <2>10
  <1>4. CASE CompleteFirst(i)
    <2>1. ipc[i] = "complete1" /\ ipc' = [ipc EXCEPT ![i] = ipc'[i]]
      BY <1>4 DEF CompleteFirst
    <2>2. /\ InsideFirst' = InsideFirst
          /\ InsideSecond' = InsideSecond
      BY <1>4, <2>1, Presence, Crossing DEF CompleteFirst, InsideFirst, InsideSecond
    <2>3. TypeOK'
      BY <1>4, <2>1 DEF CompleteFirst, FirstPcs, SecondPcs, IrpPcs
    <2>4. FirstStages'
      BY <1>4, <2>1 DEF CompleteFirst, FirstStages
    <2>5. FirstCounts'
      BY <1>4, <2>1, <2>2, Presence DEF CompleteFirst, FirstStages, FirstCounts
    <2>6. SecondCounts'
      BY <1>4, <2>1, <2>2, Presence DEF CompleteFirst, SecondCounts
    <2>7. OwnFile'
      BY <1>4, <2>1 DEF CompleteFirst, OwnFile, FirstStages
    <2>8. Completed'
      BY <1>4, <2>1 DEF CompleteFirst, Completed
    <2>9. ClientFile'
      BY <1>4, <2>1, Presence DEF CompleteFirst, ClientFile, Completed
    <2>10. SecondRuns'
      BY <1>4, <2>1, Presence DEF CompleteFirst, SecondRuns, OwnFile, Completed
    <2> QED
      BY <2>3, <2>4, <2>5, <2>6, <2>7, <2>8, <2>9, <2>10
  <1>5. CASE ReleaseFirst(i)
    <2>1. ipc[i] = "release1" /\ ipc' = [ipc EXCEPT ![i] = ipc'[i]]
      BY <1>5 DEF ReleaseFirst
    <2>2. /\ Cardinality(InsideFirst') = Cardinality(InsideFirst) - 1
          /\ InsideSecond' = InsideSecond
          /\ InsideFirst # {}
      BY <1>5, <2>1, Presence, Crossing DEF ReleaseFirst, InsideFirst, InsideSecond
    <2>3. TypeOK'
      BY <1>5, <2>1, <2>2
      DEF ReleaseFirst, FLock!Release, FirstPcs, SecondPcs, IrpPcs, FirstStages,
          FirstCounts
    <2>4. FirstStages'
      BY <1>5, <2>1 DEF ReleaseFirst, FLock!Release, FirstStages
    <2>5. FirstCounts'
      BY <1>5, <2>1, <2>2, Presence
      DEF ReleaseFirst, FLock!Release, FirstStages, FirstCounts
    <2>6. SecondCounts'
      BY <1>5, <2>1, <2>2, Presence DEF ReleaseFirst, FLock!Release, SecondCounts
    <2>7. OwnFile'
      BY <1>5, <2>1 DEF ReleaseFirst, FLock!Release, OwnFile, FirstStages
    <2>8. Completed'
      BY <1>5, <2>1 DEF ReleaseFirst, FLock!Release, Completed
    <2>9. ClientFile'
      BY <1>5, <2>1, Presence DEF ReleaseFirst, FLock!Release, ClientFile, Completed
    <2>10. SecondRuns'
      BY <1>5, <2>1, Presence
      DEF ReleaseFirst, FLock!Release, SecondRuns, OwnFile, Completed
    <2> QED
      BY <2>3, <2>4, <2>5, <2>6, <2>7, <2>8, <2>9, <2>10
  <1>6. CASE PassIrp(i)
    <2>1. ipc[i] = "pass" /\ ipc' = [ipc EXCEPT ![i] = ipc'[i]]
      BY <1>6 DEF PassIrp
    <2>2. /\ InsideFirst' = InsideFirst
          /\ InsideSecond' = InsideSecond
      BY <1>6, <2>1, Presence, Crossing DEF PassIrp, InsideFirst, InsideSecond
    <2>3. TypeOK'
      BY <1>6, <2>1 DEF PassIrp, FirstPcs, SecondPcs, IrpPcs
    <2>4. FirstStages'
      BY <1>6, <2>1 DEF PassIrp, FirstStages
    <2>5. FirstCounts'
      BY <1>6, <2>1, <2>2, Presence DEF PassIrp, FirstStages, FirstCounts
    <2>6. SecondCounts'
      BY <1>6, <2>1, <2>2, Presence DEF PassIrp, SecondCounts
    <2>7. OwnFile'
      BY <1>6, <2>1 DEF PassIrp, OwnFile, FirstStages
    <2>8. Completed'
      BY <1>6, <2>1 DEF PassIrp, Completed
    <2>9. ClientFile'
      BY <1>6, <2>1, Presence DEF PassIrp, ClientFile, Completed
    <2>10. SecondRuns'
      BY <1>6, <2>1, Presence DEF PassIrp, SecondRuns, OwnFile, Completed
    <2> QED
      BY <2>3, <2>4, <2>5, <2>6, <2>7, <2>8, <2>9, <2>10
  <1>7. CASE AcquireSecond(i)
    <2>1. ipc[i] = "acquire2" /\ ipc' = [ipc EXCEPT ![i] = ipc'[i]]
      BY <1>7 DEF AcquireSecond
    <2>2. /\ InsideFirst' = InsideFirst
          /\ Cardinality(InsideSecond') = Cardinality(InsideSecond) + 1
      BY <1>7, <2>1, Presence, Crossing DEF AcquireSecond, InsideFirst, InsideSecond
    <2>3. TypeOK'
      BY <1>7, <2>1 DEF AcquireSecond, SLock!Acquire, FirstPcs, SecondPcs, IrpPcs
    <2>4. FirstStages'
      BY <1>7, <2>1 DEF AcquireSecond, SLock!Acquire, FirstStages
    <2>5. FirstCounts'
      BY <1>7, <2>1, <2>2, Presence
      DEF AcquireSecond, SLock!Acquire, FirstStages, FirstCounts
    <2>6. SecondCounts'
      BY <1>7, <2>1, <2>2, Presence DEF AcquireSecond, SLock!Acquire, SecondCounts
    <2>7. OwnFile'
      BY <1>7, <2>1 DEF AcquireSecond, SLock!Acquire, OwnFile, FirstStages
    <2>8. Completed'
      BY <1>7, <2>1 DEF AcquireSecond, SLock!Acquire, Completed
    <2>9. ClientFile'
      BY <1>7, <2>1, Presence DEF AcquireSecond, SLock!Acquire, ClientFile, Completed
    <2>10. SecondRuns'
      BY <1>7, <2>1, Presence
      DEF AcquireSecond, SLock!Acquire, SecondRuns, OwnFile, Completed
    <2> QED
      BY <2>3, <2>4, <2>5, <2>6, <2>7, <2>8, <2>9, <2>10
  <1>8. CASE SwitchSecond(i)
    <2>1. ipc[i] = "switch2" /\ ipc' = [ipc EXCEPT ![i] = ipc'[i]]
      BY <1>8 DEF SwitchSecond
    <2>2. /\ InsideFirst' = InsideFirst
          /\ InsideSecond' = InsideSecond
      BY <1>8, <2>1, Presence, Crossing DEF SwitchSecond, InsideFirst, InsideSecond
    <2>3. TypeOK'
      BY <1>8, <2>1 DEF SwitchSecond, FirstPcs, SecondPcs, IrpPcs
    <2>4. FirstStages'
      BY <1>8, <2>1 DEF SwitchSecond, FirstStages
    <2>5. FirstCounts'
      BY <1>8, <2>1, <2>2, Presence DEF SwitchSecond, FirstStages, FirstCounts
    <2>6. SecondCounts'
      BY <1>8, <2>1, <2>2, Presence DEF SwitchSecond, SecondCounts
    <2>7. OwnFile'
      BY <1>8, <2>1 DEF SwitchSecond, OwnFile, FirstStages
    <2>8. Completed'
      BY <1>8, <2>1 DEF SwitchSecond, Completed
    <2>9. ClientFile'
      BY <1>8, <2>1, Presence DEF SwitchSecond, ClientFile, Completed
    <2>10. SecondRuns'
      BY <1>8, <2>1, Presence DEF SwitchSecond, SecondRuns, OwnFile, Completed
    <2> QED
      BY <2>3, <2>4, <2>5, <2>6, <2>7, <2>8, <2>9, <2>10
  <1>9. CASE CompleteSecond(i)
    <2>1. ipc[i] = "complete2" /\ ipc' = [ipc EXCEPT ![i] = ipc'[i]]
      BY <1>9 DEF CompleteSecond
    <2>2. /\ InsideFirst' = InsideFirst
          /\ InsideSecond' = InsideSecond
      BY <1>9, <2>1, Presence, Crossing DEF CompleteSecond, InsideFirst, InsideSecond
    <2>3. TypeOK'
      BY <1>9, <2>1 DEF CompleteSecond, FirstPcs, SecondPcs, IrpPcs
    <2>4. FirstStages'
      BY <1>9, <2>1 DEF CompleteSecond, FirstStages
    <2>5. FirstCounts'
      BY <1>9, <2>1, <2>2, Presence DEF CompleteSecond, FirstStages, FirstCounts
    <2>6. SecondCounts'
      BY <1>9, <2>1, <2>2, Presence DEF CompleteSecond, SecondCounts
    <2>7. OwnFile'
      BY <1>9, <2>1 DEF CompleteSecond, OwnFile, FirstStages
    <2>8. Completed'
      BY <1>9, <2>1 DEF CompleteSecond, Completed
    <2>9. ClientFile'
      BY <1>9, <2>1, Presence DEF CompleteSecond, ClientFile, Completed
    <2>10. SecondRuns'
      BY <1>9, <2>1, Presence DEF CompleteSecond, SecondRuns, OwnFile, Completed
    <2> QED
      BY <2>3, <2>4, <2>5, <2>6, <2>7, <2>8, <2>9, <2>10
  <1>10. CASE CompletionRoutine(i)
    <2>1. ipc[i] = "routine" /\ ipc' = [ipc EXCEPT ![i] = ipc'[i]]
      BY <1>10 DEF CompletionRoutine
    <2>2. /\ Cardinality(InsideFirst') = Cardinality(InsideFirst) - 1
          /\ InsideSecond' = InsideSecond
          /\ InsideFirst # {}
      BY <1>10, <2>1, Presence, Crossing
      DEF CompletionRoutine, InsideFirst, InsideSecond
    <2>3. TypeOK'
      BY <1>10, <2>1, <2>2
      DEF CompletionRoutine, FLock!Release, FirstPcs, SecondPcs, IrpPcs, FirstStages,
          FirstCounts
    <2>4. FirstStages'
      BY <1>10, <2>1 DEF CompletionRoutine, FLock!Release, FirstStages
    <2>5. FirstCounts'
      BY <1>10, <2>1, <2>2, Presence
      DEF CompletionRoutine, FLock!Release, FirstStages, FirstCounts
    <2>6. SecondCounts'
      BY <1>10, <2>1, <2>2, Presence
      DEF CompletionRoutine, FLock!Release, SecondCounts
    <2>7. OwnFile'
      BY <1>10, <2>1 DEF CompletionRoutine, FLock!Release, OwnFile, FirstStages
    <2>8. Completed'
      BY <1>10, <2>1 DEF CompletionRoutine, FLock!Release, Completed
    <2>9. ClientFile'
      BY <1>10, <2>1, Presence
      DEF CompletionRoutine, FLock!Release, ClientFile, Completed
    <2>10. SecondRuns'
      BY <1>10, <2>1, Presence
      DEF CompletionRoutine, FLock!Release, SecondRuns, OwnFile, Completed
    <2> QED
      BY <2>3, <2>4, <2>5, <2>6, <2>7, <2>8, <2>9, <2>10
  <1>11. CASE ReleaseSecond(i)
    <2>1. ipc[i] = "release2" /\ ipc' = [ipc EXCEPT ![i] = ipc'[i]]
      BY <1>11 DEF ReleaseSecond
    <2>2. /\ InsideFirst' = InsideFirst
          /\ Cardinality(InsideSecond') = Cardinality(InsideSecond) - 1
          /\ InsideSecond # {}
      BY <1>11, <2>1, Presence, Crossing DEF ReleaseSecond, InsideFirst, InsideSecond
    <2>3. TypeOK'
      BY <1>11, <2>1, <2>2
      DEF ReleaseSecond, SLock!Release, FirstPcs, SecondPcs, IrpPcs, SecondCounts
    <2>4. FirstStages'
      BY <1>11, <2>1 DEF ReleaseSecond, SLock!Release, FirstStages
    <2>5. FirstCounts'
      BY <1>11, <2>1, <2>2, Presence
      DEF ReleaseSecond, SLock!Release, FirstStages, FirstCounts
    <2>6. SecondCounts'
      BY <1>11, <2>1, <2>2, Presence DEF ReleaseSecond, SLock!Release, SecondCounts
    <2>7. OwnFile'
      BY <1>11, <2>1 DEF ReleaseSecond, SLock!Release, OwnFile, FirstStages
    <2>8. Completed'
      BY <1>11, <2>1 DEF ReleaseSecond, SLock!Release, Completed
    <2>9. ClientFile'
      BY <1>11, <2>1, Presence DEF ReleaseSecond, SLock!Release, ClientFile, Completed
    <2>10. SecondRuns'
      BY <1>11, <2>1, Presence
      DEF ReleaseSecond, SLock!Release, SecondRuns, OwnFile, Completed
    <2> QED
      BY <2>3, <2>4, <2>5, <2>6, <2>7, <2>8, <2>9, <2>10
  <1> QED
    BY <1>1, <1>2, <1>3, <1>4, <1>5, <1>6, <1>7, <1>8, <1>9, <1>10, <1>11 DEF IrpStep

\* So do the steps that open and close the First's own file, and the client's
\* fresh start.
LEMMA FilesKeepInv ==
  ASSUME Inv, OpenSecondDevice \/ DereferenceFile \/ FileClosed \/ Reopen
  PROVE  Inv'
  <1> USE StackAssumption, InsideFinite
      DEF Inv, vars, firstVars, secondVars, irpVars, fLock, sLock, GoFirst, Move,
          TypeOK, ClientIrps, Irps
  <1>1. CASE OpenSecondDevice
    <2>1. InsideFirst' = InsideFirst /\ InsideSecond' = InsideSecond
      BY <1>1 DEF OpenSecondDevice, InsideFirst, InsideSecond
    <2>2. TypeOK'
      BY <1>1 DEF OpenSecondDevice, FirstPcs, SecondPcs, IrpPcs
    <2>3. FirstStages'
      BY <1>1 DEF OpenSecondDevice, FirstStages
    <2>4. FirstCounts'
      BY <1>1, <2>1 DEF OpenSecondDevice, FirstStages, FirstCounts
    <2>5. SecondCounts'
      BY <1>1, <2>1 DEF OpenSecondDevice, SecondCounts
    <2>6. OwnFile'
      BY <1>1 DEF OpenSecondDevice, OwnFile, FirstStages
    <2>7. Completed'
      BY <1>1 DEF OpenSecondDevice, Completed
    <2>8. ClientFile'
      BY <1>1 DEF OpenSecondDevice, ClientFile, Completed
    <2>9. SecondRuns'
      BY <1>1 DEF OpenSecondDevice, SecondRuns, OwnFile, Completed
    <2> QED
      BY <2>2, <2>3, <2>4, <2>5, <2>6, <2>7, <2>8, <2>9
  <1>2. CASE DereferenceFile
    <2>1. InsideFirst' = InsideFirst /\ InsideSecond' = InsideSecond
      BY <1>2 DEF DereferenceFile, InsideFirst, InsideSecond
    <2>2. TypeOK'
      BY <1>2 DEF DereferenceFile, FirstPcs, SecondPcs, IrpPcs
    <2>3. FirstStages'
      BY <1>2 DEF DereferenceFile, FirstStages
    <2>4. FirstCounts'
      BY <1>2, <2>1 DEF DereferenceFile, FirstStages, FirstCounts
    <2>5. SecondCounts'
      BY <1>2, <2>1 DEF DereferenceFile, SecondCounts
    <2>6. OwnFile'
      BY <1>2 DEF DereferenceFile, OwnFile, FirstStages
    <2>7. Completed'
      BY <1>2 DEF DereferenceFile, Completed
    <2>8. ClientFile'
      BY <1>2 DEF DereferenceFile, ClientFile, Completed
    <2>9. SecondRuns'
      BY <1>2 DEF DereferenceFile, SecondRuns, OwnFile, Completed
    <2> QED
      BY <2>2, <2>3, <2>4, <2>5, <2>6, <2>7, <2>8, <2>9
  <1>3. CASE FileClosed
    <2>1. InsideFirst' = InsideFirst /\ InsideSecond' = InsideSecond
      <3>1. ipc[OpenSecond] = "returned" /\ ipc[CloseSecond] = "returned"
        BY <1>3 DEF FileClosed, OwnFile, FirstStages
      <3> QED
        BY <1>3, <3>1 DEF FileClosed, InsideFirst, InsideSecond
    <2>2. TypeOK'
      BY <1>3 DEF FileClosed, FirstPcs, SecondPcs, IrpPcs
    <2>3. FirstStages'
      BY <1>3 DEF FileClosed, FirstStages
    <2>4. FirstCounts'
      BY <1>3, <2>1 DEF FileClosed, FirstStages, FirstCounts
    <2>5. SecondCounts'
      BY <1>3, <2>1 DEF FileClosed, SecondCounts
    <2>6. OwnFile'
      BY <1>3 DEF FileClosed, OwnFile, FirstStages
    <2>7. Completed'
      BY <1>3 DEF FileClosed, Completed
    <2>8. ClientFile'
      BY <1>3 DEF FileClosed, ClientFile, Completed
    <2>9. SecondRuns'
      BY <1>3 DEF FileClosed, SecondRuns, OwnFile, Completed
    <2> QED
      BY <2>2, <2>3, <2>4, <2>5, <2>6, <2>7, <2>8, <2>9
  <1>4. CASE Reopen
    <2>1. InsideFirst' = InsideFirst /\ InsideSecond' = InsideSecond
      BY <1>4 DEF Reopen, InsideFirst, InsideSecond
    <2>2. TypeOK'
      BY <1>4 DEF Reopen, FirstPcs, SecondPcs, IrpPcs
    <2>3. FirstStages'
      BY <1>4 DEF Reopen, FirstStages
    <2>4. FirstCounts'
      BY <1>4, <2>1 DEF Reopen, FirstStages, FirstCounts
    <2>5. SecondCounts'
      BY <1>4, <2>1 DEF Reopen, SecondCounts
    <2>6. OwnFile'
      BY <1>4 DEF Reopen, OwnFile, FirstStages
    <2>7. Completed'
      BY <1>4 DEF Reopen, Completed
    <2>8. ClientFile'
      BY <1>4 DEF Reopen, ClientFile, Completed
    <2>9. SecondRuns'
      BY <1>4 DEF Reopen, SecondRuns, OwnFile, Completed
    <2> QED
      BY <2>2, <2>3, <2>4, <2>5, <2>6, <2>7, <2>8, <2>9
  <1> QED
    BY <1>1, <1>2, <1>3, <1>4

\* Every step keeps it.
LEMMA StepInv == Inv /\ [Next]_vars => Inv'
  <1> SUFFICES ASSUME Inv, [Next]_vars
               PROVE  Inv'
    OBVIOUS
  <1>1. CASE UNCHANGED vars
    BY <1>1
    DEF vars, firstVars, secondVars, irpVars, fLock, sLock, Inv, TypeOK, FirstStages,
    FirstCounts,
        SecondCounts, OwnFile, Completed, ClientFile, SecondRuns, InsideFirst,
        InsideSecond
  <1>2. CASE StartFirst \/ StopFirst \/ FirstStep
    BY <1>2, FirstKeepsInv, FilesKeepInv DEF FirstStep
  <1>3. CASE StartSecond \/ StopSecond \/ SecondStep
    BY <1>3, SecondKeepsInv DEF SecondStep
  <1>4. CASE Reopen
    BY <1>4, FilesKeepInv
  <1>5. CASE (\E i \in ClientIrps : Dispatch(i)) \/ (\E i \in Irps : IrpStep(i))
    BY <1>5, RequestKeepsInv DEF Irps
  <1> QED
    BY <1>1, <1>2, <1>3, <1>4, <1>5 DEF Next

\* Inv is an invariant of the two drivers.
THEOREM Invariance == Spec => []Inv
  BY InitInv, StepInv, PTL DEF Spec
-----------------------------------------------------------------------------
(***************************************************************************)
(* The variables keep their types.                                         *)
(***************************************************************************)
THEOREM TypeCorrect == Spec => []TypeOK
  <1>1. Inv => TypeOK
    BY DEF Inv
  <1> QED
    BY <1>1, Invariance, PTL

(***************************************************************************)
(* However many requests there are and in whichever order the drivers are  *)
(* stopped, a request finds each driver's device alive until its last use  *)
(* of the remove lock there.                                               *)
(***************************************************************************)
THEOREM DevicesOutlive == Spec => []DevicesOutliveRequests
  <1>1. Inv => DevicesOutliveRequests
    <2> SUFFICES ASSUME Inv, NEW i \in Irps
                 PROVE  (UsesFirst(i) => fDevice) /\ (UsesSecond(i) => sDevice)
      BY DEF DevicesOutliveRequests
    <2>1. UsesFirst(i) => fDevice
      <3>1. ipc[i] = "release1" => i \in InsideFirst
        BY Presence DEF InsideFirst
      <3> QED
        BY <3>1, Presence
        DEF UsesFirst, Inv, TypeOK, FirstPcs, FirstStages, FirstCounts
    <2>2. UsesSecond(i) => sDevice
      <3>1. ipc[i] = "release2" => i \in InsideSecond
        BY DEF InsideSecond
      <3> QED
        BY <3>1, Presence DEF UsesSecond, Inv, SecondCounts
    <2> QED
      BY <2>1, <2>2
  <1> QED
    BY <1>1, Invariance, PTL

(***************************************************************************)
(* A First driver that is not running has no device, link or file.         *)
(***************************************************************************)
THEOREM StoppedClean == Spec => []StoppedLeavesNothing
  <1>1. Inv => StoppedLeavesNothing
    BY DEF Inv, StoppedLeavesNothing, FirstStages, OwnFile
  <1> QED
    BY <1>1, Invariance, PTL

\* Every step of the two drivers is a step or a stutter of the First's guarded
\* device.
LEMMA FirstGuardStep == Inv /\ [Next]_vars => [FirstGuard!GDNext]_(FirstGuard!gdVars)
  <1> SUFFICES ASSUME Inv, [Next]_vars
               PROVE  [FirstGuard!GDNext]_(FirstGuard!gdVars)
    OBVIOUS
  <1> USE DEF vars, firstVars, secondVars, irpVars, fLock, sLock
  <1>1. UNCHANGED <<fpc, InsideFirst>> => UNCHANGED FirstGuard!gdVars
    BY DEF FirstGuard!gdVars
  <1>2. ipc' = ipc => InsideFirst' = InsideFirst
    BY DEF InsideFirst
  <1>3. CASE UNCHANGED vars
    BY <1>1, <1>2, <1>3
  <1>4. CASE StartFirst \/ StopFirst \/ FirstStep
    <2>1. CASE CreateLink
      BY <1>2, <2>1
      DEF CreateLink, GoFirst, FirstGuard!gdVars, FirstGuard!GDNext, FirstGuard!Create
    <2>2. CASE BeginFirstRemoval
      BY <1>2, <2>2
      DEF BeginFirstRemoval, GoFirst, FirstGuard!GDNext, FirstGuard!Close
    <2>3. CASE DeleteFirstDevice
      BY <1>2, <2>3
      DEF DeleteFirstDevice, GoFirst, FirstGuard!GDNext, FirstGuard!Delete, Inv,
          FirstCounts
    <2>4. CASE \/ StartFirst \/ CreateFirstDevice \/ SecondDeviceOpened \/ CleanUpFailedStart
               \/ StopFirst \/ AcquireFirstForRemoval \/ EndFirstRemoval
      BY <1>2, <2>4
      DEF StartFirst, CreateFirstDevice, SecondDeviceOpened, CleanUpFailedStart,
          StopFirst,
          AcquireFirstForRemoval, EndFirstRemoval, GoFirst, FirstGuard!gdVars
    <2>5. CASE OpenSecondDevice \/ DereferenceFile \/ FileClosed
      <3>1. InsideFirst' = InsideFirst
        <4>1. OpenSecond \notin ClientIrps /\ CloseSecond \notin ClientIrps
          BY StackAssumption DEF ClientIrps
        <4>2. \A i \in ClientIrps : ipc'[i] = ipc[i]
          BY <2>5, <4>1
          DEF OpenSecondDevice, DereferenceFile, FileClosed, Move, Inv, TypeOK, Irps
        <4> QED
          BY <4>2 DEF InsideFirst
      <3> QED
        BY <2>5, <3>1
        DEF OpenSecondDevice, DereferenceFile, FileClosed, GoFirst, FirstGuard!gdVars
    <2> QED
      BY <1>4, <2>1, <2>2, <2>3, <2>4, <2>5 DEF FirstStep
  <1>5. CASE StartSecond \/ StopSecond \/ SecondStep
    BY <1>1, <1>2, <1>5
    DEF StartSecond, StopSecond, SecondStep, AcquireSecondForRemoval,
        BeginSecondRemoval,
        EndSecondRemoval, DeleteSecondDevice
  <1>6. CASE Reopen
    <2>1. UNCHANGED <<fpc, InsideFirst>>
      BY <1>6 DEF Reopen, InsideFirst, ClientIrps, Irps
    <2> QED
      BY <1>1, <2>1
  <1>7. ASSUME NEW i \in Irps, (i \in ClientIrps /\ Dispatch(i)) \/ IrpStep(i)
        PROVE  [FirstGuard!GDNext]_(FirstGuard!gdVars)
    <2> USE DEF Move, Inv, TypeOK
    <2>1. CASE AcquireFirst(i)
      <3>1. i \in ClientIrps /\ fpc = "loaded"
        BY <2>1, Presence DEF AcquireFirst
      <3>2. InsideFirst' = InsideFirst \cup {i}
        BY <2>1, <3>1, Crossing DEF AcquireFirst, InsideFirst
      <3> QED
        BY <2>1, <3>1, <3>2 DEF AcquireFirst, FirstGuard!GDNext, FirstGuard!Enter
    <2>2. CASE ReleaseFirst(i) \/ CompletionRoutine(i)
      <3>1. i \in ClientIrps
        BY <2>2, Presence DEF ReleaseFirst, CompletionRoutine
      <3>2. i \in InsideFirst /\ InsideFirst' = InsideFirst \ {i}
        BY <2>2, <3>1, Crossing DEF ReleaseFirst, CompletionRoutine, InsideFirst
      <3> QED
        BY <2>2, <3>1, <3>2
        DEF ReleaseFirst, CompletionRoutine, FirstGuard!GDNext, FirstGuard!Leave
    <2>3. CASE \/ i \in ClientIrps /\ Dispatch(i)
               \/ SwitchFirst(i) \/ CompleteFirst(i) \/ PassIrp(i)
               \/ AcquireSecond(i) \/ SwitchSecond(i) \/ CompleteSecond(i) \/ ReleaseSecond(i)
      <3>1. InsideFirst' = InsideFirst
        <4>0. CASE i \in ClientIrps /\ Dispatch(i)
          BY <4>0, Crossing DEF Dispatch, InsideFirst
        <4>1. CASE SwitchFirst(i)
          <5>1. CASE Move(i, "switch1", "pass")
            BY <5>1, Crossing DEF InsideFirst
          <5>2. CASE Move(i, "switch1", "complete1")
            BY <5>2, Crossing DEF InsideFirst
          <5> QED
            BY <4>1, <5>1, <5>2 DEF SwitchFirst
        <4>4. CASE CompleteFirst(i)
          BY <4>4, Crossing DEF CompleteFirst, InsideFirst
        <4>2. CASE PassIrp(i) \/ AcquireSecond(i) \/ SwitchSecond(i)
          BY <4>2, Crossing DEF PassIrp, AcquireSecond, SwitchSecond, InsideFirst
        <4>3. CASE CompleteSecond(i) \/ ReleaseSecond(i)
          BY <4>3, Crossing DEF CompleteSecond, ReleaseSecond, InsideFirst
        <4> QED
          BY <2>3, <4>0, <4>1, <4>2, <4>3, <4>4
      <3> QED
        BY <1>1, <2>3, <3>1
        DEF Dispatch, SwitchFirst, CompleteFirst, PassIrp, AcquireSecond,
            SwitchSecond,
            CompleteSecond, ReleaseSecond
    <2> QED
      BY <1>7, <2>1, <2>2, <2>3 DEF IrpStep
  <1> QED
    BY <1>3, <1>4, <1>5, <1>6, <1>7 DEF Next, Irps

\* Every step of the two drivers is a step or a stutter of the Second's guarded
\* device.
LEMMA SecondGuardStep == Inv /\ [Next]_vars => [SecondGuard!GDNext]_(SecondGuard!gdVars)
  <1> SUFFICES ASSUME Inv, [Next]_vars
               PROVE  [SecondGuard!GDNext]_(SecondGuard!gdVars)
    OBVIOUS
  <1> USE DEF vars, firstVars, secondVars, irpVars, fLock, sLock
  <1>1. UNCHANGED <<sDevice, sRemoved, InsideSecond>> => UNCHANGED SecondGuard!gdVars
    BY DEF SecondGuard!gdVars
  <1>2. ipc' = ipc => InsideSecond' = InsideSecond
    BY DEF InsideSecond
  <1>3. CASE UNCHANGED vars
    BY <1>1, <1>2, <1>3
  <1>4. CASE StartSecond \/ StopSecond \/ SecondStep
    <2>1. CASE StartSecond
      <3>1. ~sDevice /\ sDevice' = TRUE /\ sRemoved' = FALSE
        BY <2>1 DEF StartSecond, GoSecond, SLock!Initialize, Inv, SecondCounts
      <3>2. SecondGuard!Create
        BY <1>2, <2>1, <3>1 DEF StartSecond, SecondGuard!Create
      <3> QED
        BY <3>2 DEF SecondGuard!GDNext
    <2>2. CASE BeginSecondRemoval
      BY <1>2, <2>2
      DEF BeginSecondRemoval, GoSecond, SLock!BeginRemoval, SecondGuard!GDNext,
          SecondGuard!Close, Inv, SecondCounts
    <2>3. CASE DeleteSecondDevice
      <3>1. sDevice /\ sRemoved /\ sDevice' = FALSE /\ InsideSecond = {}
        BY <2>3 DEF DeleteSecondDevice, GoSecond, Inv, SecondCounts
      <3>2. SecondGuard!Delete
        BY <1>2, <2>3, <3>1 DEF DeleteSecondDevice, SecondGuard!Delete
      <3> QED
        BY <3>2 DEF SecondGuard!GDNext
    <2>4. CASE StopSecond \/ AcquireSecondForRemoval \/ EndSecondRemoval
      BY <1>1, <1>2, <2>4
      DEF StopSecond, AcquireSecondForRemoval, EndSecondRemoval, SLock!Acquire
    <2> QED
      BY <1>4, <2>1, <2>2, <2>3, <2>4 DEF SecondStep
  <1>5. CASE StartFirst \/ StopFirst \/ FirstStep
    <2>1. CASE OpenSecondDevice \/ DereferenceFile \/ FileClosed
      <3>1. UNCHANGED InsideSecond
        <4>1. fpc = "closing" => ipc[OpenSecond] = "returned"
          BY DEF Inv, FirstStages, OwnFile
        <4> QED
          BY <2>1, <4>1, StackAssumption
          DEF OpenSecondDevice, DereferenceFile, FileClosed, GoFirst, Move,
              InsideSecond, Inv,
              TypeOK, Irps
      <3> QED
        BY <1>1, <2>1, <3>1 DEF OpenSecondDevice, DereferenceFile, FileClosed
    <2> QED
      BY <1>1, <1>2, <1>5, <2>1
      DEF FirstStep, StartFirst, StopFirst, CreateFirstDevice, SecondDeviceOpened,
          CreateLink,
          CleanUpFailedStart, AcquireFirstForRemoval, BeginFirstRemoval,
          EndFirstRemoval,
          DeleteFirstDevice
  <1>6. CASE Reopen
    <2>1. UNCHANGED <<sDevice, sRemoved, InsideSecond>>
      BY <1>6 DEF Reopen, InsideSecond, ClientIrps, Irps
    <2> QED
      BY <1>1, <2>1
  <1>7. ASSUME NEW i \in Irps, (i \in ClientIrps /\ Dispatch(i)) \/ IrpStep(i)
        PROVE  [SecondGuard!GDNext]_(SecondGuard!gdVars)
    <2> USE DEF Move, Inv, TypeOK
    <2>1. CASE AcquireSecond(i)
      <3>1. sDevice /\ ~sRemoved
        BY <2>1, Presence DEF AcquireSecond, SecondCounts
      <3>2. InsideSecond' = InsideSecond \cup {i}
        BY <2>1, Crossing DEF AcquireSecond, InsideSecond
      <3> QED
        BY <2>1, <3>1, <3>2
        DEF AcquireSecond, SLock!Acquire, SecondGuard!GDNext, SecondGuard!Enter
    <2>2. CASE ReleaseSecond(i)
      <3>1. i \in InsideSecond /\ InsideSecond' = InsideSecond \ {i}
        BY <2>2, Crossing DEF ReleaseSecond, InsideSecond
      <3> QED
        BY <2>2, <3>1
        DEF ReleaseSecond, SLock!Release, SecondGuard!GDNext, SecondGuard!Leave
    <2>3. CASE \/ i \in ClientIrps /\ Dispatch(i)
               \/ AcquireFirst(i) \/ SwitchFirst(i) \/ CompleteFirst(i) \/ ReleaseFirst(i)
               \/ PassIrp(i) \/ SwitchSecond(i) \/ CompleteSecond(i) \/ CompletionRoutine(i)
      <3>1. InsideSecond' = InsideSecond
        BY <2>3, Crossing
        DEF Dispatch, AcquireFirst, SwitchFirst, CompleteFirst, ReleaseFirst, PassIrp,
            SwitchSecond, CompleteSecond, CompletionRoutine, InsideSecond
      <3> QED
        BY <1>1, <2>3, <3>1
        DEF Dispatch, AcquireFirst, SwitchFirst, CompleteFirst, ReleaseFirst, PassIrp,
            SwitchSecond, CompleteSecond, CompletionRoutine
    <2> QED
      BY <1>7, <2>1, <2>2, <2>3 DEF IrpStep
  <1> QED
    BY <1>3, <1>4, <1>5, <1>6, <1>7 DEF Next, Irps

(***************************************************************************)
(* Either driver implements a guarded device: no request gets in once the  *)
(* removal began, and the device is deleted when the last one has left.    *)
(***************************************************************************)
THEOREM Guarded == Spec => ImplementsGuardedDevices
  <1>1. Init => FirstGuard!GDInit /\ SecondGuard!GDInit
    BY DEF Init, FirstGuard!GDInit, SecondGuard!GDInit, InsideFirst, InsideSecond,
       ClientIrps, Irps
  <1>2. Spec => FirstGuard!GDSpec
    BY <1>1, FirstGuardStep, Invariance, PTL DEF Spec, FirstGuard!GDSpec
  <1>3. Spec => SecondGuard!GDSpec
    BY <1>1, SecondGuardStep, Invariance, PTL DEF Spec, SecondGuard!GDSpec
  <1> QED
    BY <1>2, <1>3 DEF ImplementsGuardedDevices
=============================================================================
