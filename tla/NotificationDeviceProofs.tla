----------------------- MODULE NotificationDeviceProofs -----------------------
(***************************************************************************)
(* Theorems about NotificationDevice for any number of requests, handles,  *)
(* process ids and kernel modules.  The inductive invariant follows the    *)
(* driver's thread from place to place; the decisive part is ClientFile:   *)
(* whoever may still be about when DriverUnload begins has completed its   *)
(* request, so it needs the remove lock only.                              *)
(***************************************************************************)
EXTENDS NotificationDevice, ListLemmas, FiniteSetTheorems, TLAPS

\* The search: only the first module may be the kernel, and what was copied
\* begins like what is loaded.
Search ==
    /\ Len(system) > 0
    /\ \A i \in 2 .. Len(system) : system[i] # Kernel
    /\ spc = "search" =>
         /\ modulesSize = Len(modules)
         /\ Len(modules) > 0
         /\ modules[1] = system[1]
         /\ \A i \in 2 .. Len(modules) : modules[i] # Kernel
    /\ base \in {Kernel, NoModule}
    /\ spc = "returned" /\ ~callFailed => (base = Kernel <=> system[1] = Kernel)

\* What a checked build has at each place of DriverEntry, and what is left of
\* the routines when either build unloads.
Routines ==
    /\ upc \in {"entry", "image"} => routines = RegisterOrder
    /\ upc = "loaded" => routines = RemoveOrder
    /\ upc \in {"register", "remove"} => Len(routines) > 0
    /\ upc \in {"register", "loaded"} /\ checked =>
         base = Kernel /\ spc = "returned"
    /\ upc \in {"image", "register", "loaded"} /\ checked => object = "valid"
    /\ upc = "register" /\ checked =>
         ToSet(RegisterOrder) \subseteq registered \cup ToSet(routines)
    /\ upc = "loaded" /\ checked => registered = ToSet(RegisterOrder)
    /\ upc = "remove" => registered \subseteq ToSet(routines)
    /\ upc \in {"lock", "reset", "acquire", "release", "wait", "cleanup", "free",
                "unloaded"} => registered = {}

\* The object at each place, and whether unloading has gDrvData.Lock.
Device ==
    /\ upc = "entry" => object = "none"
    /\ upc = "acquire" => object # "none"
    /\ upc \in {"release", "wait", "cleanup"} => object = "valid"
    /\ upc \in {"free", "unloaded"} => object # "valid"
    /\ object = "freed" => upc = "unloaded"
    /\ lockHeld => upc \in {"reset", "acquire", "release", "wait", "cleanup", "free",
                            "bugcheck"}

\* The remove lock counts who is inside, and the driver.
Counts ==
    /\ object # "valid" => Inside = {}
    /\ object = "valid" =>
         /\ removed <=> upc \in {"wait", "cleanup"}
         /\ upc = "release" => ioCount = 2 + Cardinality(Inside)
         /\ upc = "wait" => ioCount = Cardinality(Inside)
         /\ upc = "cleanup" => Inside = {}
         /\ upc \notin {"release", "wait", "cleanup"} =>
              ioCount = 1 + Cardinality(Inside)

\* The I/O manager's order of opening, use and closing of the file, and the
\* handlers' order of completing and releasing.
ClientFile ==
    /\ completed = {i \in Irps : ipc[i] \in {"release", "returned"}}
    /\ \A i \in Irps : i # CreateIrp /\ ipc[i] # "idle" => CreateIrp \in completed
    /\ ipc[CloseIrp] # "idle" =>
         \A c \in Controls : ipc[c] = "idle" \/ c \in completed
    /\ (upc # "loaded" \/ object # "valid") =>
         \A i \in Irps : ipc[i] = "idle" \/ i \in completed

\* The handle requests.
Shield ==
    /\ \A o \in Opens : hpc[o] = "lock" => "handle" \in registered
    /\ \A o \in shielded :
         /\ target[o] \in Pids
         /\ hpc[o] = "stripped" \/ (hpc[o] = "lock" /\ protectedPid = target[o])

Inv ==
    /\ TypeOK
    /\ Search
    /\ Routines
    /\ Device
    /\ Counts
    /\ ClientFile
    /\ Shield
-----------------------------------------------------------------------------
\* Finitely many handlers are inside the remove lock.
LEMMA InsideFinite ==
  /\ IsFiniteSet(Inside) /\ Cardinality(Inside) \in Nat
  /\ Inside # {} => Cardinality(Inside) > 0
  <1>1. IsFiniteSet({CreateIrp} \cup {CloseIrp})
    BY FS_Singleton, FS_Union
  <1>2. IsFiniteSet(Irps)
    BY <1>1, DeviceAssumption, FS_Union, {CreateIrp, CloseIrp} = {CreateIrp} \cup {CloseIrp}
    DEF Irps
  <1>3. Inside \subseteq Irps
    BY DEF Inside
  <1> QED
    BY <1>2, <1>3, FS_Subset, FS_CardinalityType, FS_EmptySet

\* A handler that moves changes the count by itself alone.
LEMMA Crossing ==
  ASSUME TypeOK, NEW i \in Irps, NEW from, NEW to, Move(i, from, to)
  PROVE  /\ i \in Inside' /\ i \notin Inside =>
              /\ Inside' = Inside \cup {i}
              /\ Cardinality(Inside') = Cardinality(Inside) + 1
         /\ i \notin Inside' /\ i \in Inside =>
              /\ Inside' = Inside \ {i}
              /\ Cardinality(Inside') = Cardinality(Inside) - 1
         /\ (i \in Inside' <=> i \in Inside) => Inside' = Inside
  <1>1. \A j \in Irps \ {i} : ipc'[j] = ipc[j]
    BY DEF Move, TypeOK
  <1>2. Inside' \ {i} = Inside \ {i}
    BY <1>1 DEF Inside
  <1>3. i \in Inside' /\ i \notin Inside => Inside' = Inside \cup {i}
    BY <1>2
  <1>4. i \notin Inside' /\ i \in Inside => Inside' = Inside \ {i}
    BY <1>2
  <1>5. (i \in Inside' <=> i \in Inside) => Inside' = Inside
    BY <1>2
  <1> QED
    BY <1>3, <1>4, <1>5, InsideFinite, FS_AddElement, FS_RemoveElement

\* Both orders name the same five routines.
LEMMA SameRoutines ==
  /\ ToSet(RegisterOrder) = {"process", "registry", "image", "handle", "thread"}
  /\ ToSet(RemoveOrder) = ToSet(RegisterOrder)
  /\ RegisterOrder \in Seq(ToSet(RegisterOrder)) /\ Len(RegisterOrder) > 0
  /\ RemoveOrder \in Seq(ToSet(RegisterOrder)) /\ Len(RemoveOrder) > 0
  <1>1. ToSet(RegisterOrder) = {"process", "registry", "image", "handle", "thread"}
    <2>1. DOMAIN RegisterOrder = 1 .. 5
      BY DEF RegisterOrder
    <2>2. 1 .. 5 = {1, 2, 3, 4, 5}
      OBVIOUS
    <2> QED
      BY <2>1, <2>2 DEF ToSet, RegisterOrder
  <1>2. ToSet(RemoveOrder) = {"process", "registry", "image", "handle", "thread"}
    <2>1. DOMAIN RemoveOrder = 1 .. 5
      BY DEF RemoveOrder
    <2>2. 1 .. 5 = {1, 2, 3, 4, 5}
      OBVIOUS
    <2> QED
      BY <2>1, <2>2 DEF ToSet, RemoveOrder
  <1> QED
    BY <1>1, <1>2 DEF RegisterOrder, RemoveOrder

\* Registering or removing one routine.
LEMMA TakeNext ==
  ASSUME routines \in Seq(ToSet(RegisterOrder)), Len(routines) > 0
  PROVE  /\ ToSet(routines) = {Head(routines)} \cup ToSet(Tail(routines))
         /\ Len(routines) = 1 => ToSet(routines) = {Head(routines)}
         /\ Len(routines) # 1 => Len(Tail(routines)) > 0
         /\ Head(routines) \in ToSet(RegisterOrder)
  <1> DEFINE S == ToSet(RegisterOrder)
  <1>1. routines \in Seq(S) /\ Len(routines) \in Nat
    OBVIOUS
  <1> HIDE DEF S
  <1>2. /\ ToSet(routines) = {Head(routines)} \cup ToSet(Tail(routines))
        /\ Len(routines) = 1 => ToSet(routines) = {Head(routines)}
        /\ Len(Tail(routines)) = Len(routines) - 1
        /\ Head(routines) \in S
    BY <1>1, HeadAndTail
  <1> QED
    BY <1>1, <1>2 DEF S

\* The search of the module list and the changes of the list keep its part of
\* the invariant.
LEMMA SearchKept ==
  ASSUME ImageTypeOK, Search, SearchStep \/ ModuleChange
  PROVE  ImageTypeOK' /\ Search'
  <1> USE ImageAssumption DEF ImageTypeOK, Search, bufferVars, SearchPcs
  <1>1. CASE FailSearch \/ InitializeAuxKlib \/ QuerySize \/ AllocateBuffer
    <2>1. CASE FailSearch
      BY <2>1 DEF FailSearch
    <2>2. CASE InitializeAuxKlib \/ AllocateBuffer
      BY <2>2 DEF InitializeAuxKlib, AllocateBuffer
    <2>3. CASE QuerySize
      BY <2>3 DEF QuerySize
    <2> QED
      BY <1>1, <2>1, <2>2, <2>3
  <1>2. CASE QueryModules
    BY <1>2 DEF QueryModules
  <1>3. CASE SearchModules
    <2>1. (\E i \in 1 .. modulesSize : modules[i] = Kernel) <=> system[1] = Kernel
      BY <1>3 DEF SearchModules
    <2> QED
      BY <1>3, <2>1 DEF SearchModules
  <1>4. CASE ModuleChange
    <2>1. ASSUME NEW mod \in Modules \ {Kernel}, system' = Append(system, mod)
          PROVE  /\ system' \in Seq(Modules) /\ Len(system') > 0 /\ system'[1] = system[1]
                 /\ \A i \in 2 .. Len(system') : system'[i] # Kernel
      BY <2>1
    <2>2. ASSUME NEW i \in 2 .. Len(system), system' = RemoveAt(system, i)
          PROVE  /\ system' \in Seq(Modules) /\ Len(system') > 0 /\ system'[1] = system[1]
                 /\ \A j \in 2 .. Len(system') : system'[j] # Kernel
      <3>4. system' \in Seq(Modules) /\ Len(system') = Len(system) - 1
        BY <2>2, MovedItems
      <3>5. \A j \in 1 .. Len(system') :
              system'[j] = IF j < i THEN system[j] ELSE system[j + 1]
        <4>1. i \in 1 .. Len(system)
          OBVIOUS
        <4>2. \A j \in 1 .. Len(system) - 1 :
                RemoveAt(system, i)[j] = IF j < i THEN system[j] ELSE system[j + 1]
          BY <4>1, MovedItems
        <4> QED
          BY <2>2, <3>4, <4>2
      <3>6. 1 \in 1 .. Len(system') /\ system'[1] = system[1]
        <4>1. Len(system) \in Nat /\ Len(system) >= 2 /\ 1 < i
          OBVIOUS
        <4>2. 1 \in 1 .. Len(system')
          BY <3>4, <4>1
        <4> QED
          BY <3>5, <4>1, <4>2
      <3>7. ASSUME NEW j \in 2 .. Len(system')
            PROVE  system'[j] # Kernel
        <4>1. j \in 1 .. Len(system')
          OBVIOUS
        <4>2. j \in 2 .. Len(system) /\ j + 1 \in 2 .. Len(system)
          BY <3>4
        <4> QED
          BY <3>5, <4>1, <4>2
      <3> QED
        BY <3>4, <3>6, <3>7
    <2> QED
      BY <1>4, <2>1, <2>2 DEF ModuleChange
  <1> QED
    BY <1>1, <1>2, <1>3, <1>4 DEF SearchStep

\* The other steps of the driver's thread keep the invariant.
LEMMA DriverKeepsInv ==
  ASSUME Inv, BeginUnload \/ (DriverStep /\ ~FindImageBase)
  PROVE  Inv'
  <1> USE DeviceAssumption, ImageAssumption, InsideFinite, SameRoutines
      DEF Inv, vars, entryVars, lockVars, irpVars, handleVars, OthersUnchanged, Go,
          TypeOK
  <1>a. UNCHANGED imageVars => ImageTypeOK' /\ Search'
    BY DEF imageVars, bufferVars, ImageTypeOK, Search
  <1>b. ipc' = ipc => Inside' = Inside
    BY DEF Inside
  <1>1. CASE CreateDeviceObject
    <2>1. Search'
      BY <1>1, <1>a DEF CreateDeviceObject
    <2>2. TypeOK'
      <3>1. CASE object' = "valid"
        <4>1. ioCount' = 1 /\ removed' = FALSE
          BY <1>1, <3>1 DEF CreateDeviceObject, RLock!Initialize
        <4>2. upc' \in {"bugcheck", "image"}
          BY <1>1 DEF CreateDeviceObject
        <4> QED
          BY <1>1, <1>a, <3>1, <4>1, <4>2 DEF CreateDeviceObject, UnloadPcs, Objects
      <3>2. CASE object' # "valid"
        BY <1>1, <1>a, <3>2 DEF CreateDeviceObject, UnloadPcs, Objects
      <3> QED
        BY <3>1, <3>2
    <2>3. Routines'
      BY <1>1
      DEF CreateDeviceObject, RLock!Initialize, Routines
    <2>4. Device'
      BY <1>1
      DEF CreateDeviceObject, RLock!Initialize, Device, Routines
    <2>5. Counts'
      <3>1. Inside = {} /\ Inside' = {}
        BY <1>1, <1>b DEF CreateDeviceObject, Counts, Device
      <3>2. CASE object' = "valid"
        BY <1>1, <3>1, <3>2, FS_EmptySet
        DEF CreateDeviceObject, RLock!Initialize, Counts
      <3>3. CASE object' # "valid"
        BY <3>1, <3>3 DEF Counts
      <3> QED
        BY <3>2, <3>3
    <2>6. ClientFile'
      BY <1>1
      DEF CreateDeviceObject, RLock!Initialize, ClientFile, Device
    <2>7. Shield'
      BY <1>1
      DEF CreateDeviceObject, RLock!Initialize, Shield, Routines
    <2> QED
      BY <2>1, <2>2, <2>3, <2>4, <2>5, <2>6, <2>7
  <1>2. CASE VerifyImageBase
    <2>1. Search'
      BY <1>2, <1>a DEF VerifyImageBase
    <2>2. TypeOK'
      BY <1>2, <1>a
      DEF VerifyImageBase, UnloadPcs, Objects
    <2>3. Routines'
      BY <1>2
      DEF VerifyImageBase, Routines, Search, imageVars, bufferVars
    <2>4. Device'
      BY <1>2
      DEF VerifyImageBase, Device, Routines
    <2>5. Counts'
      BY <1>2, <1>b
      DEF VerifyImageBase, Counts, Device
    <2>6. ClientFile'
      BY <1>2
      DEF VerifyImageBase, ClientFile, Device
    <2>7. Shield'
      BY <1>2
      DEF VerifyImageBase, Shield, Routines
    <2> QED
      BY <2>1, <2>2, <2>3, <2>4, <2>5, <2>6, <2>7
  <1>3. CASE RegisterRoutine
    <2>1. Search'
      BY <1>3, <1>a DEF RegisterRoutine
    <2>2. TypeOK'
      BY <1>3, <1>a, HeadAndTail
      DEF RegisterRoutine, UnloadPcs, Objects, Routines
    <2>3. Routines'
      <3>1. /\ ToSet(routines) = {Head(routines)} \cup ToSet(Tail(routines))
            /\ Len(routines) = 1 => ToSet(routines) = {Head(routines)}
            /\ Len(routines) # 1 => Len(Tail(routines)) > 0
            /\ Head(routines) \in ToSet(RegisterOrder)
        BY <1>3, TakeNext DEF RegisterRoutine, Routines
      <3>2. CASE upc' = "bugcheck"
        BY <3>2 DEF Routines
      <3>3. CASE upc' = "loaded"
        <4>1. Len(routines) = 1 /\ routines' = RemoveOrder
          BY <1>3, <3>3 DEF RegisterRoutine
        <4>2. checked => registered' = registered \cup {Head(routines)}
          BY <1>3, <3>3 DEF RegisterRoutine
        <4> QED
          BY <1>3, <3>1, <3>3, <4>1, <4>2 DEF RegisterRoutine, Routines, imageVars
      <3>4. CASE upc' = "register"
        <4>1. Len(routines) # 1 /\ routines' = Tail(routines)
          BY <1>3, <3>4 DEF RegisterRoutine
        <4>2. checked => registered' = registered \cup {Head(routines)}
          BY <1>3, <3>4 DEF RegisterRoutine
        <4> QED
          BY <1>3, <3>1, <3>4, <4>1, <4>2 DEF RegisterRoutine, Routines, imageVars
      <3> QED
        BY <1>3, <3>2, <3>3, <3>4 DEF RegisterRoutine
    <2>4. Device'
      BY <1>3
      DEF RegisterRoutine, Device, Routines
    <2>5. Counts'
      BY <1>3, <1>b
      DEF RegisterRoutine, Counts, Device
    <2>6. ClientFile'
      BY <1>3
      DEF RegisterRoutine, ClientFile, Device
    <2>7. Shield'
      BY <1>3, HeadAndTail
      DEF RegisterRoutine, Shield, Routines
    <2> QED
      BY <2>1, <2>2, <2>3, <2>4, <2>5, <2>6, <2>7
  <1>4. CASE BeginUnload
    <2>1. Search'
      BY <1>4, <1>a DEF BeginUnload
    <2>2. TypeOK'
      BY <1>4, <1>a
      DEF BeginUnload, UnloadPcs, Objects
    <2>3. Routines'
      BY <1>4
      DEF BeginUnload, Routines
    <2>4. Device'
      BY <1>4
      DEF BeginUnload, Device, Routines
    <2>5. Counts'
      BY <1>4, <1>b
      DEF BeginUnload, Counts, Device
    <2>6. ClientFile'
      <3>1. \A i \in Irps : ipc[i] = "idle" \/ i \in completed
        BY <1>4 DEF BeginUnload, ClientFile, Irps
      <3> QED
        BY <1>4, <3>1 DEF BeginUnload, ClientFile
    <2>7. Shield'
      BY <1>4
      DEF BeginUnload, Shield, Routines
    <2> QED
      BY <2>1, <2>2, <2>3, <2>4, <2>5, <2>6, <2>7
  <1>5. CASE RemoveRoutine
    <2>1. Search'
      BY <1>5, <1>a DEF RemoveRoutine
    <2>2. TypeOK'
      BY <1>5, <1>a, HeadAndTail
      DEF RemoveRoutine, UnloadPcs, Objects, Routines
    <2>3. Routines'
      <3>1. /\ ToSet(routines) = {Head(routines)} \cup ToSet(Tail(routines))
            /\ Len(routines) = 1 => ToSet(routines) = {Head(routines)}
            /\ Len(routines) # 1 => Len(Tail(routines)) > 0
        BY <1>5, TakeNext DEF RemoveRoutine, Routines
      <3>2. upc' \in {"remove", "lock", "bugcheck"} /\ (upc' = "remove" => Len(routines) # 1)
            /\ (upc' = "lock" => Len(routines) = 1)
        BY <1>5 DEF RemoveRoutine
      <3> QED
        BY <1>5, <3>1, <3>2 DEF RemoveRoutine, Routines
    <2>4. Device'
      BY <1>5
      DEF RemoveRoutine, Device, Routines
    <2>5. Counts'
      BY <1>5, <1>b
      DEF RemoveRoutine, Counts, Device
    <2>6. ClientFile'
      BY <1>5
      DEF RemoveRoutine, ClientFile, Device
    <2>7. Shield'
      BY <1>5, HeadAndTail
      DEF RemoveRoutine, Shield, Routines
    <2> QED
      BY <2>1, <2>2, <2>3, <2>4, <2>5, <2>6, <2>7
  <1>6. CASE LockForUninit
    <2>1. Search'
      BY <1>6, <1>a DEF LockForUninit
    <2>2. TypeOK'
      BY <1>6, <1>a
      DEF LockForUninit, UnloadPcs, Objects
    <2>3. Routines'
      BY <1>6
      DEF LockForUninit, Routines
    <2>4. Device'
      BY <1>6
      DEF LockForUninit, Device, Routines
    <2>5. Counts'
      BY <1>6, <1>b
      DEF LockForUninit, Counts, Device
    <2>6. ClientFile'
      BY <1>6
      DEF LockForUninit, ClientFile, Device
    <2>7. Shield'
      BY <1>6
      DEF LockForUninit, Shield, Routines
    <2> QED
      BY <2>1, <2>2, <2>3, <2>4, <2>5, <2>6, <2>7
  <1>7. CASE ResetGlobalData
    <2>1. Search'
      BY <1>7, <1>a DEF ResetGlobalData
    <2>2. TypeOK'
      BY <1>7, <1>a
      DEF ResetGlobalData, UnloadPcs, Objects
    <2>3. Routines'
      BY <1>7
      DEF ResetGlobalData, Routines
    <2>4. Device'
      BY <1>7
      DEF ResetGlobalData, Device, Routines
    <2>5. Counts'
      BY <1>7, <1>b
      DEF ResetGlobalData, Counts, Device
    <2>6. ClientFile'
      BY <1>7
      DEF ResetGlobalData, ClientFile, Device
    <2>7. Shield'
      BY <1>7
      DEF ResetGlobalData, Shield, Routines
    <2> QED
      BY <2>1, <2>2, <2>3, <2>4, <2>5, <2>6, <2>7
  <1>8. CASE AcquireForRemoval
    <2>1. Search'
      BY <1>8, <1>a DEF AcquireForRemoval
    <2>2. TypeOK'
      BY <1>8, <1>a
      DEF AcquireForRemoval, RLock!Acquire, UnloadPcs, Objects
    <2>3. Routines'
      BY <1>8
      DEF AcquireForRemoval, RLock!Acquire, Routines
    <2>4. Device'
      BY <1>8
      DEF AcquireForRemoval, RLock!Acquire, Device, Routines
    <2>5. Counts'
      BY <1>8, <1>b
      DEF AcquireForRemoval, RLock!Acquire, Counts, Device
    <2>6. ClientFile'
      BY <1>8
      DEF AcquireForRemoval, RLock!Acquire, ClientFile, Device
    <2>7. Shield'
      BY <1>8
      DEF AcquireForRemoval, RLock!Acquire, Shield, Routines
    <2> QED
      BY <2>1, <2>2, <2>3, <2>4, <2>5, <2>6, <2>7
  <1>9. CASE BeginRemoval
    <2>1. Search'
      BY <1>9, <1>a DEF BeginRemoval
    <2>2. TypeOK'
      BY <1>9, <1>a
      DEF BeginRemoval, RLock!BeginRemoval, UnloadPcs, Objects, Counts, Device
    <2>3. Routines'
      BY <1>9
      DEF BeginRemoval, RLock!BeginRemoval, Routines
    <2>4. Device'
      BY <1>9
      DEF BeginRemoval, RLock!BeginRemoval, Device, Routines
    <2>5. Counts'
      BY <1>9, <1>b
      DEF BeginRemoval, RLock!BeginRemoval, Counts, Device
    <2>6. ClientFile'
      BY <1>9
      DEF BeginRemoval, RLock!BeginRemoval, ClientFile, Device
    <2>7. Shield'
      BY <1>9
      DEF BeginRemoval, RLock!BeginRemoval, Shield, Routines
    <2> QED
      BY <2>1, <2>2, <2>3, <2>4, <2>5, <2>6, <2>7
  <1>10. CASE EndRemoval
    <2>1. Search'
      BY <1>10, <1>a DEF EndRemoval
    <2>2. TypeOK'
      BY <1>10, <1>a
      DEF EndRemoval, RLock!Drained, UnloadPcs, Objects
    <2>3. Routines'
      BY <1>10
      DEF EndRemoval, RLock!Drained, Routines
    <2>4. Device'
      BY <1>10
      DEF EndRemoval, RLock!Drained, Device, Routines
    <2>5. Counts'
      BY <1>10, <1>b, FS_EmptySet
      DEF EndRemoval, RLock!Drained, Counts, Device
    <2>6. ClientFile'
      BY <1>10
      DEF EndRemoval, RLock!Drained, ClientFile, Device
    <2>7. Shield'
      BY <1>10
      DEF EndRemoval, RLock!Drained, Shield, Routines
    <2> QED
      BY <2>1, <2>2, <2>3, <2>4, <2>5, <2>6, <2>7
  <1>11. CASE CleanUp
    <2>1. Search'
      BY <1>11, <1>a DEF CleanUp
    <2>2. TypeOK'
      BY <1>11, <1>a
      DEF CleanUp, UnloadPcs, Objects
    <2>3. Routines'
      BY <1>11
      DEF CleanUp, Routines
    <2>4. Device'
      BY <1>11
      DEF CleanUp, Device, Routines
    <2>5. Counts'
      BY <1>11, <1>b
      DEF CleanUp, Counts, Device
    <2>6. ClientFile'
      BY <1>11
      DEF CleanUp, ClientFile, Device
    <2>7. Shield'
      BY <1>11
      DEF CleanUp, Shield, Routines
    <2> QED
      BY <2>1, <2>2, <2>3, <2>4, <2>5, <2>6, <2>7
  <1>12. CASE FreeObject
    <2>1. Search'
      BY <1>12, <1>a DEF FreeObject
    <2>2. TypeOK'
      BY <1>12, <1>a
      DEF FreeObject, UnloadPcs, Objects
    <2>3. Routines'
      BY <1>12
      DEF FreeObject, Routines
    <2>4. Device'
      BY <1>12
      DEF FreeObject, Device, Routines
    <2>5. Counts'
      BY <1>12, <1>b
      DEF FreeObject, Counts, Device
    <2>6. ClientFile'
      BY <1>12
      DEF FreeObject, ClientFile, Device
    <2>7. Shield'
      BY <1>12
      DEF FreeObject, Shield, Routines
    <2> QED
      BY <2>1, <2>2, <2>3, <2>4, <2>5, <2>6, <2>7
  <1> QED
    BY <1>1, <1>2, <1>3, <1>4, <1>5, <1>6, <1>7, <1>8, <1>9, <1>10, <1>11, <1>12
    DEF DriverStep

\* So do the search and what changes meanwhile.
LEMMA ImageKeepsInv ==
  ASSUME Inv, FindImageBase \/ ModulesChange
  PROVE  Inv'
  <1> USE DEF Inv, vars, entryVars, lockVars, irpVars, handleVars, OthersUnchanged
  <1>1. TypeOK' /\ Search'
    BY SearchKept DEF FindImageBase, ModulesChange, TypeOK
  <1>2. Routines' /\ Device'
    BY DEF FindImageBase, ModulesChange, Routines, Device
  <1>3. Inside' = Inside
    BY DEF FindImageBase, ModulesChange, Inside
  <1>4. Counts' /\ ClientFile' /\ Shield'
    BY <1>3 DEF FindImageBase, ModulesChange, Counts, ClientFile, Shield
  <1> QED
    BY <1>1, <1>2, <1>4

\* A request's steps keep it.
LEMMA RequestKeepsInv ==
  ASSUME Inv, NEW i \in Irps, Dispatch(i) \/ IrpStep(i)
  PROVE  Inv'
  <1> USE DeviceAssumption, InsideFinite
      DEF Inv, vars, entryVars, lockVars, irpVars, handleVars, DriverUnchanged, Move,
          TypeOK, Irps
  <1>a. UNCHANGED imageVars => ImageTypeOK' /\ Search'
    BY DEF imageVars, bufferVars, ImageTypeOK, Search
  <1>b. UNCHANGED <<imageVars, entryVars, upc, object, lockHeld>> => Routines' /\ Device'
    BY DEF Routines, Device, imageVars
  <1>1. CASE Dispatch(i)
    <2>1. ipc[i] = "idle" /\ ipc' = [ipc EXCEPT ![i] = ipc'[i]] /\ ipc'[i] \in IrpPcs
      BY <1>1 DEF Dispatch, IrpPcs
    <2>2. Inside' = Inside
      BY <1>1, <2>1, Crossing DEF Dispatch, Inside
    <2>3. Search' /\ Routines' /\ Device'
      BY <1>1, <1>a, <1>b DEF Dispatch
    <2>4. TypeOK'
      BY <1>1, <1>a, <2>1
      DEF Dispatch
    <2>5. Counts'
      BY <1>1, <2>1, <2>2
      DEF Dispatch, Counts, Device
    <2>6. ClientFile'
      BY <1>1, <2>1
      DEF Dispatch, ClientFile
    <2>7. Shield'
      BY <1>1 DEF Dispatch, Shield
    <2> QED
      BY <2>3, <2>4, <2>5, <2>6, <2>7
  <1>2. CASE AcquireRemoveLock(i)
    <2>1. ipc[i] = "acquire" /\ ipc' = [ipc EXCEPT ![i] = ipc'[i]] /\ ipc'[i] \in IrpPcs
      BY <1>2 DEF AcquireRemoveLock, IrpPcs
    <2>2. Cardinality(Inside') = Cardinality(Inside) + 1 /\ object = "valid"
         /\ upc = "loaded"
      BY <1>2, <2>1, Crossing DEF AcquireRemoveLock, Inside, ClientFile
    <2>3. Search' /\ Routines' /\ Device'
      BY <1>2, <1>a, <1>b DEF AcquireRemoveLock
    <2>4. TypeOK'
      BY <1>2, <1>a, <2>1
      DEF AcquireRemoveLock, RLock!Acquire
    <2>5. Counts'
      BY <1>2, <2>1, <2>2
      DEF AcquireRemoveLock, RLock!Acquire, Counts, Device
    <2>6. ClientFile'
      BY <1>2, <2>1
      DEF AcquireRemoveLock, ClientFile
    <2>7. Shield'
      BY <1>2 DEF AcquireRemoveLock, Shield
    <2> QED
      BY <2>3, <2>4, <2>5, <2>6, <2>7
  <1>3. CASE SwitchControlCode(i)
    <2>1. ipc[i] = "switch" /\ ipc' = [ipc EXCEPT ![i] = ipc'[i]] /\ ipc'[i] \in IrpPcs
      BY <1>3 DEF SwitchControlCode, IrpPcs
    <2>2. Inside' = Inside
      BY <1>3, <2>1, Crossing DEF SwitchControlCode, Inside
    <2>3. Search' /\ Routines' /\ Device'
      BY <1>3, <1>a, <1>b DEF SwitchControlCode
    <2>4. TypeOK'
      BY <1>3, <1>a, <2>1
      DEF SwitchControlCode
    <2>5. Counts'
      BY <1>3, <2>1, <2>2
      DEF SwitchControlCode, Counts, Device
    <2>6. ClientFile'
      BY <1>3, <2>1
      DEF SwitchControlCode, ClientFile
    <2>7. Shield'
      BY <1>3 DEF SwitchControlCode, Shield
    <2> QED
      BY <2>3, <2>4, <2>5, <2>6, <2>7
  <1>4. CASE ProtectProcess(i)
    <2>1. ipc[i] = "protect" /\ ipc' = [ipc EXCEPT ![i] = ipc'[i]] /\ ipc'[i] \in IrpPcs
      BY <1>4 DEF ProtectProcess, IrpPcs
    <2>2. Inside' = Inside
      BY <1>4, <2>1, Crossing DEF ProtectProcess, Inside
    <2>3. Search' /\ Routines' /\ Device'
      BY <1>4, <1>a, <1>b DEF ProtectProcess
    <2>4. TypeOK'
      BY <1>4, <1>a, <2>1
      DEF ProtectProcess
    <2>5. Counts'
      BY <1>4, <2>1, <2>2
      DEF ProtectProcess, Counts, Device
    <2>6. ClientFile'
      BY <1>4, <2>1
      DEF ProtectProcess, ClientFile
    <2>7. Shield'
      BY <1>4 DEF ProtectProcess, Shield
    <2> QED
      BY <2>3, <2>4, <2>5, <2>6, <2>7
  <1>5. CASE CompleteRequest(i)
    <2>1. ipc[i] = "complete" /\ ipc' = [ipc EXCEPT ![i] = ipc'[i]] /\ ipc'[i] \in IrpPcs
      BY <1>5 DEF CompleteRequest, IrpPcs
    <2>2. Inside' = Inside
      BY <1>5, <2>1, Crossing DEF CompleteRequest, Inside
    <2>3. Search' /\ Routines' /\ Device'
      BY <1>5, <1>a, <1>b DEF CompleteRequest
    <2>4. TypeOK'
      BY <1>5, <1>a, <2>1
      DEF CompleteRequest
    <2>5. Counts'
      BY <1>5, <2>1, <2>2
      DEF CompleteRequest, Counts, Device
    <2>6. ClientFile'
      BY <1>5, <2>1
      DEF CompleteRequest, ClientFile
    <2>7. Shield'
      BY <1>5 DEF CompleteRequest, Shield
    <2> QED
      BY <2>3, <2>4, <2>5, <2>6, <2>7
  <1>6. CASE ReleaseRemoveLock(i)
    <2>1. ipc[i] = "release" /\ ipc' = [ipc EXCEPT ![i] = ipc'[i]] /\ ipc'[i] \in IrpPcs
      BY <1>6 DEF ReleaseRemoveLock, IrpPcs
    <2>2. Cardinality(Inside') = Cardinality(Inside) - 1 /\ Inside # {}
      BY <1>6, <2>1, Crossing DEF ReleaseRemoveLock, Inside
    <2>3. Search' /\ Routines' /\ Device'
      BY <1>6, <1>a, <1>b DEF ReleaseRemoveLock
    <2>4. TypeOK'
      BY <1>6, <1>a, <2>1, <2>2
      DEF ReleaseRemoveLock, RLock!Release, Counts
    <2>5. Counts'
      BY <1>6, <2>1, <2>2
      DEF ReleaseRemoveLock, RLock!Release, Counts, Device
    <2>6. ClientFile'
      BY <1>6, <2>1
      DEF ReleaseRemoveLock, ClientFile
    <2>7. Shield'
      BY <1>6 DEF ReleaseRemoveLock, Shield
    <2> QED
      BY <2>3, <2>4, <2>5, <2>6, <2>7
  <1> QED
    BY <1>1, <1>2, <1>3, <1>4, <1>5, <1>6 DEF IrpStep

\* And a handle request's.
LEMMA HandleKeepsInv ==
  ASSUME Inv, NEW o \in Opens, EnterHandleFilter(o) \/ FilterAccess(o)
  PROVE  Inv'
  <1> USE DeviceAssumption DEF Inv, vars, entryVars, lockVars, irpVars, handleVars, DriverUnchanged, TypeOK
  <1>1. imageVars' = imageVars /\ UNCHANGED <<checked, routines, registered, upc, object, lockHeld,
                                             ioCount, removed, ipc, completed, protectedPid>>
    BY DEF EnterHandleFilter, FilterAccess
  <1>2. ImageTypeOK' /\ Search' /\ Routines' /\ Device'
    BY <1>1 DEF imageVars, bufferVars, ImageTypeOK, Search, Routines, Device
  <1>3. Inside' = Inside
    BY <1>1 DEF Inside
  <1>4. Counts' /\ ClientFile'
    BY <1>1, <1>3 DEF Counts, ClientFile
  <1>5. TypeOK'
    BY <1>1, <1>2 DEF EnterHandleFilter, FilterAccess, HandlePcs
  <1>6. Shield'
    <2>1. CASE EnterHandleFilter(o)
      BY <2>1, <1>1 DEF EnterHandleFilter, Shield
    <2>2. CASE FilterAccess(o)
      BY <2>2, <1>1 DEF FilterAccess, Shield
    <2> QED
      BY <2>1, <2>2
  <1> QED
    BY <1>2, <1>4, <1>5, <1>6

\* The first state satisfies the invariant.
LEMMA InitInv == Init => Inv
  <1> SUFFICES ASSUME Init
               PROVE  Inv
    OBVIOUS
  <1> USE DEF Init, ImageInit
  <1>1. ImageTypeOK /\ Search
    <2>1. PICK mod \in Modules : system = <<mod>>
      OBVIOUS
    <2>2. system \in Seq(Modules) /\ Len(system) = 1 /\ system[1] = mod
      BY <2>1
    <2>3. << >> \in Seq(Modules)
      OBVIOUS
    <2>4. ImageTypeOK
      BY <2>2, <2>3 DEF ImageTypeOK, SearchPcs
    <2>5. Search
      BY <2>2 DEF Search
    <2> QED
      BY <2>4, <2>5
  <1>2. TypeOK
    BY <1>1, SameRoutines DEF TypeOK, UnloadPcs, Objects, IrpPcs, HandlePcs
  <1>3. Routines /\ Device /\ Counts /\ ClientFile /\ Shield
    BY DeviceAssumption DEF Routines, Device, Counts, ClientFile, Shield, Inside, Irps
  <1> QED
    BY <1>1, <1>2, <1>3 DEF Inv

\* Every step keeps the invariant.
LEMMA StepInv == Inv /\ [Next]_vars => Inv'
  <1> SUFFICES ASSUME Inv, [Next]_vars
               PROVE  Inv'
    OBVIOUS
  <1>1. CASE UNCHANGED vars
    BY <1>1
    DEF vars, imageVars, bufferVars, Inv, TypeOK, ImageTypeOK, Search, Routines,
    Device, Counts,
        ClientFile, Shield, Inside
  <1>2. CASE DriverStep \/ BeginUnload \/ ModulesChange
    BY <1>2, DriverKeepsInv, ImageKeepsInv
  <1>3. CASE \E i \in Irps : Dispatch(i) \/ IrpStep(i)
    BY <1>3, RequestKeepsInv
  <1>4. CASE \E o \in Opens : EnterHandleFilter(o) \/ FilterAccess(o)
    BY <1>4, HandleKeepsInv
  <1> QED
    BY <1>1, <1>2, <1>3, <1>4 DEF Next, Terminated

\* Inv is an invariant of the driver.
THEOREM Invariance == Spec => []Inv
  BY InitInv, StepInv, PTL DEF Spec
-----------------------------------------------------------------------------
(***************************************************************************)
(* The variables keep their types; the remove lock never counts below 0.   *)
(***************************************************************************)
THEOREM TypeCorrect == Spec => []TypeOK
  <1>1. Inv => TypeOK
    BY DEF Inv
  <1> QED
    BY <1>1, Invariance, PTL

(***************************************************************************)
(* However many requests there are, a handler finds the device alive up to *)
(* its release of the remove lock.                                         *)
(***************************************************************************)
THEOREM DeviceOutlives == Spec => []DeviceOutlivesHandlers
  <1>1. Inv => DeviceOutlivesHandlers
    BY DEF Inv, DeviceOutlivesHandlers, Counts, ClientFile
  <1> QED
    BY <1>1, Invariance, PTL

(***************************************************************************)
(* No handler needs gDrvData.Lock while unloading has it: whoever is left  *)
(* when DriverUnload begins has completed its request.                     *)
(***************************************************************************)
THEOREM LockOrderAlwaysHarmless == Spec => []LockOrderHarmless
  <1>1. Inv => LockOrderHarmless
    BY DEF Inv, LockOrderHarmless, Device, ClientFile
  <1> QED
    BY <1>1, Invariance, PTL

(***************************************************************************)
(* No request in the filter loses its protection to unloading.             *)
(***************************************************************************)
THEOREM ProtectionAlwaysStands == Spec => []ProtectionStands
  <1>1. Inv => ProtectionStands
    BY DEF Inv, ProtectionStands, Shield
  <1> QED
    BY <1>1, Invariance, PTL

(***************************************************************************)
(* For any list of modules: the search misses no kernel, a checked build   *)
(* lacks nothing, and neither build leaves a routine registered.           *)
(***************************************************************************)
THEOREM NothingMissed == Spec => []NothingMissedNothingLeft
  <1>1. Inv => NothingMissedNothingLeft
    <2> SUFFICES ASSUME Inv
                 PROVE  NothingMissedNothingLeft
      OBVIOUS
    <2>1. Kernel \in ToSet(system) <=> system[1] = Kernel
      <3>1. DOMAIN system = 1 .. Len(system) /\ Len(system) \in Nat
        BY DEF Inv, TypeOK, ImageTypeOK
      <3> QED
        BY <3>1 DEF Inv, Search, ToSet
    <2> QED
      BY <2>1 DEF Inv, NothingMissedNothingLeft, Search, Routines
  <1> QED
    BY <1>1, Invariance, PTL

\* Every step of the driver is a step or a stutter of the guarded device.
LEMMA GuardStep == Inv /\ [Next]_vars => [Guard!GDNext]_(Guard!gdVars)
  <1> SUFFICES ASSUME Inv, [Next]_vars
               PROVE  [Guard!GDNext]_(Guard!gdVars)
    OBVIOUS
  <1> USE DEF vars, lockVars, irpVars
  <1>1. UNCHANGED <<object, removed, Inside>> => UNCHANGED Guard!gdVars
    BY DEF Guard!gdVars
  <1>2. ipc' = ipc => Inside' = Inside
    BY DEF Inside
  <1>3. CASE UNCHANGED vars
    BY <1>1, <1>2, <1>3
  <1>4. CASE DriverStep \/ BeginUnload \/ ModulesChange
    <2> USE DEF OthersUnchanged, Go
    <2>1. CASE CreateDeviceObject
      <3>1. object # "valid" /\ Inside' = Inside
        BY <1>2, <2>1 DEF CreateDeviceObject, Inv, Device
      <3>2. CASE object' = "valid"
        <4>1. removed' = FALSE
          BY <2>1, <3>2 DEF CreateDeviceObject, RLock!Initialize
        <4>2. Guard!Create
          BY <3>1, <3>2, <4>1 DEF Guard!Create
        <4> QED
          BY <4>2 DEF Guard!GDNext
      <3>3. CASE object' # "valid"
        BY <3>1, <3>3 DEF Guard!gdVars
      <3> QED
        BY <3>2, <3>3
    <2>2. CASE BeginRemoval
      <3>1. object = "valid" /\ object' = "valid" /\ ~removed /\ removed' /\ Inside' = Inside
        BY <1>2, <2>2 DEF BeginRemoval, RLock!BeginRemoval, Inv, Device, Counts
      <3>2. Guard!Close
        BY <3>1 DEF Guard!Close
      <3> QED
        BY <3>2 DEF Guard!GDNext
    <2>3. CASE CleanUp
      <3>1. object = "valid" /\ removed /\ Inside = {} /\ object' = "hollow" /\ Inside' = Inside
        BY <1>2, <2>3 DEF CleanUp, Inv, Device, Counts
      <3>2. Guard!Delete
        BY <3>1 DEF Guard!Delete
      <3> QED
        BY <3>2 DEF Guard!GDNext
    <2>4. CASE FreeObject
      <3>1. object # "valid" /\ object' # "valid" /\ Inside' = Inside
        BY <1>2, <2>4 DEF FreeObject, Inv, Device
      <3> QED
        BY <3>1 DEF Guard!gdVars
    <2>5. CASE \/ VerifyImageBase \/ RegisterRoutine \/ BeginUnload \/ RemoveRoutine
               \/ LockForUninit \/ ResetGlobalData \/ AcquireForRemoval \/ EndRemoval
               \/ FindImageBase \/ ModulesChange
      BY <1>1, <1>2, <2>5
      DEF VerifyImageBase, RegisterRoutine, BeginUnload, RemoveRoutine, LockForUninit,
          ResetGlobalData, AcquireForRemoval, RLock!Acquire, EndRemoval,
          FindImageBase,
          ModulesChange
    <2> QED
      BY <1>4, <2>1, <2>2, <2>3, <2>4, <2>5 DEF DriverStep
  <1>5. ASSUME NEW i \in Irps, Dispatch(i) \/ IrpStep(i)
        PROVE  [Guard!GDNext]_(Guard!gdVars)
    <2> USE DEF DriverUnchanged, Inv
    <2>1. CASE AcquireRemoveLock(i)
      <3>1. i \notin Inside /\ object = "valid" /\ upc = "loaded"
        BY <2>1 DEF AcquireRemoveLock, Move, Inside, ClientFile
      <3>2. ~removed
        BY <3>1 DEF Counts
      <3>3. Inside' = Inside \cup {i}
        BY <2>1, <3>1, Crossing DEF AcquireRemoveLock, Move, Inside, TypeOK
      <3>4. Guard!Enter(i)
        BY <2>1, <3>1, <3>2, <3>3 DEF AcquireRemoveLock, RLock!Acquire, Guard!Enter
      <3> QED
        BY <3>4 DEF Guard!GDNext
    <2>2. CASE ReleaseRemoveLock(i)
      <3>1. i \in Inside /\ Inside' = Inside \ {i}
        BY <2>2, Crossing DEF ReleaseRemoveLock, Move, Inside, TypeOK
      <3>2. Guard!Leave(i)
        BY <2>2, <3>1 DEF ReleaseRemoveLock, RLock!Release, Guard!Leave
      <3> QED
        BY <3>2 DEF Guard!GDNext
    <2>3. CASE \/ Dispatch(i) \/ SwitchControlCode(i) \/ ProtectProcess(i)
               \/ CompleteRequest(i)
      <3>1. Inside' = Inside
        <4>1. CASE Dispatch(i) \/ ProtectProcess(i) \/ CompleteRequest(i)
          BY <4>1, Crossing
          DEF Dispatch, ProtectProcess, CompleteRequest, Move, Inside, TypeOK
        <4>2. CASE SwitchControlCode(i)
          BY <4>2, Crossing DEF SwitchControlCode, Move, Inside, TypeOK
        <4> QED
          BY <2>3, <4>1, <4>2
      <3> QED
        BY <1>1, <2>3, <3>1
        DEF Dispatch, SwitchControlCode, ProtectProcess, CompleteRequest
    <2> QED
      BY <1>5, <2>1, <2>2, <2>3 DEF IrpStep
  <1>6. ASSUME NEW o \in Opens, EnterHandleFilter(o) \/ FilterAccess(o)
        PROVE  [Guard!GDNext]_(Guard!gdVars)
    BY <1>1, <1>2, <1>6 DEF EnterHandleFilter, FilterAccess, DriverUnchanged
  <1> QED
    BY <1>3, <1>4, <1>5, <1>6 DEF Next, Terminated

(***************************************************************************)
(* The handlers and ~DeviceObject make a guarded device of the remove      *)
(* lock, however many requests there are.                                  *)
(***************************************************************************)
THEOREM Guarded == Spec => ImplementsGuardedDevice
  <1>1. Init => Guard!GDInit
    BY DEF Init, Guard!GDInit, Inside
  <1> QED
    BY <1>1, GuardStep, Invariance, PTL
    DEF Spec, Guard!GDSpec, ImplementsGuardedDevice
=============================================================================
