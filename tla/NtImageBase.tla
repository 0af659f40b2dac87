----------------------------- MODULE NtImageBase -----------------------------
(***************************************************************************)
(* GdrvpInitializeNtImageBase: the search of the loaded kernel modules for *)
(* ntoskrnl.  The list is asked for twice, for its size and for its        *)
(* contents, and may have changed in between.  What the system writes to   *)
(* modulesSize the second time is the size of what it copied.              *)
(***************************************************************************)
EXTENDS Naturals, Sequences, SequencesExt

CONSTANTS
    Modules,         \* the modules that may be loaded
    Kernel,          \* the one whose path begins like gNtoskrnl
    NoModule         \* no address

ASSUME ImageAssumption == Kernel \in Modules /\ NoModule \notin Modules

VARIABLES
    spc,             \* where the search is
    system,          \* the modules loaded now, in order
    modulesSize,     \* the room in the buffer, in modules
    modules,         \* what was copied to it
    base,            \* gDrvData.NtBaseAddress and NtModuleSize
    callFailed       \* did a call of the search fail?

bufferVars == <<modulesSize, modules>>
imageVars == <<spc, system, modulesSize, modules, base, callFailed>>

SearchPcs == {"initialize", "size", "allocate", "query", "search", "returned"}

ImageInit ==
    /\ spc = "initialize"
    /\ system \in {<<mod>> : mod \in Modules}
    /\ modulesSize = 0
    /\ modules = << >>
    /\ base = NoModule
    /\ callFailed = FALSE

\* Another driver is loaded or unloaded.  The first module is the kernel's,
\* whether its path is the expected one or not, and stays.
ModuleChange ==
    /\ spc # "returned"
    /\ \/ \E mod \in Modules \ (ToSet(system) \cup {Kernel}) :
            system' = Append(system, mod)
       \/ \E i \in 2 .. Len(system) : system' = RemoveAt(system, i)
    /\ UNCHANGED <<spc, bufferVars, base, callFailed>>

\* AuxKlibInitialize, the first query or the allocation fails.
FailSearch ==
    /\ spc \in {"initialize", "size", "allocate"}
    /\ spc' = "returned"
    /\ callFailed' = TRUE
    /\ UNCHANGED <<system, bufferVars, base>>

InitializeAuxKlib ==
    /\ spc = "initialize"
    /\ spc' = "size"
    /\ UNCHANGED <<system, bufferVars, base, callFailed>>

QuerySize ==
    /\ spc = "size"
    /\ spc' = "allocate"
    /\ modulesSize' = Len(system)
    /\ UNCHANGED <<system, modules, base, callFailed>>

AllocateBuffer ==
    /\ spc = "allocate"
    /\ spc' = "query"
    /\ UNCHANGED <<system, bufferVars, base, callFailed>>

\* A slip a rewrite could make: the size is not asked for again.
RetryOldSize ==
    /\ spc = "query"
    /\ IF Len(system) > modulesSize
       THEN spc' = "allocate" /\ UNCHANGED bufferVars
       ELSE spc' = "search" /\ modules' = system /\ modulesSize' = Len(system)
    /\ UNCHANGED <<system, base, callFailed>>

\* The second query fails if the list has outgrown the buffer, which is
\* freed; the loop starts over.
QueryModules ==
    /\ spc = "query"
    /\ IF Len(system) > modulesSize
       THEN spc' = "size" /\ UNCHANGED bufferVars
       ELSE spc' = "search" /\ modules' = system /\ modulesSize' = Len(system)
    /\ UNCHANGED <<system, base, callFailed>>

\* The first match wins; the buffer is freed.
SearchModules ==
    /\ spc = "search"
    /\ spc' = "returned"
    /\ base' = IF \E i \in 1 .. modulesSize : modules[i] = Kernel THEN Kernel
                                                                  ELSE NoModule
    /\ modules' = << >>
    /\ modulesSize' = 0
    /\ UNCHANGED <<system, callFailed>>

SearchStep ==
    \/ FailSearch
    \/ InitializeAuxKlib
    \/ QuerySize
    \/ AllocateBuffer
    \/ QueryModules
    \/ SearchModules

ImageTypeOK ==
    /\ spc \in SearchPcs
    /\ system \in Seq(Modules)
    /\ modulesSize \in Nat
    /\ modules \in Seq(Modules)
    /\ base \in Modules \cup {NoModule}
    /\ callFailed \in BOOLEAN
=============================================================================
