\* Two device control requests, a handle request, two process ids; the kernel
\* and a module that comes and goes; one routine may fail to register.
CONSTANTS
    k1 = k1
    k2 = k2
    Controls = {k1, k2}
    CreateIrp = CreateIrp
    CloseIrp = CloseIrp
    h1 = h1
    Opens = {h1}
    Pids = {4, 8}
    MaxUnset = 1
    Kernel = Kernel
    m1 = m1
    Modules = {Kernel, m1}
    NoModule = NoModule
SPECIFICATION FairSpec
INVARIANTS
    TypeOK
    DeviceOutlivesHandlers
    LockOrderHarmless
    ProtectionStands
    NothingMissedNothingLeft
PROPERTIES
    ImplementsGuardedDevice
    LoadingAndUnloadingEnd
