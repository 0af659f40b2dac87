\* One client with three device control requests at a time.
CONSTANTS
    k1 = k1
    k2 = k2
    k3 = k3
    Controls = {k1, k2, k3}
    CreateIrp = CreateIrp
    CloseIrp = CloseIrp
    OpenSecond = OpenSecond
    CloseSecond = CloseSecond
SPECIFICATION FairSpec
INVARIANTS
    TypeOK
    DevicesOutliveRequests
    StoppedLeavesNothing
PROPERTIES
    ImplementsGuardedDevices
    UnloadsEnd
