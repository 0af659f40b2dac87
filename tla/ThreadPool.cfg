\* Two workers (the argument 0 is corrected to the hardware's 2), three calls
\* of EnqueueItem, all interleavings.
CONSTANTS
    c1 = c1
    c2 = c2
    c3 = c3
    Calls = {c1, c2, c3}
    RequestedThreads = 0
    HardwareConcurrency = 2
    NoOne = NoOne
SPECIFICATION FairSpec
INVARIANTS
    TypeOK
    ShutdownDrains
    EventMatchesQueue
    HandlesOpenWhileUsed
PROPERTIES
    ImplementsWorkQueue
    EveryAcceptedRuns
    ShutdownReturns
