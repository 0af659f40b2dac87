\* Threads of up to two frames.  Inside ntoskrnl are 2 and 3.
CONSTANTS
    Addresses <- MCAddresses
    NtBaseAddress = 1
    NtModuleSize = 3
    MaxFrames = 2
    MaxDepth = 2
    Good = Good
    New = New
SPECIFICATION TraceSpec
INVARIANT SameNumberOfNtCalls
\* Two captures and it ends.
CHECK_DEADLOCK FALSE
