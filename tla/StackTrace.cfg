\* Threads of up to four frames, of which three are captured.  Inside
\* ntoskrnl are 2 and 3; 1 is its base address and 4 its end.
CONSTANTS
    Addresses <- MCAddresses
    NtBaseAddress = 1
    NtModuleSize = 3
    MaxFrames = 3
    MaxDepth = 4
    Good = Good
    New = New
SPECIFICATION TraceSpec
INVARIANTS
    RangeIsFirstNtRun
    SameMeansSameRun
\* Two captures and it ends.
CHECK_DEADLOCK FALSE
