\* Two lines typed ahead, dumps of up to two processes.
CONSTANTS
    MaxTyped = 2
    MaxProcesses = 2
SPECIFICATION FairSpec
INVARIANTS
    TypeOK
    OnlyStringsLeak
    PoolsAccountedFor
PROPERTIES
    CommandsEnd
    ExitHeeded
\* The application ends, and may wait for a line that never comes.
CHECK_DEADLOCK FALSE
