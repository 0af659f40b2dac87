\* One line typed ahead, dumps of one process: standard input may fail.
CONSTANTS
    MaxTyped = 1
    MaxProcesses = 1
SPECIFICATION FairSpec
PROPERTIES
    ExitEndsApplication
CHECK_DEADLOCK FALSE
