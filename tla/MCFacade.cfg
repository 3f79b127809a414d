SPECIFICATION Spec
CONSTANTS
    MaxReqs = 2
    MaxLog = 4
    KeepLog = 2
    MaxBatch = 2
    MaxInFlight = 2
    OthersRun = FALSE
    MayBreak = TRUE
    MaxBps = 2
    MaxTerminates = 1
INVARIANTS EventsInOrder LaunchObeys
PROPERTIES ConnectionsEnd
CHECK_DEADLOCK FALSE
