SPECIFICATION ConnectionSpec
CONSTANTS
    MaxReqs = 3
    MaxLog = 4
    KeepLog = 4
    MaxBatch = 2
    MaxInFlight = 2
    OthersRun = TRUE
    MayBreak = FALSE
INVARIANT EditorAgrees
CHECK_DEADLOCK FALSE
