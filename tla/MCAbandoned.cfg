SPECIFICATION LaunchSpec
CONSTANTS
    MaxBps = 2
    MaxTerminates = 1
INVARIANT NothingAbandoned
CHECK_DEADLOCK FALSE
