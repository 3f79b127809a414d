CONSTANTS
    MaxExec = 2
    MaxStops = 2
    MaxSurprises = 1
    MaxTimeouts = 1
    ThreadStops = FALSE
    Announces = {TRUE, FALSE}
    Lingers = FALSE
    DaemonStops = FALSE
SPECIFICATION Spec
INVARIANTS ShowsProgram
CHECK_DEADLOCK FALSE
