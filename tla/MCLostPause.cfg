CONSTANTS
    MaxExec = 2
    MaxStops = 2
    MaxSurprises = 0
    MaxTimeouts = 0
    ThreadStops = FALSE
    Announces = {TRUE, FALSE}
    Lingers = FALSE
    DaemonStops = FALSE
SPECIFICATION FairSpec
CHECK_DEADLOCK FALSE
PROPERTIES PauseNeverLost
