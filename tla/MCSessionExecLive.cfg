CONSTANTS
    MaxExec = 2
    MaxStops = 2
    MaxSurprises = 0
    MaxTimeouts = 0
    ThreadStops = FALSE
    Announces = {TRUE, FALSE}
    Lingers = TRUE
    DaemonStops = TRUE
SPECIFICATION FairSpec
PROPERTIES PauseShows ExecReturns EndsForGood
CHECK_DEADLOCK FALSE
