SPECIFICATION MCSpec
CONSTANTS
    Services = {s1, s2}
    MaxRuns = 3
    MaxFails = 2
    MaxUser = 1
    NoBuilds = {TRUE, FALSE}
    Runs = {r1, r2, r3}
    NoFile = NoFile
    MaxKills = 1
    MaxErrors = 1
INVARIANTS MountedKept LockExclusive
PROPERTIES OldAppStopped RestoreComplete
CHECK_DEADLOCK FALSE
