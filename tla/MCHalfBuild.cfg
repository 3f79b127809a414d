SPECIFICATION Spec
CONSTANTS
    Services = {s1, s2}
    MaxRuns = 3
    MaxFails = 1
    MaxUser = 0
    NoBuilds = {TRUE, FALSE}
PROPERTY NeverRunsHalf
CHECK_DEADLOCK FALSE
