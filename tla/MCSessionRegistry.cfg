CONSTANTS
    Sessions = {s1, s2}
    Ids = {i1, i2}
    Pids = {p1}
    Calls = {c1}
    None = none
    Reuse = FALSE
    MaxRestarts = 1
    Targets = {p1, "launch"}
SPECIFICATION Spec
SYMMETRY Symmetry
CHECK_DEADLOCK FALSE
INVARIANTS OneDebugger NoRevivedMetadata SessionsAccounted
