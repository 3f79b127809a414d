CONSTANTS
    Clients = {h1, a1}
    Humans = {h1}
    Nobody = nobody
    Starter = h1
    MaxRequests = 1
    Editors = {h1}
    MaxConns = 2
    Declared = {"all"}
    MaxFails = 1
    MaxAsks = 2
    Overlap = FALSE
SPECIFICATION Spec
INVARIANTS ModeInForce
PROPERTIES CleanupExact LeavingEnds
CHECK_DEADLOCK FALSE
