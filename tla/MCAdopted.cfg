SPECIFICATION Spec
CONSTANTS
    Paths = {p1}
    FileKey = p1
    NoPath = NoPath
    Owners = {"me", "them"}
    MaxLine = 2
    MaxIds = 3
    MaxActs = 2
    MaxChanges = 2
INVARIANT ViewAgrees
CHECK_DEADLOCK FALSE
