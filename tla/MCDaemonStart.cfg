SPECIFICATION Spec
CONSTANTS
    c1 = c1
    c2 = c2
    c3 = c3
    None = None
    Clients = {c1, c2}
    Info <- MCInfo
    NoAutostart = {}
    MaxDaemons = 3
    MaxStops = 1
    MaxWipes = 1
INVARIANTS FilesAreServers StartsMeet
PROPERTY ConnectReturns
CHECK_DEADLOCK FALSE
