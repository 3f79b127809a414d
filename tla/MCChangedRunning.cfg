SPECIFICATION InspectSpec
CONSTANTS
    Readers = {r1}
    None = None
    MaxStops = 3
    MaxSets = 1
INVARIANT NeedsStopped
