SPECIFICATION MCSpec
CONSTANTS
    Clients = {h1, h2, a1, a2}
    Humans = {h1, h2}
    Nobody = nobody
    Starter = a1
    MaxRequests = 2
    Readers = {r1, r2}
    None = None
    MaxStops = 3
    MaxSets = 1
INVARIANTS RequestsAddressHolder ReadsFresh
PROPERTIES HolderKeepsControl RequestsKept
