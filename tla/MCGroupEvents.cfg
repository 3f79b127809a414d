CONSTANTS
    Members = {1, 2}
    EventKinds = {"output", "stopped"}
    Size <- MCSize
    MaxCount = 2
    MaxBytes = 3
    Filters = {{"stopped"}, {"output", "stopped"}}
    Limits = {1, 2}
    MaxEvents = 3
    Ticks = {1}
    MaxCalls = 2
    Group = {1, 2}
    NoMember = 0
    WaitKinds = {"group", "session"}
    MaxChanges = 3
SPECIFICATION MCSpec
CHECK_DEADLOCK FALSE
INVARIANTS CursorHonest WaitHonest
PROPERTY RequestsWake
