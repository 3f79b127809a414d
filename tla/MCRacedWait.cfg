CONSTANTS
    Group = {1}
    NoMember = 0
    WaitKinds = {"session"}
    MaxChanges = 2
SPECIFICATION WaitSpec
CHECK_DEADLOCK FALSE
INVARIANT WaitExact
