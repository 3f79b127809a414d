CONSTANT Sessions = {s1, s2}
SPECIFICATION Spec
CHECK_DEADLOCK FALSE
INVARIANT LiveAgrees
