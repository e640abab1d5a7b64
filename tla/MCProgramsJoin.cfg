SPECIFICATION Spec
INVARIANTS
    ThreadsJoinedOnce
CHECK_DEADLOCK FALSE
