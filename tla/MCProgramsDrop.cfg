SPECIFICATION Spec
INVARIANTS
    ConnectionDroppedOnce
CHECK_DEADLOCK FALSE
