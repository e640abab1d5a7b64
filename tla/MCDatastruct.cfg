SPECIFICATION MCSpec
CONSTANTS
    SIZE_MAX = 31
    RecLen = {1, 3, 4}
    Rec = {r1, r2, r3, r4, r5, r6}
    NULL = NULL
    MaxTime = 3
    MaxCreate = 4
    InitSize = 1
    Ratio = 2
    MaxRequests = 7
SYMMETRY Symmetry
INVARIANTS
    ArrayIsSound
    HeapIsSound
    PoolIsSound
PROPERTY ImplementsPrioQueue
CHECK_DEADLOCK FALSE
