SPECIFICATION MCSpec
CONSTANTS
    NETBUFLEN = 7
    MAXDSZ = 2
    ESZ = 3
    OUTBUFSIZE = 6
    SockLen = 5
    MaxBytes = 5
    MaxFaults = 1
    Keys = {k1, k2}
    Nonces = {0, 1}
    NULL = NULL
    Blk = 2
    Byte = 2
    MaxStream = 11
    Lens = {0, 2, 7, 8, 16}
    MaxTaken = 5
INVARIANTS
    BuffersSound
    OutputIsRight
    StreamIsRight
    ReaderIsRight
PROPERTIES
    ImplementsByteStream
    AllDelivered
CHECK_DEADLOCK FALSE
