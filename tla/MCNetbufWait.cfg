SPECIFICATION ReaderSpec
CONSTANTS
    NETBUFLEN = 7
    Lens = {0, 2, 7, 8, 16}
    MaxTaken = 5
INVARIANT WaitDelivers
CHECK_DEADLOCK FALSE
