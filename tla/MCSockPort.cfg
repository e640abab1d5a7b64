SPECIFICATION SockSpec
CONSTANTS
    NULL = NULL
    PATHLEN = 4
    MaxStr = 3
INVARIANT PortMayBeLeftOut
CHECK_DEADLOCK FALSE
