SPECIFICATION MCSpec
CONSTANTS
    Conn = {c1, c2, c3}
    nconn_max = 2
    NULL = NULL
    MaxWord = 4
    PATHLEN = 4
    MaxStr = 3
INVARIANTS
    ServerIsSound
    CleanExit
    ClientExitsRight
    StartupIsRight
    OptionsAreRight
    AddressesAreRight
PROPERTIES
    ShutdownCompletes
    ProgramsEnd
CHECK_DEADLOCK FALSE
