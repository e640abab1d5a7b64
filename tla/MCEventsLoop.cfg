SPECIFICATION FairSpec
CONSTANTS
    NPrio = 2
    Sock = {s1, s2}
    Delay = {0, 1}
    TimeMax = 1
    MaxReg = 3
    MaxSig = 1
INVARIANT LoopIsSound
PROPERTIES
    Order
    AllHandled
CHECK_DEADLOCK FALSE
