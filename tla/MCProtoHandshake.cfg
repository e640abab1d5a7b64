SPECIFICATION MCSpec
CONSTANTS
    Secret = {k1, k2}
    MaxFaults = 2
    RESEED_INTERVAL = 3
    GENERATE_MAXLEN = 2
    MaxBlocks = 5
    MaxChanges = 16
    SeedLen = 2
    BLOCK = 5
    LENGTH = 2
    DIGEST = 2
    MaxLen = 12
    MaxKey = 6
    MaxIter = 3
    MaxOut = 5
    Base = 5
    CRYPTO_DH_PRIVLEN = 1
    crypto_dh_group14 <- Group
    Keys = {a1, a2}
INVARIANTS
    
    CallbacksSound
    
    DigestIsRight
    KeyExchangeIsRight
    OneImplementation
PROPERTY
    HandshakeEnds
CHECK_DEADLOCK FALSE
