CONSTANTS
    x1 = x1
    x2 = x2
    x3 = x3
    attest = attest
    address = address
    p1 = p1
    p2 = p2
    NoConn = NoConn
    NoRequest = NoRequest
    Conn <- Two
    Program <- Programs
    CycleLimit <- Limits
    Mixed <- MixedLimits
    MaxAllowedCycles = 2
    PoolSize = 1
    DebugMode = FALSE
    Asked = {}
    MaxRequests = 2
    Kind <- TwoKind
    Wanted <- TwoWanted
    Limit <- TwoLimit
SPECIFICATION FairServiceSpec
PROPERTIES
    EveryCallEnds
    EnclaveDrains
CHECK_DEADLOCK FALSE
