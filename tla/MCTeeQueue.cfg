CONSTANTS
    x1 = x1
    x2 = x2
    x3 = x3
    attest = attest
    address = address
    p1 = p1
    p2 = p2
    NoConn = NoConn
    NoRequest = NoRequest
    Conn <- Three
    Program <- Programs
    CycleLimit <- Limits
    Mixed <- MixedLimits
    MaxAllowedCycles = 2
    PoolSize = 2
    DebugMode = FALSE
    Asked = {}
    MaxRequests = 2
    Kind <- ThreeKind
    Wanted <- ThreeWanted
    Limit <- ThreeLimit
SPECIFICATION ServiceSpec
INVARIANTS
    OneWaitedExecution
    OwnAnswer
    SignedWasAsked
PROPERTY ImplementsQueue
CHECK_DEADLOCK FALSE
