CONSTANTS
    c1 = c1
    c2 = c2
    p1 = p1
    NoConn = NoConn
    NoRequest = NoRequest
    Conn <- Two
    Program <- Programs
    CycleLimit <- Limits
    Mixed <- MixedLimits
    MaxAllowedCycles = 2
    PoolSize = 2
    DebugMode = TRUE
    Asked <- Printing
    MaxRequests = 2
SPECIFICATION Spec
SYMMETRY Symmetry
INVARIANT PrintAcknowledged
CHECK_DEADLOCK FALSE
