CONSTANTS
    c1 = c1
    c2 = c2
    p1 = p1
    NoConn = NoConn
    NoRequest = NoRequest
    Conn <- Two
    Program <- Programs
    CycleLimit <- Limits
    Mixed <- MixedLimits
    MaxAllowedCycles = 2
    PoolSize = 2
    DebugMode = FALSE
    Asked <- Requests
    MaxRequests = 2
SPECIFICATION Spec
SYMMETRY Symmetry
INVARIANTS
    ThreadsAreAwaited
    OneExecution
    AnswersInOrder
CHECK_DEADLOCK FALSE
