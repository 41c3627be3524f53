CONSTANTS
    h1 = h1
    k1 = k1
    k2 = k2
    NoKey = NoKey
    Host <- MCHost
    Key <- MCKey
    Interval = 4
    Retry = 1
    MaxSave = 1
    Expiry = 7
    MissedBound = 5
SPECIFICATION AttFairSpec
INVARIANTS
    AttTypeOK
    FreshUnlessFailing
PROPERTIES
    ImplementsStore
    EveryEnclaveAttested
CHECK_DEADLOCK FALSE
