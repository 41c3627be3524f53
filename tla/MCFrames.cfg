CONSTANTS
    NoMessage = NoMessage
    Program <- MCProgram
    Limit <- MCLimit
    MaxSends = 2
SPECIFICATION FramesSpec
INVARIANTS
    ReadsWhatWasSent
    AllocationBounded
PROPERTY ImplementsStream
CHECK_DEADLOCK FALSE
