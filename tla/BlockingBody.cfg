SPECIFICATION Spec
CONSTANTS
    MaxChunks = 4
    MaxAttempts = 3
INVARIANTS
    InSequence
    OkIsWhole
    FreshStart
PROPERTY
    SendReturns
CHECK_DEADLOCK FALSE
