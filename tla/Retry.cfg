SPECIFICATION FairRetrySpec
CONSTANTS
    MaxNumRetries = 32
    ShiftBits = 32
CHECK_DEADLOCK FALSE
INVARIANTS
    BodyIsFresh
    AttemptsBounded
PROPERTIES
    ResentOnlyIfSafe
    BackoffGrows
    CallEnds
