SPECIFICATION FairSpec
CONSTANTS
    MaxChunks = 4
    BufferFull = 1
    Slots = 2
CHECK_DEADLOCK FALSE
INVARIANTS
    NothingLost
    NoTruncation
    UntouchedUnlessPolled
PROPERTY
    WriterReturns
