SPECIFICATION FairSpec
CONSTANTS
    Tasks = {t1, t2, t3, t4}
    Wakers = {w1, w2}
    None = None
    InitialPermits = 1
    MaxPermits = 3
INVARIANTS
    TypeOK
    ListInv
    PermitAccounting
    NoLostWakeup
    Registered
PROPERTIES
    GrantsInOrder
    WaitersAreServed
    ImplementsFairSemaphore
