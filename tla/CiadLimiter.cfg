SPECIFICATION FairSpec
CONSTANTS
    Tasks = {t1, t2, t3}
    InitialPermits = 2
    MaxPermits = 12
    Behavior = "host"
    MinLimit = 1
    MaxLimit = 3
    BackoffNum = 2
    BackoffDen = 3
    Scale = 3
INVARIANTS
    TotalFollowsLimit
    InFlightIsExact
PROPERTY WaitersProceed
