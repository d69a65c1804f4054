SPECIFICATION ScheduledSpec
CONSTANTS
    Tasks = {1, 2, 3, 4, 5, 6, 7, 8, 9, 10, 11, 12, 13, 14, 15, 16, 17, 18, 19, 20}
    InitialPermits = 20
    MaxPermits = 100
    Behavior = "host"
    MinLimit = 1
    MaxLimit = 25
    BackoffNum = 9
    BackoffDen = 10
    Scale = 25
CHECK_DEADLOCK FALSE
INVARIANT NoPermitUnderflow
