SPECIFICATION FairSpec
CONSTANTS
    r1 = r1
    r2 = r2
    r3 = r3
    e1 = e1
    e2 = e2
    Requests = {r1, r2, r3}
    Endpoints = {e1, e2}
    EndpointOf <- MCEndpointOf
    MaxNodes = 2
    Configs <- MCConfigs
    InitialLimit = 1
    MaxHostLimit = 2
    MaxEndpointLimit = 2
    INFLIGHT_COMPARISON_THRESHOLD = 0
    UNHEALTHY_SCORE_MULTIPLIER = 2
    FAILURE_WEIGHT = 300
    MaxFailures = 300
INVARIANTS
    PermitsAreOwned
    NoLockOut
    NoLostWakeup
    InFlightIsExact
PROPERTY
    FindsANode
CHECK_DEADLOCK FALSE
