SPECIFICATION Spec
CONSTANTS
    h1 = h1
    h2 = h2
    None = None
    Hosts = {h1, h2}
    Configs <- MCConfigs
    Clients = {1, 2}
    Requests = {q}
    StateIds = {1, 2, 3}
    Caches = {1, 2}
    MaxChanges = 1
    Capacity = 2
INVARIANTS
    StatesAreShared
    NoGarbage
    StatesMatchFactory
    ClientsReload
    HandlesReload
CHECK_DEADLOCK FALSE
