SPECIFICATION Spec
CONSTANTS
    h1 = h1
    h2 = h2
    None = None
    Hosts = {h1, h2}
    Configs <- MCMoves
    Clients = {1, 2}
    Requests = {}
    StateIds = {1, 2, 3}
    Caches = {1}
    MaxChanges = 0
    Capacity = 2
INVARIANT PublishedClientsReload
CHECK_DEADLOCK FALSE
