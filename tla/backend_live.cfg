SPECIFICATION BackendLiveSpec
CONSTANTS
    p1 = p1  p2 = p2  u1 = u1  u2 = u2  b1 = b1  w1 = w1
    Placements = {p1, p2}
    Clients = {u1}
    Backends = {b1}
    Commands <- SharedClient
    Faults = {"store", "execute", "xray"}
    NoPlacement = NoPlacement
    Workers = {w1}
    Foreign = {}
    Garbage = {}
    Hash <- MCHash
    QueueCap = 1
    NoMessage = NoMessage
    Reconciling = TRUE
PROPERTIES
    
    EveryCommandSettled
CHECK_DEADLOCK FALSE
