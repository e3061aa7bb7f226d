SPECIFICATION MCLiveSpec
CONSTANTS
    p1 = p1  u1 = u1  b1 = b1  b2 = b2  w1 = w1
    Placements = {p1}
    Clients = {u1}
    Backends = {b1, b2}
    Commands <- Late
    Faults = {"rebuild", "proxy", "crash"}
    NoPlacement = NoPlacement
    Workers = {w1}
    Foreign = {}
    Garbage = {}
    Hash <- MCHash
    QueueCap = 1
    NoMessage = NoMessage
    MaxEpoch = 2
    Rebuilders = {"resync", "reconcile"}
    KnownBackends = {b1}
    Upstreams <- Announced
PROPERTIES
    RoutesConverge
CHECK_DEADLOCK FALSE
