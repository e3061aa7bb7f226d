SPECIFICATION BackendSpec
CONSTANTS
    p1 = p1  p2 = p2  u1 = u1  u2 = u2  b1 = b1  w1 = w1
    Placements = {p1}
    Clients = {u1, u2}
    Backends = {b1}
    Commands <- LifeCycle
    Faults = {"publish", "ack", "crash"}
    NoPlacement = NoPlacement
    Workers = {w1}
    Foreign = {}
    Garbage = {}
    Hash <- MCHash
    QueueCap = 1
    NoMessage = NoMessage
    Reconciling = FALSE
INVARIANTS
    BackendTypeOK
    AppliedUsersPresent
PROPERTIES
    KeepsExecutorContract
    RemovedBeforeStored
