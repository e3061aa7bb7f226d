SPECIFICATION Spec
CONSTANTS
    p1 = p1  u1 = u1  b1 = b1  b2 = b2  w1 = w1  w2 = w2  f1 = f1  g1 = g1
    Placements = {p1}
    Clients = {u1}
    Backends = {b1, b2}
    Commands <- MCCommands
    Faults = {"store", "execute", "publish", "ack", "crash"}
    NoPlacement = NoPlacement
    Workers = {w1, w2}
    Foreign = {f1}
    Garbage = {g1}
    Hash <- MCHash
    QueueCap = 1
    NoMessage = NoMessage
INVARIANTS
    TypeOK
    ReportsAreDurable
    NoSilentLoss
    OneHandlerPerPlacement
PROPERTIES
    ImplementsRegister
    OpVersionNeverRegresses
