SPECIFICATION SyncSpec
CONSTANTS
    p1 = p1  u1 = u1  b1 = b1  w1 = w1  s1 = s1
    Placements = {p1}
    Clients = {u1}
    Backends = {b1}
    Commands <- MCCommands
    Faults = {}
    NoPlacement = NoPlacement
    Workers = {w1}
    Foreign = {}
    Garbage = {}
    Hash <- MCHash
    QueueCap = 1
    NoMessage = NoMessage
    SnapshotIDs = {s1}
    Streams <- MCStreams
    NoSnapshot = NoSnapshot
PROPERTIES
    RowsNeverGoBack
CHECK_DEADLOCK FALSE
