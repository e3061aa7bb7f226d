SPECIFICATION SnapLiveSpec
CONSTANTS
    p1 = p1  p2 = p2  p3 = p3  u1 = u1  b1 = b1  s1 = s1  s2 = s2
    Placements = {p1, p2, p3}
    Clients = {u1}
    Backends = {b1}
    Commands <- MCCommands
    Faults = {"store", "rebuild", "publish", "ack", "crash"}
    NoPlacement = NoPlacement
    SnapshotIDs = {s1, s2}
    Streams <- AllStreams
    NoSnapshot = NoSnapshot
INVARIANTS
    SnapTypeOK
PROPERTIES
    UndividedPrunesOnlyUnlisted
    EmptySnapshotKeepsAll
    ItemsNeverOverwriteNewer
    SyncReportIsTrue
    EverySnapshotCompletes
