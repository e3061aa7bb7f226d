SPECIFICATION StableEntrySpec
CONSTANTS
    p1 = p1  u1 = u1  b1 = b1  b2 = b2  w1 = w1
    Placements = {p1}
    Clients = {u1}
    Backends = {b1, b2}
    Commands <- FlipAndEnd
    Faults = {"store", "execute"}
    NoPlacement = NoPlacement
    Workers = {w1}
    Foreign = {}
    Garbage = {}
    Hash <- MCHash
    QueueCap = 1
    NoMessage = NoMessage
    MaxEpoch = 1
    Rebuilders = {}
    KnownBackends = {b1}
    Upstreams <- Announced
INVARIANTS
    EntryTypeOK
    UnfailedUsersRouted
    UnfailedUsersGone
PROPERTIES
    KeepsExecutorContract
