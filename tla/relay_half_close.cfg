SPECIFICATION MCSpec
CONSTANTS
    c1 = c1  c2 = c2  m1 = m1  m2 = m2
    p1 = p1  u1 = u1  b1 = b1  b2 = b2
    Placements = {p1}
    Clients = {u1}
    Backends = {b1, b2}
    Commands = {}
    Faults = {"publish", "crash", "proxy"}
    NoPlacement = NoPlacement
    MaxEpoch = 2
    Sessions = {c1, c2}
    MaxConns = 2
    MaxBytes = 2
    CloseWrite = FALSE
    StatUsers = {"u1", "probe"}
    Probes = {"probe"}
    UserSubject = TRUE
    StatsFaults = {"xray", "answer", "publish", "live", "crash"}
    MaxServed = 2
    Streams = {m1, m2}
    NoStream = NoStream
    NodeFaults = {"initial", "answer", "refused", "persist", "connect", "crash",
                  "request", "deadline", "snapshot"}
    MaxInstances = 3
    WgPeers = {"p1", "p2", "unparsed"}
    ValidPeers = {"p1", "p2"}
    Meshes <- MCMeshes
    MeshFaults = {"key", "apply", "resolve", "watch", "restart"}
    MaxKeys = 2
    Callers = {"k1", "k2"}
    Users = {"u1"}
    Transports = {"ws"}
    Tags = {"tws", "twg"}
    TagFor <- MCTagFor
    MirrorTag = "twg"
    NoTag = "none"
    RPCFails = TRUE
CHECK_DEADLOCK FALSE
INVARIANTS
    OtherLegKeepsFlowing
