SPECIFICATION MCSpec
CONSTANTS
    u1 = u1  u2 = u2
    Placements = {1, 2}
    Clients = {u1, u2}
    Backends = {1, 2}
    Commands <- MCCommands
    Faults = {"store", "execute", "crash", "proxy", "timeout"}
    NoPlacement = NoPlacement
    EmptyFile = EmptyFile
    Scenarios <- MCScenarios
    MaxAbandoned = 1
    BaseFiles <- Bases
    Upstreams <- Both
    MaxBatch = 2
    MaxSubmit = 2
    NoCaller = NoCaller
INVARIANTS
    SbTypeOK
PROPERTIES
    SingboxConverges
    VersionsKeptWhileAwaited
    AnsweredMeansStored
    AppliedMeansCarried
CHECK_DEADLOCK FALSE
