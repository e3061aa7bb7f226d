SPECIFICATION XraySpec
CONSTANTS
    k1 = k1  k2 = k2  u1 = u1  u2 = u2  ws = ws  reality = reality
    tws = tws  treality = treality  twg = twg
    Callers = {k1}
    Users = {u1}
    Transports = {ws, reality}
    Tags = {tws, treality, twg}
    TagFor <- MCTagFor
    MirrorTag = twg
    NoTag = NoTag
    RPCFails = FALSE
INVARIANTS
    AddUserIsIdempotent
