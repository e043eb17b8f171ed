SPECIFICATION Spec
CONSTANTS
    a = a
    b = b
    c = c
    g = g
    h = h
    Groups = {g}
    Subs = {a, b}
    GroupOf <- MCGroupOf
    Layers = {"memory", "redis", "postgres"}
    MayCancel = {a, b}
    BlockCancel = TRUE
    LayerFaults = {"disconnect", "error", "stall"}
    Nobody = Nobody
    MaxEvents = 3
    MaxOpens = 2
SYMMETRY Symmetry
INVARIANTS
    TypeOK
    ChannelInv
    LayerFollows
    LockIsLive
    InOrder
    NoGaps
    NothingMissed
CHECK_DEADLOCK FALSE
