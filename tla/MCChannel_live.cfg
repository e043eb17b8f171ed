SPECIFICATION FairSpec
CONSTANTS
    a = a
    b = b
    c = c
    g = g
    h = h
    Groups = {g, h}
    Subs = {a, c}
    GroupOf <- MCGroupOf
    Layers = {"memory", "redis", "postgres"}
    MayCancel = {a}
    BlockCancel = TRUE
    LayerFaults = {"error", "stall"}
    Nobody = Nobody
    MaxEvents = 2
    MaxOpens = 1
INVARIANTS
    InOrder
PROPERTIES
    Delivered
    FailureEnds
CHECK_DEADLOCK FALSE
