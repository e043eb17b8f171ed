SPECIFICATION Spec
CONSTANTS
    a = a
    b = b
    c = c
    g = g
    h = h
    Groups = {g, h}
    Subs = {a, b}
    GroupOf <- MCGroupOf
    Layers = {"memory"}
    MayCancel = {}
    BlockCancel = FALSE
    LayerFaults = {}
    Nobody = Nobody
    MaxEvents = 2
    MaxOpens = 1
INVARIANTS
    LeavingIsHarmless
CHECK_DEADLOCK FALSE
