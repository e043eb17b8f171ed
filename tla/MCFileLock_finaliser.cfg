SPECIFICATION Spec
CONSTANTS
    Instances = {a, b, c}
    T = Infinity
    Timeout <- MCTimeout
    Infinity = Infinity
    Unseen = Unseen
    Nobody = Nobody
    MayAbandon = {c}
    MayCrash = {}
    MaxTime = 1
INVARIANTS
    MutualExclusion
