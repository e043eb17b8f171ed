SPECIFICATION Spec
CONSTANTS
    Instances = {a, b, c}
    T = 1
    Timeout <- MCTimeout
    Infinity = Infinity
    Unseen = Unseen
    Nobody = Nobody
    MayAbandon = {}
    MayCrash = {a, b, c}
    MaxTime = 3
SYMMETRY Symmetry
INVARIANTS
    TypeOK
    MutualExclusion
    IInv
PROPERTIES
    ImplementsLease
