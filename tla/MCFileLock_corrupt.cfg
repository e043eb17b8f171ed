SPECIFICATION Spec
CONSTANTS
    Instances = {a, b}
    T = 1
    Timeout <- MCTimeout
    Infinity = Infinity
    Unseen = Unseen
    Nobody = Nobody
    MayAbandon = {}
    MayCrash = {a}
    MaxTime = 2
PROPERTIES
    WaitEndsInAcquiring
