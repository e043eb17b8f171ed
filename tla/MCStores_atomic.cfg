SPECIFICATION Spec
CONSTANTS
    Callers = {c1, c2}
    Keys = {k1, k2}
    Values = {v1, v2}
    CacheValues = {v1}
    Timeouts = {0}
    Infinity = Infinity
    Nothing = Nothing
    Present = Present
    Broken = Broken
    Nobody = Nobody
    MaxTime = 1
    ManagerTimeout = 1
    Backends = {"memory"}
PROPERTIES MemoryIsAtomic
