SPECIFICATION FairSpec
CONSTANTS
    Instances = {a, b}
    T = 1
    Timeout <- MCTimeout
    Infinity = Infinity
    Unseen = Unseen
    Nobody = Nobody
    MayAbandon = {a, b}
    MayCrash = {}
    MaxTime = 2
INVARIANTS
    AgreedInv
    LeavesNothingBehind
    FinaliserCleansUp
PROPERTIES
    OnlyFinaliserRobs
    Progress
    ExitCompletes
