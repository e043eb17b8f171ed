SPECIFICATION Spec
CONSTANTS
    Requests = {r1, r2}
    Sessions = {s1, s2}
    NoSession = NoSession
    NoRequest = NoRequest
    Forms = {"account", "session"}
    MaxTokens = 3
SYMMETRY Symmetry
INVARIANTS
    TypeOK
    AuthInv
    RotatedTokenIsDead
    ClosedToLateRefresh
    DisabledGetsNothing
    OpenSessionHasOwner
    NothingUncommittedLeaks
    LocksAreLive
CHECK_DEADLOCK FALSE
