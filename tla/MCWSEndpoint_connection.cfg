SPECIFICATION FairSpec
CONSTANTS
    Tasks = {t1, t2, t3}
    Endless = {t1}
INVARIANTS WSInv RegistrationsUndone ErrorsSurface
PROPERTIES ConnectionEnds
CHECK_DEADLOCK FALSE
