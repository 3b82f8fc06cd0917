SPECIFICATION FairSpec
CONSTANTS
    Jobs = 3
    Signals = 1
INVARIANTS
    VerdictOnce
    MirrorsDontOverlap
    GracefulMeansClean
PROPERTIES
    InterruptEnds
CHECK_DEADLOCK FALSE
