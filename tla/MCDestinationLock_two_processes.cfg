SPECIFICATION Spec
CONSTANTS
    p1 = p1
    p2 = p2
    t1 = t1
    t2 = t2
    t3 = t3
    run1 = run1
    m1 = m1
    run2 = run2
    top = top
    left = left
    right = right
    NoGuard = NoGuard
    NoThread = NoThread
    NoPath = NoPath
    Process = {p1, p2}
    Thread = {t1, t2, t3}
    Guard = {run1, m1, run2}
    Path <- MCPath
    ThreadProc <- MCThreadProc
    GuardProc <- MCGuardProc
    Parent <- MCParent
    Above <- MCAbove
    Rank <- MCRank
    Requests <- OverlapRequests
    MaxNest = 1
INVARIANTS
    TypeOK
    ExclusiveTrees
    WriterOwnsTree
    CleanupOnceAndOwned
    WriterKeepsState
PROPERTIES
    ImplementsTreeOwnership
