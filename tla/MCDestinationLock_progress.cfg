SPECIFICATION FairSpec
CONSTANTS
    p1 = p1
    p2 = p2
    t1 = t1
    t2 = t2
    t3 = t3
    run1 = run1
    m1 = m1
    run2 = run2
    top = top
    left = left
    right = right
    NoGuard = NoGuard
    NoThread = NoThread
    NoPath = NoPath
    Process = {p1}
    Thread = {t1, t2}
    Guard = {run1, m1}
    Path <- MCPath
    ThreadProc <- MCThreadProc
    GuardProc <- MCGuardProc
    Parent <- MCParent
    Above <- MCAbove
    Rank <- MCRank
    Requests <- OneRequest
    MaxNest = 2
PROPERTIES
    CallsReturn
    ClosedGuardReleases
