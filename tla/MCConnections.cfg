SPECIFICATION Spec
CONSTANTS
    t1 = t1
    t2 = t2
    t3 = t3
    o1 = o1
    o2 = o2
    o3 = o3
    Thread <- Two
    Origin <- MCOrigin
    Host <- MCHost
    Caller <- Three
    Address <- MCAddress
    Interval = 2
    Scaling = 1
    Blocks = {1, 3}
    MaxAge = 4
    Late = 1
    Calls <- MCCalls
    Until <- MCUntil
    Submitter <- MCOrigin
    Limit = 2
    Workers = 2
    PoolSizes = {1, 2}
    InitialSize = 2
    Idle = 1
    Clients = 4
    Uses = 5
    TTL = 2
    CacheSize = 1
    Dropped = 1
    SweepInterval = 1
    SweepEvery = 2
    Horizon = 3
    Rotations = 1
    Run <- Two
    Window = 2
    Threshold = 2
    Stored = 3
    ReadFaults = 1
    WriteFaults = 1
    Incidents = 5
    LastTime = 5
    Check <- Three
INVARIANTS
    TypeOK
    PaceKept
    SlotsKept
    ClientsKept
    AddressesKept
    VerdictsFounded
SYMMETRY Alike
CHECK_DEADLOCK FALSE
