SPECIFICATION SyncSpec
CONSTANTS
    Dir <- MCDir
    File <- MCFile
    Root = "root"
    Above <- MCAbove
    Home <- MCHome
    Name <- MCName
    DirOrder <- MCOrder
    Pages <- MCPages
    Excluded = {}
    MaxDepth = 2
    Workers = 1
    LinkMode = "off"
    MaxLinks = 1
    Caching = FALSE
    NoPage = NoPage
    Queued = Queued
    Unread = Unread
    Filtered = {}
    Clashing = {}
    Policy = "delete"
    DryRun = FALSE
    Method = "pool"
    MaxParallel = 2
INVARIANTS
    RemovedWasAbsent
