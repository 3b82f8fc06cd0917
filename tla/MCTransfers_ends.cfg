SPECIFICATION FairSpec
CONSTANTS
    u1 = u1
    u2 = u2
    v1 = v1
    v2 = v2
    v3 = v3
    w = w
    tagA = tagA
    tagB = tagB
    mine = mine
    f1 = f1
    f2 = f2
    Parts = {"whole", "chunked", "overwritten"}
    Url <- MCUrl
    Version = {v1, v3, w}
    VersionUrl <- MCVersionUrl
    Tag <- MCTag
    Size <- MCSize
    Announced <- MCAnnounced
    UserFile <- MCUserFile
    MaxRetries = 1
    NoFile = NoFile
    NoMeta = NoMeta
    NoTag = NoTag
    NoUrl = NoUrl
    NoVersion = NoVersion
    Torn = Torn
    Served = {v1}
    Edits = {}
    Chunks = 2
    Workers = 2
    PerHost = 1
    ChunkRetries = 1
    RetryLimit = 2
    RetryMode = TRUE
    Listed <- MCListed
    Ranged <- MCRanged
    Width <- MCWidth
    ListRetries <- MCListRetries
    Meddled <- MCMeddled
    Written <- MCWritten
    ListJobs <- MCListJobs
    OverwritingJobs = 1
PROPERTIES
    TransfersEnd
CHECK_DEADLOCK FALSE
