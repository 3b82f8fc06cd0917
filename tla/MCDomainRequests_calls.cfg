SPECIFICATION FairSpec
CONSTANTS
    t1 = t1
    t2 = t2
    Thread = {t1, t2}
    FailureThreshold = 2
    HalfOpenLimit = 2
    MaxThreads = 1
    MaxRetries = 1
    MaxRedirects = 2
    Hops = 3
    Urls = {"inside", "outside"}
    Answers = {"ok", "redirect", "final", "retry"}
    Prompt = FALSE
INVARIANTS
    TypeOK
    LeasesBalance
    ProbesBounded
PROPERTIES
    EveryRequestEnds
