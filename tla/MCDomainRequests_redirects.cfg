SPECIFICATION BusySpec
CONSTANTS
    t1 = t1
    t2 = t2
    Thread = {t1}
    FailureThreshold = 2
    HalfOpenLimit = 2
    MaxThreads = 2
    MaxRetries = 0
    MaxRedirects = 2
    Hops = 1
    Urls = {"inside"}
    Answers = {"ok", "redirect", "retry"}
    Prompt = TRUE
PROPERTY
    Recovers
