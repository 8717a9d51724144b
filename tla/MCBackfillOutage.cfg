SPECIFICATION Spec
CONSTANTS
    s1 = s1
    s2 = s2
    r1 = r1
    r2 = r2
    NoRepo = NoRepo
    None = None
    Sink <- MCSink
    Repo <- MCRepo
    NumFamilies = 3
    NumAccount = 1
    Batched <- MCBatched
    BatchOnly <- MCBatchOnly
    Scopes <- MCOneScope
    HasUser = TRUE
    Retry = TRUE
    RetryLimit = 2
    MaxMishaps = 2
    MaxAsks = 0
PROPERTY OutageNotMarked
CHECK_DEADLOCK FALSE
