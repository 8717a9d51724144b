SPECIFICATION FairSpec
CONSTANTS
    s1 = s1
    s2 = s2
    r1 = r1
    r2 = r2
    NoRepo = NoRepo
    None = None
    Sink <- MCSink
    Repo <- MCRepo
    NumFamilies = 3
    NumAccount = 1
    Batched <- MCBatched
    BatchOnly <- MCBatchOnly
    Scopes <- MCOneScope
    HasUser = FALSE
    Retry = TRUE
    RetryLimit = 2
    MaxMishaps = 0
    MaxAsks = 0
PROPERTY WalkEnds
CHECK_DEADLOCK FALSE
