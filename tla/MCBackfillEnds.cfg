SPECIFICATION FairSpec
CONSTANTS
    s1 = s1
    s2 = s2
    r1 = r1
    r2 = r2
    NoRepo = NoRepo
    None = None
    Sink <- MCSink
    Repo <- MCRepo
    NumFamilies = 3
    NumAccount = 1
    Batched <- MCBatched
    BatchOnly <- MCBatchOnly
    Scopes <- MCFewScopes
    HasUser = TRUE
    Retry = TRUE
    RetryLimit = 2
    MaxMishaps = 1
    MaxAsks = 1
PROPERTY WalkEnds
CHECK_DEADLOCK FALSE
