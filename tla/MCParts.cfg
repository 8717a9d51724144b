SPECIFICATION SumSpec
CONSTANTS
    g1 = g1
    g2 = g2
    u1 = u1
    t1 = t1
    t2 = t2
    r1 = r1
    r2 = r2
    s1 = s1
    s2 = s2
    s3 = s3
    tiny = tiny
    huge = huge
    next = next
    run1 = run1
    run2 = run2
    pg = pg
    sql = sql
    row1 = row1
    row2 = row2
    repo1 = repo1
    repo2 = repo2
    Never = Never
    Absent = Absent
    None = None
    NoLink = NoLink
    Nothing = Nothing
    Partial = Partial
    Unseen = Unseen
    NoFile = NoFile
    Callers <- MCCallers
    Urls <- MCUrls
    Types <- MCTypes
    Releases <- MCReleases
    Shapes <- MCShapes
    ShapeOf <- MCShapeOf
    Contents <- MCContents
    Bytes <- MCBytes
    Links <- MCLinks
    LinkOf <- MCLinkOf
    Limit = 2
    FileMost = 1
    AnswerMost = 2
    Window = 15
    Reserve = 4
    MaxStarts = 2
    MaxDark = 4
    Runs <- MCRuns
    Stores <- MCStores
    MaxJobRuns = 1
    Rows <- MCRows
    MaxClears = 2
    LockTries = 3
    PageSize = 2
    Pages = 2
    MaxEvents = 4
    Repos <- MCRepos
    Cadence = 1
    HalfTick = 0
    UTCDay = 4
    MaxClock = 4
    MaxMoves = 1
    MaxFailures = 2
SYMMETRY Symmetry
INVARIANTS
    CacheInOrder
    ReserveKept
    BlindBounded
    RememberedIsHeld
    RowsKept
    AnswerIsTrue
    SteppedOverIsOffered
    DayReadCatchesUp
    PassesJoin
PROPERTIES
    AnswersHold
CHECK_DEADLOCK FALSE
