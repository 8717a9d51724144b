SPECIFICATION SumSpec
CONSTANTS
    quick = quick
    slow1 = slow1
    slow2 = slow2
    slow3 = slow3
    Family <- MCFamily
    Every <- MCEvery
    Totals <- MCTotals
    Flaky <- MCFlaky
    SlowCadence = 12
    Heartbeat = 0
    Minute = 1
    Hour = 8
    Prime = TRUE
    Begin = 16
    MaxLate = 1
    MaxTime = 44
    MaxStarts = 2
    MaxOthers = 1
    MaxMishaps = 1
    p1 = p1
    p2 = p2
    p3 = p3
    f1 = f1
    f2 = f2
    NoOne = NoOne
    NoInode = NoInode
    Procs <- MCProcs
    Files <- MCFiles
    MaxRuns = 4
SYMMETRY Symmetry
INVARIANTS
    TypeOK
    WaitBounded
    Exclusive
PROPERTIES
    OnItsTick
    StayApart
    RefusedByAService
CHECK_DEADLOCK FALSE
