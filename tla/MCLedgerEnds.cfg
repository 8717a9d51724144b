SPECIFICATION FairSpec
CONSTANTS
    s1 = s1
    s2 = s2
    i1 = i1
    i2 = i2
    a = a
    b = b
    None = None
    Sink <- MCOneSink
    Row <- MCRow
    Value <- MCValue
    Horizon = 1
    MaxEntries = 1
    LastDay = 2
    MaxTables = 1
    MaxMishaps = 1
    MaxLosses = 1
PROPERTY Converges
