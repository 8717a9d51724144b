SPECIFICATION Spec
SYMMETRY Symmetry
CONSTANTS
    s1 = s1
    s2 = s2
    i1 = i1
    i2 = i2
    a = a
    b = b
    None = None
    Sink <- MCSink
    Row <- MCRow
    Value <- MCValue
    Horizon = 0
    MaxEntries = 1
    LastDay = 1
    MaxTables = 1
    MaxMishaps = 1
    MaxLosses = 1
INVARIANTS
    TypeOK
    HeldBackIsThere
    RememberedIsHeld
PROPERTY
    OfferedIsKept
