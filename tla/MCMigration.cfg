SPECIFICATION Spec
CONSTANTS
    service = service
    migrate = migrate
    oneshot = oneshot
    pg = pg
    sql = sql
    m1 = m1
    r1 = r1
    r2 = r2
    d1 = d1
    d2 = d2
    None = None
    Nobody = Nobody
    Service <- MCService
    Migrate <- MCMigrate
    OneShot <- MCOneShot
    Store <- MCBothStores
    Asked <- MCAsked
    Purgers <- MCAsked
    Secret <- MCAsked
    Migration <- MCMigrations
    Repo <- MCRepo
    Dest <- MCDest
    Oldest <- MCOldest
    Today = 3
    MaxClears = 2
    MaxStarts = 3
    MaxMishaps = 2
    MaxMoves = 1
SYMMETRY Symmetry
INVARIANTS
    TypeOK
    MissingIsOwed
PROPERTIES
    DebtOnlyPaid
    NamedUntilLetGo
CHECK_DEADLOCK FALSE
