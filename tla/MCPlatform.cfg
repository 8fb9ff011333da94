SPECIFICATION Spec
CONSTANTS
    Jobs = {j1, j2}
    Sites = {s1}
    Foreign = umami
    SourceRows <- UmamiRows
    LiveIds = {l1}
    FlushEvery = 2
    MaxTime = 2
    Visitors = {v1}
    Source <- TwoDaySession
    DaysPerPeriod = 2
    RetentionDays = 1
    LastDay = 3
    MaxHits = 2
    MaxImports = 2
    MaxTraffic = 3
    GateSites = {g1}
    Workers = {w1}
    Threads = {t1, t2}
    Addresses = {a1, a2}
    Proxy = p0
    Setups <- Deployments
    Sent <- Claims
    MaxBody = 1
    Ttl = 1
    Window = 2
    Limit = 1
    LastInstant = 4
    MaxEvents = 3
    Pages = {p1, p2}
    MaxTicks = 2
    MaxMoves = 3
INVARIANTS
    SuccessMeansComplete
    CountedByOneSide
    InputsSurvive
    SiteCacheIsFresh
    FloodIsBounded
    EveryPageCountedOnce
    TimeIsOfItsPage
SYMMETRY Interchangeable
CHECK_DEADLOCK FALSE
