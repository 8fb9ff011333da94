SPECIFICATION Spec
CONSTANTS
    Sites = {s1, s2}
    Visitors = {v1}
    Processes = {c1, c2}
    Slots = {q1}
    Kinds = {"pageview"}
    Replaced = {}
    TicksPerDay = 1
    TicksPerPeriod = 2
    LastTick = 2
    MaxHits = 2
    MaxLateness = 1
    SaltCacheSize = 2
    Runners = {r1}
    Selections <- AllSelected
    Retention = 2
    BatchSize = 1
INVARIANTS
    NothingIsLost
    CountedOncePerMonth
    SaltOutlivesItsState
PROPERTIES
    LedgerIsKept
SYMMETRY Interchangeable
