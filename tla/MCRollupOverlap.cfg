SPECIFICATION Spec
CONSTANTS
    Sites = {s1}
    Visitors = {v1}
    Processes = {c1}
    Slots = {q1}
    Kinds = {"pageview"}
    Replaced = {}
    TicksPerDay = 1
    TicksPerPeriod = 1
    LastTick = 2
    MaxHits = 1
    MaxLateness = 0
    SaltCacheSize = 2
    Runners = {r1, r2}
    Selections <- Filtered
    Retention = 1
    BatchSize = 1
INVARIANTS
    NeverCountedTwice
SYMMETRY Interchangeable
