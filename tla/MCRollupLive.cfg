SPECIFICATION FairSpec
CONSTANTS
    Sites = {s1}
    Visitors = {v1}
    Processes = {c1}
    Slots = {q1}
    Kinds = {"pageview", "event", "bot", "beacon"}
    Replaced = {s1}
    TicksPerDay = 1
    TicksPerPeriod = 2
    LastTick = 2
    MaxHits = 1
    MaxLateness = 1
    SaltCacheSize = 2
    Runners = {r1}
    Selections <- AllSelected
    Retention = 1
    BatchSize = 1
INVARIANTS
    CompletedRunsAreThorough
PROPERTIES
    BacklogDrains
    DigestsExpire
    WhatIsShownStays
    SaltsAreDestroyed
