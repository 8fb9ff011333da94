SPECIFICATION BackfillSpec
CONSTANTS
    Visitors = {v1}
    Source <- TwoDaySession
    DaysPerPeriod = 2
    RetentionDays = 1
    LastDay = 3
    MaxHits = 1
    MaxImports = 1
    MaxTraffic = 3
INVARIANT
    ImportedDigestsAreFolded
