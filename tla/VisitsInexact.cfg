SPECIFICATION Spec
CONSTANTS
    SessionTimeout = 1
    TicksPerSecond = 2
    Thresholds = {0, 2}
    EngagedSeconds = {1, 2}
    LastTick = 8
    MaxHits = 4
    MaxInFlight = 2
    MaxLatency = 2
INVARIANT
    VisitsAreExact
CHECK_DEADLOCK FALSE
