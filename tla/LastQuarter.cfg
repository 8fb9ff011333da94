SPECIFICATION DatesSpec
CONSTANTS
    Years = 4
    LeapYears = {0}
    FirstWeekday = 2
    Zones = {}
    Nows = {18270}
    Explicit = {}
    Offsets = {0}
INVARIANT
    LastQuarterIsWhole
CHECK_DEADLOCK FALSE
