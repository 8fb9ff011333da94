SPECIFICATION ImportsSpec
CONSTANTS
    Jobs = {j1, j2}
    Sites = {s1}
    Foreign = umami
    SourceRows <- UmamiRows
    LiveIds = {l1}
    FlushEvery = 1
    MaxTime = 1
INVARIANT
    OverwrittenIsImported
CHECK_DEADLOCK FALSE
