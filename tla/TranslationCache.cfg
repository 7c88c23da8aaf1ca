SPECIFICATION Spec
CONSTANTS
    Threads = {t1, t2}
    Keys = {1, 2, 3}
    Batches = {{2}, {1, 3}}
    Reasoning = {2}
    TTL = 1
    CleanupDays = 1
    MaxEntries = 2
    FlushThreshold = 2
    MaxClock = 2
    MaxOps = 4
    MaxFailures = 1
INVARIANTS
    HitsConserved
    BoundedExcess
PROPERTIES
    OnlyOldOrExcess
