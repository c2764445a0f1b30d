SPECIFICATION PlatformSpec
CONSTANTS
    Jobs = {j1, j2}
    Procs = {p1, p2}
    MaxAttempts = 3
    Concurrency = 2
    Timeout = 1
    MaxLag = 1
    OrphanTimeout = 2
    BackoffBase = 1
    BackoffCap = 2
    MaxDelay = 1
    Retention = 0
    GcBatch = 1
    MaxFaults = 2
    Backends = {"pg", "redb", "redis"}
    Crashing = {"pg"}
    Keys = {k1}
    Values = {x, y}
    Numbers = {y}
    Periods = {1, 3}
    Skew <- Behind
    MaxNow = 3
    MaxRestarts = 1
    MaxCrashes = 1
    None = None
SYMMETRY Symmetry
INVARIANTS
    TypeOK SingleExecution RunsAccounted
PROPERTIES
    KeepsContract CacheContract
