SPECIFICATION Spec
CONSTANTS
    Jobs = {j1, j2}
    Procs = {p1, p2}
    MaxAttempts = 2
    Concurrency = 1
    Timeout = 1
    MaxLag = 1
    OrphanTimeout = 2
    BackoffBase = 1
    BackoffCap = 2
    MaxDelay = 1
    Retention = 0
    GcBatch = 1
    MaxFaults = 2
SYMMETRY Symmetry
INVARIANTS
    TotalRunsLimit
