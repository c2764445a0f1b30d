SPECIFICATION Spec
CONSTANTS
    p1 = p1  p2 = p2
    Events = {e1}
    Handlers = {h1, h2}
    Procs = {p1, p2}
    Subs <- OldAndNew
    MaxAttempts = 2
    BackoffCap = 1
    MaxDelay = 0
    Retention = 1
    BatchSize = 1
    MaxFaults = 0
INVARIANT OpenIsFetched
