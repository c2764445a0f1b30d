SPECIFICATION MessagingSpec
CONSTANTS
    Events = {e1, e2}
    Handlers = {h1, h2}
    Procs = {p1, p2}
    Subs <- SameRelease
    MaxAttempts = 2
    BackoffCap = 2
    MaxDelay = 1
    Retention = 1
    BatchSize = 2
    MaxFaults = 1
    Consumers = {n1}
    Invalid = {}
    MaxDeliver = 2
    Prefetch = 2
    Outcomes = {"ok", "err", "panic"}
    NatsFaults = 2
    Changes = {c1, c2}
    InTx = {c1}
    TxAttempts = 2
    TxFaults = 1
SYMMETRY Symmetry
CHECK_DEADLOCK FALSE
INVARIANTS
    Aggregated OneDispatcher DeliveredMeansHandled CallsBounded NatsDelivery OutboxEffects
PROPERTIES
    SettledStays
