CONSTANTS
    Parts = {"worker", "scopes"}
    Stoppers = {s1, s2}
    Options <- MCOptions
    Remote = 2
    SnapshotPages = 2
    Outbox = 1
    InitialBackoff = 1
    MaxBackoff = 5
    MaxMillis = 3500
    RetryAfters = {7}
    MaxRounds = 2
    a1 = a1
    a2 = a2
    b1 = b1
    Members = {a1, a2, b1}
    Dbis = {"a", "b", "c"}
    Descriptors <- MCDescriptors
    Unfit <- MCUnfit
    Filled <- MCFilled
    Workers <- MCWorkers
    Drains = TRUE
    MaxPage = 2
    MaxBytes = 1
    MaxSingle = 1
    MaxWrites = 2
    MaxUpsets = 1
SPECIFICATION RoundsSpec
INVARIANTS
    RoundsWellFormed NothingAppliedAfterStop 
    ReplicaIsPrefix RoundReachesTail
PROPERTIES
    StopEnds ScopedCatchUp
CHECK_DEADLOCK FALSE
