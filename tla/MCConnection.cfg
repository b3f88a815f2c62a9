CONSTANTS
    Parts = {"observers", "lifecycle", "channel"}
    t1 = t1
    t2 = t2
    r1 = r1
    w1 = w1
    w2 = w2
    Threads = {t1, t2, t3}
    Nobody = Nobody
    ObservedDbis = {d1, d2}
    MaxTokens = 2
    MaxApplies = 2
    RemoveInside = TRUE
    TxnThreads <- MCTxnThreads
    Guards <- MCGuards
    Owner <- MCOwner
    Writable <- MCWritable
    NoGuard = NoGuard
    MaxOpens = 2
    Uses <- MCUses
    Cancellers = {c1, c2}
    ExchangeTimeout = TRUE
    Overlap = FALSE
    MaxExchanges = 2
SPECIFICATION ConnectionSpec
INVARIANTS
    ConnectionWellFormed RemovedMeansQuiet EnvOutlivesHandles
PROPERTIES
    OutcomeFinal RemoveReturns ShutdownEnds 
CHECK_DEADLOCK FALSE
