CONSTANTS
    Parts = {"recovery"}
    N = N
    R = R
    ord = ord
    uno = uno
    D1 = D1
    D2 = D2
    fa = fa
    fb = fb
    first = first
    other = other
    w1 = w1
    w2 = w2
    Node = N
    SchemaOrder <- MCSchemas
    Ordered = {ord}
    CaptureVersion <- MCCapture
    Versions <- MCVersions
    RecordsOf <- MCRecords
    Destinations = {D1, D2}
    Envelopes <- MCEnvelopes
    MaxSeq = 3
    MaxLocal = 3
    MaxDirect = 1
    None = None
    Receivers = {first, other}
    Dispatchers = {w1, w2}
    Serves <- ToC
    Cumulative = {other}
    MaxEvents = 3
    Direct = TRUE
    Prunes = TRUE
    Rejects = TRUE
    Origin = origin
    Projects = FALSE
SPECIFICATION PathSpec
INVARIANT RecoveredOnce
CHECK_DEADLOCK FALSE
