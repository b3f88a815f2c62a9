CONSTANTS
    Parts = {"pair"}
    n1 = n1
    n2 = n2
    n3 = n3
    k1 = k1
    k2 = k2
    v1 = v1
    Nodes <- MCNodes
    Rank <- MCRank
    Writers = {n1, n2}
    Hubs = {n2}
    Peers <- BothWays
    Keys = {k1, k2}
    Values = {v1}
    Absent = Absent
    Batches <- OneBatch
    Incompatible = {}
    MaxBatches = 1
    MaxSeq = 1
    Snapshots = FALSE
    Retention = FALSE
    LoseTails = FALSE
    Dbis <- MCDbis
    Own = 9
    Handlers = {h1, h2}
    Rooms = {0, 2}
    Exports <- MCExports
    Sources <- MCSources
    Targets <- MCTargets
    MaxStaged = 6
    Commits <- MCCommits
    MaxSessions = 2
    MaxUpsets = 2
    i1 = i1
    i2 = i2
    i3 = i3
    Callers = {t1, t2}
    Identities = {i1, i2}
    Strangers = {i3}
    Operations = {"push", "delivery"}
    Requests <- MCRequests
    MaxRequests = 1
    Window = 2
    MaxBuckets = 1
    Budget = 2
    MaxClock = 3
    MaxCalls = 3
SPECIFICATION CatchUpSpec
PROPERTY OriginsNotStranded
