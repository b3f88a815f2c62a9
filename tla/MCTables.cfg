CONSTANTS
    Parts = {"tables", "capture", "scopes", "versions"}
    Values = {1, 2}
    Oversized = {9}
    AllKeys = {1, 3}
    Containers <- MCContainers
    Tables <- MCAllTables
    MaxPairs = 2
    HsKeys = {1, 2, 3}
    HsValues = {1, 2}
    Hash <- MCHash
    HsOversized = {2}
    MaxOrdinal = 2
    HsContainers <- MCBulks
    Layouts = {"large", "small", "none"}
    h1 = h1
    plain = plain
    scopedA = scopedA
    scopedB = scopedB
    foreign = foreign
    logical = logical
    A = A
    B = B
    F = F
    Handles = {h1}
    CapturedTables <- MCCaptured
    ScopeOf <- MCScopeOf
    Designated = {A, B}
    Logical = {logical}
    MaxTxns = 3
    MaxWrites = 2
    ScopeIds = {c1, c2, c3}
    Sinks = {s1, s2}
    NoSink = NoSink
    MaxAttachments = 4
    LwwNodes = {1, 2, 3}
    LwwKeys = {k1}
    LwwValues = {a}
    NoValue = NoValue
    MaxRev = 2
    MaxOps <- MCMaxOps
    None = None
SPECIFICATION MCSpec
INVARIANTS
    TablesWellFormed ReportsRebuildTable CallsExact LogsExact ScopesUnwind
    GreatestWins
PROPERTY
    ContainersKeepPromise
CHECK_DEADLOCK FALSE
