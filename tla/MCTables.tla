------------------------------ MODULE MCTables ------------------------------
(***************************************************************************)
(* Tables and the capture of what is written to them, for TLC, one part at *)
(* a time: every kind of table, the changes of a transaction on its way to *)
(* the log, nested capture scopes, and a table with versions.              *)
(***************************************************************************)
EXTENDS Tables, ChangeCapture, CaptureScope, VersionedTable

CONSTANTS Parts, h1, plain, scopedA, scopedB, foreign, logical, A, B, F

Table(w, c, v, ks, m) ==
    [wrapper |-> w, capture |-> c, version |-> v, keys |-> ks, max |-> m]

\* Two keys with a gap and two order numbers, or one key and three.
Wide(w, c, v) == Table(w, c, v, {1, 3}, 1)
Deep(w, c, v) == Table(w, c, v, {1}, 2)

MCAllTables ==
    {Table("KeyValueTable", c, 1, {1, 3}, 0) : c \in {"raw", "session"}}
      \cup {Table("KeyTable", c, 1, {1, 3}, 0) : c \in {"raw", "session"}}
      \cup {Table("SequenceTable", "raw", 1, {}, 2), Table("ValueTable", "raw", 1, {}, 0)}
      \cup {Deep("KeyMultiValueTable", "none", 1), Wide("KeyMultiValueTable", "session", 3)}
      \cup {Deep("KeyMultiValueTable", "auto", v) : v \in 1..2}
      \cup {Deep("KeyMultiValueTable", "session", 1)}
      \cup {Deep("KeyOrderedMultiValueTable", c, 1) : c \in {"none", "auto", "session"}}
      \cup {Table("HashedKeyValueStore", "none", 1, {}, 0)}

\* An empty one, a pair wanted twice, two values of a key, and a value that
\* does not fit after one that does.
MCContainers ==
    {<<>>, << <<1, 1>>, <<1, 1>> >>, << <<1, 2>>, <<1, 1>> >>, << <<1, 2>>, <<1, 9>> >>}

\* Keys 1 and 2 collide.
MCHash(k) == IF k = 3 THEN 1 ELSE 0
MCBulks == {<< <<1, 1>>, <<2, 1>> >>, << <<2, 1>>, <<2, 2>> >>, << <<3, 1>>, <<1, 2>> >>}

-----------------------------------------------------------------------------
(* A plain table, two scopes written here, one written elsewhere, and a    *)
(* table with automatic logical capture.                                   *)

MCCaptured == {plain, scopedA, scopedB, foreign, logical}
MCScopeOf == [t \in MCCaptured |-> CASE t = scopedA -> A
                                     [] t = scopedB -> B
                                     [] t = foreign -> F
                                     [] OTHER -> None]

-----------------------------------------------------------------------------
(* Two nodes write one versioned table and a third reads it.               *)

MCMaxOps == <<2, 1, 0>>

-----------------------------------------------------------------------------
VARIABLE part   \* the part that runs

MCInit ==
    /\ part \in Parts
    /\ TablesInit /\ ChangeInit /\ ScopeInit /\ LwwInit
    /\ part # "tables" => table.wrapper = "ValueTable"
    /\ part # "versions" => policy = LwwNodes

MCNext ==
    /\ UNCHANGED part
    /\ \/ part = "tables" /\ TablesNext /\ UNCHANGED <<changeVars, scopeVars, lwwVars>>
       \/ part = "capture" /\ ChangeNext /\ UNCHANGED <<tableVars, scopeVars, lwwVars>>
       \/ part = "scopes" /\ ScopeNext /\ UNCHANGED <<tableVars, changeVars, lwwVars>>
       \/ part = "versions" /\ LwwNext /\ UNCHANGED <<tableVars, changeVars, scopeVars>>

MCSpec == MCInit /\ [][MCNext]_<<part, tableVars, changeVars, scopeVars, lwwVars>>

-----------------------------------------------------------------------------
(* Properties                                                              *)

\* Every part is well formed: variables in their types; index and records of
\* the hashed store agree; no change is pending outside its transaction; no
\* version of a key is published twice.
TablesWellFormed ==
    /\ TablesTypeOK /\ ChangeTypeOK /\ ScopeTypeOK /\ LwwTypeOK
    /\ IndexMatchesRecords /\ PendingOnlyWhileOpen /\ VersionsUnique

\* Every read and every write of every table answers and leaves what its set
\* definition says.
CallsExact ==
    /\ RangesExact /\ BoundsExact /\ LookupFindsItsKey
    /\ MutatorsExact /\ AssignmentsExact

\* The changelog, the journal and the changelog of each scope hold exactly what
\* was committed for them.
LogsExact == PublishedExactly /\ ScopedLogIsProjection

\* Capture scopes unwind: the sink in place belongs to a scope still active or
\* to the last raw attach, and each scope puts back one that does as well.
ScopesUnwind == SinkIsOwned /\ ScopesNest

\* What a caller may rely on: both maps are transactional maps, and the ordered
\* table never reorders the values of a key.
ContainersKeepPromise == KvImplementsMap /\ HsImplementsMap /\ OrderPreserved
=============================================================================
