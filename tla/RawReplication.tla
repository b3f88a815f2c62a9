--------------------------- MODULE RawReplication ---------------------------
(***************************************************************************)
(* Raw replication between nodes of one replicated database: the durable   *)
(* changelog and its origin index, incremental pull and direct push, the   *)
(* transactional apply with a contiguous cursor per origin, retention,     *)
(* the complete-snapshot fallback and the durable receiver mode.           *)
(*                                                                         *)
(* Every origin writes tables of its own (docs/sync-use-cases.md: "Several *)
(* writers own disjoint keys"), so data[n][o] is node n's copy of origin   *)
(* o's tables.  A committed batch is identified by <<origin, seq>>; its    *)
(* net effect on the origin's tables is batch[origin][seq].                *)
(***************************************************************************)
EXTENDS Integers, FiniteSetsExt

CONSTANTS
    Nodes,          \* node identifiers
    Rank,           \* [Nodes -> Nat], the bytewise order of node identifiers
    Writers,        \* nodes that commit local transactions under capture
    Hubs,           \* nodes whose application relays what it applies
    Peers,          \* <<r, s>>: receiver r has a peer for source s
    Keys, Values, Absent,
    Batches,        \* what one local transaction may write
    Incompatible,   \* <<r, o>>: r already has o's table with other DBI flags
    MaxBatches,     \* PullRequest::max_batches
    MaxSeq,         \* bound: local commits per writer
    Snapshots,      \* BOOLEAN: the complete-snapshot fallback is enabled
    Retention,      \* BOOLEAN: the application prunes its changelog
    LoseTails       \* BOOLEAN: maintenance may remove the last evidence of a tail

ASSUME RankAssumption ==
    /\ Rank \in [Nodes -> Nat]
    /\ \A m, n \in Nodes : Rank[m] = Rank[n] => m = n
ASSUME TopologyAssumption ==
    /\ Writers \subseteq Nodes /\ Hubs \subseteq Nodes
    /\ Peers \subseteq (Nodes \X Nodes)
    /\ \A p \in Peers : p[1] # p[2]
ASSUME BatchAssumption ==
    \* A batch overrides the keys it writes; Absent stands for an erased key.
    Batches \subseteq UNION {[D -> Values \cup {Absent}] : D \in SUBSET Keys}
ASSUME BoundAssumption ==
    /\ MaxSeq \in Nat
    /\ MaxBatches \in Nat \ {0}
    /\ Absent \notin Values
    /\ {Snapshots, Retention, LoseTails} \subseteq BOOLEAN

VARIABLES
    localSeq,    \* _mdbxc_meta.local_seq of each node
    batch,       \* batch[o][q]: net effect of origin o's q-th commit
    committed,   \* committed[o][q]: o's tables after its q-th commit (history)
    data,        \* data[n][o]: node n's copy of origin o's tables
    changelog,   \* changelog[n]: the <<origin, seq>> rows node n retains
    origins,     \* origins[n][o]: tail in _mdbxc_origins, 0 when absent
    applied,     \* applied[n][o]: _mdbxc_applied, 0 when absent
    mode,        \* durable receiver mode of each node
    wtxn,        \* open write transaction of a push being applied
    chan         \* chan[r][s]: the exchange receiver r has with source s

vars == <<localSeq, batch, committed, data, changelog, origins, applied,
          mode, wtxn, chan>>

Table == [Keys -> Values \cup {Absent}]
Seqs == 1..MaxSeq
Ids == Nodes \X Seqs
Cursor == [Nodes -> 0..MaxSeq]
Modes == {"none", "full", "selective"}

Override(t, b) == [k \in Keys |-> IF k \in DOMAIN b THEN b[k] ELSE t[k]]
EmptyTable == [k \in Keys |-> Absent]
NoBatch == [k \in {} |-> Absent]

NoTxn == [open |-> FALSE]
Txn == [open : {TRUE}, src : Nodes, rest : SUBSET Ids, relayed : SUBSET Ids,
        data : [Nodes -> Table], applied : Cursor, mode : Modes]

Idle == [kind |-> "idle"]
Exchange == {Idle} \cup [kind : {"asked"}, have : Cursor]
                   \cup [kind : {"refused"}]
                   \cup [kind : {"page", "push"}, ids : SUBSET Ids]
                   \cup [kind : {"snap"}, data : [Nodes -> Table], tail : Cursor]

Init ==
    /\ localSeq = [n \in Nodes |-> 0]
    /\ batch = [o \in Nodes |-> [q \in Seqs |-> NoBatch]]
    /\ committed = [o \in Nodes |-> [q \in 0..MaxSeq |-> EmptyTable]]
    /\ data = [n \in Nodes |-> [o \in Nodes |-> EmptyTable]]
    /\ changelog = [n \in Nodes |-> {}]
    /\ origins = [n \in Nodes |-> [o \in Nodes |-> 0]]
    /\ applied = [n \in Nodes |-> [o \in Nodes |-> 0]]
    /\ mode = [n \in Nodes |-> "none"]
    /\ wtxn = [n \in Nodes |-> NoTxn]
    /\ chan = [r \in Nodes |-> [s \in Nodes |-> Idle]]

-----------------------------------------------------------------------------
(* Changelog and origin index                                              *)

Retained(log, o) == {q \in Seqs : <<o, q>> \in log}
TailIn(log, o) == IF Retained(log, o) = {} THEN 0 ELSE Max(Retained(log, o))

\* The tail a node can still prove for an origin, from its index or its rows.
TailEvidence(log, index, o) ==
    IF index[o] > TailIn(log, o) THEN index[o] ELSE TailIn(log, o)

\* OriginIndexStore::note_origin: the index only ever moves forward.
NoteOrigin(index, o, q) == [index EXCEPT ![o] = IF @ >= q THEN @ ELSE q]

\* A local commit with capture attached: the user's writes, the sequence
\* number, the changelog row and the index entry are one transaction.
LocalCommit(n) ==
    /\ n \in Writers
    /\ ~wtxn[n].open
    /\ localSeq[n] < MaxSeq
    /\ \E b \in Batches :
         LET q == localSeq[n] + 1
             t == Override(data[n][n], b)
         IN  /\ localSeq' = [localSeq EXCEPT ![n] = q]
             /\ batch' = [batch EXCEPT ![n][q] = b]
             /\ committed' = [committed EXCEPT ![n][q] = t]
             /\ data' = [data EXCEPT ![n][n] = t]
             /\ changelog' = [changelog EXCEPT ![n] = @ \cup {<<n, q>>}]
             /\ origins' = [origins EXCEPT ![n] = NoteOrigin(@, n, q)]
    /\ UNCHANGED <<applied, mode, wtxn, chan>>

\* ChangeLogStore::prune_up_to: rows go, the indexed tail stays.
PruneUpTo(n, o, upTo) ==
    /\ Retention
    /\ ~wtxn[n].open
    /\ LET kept == {id \in changelog[n] : id[1] # o \/ id[2] > upTo}
       IN  /\ kept # changelog[n]
           /\ changelog' = [changelog EXCEPT ![n] = kept]
    /\ UNCHANGED <<localSeq, batch, committed, data, origins, applied, mode,
                   wtxn, chan>>

\* ChangeLogStore::rebuild_origin_index: the index becomes the rows' tails.
\* With LoseTails = FALSE the operator runs it only while every indexed
\* origin still has a retained row to recover its tail from.
RebuildOriginIndex(n) ==
    /\ Retention
    /\ ~wtxn[n].open
    /\ LET index == [o \in Nodes |-> TailIn(changelog[n], o)]
       IN  /\ LoseTails \/ \A o \in Nodes : index[o] >= origins[n][o]
           /\ origins' = [origins EXCEPT ![n] = index]
    /\ UNCHANGED <<localSeq, batch, committed, data, changelog, applied, mode,
                   wtxn, chan>>

-----------------------------------------------------------------------------
(* Pull                                                                    *)

\* collect_known_origins: the index, or a changelog scan when it is empty.
Indexed(s) == \E o \in Nodes : origins[s][o] # 0
KnownOrigins(s) ==
    IF Indexed(s) THEN {o \in Nodes : origins[s][o] # 0}
                  ELSE {o \in Nodes : Retained(changelog[s], o) # {}}

\* Mutant: off by one at the tail.
AtTailEarly(s, o, have) == Indexed(s) /\ have[o] + 1 >= origins[s][o]

AtTail(s, o, have) == Indexed(s) /\ have[o] >= origins[s][o]

\* Mutant: off by one at the earliest retained row.
HasRetainedStartLoose(s, o, have) ==
    \/ AtTail(s, o, have)
    \/ LET rows == Retained(changelog[s], o)
       IN  IF rows = {} THEN ~Indexed(s) ELSE have[o] + 2 >= Min(rows)

\* request_has_retained_start
HasRetainedStart(s, o, have) ==
    \/ AtTail(s, o, have)
    \/ LET rows == Retained(changelog[s], o)
       IN  IF rows = {} THEN ~Indexed(s) ELSE have[o] + 1 >= Min(rows)

SnapshotRequired(s, have) ==
    \E o \in KnownOrigins(s) : ~HasRetainedStart(s, o, have)

\* Mutant: the walk starts one row late.
AvailableLate(s, have) ==
    {id \in changelog[s] : id[1] \in KnownOrigins(s) /\ id[2] > have[id[1]] + 1}

\* The rows pull_changelog_page walks, origin by origin in key order.
Available(s, have) ==
    {id \in changelog[s] : /\ id[1] \in KnownOrigins(s)
                           /\ ~AtTail(s, id[1], have)
                           /\ id[2] > have[id[1]]}

Before(a, b) == \/ Rank[a[1]] < Rank[b[1]]
                \/ a[1] = b[1] /\ a[2] < b[2]

\* max_batches cuts the walk, and max_bytes may cut it earlier.
Pages(s, have) ==
    LET rows == Available(s, have)
        upTo(last) == {id \in rows : id = last \/ Before(id, last)}
    IN  {page \in {upTo(last) : last \in rows} : Cardinality(page) <= MaxBatches}

RequestPull(r, s) ==
    /\ <<r, s>> \in Peers
    /\ chan[r][s] = Idle
    /\ chan' = [chan EXCEPT ![r][s] = [kind |-> "asked", have |-> applied[r]]]
    /\ UNCHANGED <<localSeq, batch, committed, data, changelog, origins,
                   applied, mode, wtxn>>

\* handle_pull on the source, in one read transaction.
HandlePull(r, s) ==
    /\ chan[r][s].kind = "asked"
    /\ LET have == chan[r][s].have
       IN  \/ /\ SnapshotRequired(s, have)
              /\ chan' = [chan EXCEPT ![r][s] = [kind |-> "refused"]]
           \/ /\ ~SnapshotRequired(s, have)
              /\ Available(s, have) = {}
              /\ chan' = [chan EXCEPT ![r][s] = Idle]
           \/ /\ ~SnapshotRequired(s, have)
              /\ \E page \in Pages(s, have) :
                   chan' = [chan EXCEPT ![r][s] =
                                [kind |-> "page", ids |-> page]]
    /\ UNCHANGED <<localSeq, batch, committed, data, changelog, origins,
                   applied, mode, wtxn>>

\* make_push_request: a contiguous range of the sender's own history.
MakePushRequest(r, s, from, to) ==
    /\ <<r, s>> \in Peers
    /\ chan[r][s] = Idle
    /\ from <= to /\ to <= localSeq[s]
    /\ \A q \in from..to : <<s, q>> \in changelog[s]
    /\ chan' = [chan EXCEPT ![r][s] =
                    [kind |-> "push", ids |-> {<<s, q>> : q \in from..to}]]
    /\ UNCHANGED <<localSeq, batch, committed, data, changelog, origins,
                   applied, mode, wtxn>>

\* A lost request or response, a timeout, or a worker giving up on a round.
LoseExchange(r, s) ==
    /\ chan[r][s] # Idle
    /\ ~(wtxn[r].open /\ wtxn[r].src = s)
    /\ chan' = [chan EXCEPT ![r][s] = Idle]
    /\ UNCHANGED <<localSeq, batch, committed, data, changelog, origins,
                   applied, mode, wtxn>>

-----------------------------------------------------------------------------
(* Apply: handle_push runs apply_batch_ex on each batch of one transaction *)

BeginApply(r, s) ==
    /\ chan[r][s].kind \in {"page", "push"}
    /\ ~wtxn[r].open
    /\ wtxn' = [wtxn EXCEPT ![r] =
                  [open |-> TRUE, src |-> s, rest |-> chan[r][s].ids,
                   relayed |-> {}, data |-> data[r], applied |-> applied[r],
                   mode |-> mode[r]]]
    /\ UNCHANGED <<localSeq, batch, committed, data, changelog, origins,
                   applied, mode, chan>>

FirstOf(ids) == CHOOSE id \in ids : \A other \in ids \ {id} : Before(id, other)

Skipped(r, t, id) == id[1] = r \/ id[2] <= t.applied[id[1]]

\* Mutant: any later sequence is accepted.
SequenceGapIgnored(r, t, id) == FALSE
SequenceGap(r, t, id) == ~Skipped(r, t, id) /\ id[2] # t.applied[id[1]] + 1

\* preflight_batch_user_dbis
IncompatibleDbis(r, id) == <<r, id[1]>> \in Incompatible

\* claim_full_global fails.
ModeRefuses(t) == t.mode = "selective"

Conflict(r, t, id) ==
    \/ SequenceGap(r, t, id)
    \/ ~Skipped(r, t, id) /\ (IncompatibleDbis(r, id) \/ ModeRefuses(t))

\* apply_batch_ex, on the working state of the open transaction.
ApplyBatch(r) ==
    /\ wtxn[r].open
    /\ wtxn[r].rest # {}
    /\ LET t == wtxn[r]
           id == FirstOf(t.rest)
           o == id[1]
           skip == [t EXCEPT !.rest = @ \ {id}]
       IN  /\ ~Conflict(r, t, id)
           /\ wtxn' = [wtxn EXCEPT ![r] =
                IF Skipped(r, t, id) THEN skip
                ELSE [skip EXCEPT
                        !.data[o] = Override(@, batch[o][id[2]]),
                        !.applied[o] = id[2],
                        !.mode = "full",
                        !.relayed = IF r \in Hubs THEN @ \cup {id} ELSE @]]
    /\ UNCHANGED <<localSeq, batch, committed, data, changelog, origins,
                   applied, mode, chan>>

\* The response reaches the sender, or it is lost and the same page is resent.
Answered(r) == \/ chan' = [chan EXCEPT ![r][wtxn[r].src] = Idle]
               \/ chan' = chan

\* Any conflict rolls the whole push back.
RollbackApply(r) ==
    /\ wtxn[r].open
    /\ wtxn[r].rest # {}
    /\ Conflict(r, wtxn[r], FirstOf(wtxn[r].rest))
    /\ wtxn' = [wtxn EXCEPT ![r] = NoTxn]
    /\ Answered(r)
    /\ UNCHANGED <<localSeq, batch, committed, data, changelog, origins,
                   applied, mode>>

\* Mutant: the cursor is not part of the transaction.
SaveCursorLater(r) == applied' = applied
SaveCursor(r) == applied' = [applied EXCEPT ![r] = wtxn[r].applied]

CommitApply(r) ==
    /\ wtxn[r].open
    /\ wtxn[r].rest = {}
    /\ data' = [data EXCEPT ![r] = wtxn[r].data]
    /\ SaveCursor(r)
    /\ mode' = [mode EXCEPT ![r] = wtxn[r].mode]
    /\ changelog' = [changelog EXCEPT ![r] = @ \cup wtxn[r].relayed]
    /\ origins' = [origins EXCEPT ![r] = [o \in Nodes |->
                     TailEvidence(wtxn[r].relayed, @, o)]]
    /\ wtxn' = [wtxn EXCEPT ![r] = NoTxn]
    /\ Answered(r)
    /\ UNCHANGED <<localSeq, batch, committed>>

\* The process stops: the open transaction and its exchanges are gone, what
\* was committed is not.
Crash(n) ==
    /\ wtxn[n].open
    /\ wtxn' = [wtxn EXCEPT ![n] = NoTxn]
    /\ chan' = [chan EXCEPT ![n] = [s \in Nodes |-> Idle]]
    /\ UNCHANGED <<localSeq, batch, committed, data, changelog, origins,
                   applied, mode>>

-----------------------------------------------------------------------------
(* Complete snapshot fallback and the selective receiver mode              *)

\* source_tail: the applied cursor raised to the changelog tails.
SourceTail(s) == [o \in Nodes |-> IF origins[s][o] > applied[s][o]
                                  THEN origins[s][o] ELSE applied[s][o]]

\* materialize_full_snapshot: one read transaction fixes tables and tail.
\* A changelog without an index has no known tail and is not exported.
MaterializeSnapshot(r, s) ==
    /\ Snapshots
    /\ chan[r][s].kind = "refused"
    /\ Indexed(s) \/ KnownOrigins(s) = {}
    /\ chan' = [chan EXCEPT ![r][s] =
                  [kind |-> "snap", data |-> data[s], tail |-> SourceTail(s)]]
    /\ UNCHANGED <<localSeq, batch, committed, data, changelog, origins,
                   applied, mode, wtxn>>

\* require_fresh_full_snapshot_target, and the receiver mode claim.
Fresh(r, snap) ==
    /\ snap.tail[r] = 0
    /\ localSeq[r] = 0
    /\ \A o \in Nodes : /\ applied[r][o] = 0
                        /\ data[r][o] = EmptyTable
                        /\ <<r, o>> \notin Incompatible
    /\ mode[r] # "selective"

ImportSnapshot(r, s) ==
    /\ chan[r][s].kind = "snap"
    /\ ~wtxn[r].open
    /\ Fresh(r, chan[r][s])
    /\ data' = [data EXCEPT ![r] = chan[r][s].data]
    /\ applied' = [applied EXCEPT ![r] = chan[r][s].tail]
    /\ mode' = [mode EXCEPT ![r] = "full"]
    /\ chan' = [chan EXCEPT ![r][s] = Idle]
    /\ UNCHANGED <<localSeq, batch, committed, changelog, origins, wtxn>>

\* handle_scoped_push, as far as raw replication sees it: it claims the
\* selective mode unless the receiver has global progress or a global claim.
ClaimSelective(n) ==
    /\ ~wtxn[n].open
    /\ mode[n] = "none"
    /\ \A o \in Nodes : applied[n][o] = 0
    /\ mode' = [mode EXCEPT ![n] = "selective"]
    /\ UNCHANGED <<localSeq, batch, committed, data, changelog, origins,
                   applied, wtxn, chan>>

-----------------------------------------------------------------------------
Next ==
    \/ \E n \in Nodes : \/ LocalCommit(n)
                        \/ RebuildOriginIndex(n)
                        \/ ApplyBatch(n) \/ RollbackApply(n) \/ CommitApply(n)
                        \/ Crash(n)
                        \/ ClaimSelective(n)
    \/ \E n, o \in Nodes, q \in Seqs : PruneUpTo(n, o, q)
    \/ \E r, s \in Nodes :
         \/ RequestPull(r, s) \/ HandlePull(r, s) \/ LoseExchange(r, s)
         \/ BeginApply(r, s)
         \/ MaterializeSnapshot(r, s) \/ ImportSnapshot(r, s)
         \/ \E from, to \in Seqs : MakePushRequest(r, s, from, to)

Spec == Init /\ [][Next]_vars

\* SyncWorker polls every peer and applies what it pulled, every call ends (a
\* sender does not repeat one push for ever), and a transport that loses some
\* exchanges does not lose all of them.  From some point on processes stay
\* up: what looks like a crash is an apply that ends without any effect.
Fairness ==
  /\ <>[][\A n \in Nodes : Crash(n) => CommitApply(n) \/ RollbackApply(n)]_vars
  /\ \A p \in Peers :
      LET r == p[1]
          s == p[2]
      IN  /\ SF_vars(RequestPull(r, s))
          /\ SF_vars(HandlePull(r, s))
          /\ SF_vars(LoseExchange(r, s) /\ chan[r][s].kind # "page")
          /\ SF_vars(BeginApply(r, s) /\ chan[r][s].kind = "page")
          /\ WF_vars(ApplyBatch(r))
          /\ WF_vars(RollbackApply(r))
          /\ SF_vars(CommitApply(r) /\ chan'[r][s] = Idle)

FairSpec == Spec /\ Fairness

-----------------------------------------------------------------------------
(* Properties                                                              *)

\* Every variable stays in its type; cursors and rows stay within MaxSeq.
TypeOK ==
    /\ localSeq \in [Nodes -> 0..MaxSeq]
    /\ batch \in [Nodes -> [Seqs -> Batches \cup {NoBatch}]]
    /\ committed \in [Nodes -> [0..MaxSeq -> Table]]
    /\ data \in [Nodes -> [Nodes -> Table]]
    /\ changelog \in [Nodes -> SUBSET Ids]
    /\ origins \in [Nodes -> Cursor]
    /\ applied \in [Nodes -> Cursor]
    /\ mode \in [Nodes -> Modes]
    /\ wtxn \in [Nodes -> Txn \cup {NoTxn}]
    /\ chan \in [Nodes -> [Nodes -> Exchange]]

\* How far node n is in origin o's history.
Position(n, o) == IF n = o THEN localSeq[o] ELSE applied[n][o]

\* handle_push, the snapshot import and local commits keep every copy of an
\* origin's tables equal to a state the origin itself committed: the one the
\* cursor names.  No batch is skipped, repeated or half applied, whatever
\* pages are lost, resent or delivered late, and whoever crashes.
PrefixConsistent ==
    \A n, o \in Nodes : /\ Position(n, o) <= localSeq[o]
                        /\ data[n][o] = committed[o][Position(n, o)]

\* A page answered by handle_pull never makes handle_push report SequenceGap,
\* however stale the cursor it was computed for: pull_changelog_page starts
\* at have + 1 and cuts between rows only.
PullPagesApply ==
    \A r, s \in Nodes :
      chan[r][s].kind = "page" =>
        \A id \in chan[r][s].ids :
          \/ id[1] = r
          \/ id[2] <= applied[r][id[1]] + 1
          \/ <<id[1], id[2] - 1>> \in chan[r][s].ids

\* docs/sync-recovery.md:17: "When the source has pruned a batch needed to
\* continue a receiver cursor, pull returns `SnapshotRequired` and no partial
\* later history."
PrunedHistoryReported ==
    \A p \in Peers :
      LET r == p[1]
          s == p[2]
      IN  (/\ applied[r][s] < localSeq[s]
           /\ <<s, applied[r][s] + 1>> \notin changelog[s])
          => SnapshotRequired(s, applied[r])

\* The durable receiver mode is claimed once and never changes, whichever of
\* handle_push, the snapshot import and handle_scoped_push came first; a node
\* that is selective has no global cursor.
ReceiverModeExclusive ==
    [][\A n \in Nodes :
         /\ mode[n] # "none" => mode'[n] = mode[n]
         /\ mode'[n] = "selective" => \A o \in Nodes : applied'[n][o] = 0]_vars

\* No step moves a cursor back, and a copy of another origin's tables changes
\* only together with its cursor (apply_batch_ex writes both or neither).
CursorsAdvanceWithData ==
    [][\A n, o \in Nodes :
         /\ applied'[n][o] >= applied[n][o]
         /\ n # o /\ data'[n][o] # data[n][o] => applied'[n][o] > applied[n][o]]_vars

\* With retained history and a transport that is not dead, polling catches up
\* with every peer, unless the receiver is selective.
CatchUp ==
    \A p \in Peers :
      <>[](mode[p[1]] = "selective" \/ applied[p[1]][p[2]] = localSeq[p[2]])

\* SyncEngine.hpp:2087, on handle_pull: "Non-empty cursors still consider all
\* known origins so newly discovered origins and multi-origin pagination are
\* not stranded."  A receiver eventually hears of a source's own history.
OriginsNotStranded ==
    \A p \in Peers :
      localSeq[p[2]] > 0 ~> (mode[p[1]] = "selective" \/ applied[p[1]][p[2]] > 0)
=============================================================================
