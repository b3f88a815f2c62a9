------------------------- MODULE RawReplicationLogs -------------------------
(***************************************************************************)
(* What a pull answers, for every set of nodes, topology and page size: a  *)
(* page never leaves a gap, and pruned history is always reported.  Both   *)
(* rest on changelogs having no holes: a retained row is followed by every *)
(* later row up to the node's position, hubs included (RowsReach).         *)
(***************************************************************************)
EXTENDS RawReplicationProofs

-----------------------------------------------------------------------------
(* The inductive invariant                                                 *)

\* Changelogs have no holes, and a node that does not relay has only its own
\* rows.
RowsReach ==
    \A n, o \in Nodes : \A q, p \in Seqs :
      <<o, q>> \in changelog[n] /\ q <= p /\ p <= Position(n, o)
        => <<o, p>> \in changelog[n]
OnlyHubsRelay == \A n \in Nodes \ Hubs : \A id \in changelog[n] : id[1] = n

LogsOK == RowsReach /\ OnlyHubsRelay

\* An open push of a hub relays exactly what it has applied so far.
RelayOK(r, t) ==
    /\ r \notin Hubs => t.relayed = {}
    /\ \A id \in t.relayed : id[2] > applied[r][id[1]]
    /\ r \in Hubs => \A o \in Nodes \ {r}, p \in Seqs :
         applied[r][o] < p /\ p <= t.applied[o] => <<o, p>> \in t.relayed
RelaysOK == \A r \in Nodes : wtxn[r].open => RelayOK(r, wtxn[r])

\* A request's cursor is not ahead of its receiver's, and a page has no gap.
PageOK(r, e) ==
    /\ e.kind = "asked" => \A o \in Nodes : e.have[o] <= applied[r][o]
    /\ e.kind = "page" => \A id \in e.ids : \/ id[1] = r
                                            \/ id[2] <= applied[r][id[1]] + 1
                                            \/ <<id[1], id[2] - 1>> \in e.ids
PagesOK == \A r, s \in Nodes : PageOK(r, chan[r][s])

LogInv == IInv /\ LogsOK /\ RelaysOK /\ PagesOK

-----------------------------------------------------------------------------
(* Changelogs                                                              *)

\* A step that leaves changelogs and positions alone.
LEMMA LogsFrame == LogsOK /\ UNCHANGED <<changelog, localSeq, applied>> => LogsOK'
  BY DEF LogsOK, RowsReach, OnlyHubsRelay, Position

\* A local commit appends the next row.
LEMMA LocalCommitLogs ==
    ASSUME TypeOK, LogsOK, NEW n \in Nodes, LocalCommit(n)
    PROVE  LogsOK'
<1>1. /\ localSeq' = [localSeq EXCEPT ![n] = localSeq[n] + 1] /\ UNCHANGED applied
      /\ changelog' = [changelog EXCEPT ![n] = @ \cup {<<n, localSeq[n] + 1>>}]
  BY DEF LocalCommit
<1>2. \A m \in Nodes : localSeq[m] \in Nat
  BY BoundAssumption DEF TypeOK
<1>3. /\ localSeq'[n] = localSeq[n] + 1
      /\ changelog'[n] = changelog[n] \cup {<<n, localSeq[n] + 1>>}
      /\ \A m \in Nodes \ {n} : localSeq'[m] = localSeq[m] /\ changelog'[m] = changelog[m]
  BY <1>1 DEF TypeOK
<1>4. OnlyHubsRelay'
  BY <1>3 DEF LogsOK, OnlyHubsRelay
<1>5. RowsReach'
  <2> SUFFICES ASSUME NEW m \in Nodes, NEW o \in Nodes, NEW q \in Seqs, NEW p \in Seqs,
                      <<o, q>> \in changelog'[m], q <= p, p <= Position(m, o)'
               PROVE  <<o, p>> \in changelog'[m]
    BY DEF RowsReach
  <2>0. q \in Nat /\ p \in Nat
    BY BoundAssumption DEF Seqs
  <2>1. CASE m = n /\ o = n
    <3>1. p <= localSeq[n] + 1
      BY <1>3, <2>1 DEF Position
    <3>2. CASE p = localSeq[n] + 1
      BY <1>3, <2>1, <3>2
    <3>3. CASE p <= localSeq[n]
      <4>1. <<o, q>> \in changelog[m]
        BY <1>2, <1>3, <2>0, <2>1, <3>3
      <4> QED
        BY <1>3, <2>1, <3>3, <4>1 DEF LogsOK, RowsReach, Position
    <3> QED
      BY <1>2, <2>0, <3>1, <3>2, <3>3
  <2>2. CASE m = n /\ o # n
    <3>1. <<o, q>> \in changelog[m] /\ Position(m, o)' = Position(m, o)
      BY <1>1, <1>3, <2>2 DEF Position
    <3> QED
      BY <1>3, <2>2, <3>1 DEF LogsOK, RowsReach
  <2>3. CASE m # n
    <3>1. <<o, q>> \in changelog[m] /\ Position(m, o)' = Position(m, o)
      BY <1>1, <1>3, <2>3 DEF Position
    <3> QED
      BY <1>3, <2>3, <3>1 DEF LogsOK, RowsReach
  <2> QED
    BY <2>1, <2>2, <2>3
<1> QED
  BY <1>4, <1>5 DEF LogsOK

\* prune_up_to removes the oldest rows of one origin.
LEMMA PruneLogs ==
    ASSUME TypeOK, LogsOK, NEW n \in Nodes, NEW d \in Nodes, NEW upTo \in Seqs,
           PruneUpTo(n, d, upTo)
    PROVE  LogsOK'
<1>1. /\ UNCHANGED <<localSeq, applied>>
      /\ changelog'[n] = {id \in changelog[n] : id[1] # d \/ id[2] > upTo}
      /\ \A m \in Nodes \ {n} : changelog'[m] = changelog[m]
  BY DEF PruneUpTo, TypeOK
<1>2. OnlyHubsRelay'
  BY <1>1 DEF LogsOK, OnlyHubsRelay
<1>3. RowsReach'
  <2> SUFFICES ASSUME NEW m \in Nodes, NEW o \in Nodes, NEW q \in Seqs, NEW p \in Seqs,
                      <<o, q>> \in changelog'[m], q <= p, p <= Position(m, o)'
               PROVE  <<o, p>> \in changelog'[m]
    BY DEF RowsReach
  <2>1. <<o, q>> \in changelog[m] /\ p <= Position(m, o)
    BY <1>1 DEF Position
  <2>2. <<o, p>> \in changelog[m]
    BY <2>1 DEF LogsOK, RowsReach
  <2>3. q \in Nat /\ p \in Nat /\ upTo \in Nat
    BY BoundAssumption DEF Seqs
  <2> QED
    BY <1>1, <2>2, <2>3
<1> QED
  BY <1>2, <1>3 DEF LogsOK

\* Committing a push appends what a hub applied.
LEMMA CommitLogs ==
    ASSUME IInv, LogsOK, RelaysOK, NEW r \in Nodes, CommitApply(r)
    PROVE  LogsOK'
<1> DEFINE t == wtxn[r]
<1>0. TypeOK /\ t.open /\ t \in Txn /\ TxnOK(r, t) /\ RelayOK(r, t)
  BY OpenTxn DEF CommitApply, IInv, TxnsOK, RelaysOK
<1>1. /\ UNCHANGED localSeq
      /\ changelog'[r] = changelog[r] \cup t.relayed /\ applied'[r] = t.applied
      /\ \A m \in Nodes \ {r} : changelog'[m] = changelog[m] /\ applied'[m] = applied[m]
  BY <1>0 DEF CommitApply, SaveCursor, TypeOK
<1>2. OnlyHubsRelay'
  BY <1>0, <1>1 DEF LogsOK, OnlyHubsRelay, RelayOK
<1>3. RowsReach'
  <2> SUFFICES ASSUME NEW m \in Nodes, NEW o \in Nodes, NEW q \in Seqs, NEW p \in Seqs,
                      <<o, q>> \in changelog'[m], q <= p, p <= Position(m, o)'
               PROVE  <<o, p>> \in changelog'[m]
    BY DEF RowsReach
  <2>0. q \in Nat /\ p \in Nat /\ applied[r][o] \in Nat /\ t.applied[o] \in Nat
    BY <1>0, BoundAssumption DEF Seqs, TypeOK, Txn, Cursor
  <2>1. CASE m # r \/ o = r
    <3>1. <<o, q>> \in changelog[m] /\ p <= Position(m, o)
      BY <1>0, <1>1, <2>1 DEF Position, TxnOK
    <3>2. <<o, p>> \in changelog[m]
      BY <3>1 DEF LogsOK, RowsReach
    <3> QED
      BY <1>1, <3>2
  <2>2. CASE m = r /\ o # r
    <3>1. p <= t.applied[o]
      BY <1>1, <2>2 DEF Position
    <3>2. r \in Hubs
      BY <1>0, <1>1, <2>2 DEF LogsOK, OnlyHubsRelay, RelayOK
    <3>3. CASE p > applied[r][o]
      BY <1>0, <1>1, <2>0, <2>2, <3>1, <3>2, <3>3 DEF RelayOK
    <3>4. CASE p <= applied[r][o]
      <4>1. <<o, q>> \notin t.relayed
        BY <1>0, <2>0, <3>4 DEF RelayOK
      <4>2. <<o, q>> \in changelog[r] /\ Position(r, o) = applied[r][o]
        BY <1>1, <2>2, <4>1 DEF Position
      <4> QED
        BY <1>1, <2>2, <3>4, <4>2 DEF LogsOK, RowsReach
    <3> QED
      BY <2>0, <3>3, <3>4
  <2> QED
    BY <2>1, <2>2
<1> QED
  BY <1>2, <1>3 DEF LogsOK

\* A snapshot is imported into an empty changelog.
LEMMA ImportLogs ==
    ASSUME IInv, LogsOK, NEW r \in Nodes, NEW s \in Nodes, ImportSnapshot(r, s)
    PROVE  LogsOK'
<1>1. /\ UNCHANGED <<localSeq, changelog>> /\ localSeq[r] = 0
      /\ \A o \in Nodes : applied[r][o] = 0
      /\ \A m \in Nodes \ {r} : applied'[m] = applied[m]
  BY Zenon DEF ImportSnapshot, Fresh, IInv, TypeOK
<1>2. changelog[r] = {}
  <2> SUFFICES ASSUME NEW id \in changelog[r] PROVE FALSE
    OBVIOUS
  <2>1. id[1] \in Nodes /\ id[2] \in Seqs /\ id[2] <= Position(r, id[1])
    BY DEF IInv, TypeOK, ReplicasOK, RowsOK, Ids
  <2>2. Position(r, id[1]) = 0
    BY <1>1, <2>1 DEF Position
  <2> QED
    BY <2>1, <2>2, BoundAssumption DEF Seqs
<1> QED
  BY <1>1, <1>2 DEF LogsOK, RowsReach, OnlyHubsRelay, Position

-----------------------------------------------------------------------------
(* Open pushes                                                             *)

\* A step after which every open push was open before, on the same cursor.
LEMMA RelaysFrame ==
    ASSUME RelaysOK,
           \A r \in Nodes : wtxn'[r].open => /\ wtxn'[r] = wtxn[r]
                                             /\ applied'[r] = applied[r]
    PROVE  RelaysOK'
<1> SUFFICES ASSUME NEW r \in Nodes, wtxn'[r].open PROVE RelayOK(r, wtxn[r])'
  BY DEF RelaysOK
<1>1. wtxn'[r] = wtxn[r] /\ applied'[r] = applied[r] /\ RelayOK(r, wtxn[r])
  BY Zenon DEF RelaysOK
<1> QED
  BY <1>1 DEF RelayOK

\* apply_batch_ex applies the next sequence, and a hub notes it.
LEMMA ApplyBatchRelays ==
    ASSUME IInv, RelaysOK, NEW r \in Nodes, ApplyBatch(r)
    PROVE  RelaysOK'
<1> DEFINE t == wtxn[r]
           id == FirstOf(t.rest)
           u == wtxn'[r]
<1>0. TypeOK /\ t.open /\ t.rest # {} /\ t \in Txn /\ TxnOK(r, t) /\ RelayOK(r, t)
  BY OpenTxn DEF ApplyBatch, IInv, TxnsOK, RelaysOK
<1>1. /\ UNCHANGED applied
      /\ \A n \in Nodes \ {r} : wtxn'[n] = wtxn[n]
  BY <1>0 DEF ApplyBatch, TypeOK
<1>2. id \in Ids /\ id[1] \in Nodes /\ id[2] \in Nat /\ id = <<id[1], id[2]>>
  <2>1. t.rest \in SUBSET Ids
    BY Zenon, <1>0 DEF Txn
  <2>2. id \in Ids
    BY <1>0, <2>1, FirstOfMember, Zenon
  <2> QED
    BY <2>2, BoundAssumption DEF Ids, Seqs
<1>3. RelayOK(r, u)
  <2> DEFINE skip == [t EXCEPT !.rest = @ \ {id}]
  <2>1. CASE Skipped(r, t, id)
    <3>1. u = skip
      BY <1>0, <2>1 DEF ApplyBatch, TypeOK
    <3>2. u.relayed = t.relayed /\ u.applied = t.applied
      BY <1>0, <3>1 DEF Txn
    <3> QED
      BY <1>0, <3>2 DEF RelayOK
  <2>2. CASE ~Skipped(r, t, id)
    <3>1. id[1] # r /\ id[2] = t.applied[id[1]] + 1
      BY <2>2 DEF ApplyBatch, Conflict, SequenceGap, Skipped
    <3>2. u = [skip EXCEPT !.data[id[1]] = Override(@, batch[id[1]][id[2]]),
                           !.applied[id[1]] = id[2],
                           !.mode = "full",
                           !.relayed = IF r \in Hubs THEN @ \cup {id} ELSE @]
      BY <1>0, <2>2 DEF ApplyBatch, TypeOK
    <3>3. t.applied \in Cursor /\ applied[r] \in Cursor
      BY <1>0 DEF Txn, TypeOK
    <3>4. /\ u.relayed = IF r \in Hubs THEN t.relayed \cup {id} ELSE t.relayed
          /\ u.applied = [t.applied EXCEPT ![id[1]] = id[2]]
      BY <1>0, <3>2 DEF Txn
    <3>5. /\ u.relayed = IF r \in Hubs THEN t.relayed \cup {id} ELSE t.relayed
          /\ \A o \in Nodes : u.applied[o] = IF o = id[1] THEN id[2] ELSE t.applied[o]
      BY SMTT(40), <1>2, <3>3, <3>4 DEF Cursor
    <3>6. /\ \A o \in Nodes : t.applied[o] \in Nat /\ applied[r][o] \in Nat
          /\ applied[r][id[1]] <= t.applied[id[1]]
      <4>1. applied[r][id[1]] <= t.applied[id[1]]
        BY SMTT(40), <1>0, <1>2, <3>1 DEF TxnOK
      <4> QED
        BY SMTT(40), <3>3, <4>1, BoundAssumption DEF Cursor
    <3>7. \A row \in u.relayed : row[2] > applied[r][row[1]]
      <4> SUFFICES ASSUME NEW row \in u.relayed PROVE row[2] > applied[r][row[1]]
        OBVIOUS
      <4>1. CASE row \in t.relayed
        BY <1>0, <4>1, Zenon DEF RelayOK
      <4>2. CASE row = id
        <5>1. id[2] > applied[r][id[1]]
          BY <1>2, <3>1, <3>6
        <5> QED
          BY SMTT(40), <4>2, <5>1
      <4> QED
        BY <3>5, <4>1, <4>2, Zenon
    <3>8. ASSUME r \in Hubs, NEW o \in Nodes \ {r}, NEW p \in Seqs,
                 applied[r][o] < p, p <= u.applied[o]
          PROVE  <<o, p>> \in u.relayed
      <4>1. CASE o = id[1] /\ p = id[2]
        BY <1>2, <3>5, <3>8, <4>1
      <4>2. CASE p <= t.applied[o]
        BY <1>0, <3>5, <3>8, <4>2 DEF RelayOK
      <4> QED
        <5>1. p \in Nat /\ t.applied[o] \in Nat
          BY SMTT(40), <3>6, BoundAssumption DEF Seqs
        <5>2. CASE o = id[1]
          <6>1. p <= t.applied[o] + 1
            BY <3>1, <3>5, <3>8, <5>2
          <6> QED
            BY SMTT(40), <3>1, <4>1, <4>2, <5>1, <5>2, <6>1
        <5>3. CASE o # id[1]
          BY SMTT(40), <3>5, <3>8, <4>2, <5>3
        <5> QED
          BY <5>2, <5>3
    <3> QED
      BY SMTT(40), <1>0, <3>5, <3>7, <3>8 DEF RelayOK
  <2> QED
    BY <2>1, <2>2
<1> QED
  BY <1>1, <1>3 DEF RelaysOK, RelayOK

-----------------------------------------------------------------------------
(* Pages                                                                   *)

\* Exchanges are kept or replaced by sound ones, and cursors do not move back.
LEMMA PagesFrame ==
    ASSUME TypeOK, TypeOK', PagesOK,
           \A n, o \in Nodes : applied'[n][o] >= applied[n][o],
           \A r, s \in Nodes : chan'[r][s] = chan[r][s] \/ PageOK(r, chan'[r][s])
    PROVE  PagesOK'
<1> SUFFICES ASSUME NEW r \in Nodes, NEW s \in Nodes PROVE PageOK(r, chan[r][s])'
  BY DEF PagesOK
<1> DEFINE e == chan'[r][s]
<1>1. PageOK(r, e)
  BY Zenon DEF PagesOK
<1>2. e \in Exchange /\ \A o \in Nodes : applied[r][o] \in Nat /\ applied'[r][o] \in Nat
  BY BoundAssumption DEF TypeOK, Cursor
<1>3. e.kind = "asked" => e.have \in Cursor
  BY <1>2 DEF Exchange, Idle
<1>4. e.kind = "page" => e.ids \in SUBSET Ids
  BY SMTT(40), <1>2, ExchangeKinds
<1>5. e.kind = "asked" => \A o \in Nodes : e.have[o] <= applied'[r][o]
  BY <1>1, <1>2, <1>3, BoundAssumption DEF PageOK, Cursor
<1>6. ASSUME e.kind = "page", NEW id \in e.ids
      PROVE  \/ id[1] = r \/ id[2] <= applied'[r][id[1]] + 1
             \/ <<id[1], id[2] - 1>> \in e.ids
  <2>1. id[1] \in Nodes /\ id[2] \in Nat
    BY <1>4, <1>6, BoundAssumption DEF Ids, Seqs
  <2> QED
    BY <1>1, <1>2, <1>6, <2>1 DEF PageOK
<1> QED
  BY <1>5, <1>6 DEF PageOK

\* Min, which finds the earliest retained row, is the least element.
LEMMA MinOfRetained ==
    ASSUME NEW log, NEW o, Retained(log, o) # {}
    PROVE  Min(Retained(log, o)) \in Retained(log, o)
<1>1. Retained(log, o) \in SUBSET Nat
  BY BoundAssumption DEF Retained, Seqs
<1> QED
  BY <1>1, LeastElement, Zenon DEF Min

\* pull_changelog_page starts at have + 1 and cuts between rows only.
LEMMA PageHasNoGap ==
    ASSUME IInv, LogsOK, NEW s \in Nodes, NEW have \in Cursor,
           ~SnapshotRequired(s, have), NEW page \in Pages(s, have), NEW id \in page
    PROVE  id[2] <= have[id[1]] + 1 \/ <<id[1], id[2] - 1>> \in page
<1> DEFINE o == id[1]
           rows == Retained(changelog[s], o)
<1>1. PICK last \in Available(s, have) :
        page = {row \in Available(s, have) : row = last \/ Before(row, last)}
  BY DEF Pages
<1>2. /\ id \in changelog[s] /\ o \in KnownOrigins(s) /\ ~AtTail(s, o, have)
      /\ id \in Available(s, have)
  BY <1>1 DEF Available
<1>3. o \in Nodes /\ id[2] \in Seqs /\ id = <<o, id[2]>> /\ last \in Ids
  BY <1>1, <1>2 DEF IInv, TypeOK, Ids, Available
<1>4. have[o] \in Nat /\ id[2] \in Nat /\ last[2] \in Nat /\ MaxSeq \in Nat
  BY <1>3, BoundAssumption DEF Cursor, Seqs, Ids
<1> SUFFICES ASSUME id[2] > have[o] + 1 PROVE <<o, id[2] - 1>> \in page
  BY <1>4
<1>5. id[2] \in rows /\ rows \subseteq Seqs
  BY <1>2, <1>3 DEF Retained
<1>6. have[o] + 1 >= Min(rows)
  BY <1>2, <1>5 DEF SnapshotRequired, HasRetainedStart
<1>7. Min(rows) \in Seqs /\ <<o, Min(rows)>> \in changelog[s]
  BY <1>5, MinOfRetained DEF Retained
<1>8. id[2] <= Position(s, o)
  BY <1>2 DEF IInv, ReplicasOK, RowsOK
<1>9. /\ id[2] - 1 \in Seqs /\ Min(rows) <= id[2] - 1 /\ id[2] - 1 <= Position(s, o)
      /\ id[2] - 1 > have[o]
  <2>1. Position(s, o) \in Nat /\ Min(rows) \in Nat
    BY SMTT(40), <1>3, <1>4, <1>7 DEF IInv, TypeOK, Position, Cursor, Seqs
  <2> QED
    BY <1>3, <1>4, <1>6, <1>8, <2>1 DEF Seqs
<1>10. <<o, id[2] - 1>> \in Available(s, have)
  BY <1>2, <1>3, <1>7, <1>9 DEF LogsOK, RowsReach, Available
<1>11. Before(<<o, id[2] - 1>>, last)
  <2>1. CASE id = last
    BY <1>4, <2>1 DEF Before
  <2>2. CASE Before(id, last)
    BY <1>4, <2>2 DEF Before
  <2> QED
    BY <1>1, <2>1, <2>2
<1> QED
  BY <1>1, <1>10, <1>11

\* handle_pull answers with such a page, or with nothing to apply.
LEMMA HandlePullPages ==
    ASSUME LogInv, NEW r \in Nodes, NEW s \in Nodes, HandlePull(r, s)
    PROVE  \A a, b \in Nodes : chan'[a][b] = chan[a][b] \/ PageOK(a, chan'[a][b])
<1> DEFINE have == chan[r][s].have
<1>0. chan \in [Nodes -> [Nodes -> Exchange]] /\ chan[r][s].kind = "asked" /\ PagesOK
  BY DEF LogInv, IInv, TypeOK, HandlePull
<1>1. chan[r][s] \in Exchange
  BY <1>0
<1>2. have \in Cursor
  BY <1>0, <1>1 DEF Exchange, Idle
<1>3. \A o \in Nodes : have[o] <= applied[r][o]
  BY <1>0 DEF PagesOK, PageOK
<1>4. \E e : chan' = [chan EXCEPT ![r][s] = e] /\ PageOK(r, e)
  <2>1. PageOK(r, Idle) /\ PageOK(r, [kind |-> "refused"])
    BY DEF PageOK, Idle
  <2>2. ASSUME ~SnapshotRequired(s, have), NEW page \in Pages(s, have)
        PROVE  PageOK(r, [kind |-> "page", ids |-> page])
    <3> SUFFICES ASSUME NEW id \in page
                 PROVE  id[2] <= applied[r][id[1]] + 1 \/ <<id[1], id[2] - 1>> \in page
      BY SMTT(40) DEF PageOK
    <3>1. id[1] \in Nodes /\ id[2] \in Nat
      BY BoundAssumption DEF Pages, Available, LogInv, IInv, TypeOK, Ids, Seqs
    <3>2. id[2] <= have[id[1]] + 1 \/ <<id[1], id[2] - 1>> \in page
      BY <1>2, <2>2, PageHasNoGap DEF LogInv
    <3>3. have[id[1]] \in Nat /\ applied[r][id[1]] \in Nat /\ have[id[1]] <= applied[r][id[1]]
      <4>1. applied[r] \in Cursor
        BY DEF LogInv, IInv, TypeOK
      <4> QED
        BY <1>2, <1>3, <3>1, <4>1, BoundAssumption DEF Cursor
    <3> QED
      BY <3>1, <3>2, <3>3
  <2> QED
    BY <2>1, <2>2 DEF HandlePull
<1>5. PICK e : chan' = [chan EXCEPT ![r][s] = e] /\ PageOK(r, e)
  BY Zenon, <1>4
<1> QED
  BY SMTT(40), <1>0, <1>5

-----------------------------------------------------------------------------
(* All steps, and the theorems                                             *)

\* Every step preserves the invariant.
LEMMA NextLogs == ~LoseTails /\ LogInv /\ [Next]_vars => LogInv'
<1> SUFFICES ASSUME ~LoseTails, LogInv, [Next]_vars PROVE LogInv'
  OBVIOUS
<1>0. IInv /\ IInv' /\ TypeOK /\ TypeOK' /\ LogsOK /\ RelaysOK /\ PagesOK
  BY NextInv DEF LogInv, IInv
<1>1. \A n, o \in Nodes : applied'[n][o] >= applied[n][o]
  BY <1>0, CursorsForward
<1> DEFINE Exchanged ==
             \A r, s \in Nodes : chan'[r][s] = chan[r][s] \/ PageOK(r, chan'[r][s])
           OpenKept ==
             \A r \in Nodes : wtxn'[r].open => /\ wtxn'[r] = wtxn[r]
                                               /\ applied'[r] = applied[r]
           Goal == LogsOK' /\ RelaysOK' /\ Exchanged
<1> SUFFICES Goal
  BY <1>0, <1>1, PagesFrame DEF LogInv
<1>a. ASSUME NEW r \in Nodes, NEW s \in Nodes, NEW e, PageOK(r, e),
             chan' = [chan EXCEPT ![r][s] = e]
      PROVE  Exchanged
  BY <1>0, <1>a DEF TypeOK
<1>b. \A r : PageOK(r, Idle)
  BY DEF PageOK, Idle
<1>c. ASSUME NEW r \in Nodes, wtxn[r].open, Answered(r) PROVE Exchanged
  <2>1. wtxn[r].src \in Nodes
    BY ZenonT(40), <1>0, <1>c, OpenTxn DEF Txn
  <2> QED
    BY Zenon, <1>a, <1>b, <1>c, <2>1 DEF Answered
<1>d. ASSUME NEW r \in Nodes, wtxn' = [wtxn EXCEPT ![r] = NoTxn],
             \A n \in Nodes \ {r} : applied'[n] = applied[n]
      PROVE  RelaysOK'
  <2>1. OpenKept
    BY <1>0, <1>d DEF TypeOK, NoTxn
  <2> QED
    BY SMTT(40), <1>0, <2>1, RelaysFrame
<1>e. ASSUME UNCHANGED <<wtxn, applied>> PROVE RelaysOK'
  BY SMTT(40), <1>0, <1>e, RelaysFrame
<1>2. ASSUME NEW n \in Nodes, LocalCommit(n) PROVE Goal
  BY Zenon, <1>0, <1>2, <1>e, LocalCommitLogs DEF LocalCommit
<1>3. ASSUME NEW n \in Nodes, RebuildOriginIndex(n) \/ ClaimSelective(n) PROVE Goal
  BY SMTT(40), <1>0, <1>3, <1>e, LogsFrame DEF RebuildOriginIndex, ClaimSelective
<1>4. ASSUME NEW n \in Nodes, NEW o \in Nodes, NEW q \in Seqs, PruneUpTo(n, o, q)
      PROVE  Goal
  BY <1>0, <1>4, <1>e, PruneLogs DEF PruneUpTo
<1>5. ASSUME NEW r \in Nodes, NEW s \in Nodes, RequestPull(r, s) PROVE Goal
  <2>1. PageOK(r, [kind |-> "asked", have |-> applied[r]])
    BY SMTT(40), <1>0, BoundAssumption DEF PageOK, TypeOK, Cursor
  <2> QED
    BY SMTT(40), <1>0, <1>5, <1>a, <1>e, <2>1, LogsFrame DEF RequestPull
<1>6. ASSUME NEW r \in Nodes, NEW s \in Nodes, HandlePull(r, s) PROVE Goal
  <2>1. Exchanged
    BY <1>6, HandlePullPages
  <2> QED
    BY <1>0, <1>6, <1>e, <2>1, LogsFrame DEF HandlePull
<1>7. ASSUME NEW r \in Nodes, NEW s \in Nodes, NEW from \in Seqs, NEW to \in Seqs,
             MakePushRequest(r, s, from, to)
      PROVE  Goal
  <2>1. PageOK(r, [kind |-> "push", ids |-> {<<s, q>> : q \in from..to}])
    BY DEF PageOK
  <2> QED
    BY Zenon, <1>0, <1>7, <1>a, <1>e, <2>1, LogsFrame DEF MakePushRequest
<1>8. ASSUME NEW r \in Nodes, NEW s \in Nodes, LoseExchange(r, s) PROVE Goal
  BY SMTT(40), <1>0, <1>8, <1>a, <1>b, <1>e, LogsFrame DEF LoseExchange
<1>9. ASSUME NEW r \in Nodes, NEW s \in Nodes, BeginApply(r, s) PROVE Goal
  <2>1. /\ UNCHANGED <<changelog, localSeq, applied, chan>>
        /\ wtxn'[r].relayed = {} /\ wtxn'[r].applied = applied[r]
        /\ \A n \in Nodes \ {r} : wtxn'[n] = wtxn[n]
    BY SMTT(40), <1>0, <1>9 DEF BeginApply, TypeOK
  <2>2. \A o \in Nodes : applied[r][o] \in Nat
    BY SMTT(40), <1>0, BoundAssumption DEF TypeOK, Cursor
  <2>3. RelayOK(r, wtxn'[r])
    BY SMTT(40), <2>1, <2>2, BoundAssumption DEF RelayOK, Seqs
  <2>4. RelaysOK'
    BY SMTT(40), <1>0, <2>1, <2>3 DEF RelaysOK, RelayOK
  <2> QED
    BY SMTT(40), <1>0, <2>1, <2>4, LogsFrame
<1>10. ASSUME NEW r \in Nodes, ApplyBatch(r) PROVE Goal
  BY ZenonT(40), <1>0, <1>10, ApplyBatchRelays, LogsFrame DEF ApplyBatch
<1>11. ASSUME NEW r \in Nodes, RollbackApply(r) PROVE Goal
  BY Zenon, <1>0, <1>11, <1>c, <1>d, LogsFrame DEF RollbackApply
<1>12. ASSUME NEW r \in Nodes, CommitApply(r) PROVE Goal
  <2>1. /\ wtxn[r].open /\ Answered(r) /\ wtxn' = [wtxn EXCEPT ![r] = NoTxn]
        /\ \A n \in Nodes \ {r} : applied'[n] = applied[n]
    BY <1>0, <1>12 DEF CommitApply, SaveCursor, TypeOK
  <2> QED
    BY ZenonT(40), <1>0, <1>12, <1>c, <1>d, <2>1, CommitLogs
<1>13. ASSUME NEW n \in Nodes, Crash(n) PROVE Goal
  <2>1. \A r, s \in Nodes : chan'[r][s] = Idle \/ chan'[r][s] = chan[r][s]
    BY <1>0, <1>13 DEF Crash, TypeOK
  <2>2. Exchanged
    BY <1>b, <2>1, Zenon
  <2> QED
    BY ZenonT(40), <1>0, <1>13, <1>d, <2>2, LogsFrame DEF Crash
<1>14. ASSUME NEW r \in Nodes, NEW s \in Nodes, MaterializeSnapshot(r, s) PROVE Goal
  <2>1. PageOK(r, [kind |-> "snap", data |-> data[s], tail |-> SourceTail(s)])
    BY SMTT(40) DEF PageOK
  <2> QED
    BY SMTT(40), <1>0, <1>14, <1>a, <1>e, <2>1, LogsFrame DEF MaterializeSnapshot
<1>15. ASSUME NEW r \in Nodes, NEW s \in Nodes, ImportSnapshot(r, s) PROVE Goal
  <2>1. OpenKept
    BY <1>0, <1>15 DEF ImportSnapshot, TypeOK
  <2>2. Exchanged
    BY <1>15, <1>a, <1>b DEF ImportSnapshot
  <2> QED
    BY SMTT(40), <1>0, <1>15, <2>1, <2>2, ImportLogs, RelaysFrame
<1>16. CASE UNCHANGED vars
  BY <1>0, <1>16, <1>e, LogsFrame DEF vars
<1> QED
  BY ZenonT(40), <1>2, <1>3, <1>4, <1>5, <1>6, <1>7, <1>8, <1>9, <1>10, <1>11, <1>12, <1>13,
     <1>14, <1>15, <1>16 DEF Next

\* The initial state satisfies it.
LEMMA InitLogs == Init => LogInv
<1> SUFFICES ASSUME Init PROVE LogInv
  OBVIOUS
<1>1. LogsOK
  BY DEF Init, LogsOK, RowsReach, OnlyHubsRelay
<1>2. RelaysOK
  BY DEF Init, RelaysOK, NoTxn
<1>3. PagesOK
  BY DEF Init, PagesOK, PageOK, Idle
<1> QED
  BY <1>1, <1>2, <1>3, InitInv DEF LogInv

\* handle_push never meets a gap in a page that handle_pull answered, however
\* stale the cursor it was answered for, through any chain of relaying hubs.
THEOREM PagesAlwaysApply ==
    ASSUME ~LoseTails
    PROVE  Spec => []PullPagesApply
<1>1. Init => LogInv
  BY InitLogs
<1>2. LogInv /\ [Next]_vars => LogInv'
  BY NextLogs
<1>3. LogInv => PullPagesApply
  BY Zenon DEF LogInv, PagesOK, PageOK, PullPagesApply
<1> QED
  BY <1>1, <1>2, <1>3, PTL DEF Spec

\* When the source has pruned the row a receiver needs next, handle_pull asks
\* for a snapshot instead of answering with later history.
THEOREM PrunedAlwaysReported ==
    ASSUME ~LoseTails
    PROVE  Spec => []PrunedHistoryReported
<1>1. Init => LogInv
  BY InitLogs
<1>2. LogInv /\ [Next]_vars => LogInv'
  BY NextLogs
<1>3. LogInv => PrunedHistoryReported
  <2> SUFFICES ASSUME LogInv, NEW r \in Nodes, NEW s \in Nodes, <<r, s>> \in Peers,
                      applied[r][s] < localSeq[s],
                      <<s, applied[r][s] + 1>> \notin changelog[s]
               PROVE  SnapshotRequired(s, applied[r])
    BY TopologyAssumption DEF PrunedHistoryReported
  <2> DEFINE next == applied[r][s] + 1
             rows == Retained(changelog[s], s)
  <2>1. applied[r][s] \in Nat /\ localSeq[s] \in 0..MaxSeq /\ MaxSeq \in Nat
    BY BoundAssumption DEF LogInv, IInv, TypeOK, Cursor
  <2>2. origins[s][s] = localSeq[s]
    BY DEF LogInv, IInv, ReplicasOK, IndexOK
  <2>3. Indexed(s) /\ s \in KnownOrigins(s) /\ ~AtTail(s, s, applied[r])
    BY SMTT(40), <2>1, <2>2 DEF Indexed, KnownOrigins, AtTail
  <2>4. ASSUME rows # {} PROVE ~(next >= Min(rows))
    <3>1. Min(rows) \in Seqs /\ <<s, Min(rows)>> \in changelog[s]
      BY Zenon, <2>4, MinOfRetained DEF Retained
    <3>2. next \in Seqs /\ next <= Position(s, s)
      BY <2>1 DEF Seqs, Position
    <3> QED
      BY <3>1, <3>2 DEF LogInv, LogsOK, RowsReach
  <2> QED
    BY SMTT(40), <2>3, <2>4 DEF SnapshotRequired, HasRetainedStart
<1> QED
  BY <1>1, <1>2, <1>3, PTL DEF Spec
=============================================================================
