---------------------- MODULE RawReplicationInvariant ----------------------
(***************************************************************************)
(* The inductive invariant behind PrefixConsistent, and the steps that     *)
(* commit, maintain the changelog and fill an exchange.                    *)
(***************************************************************************)
EXTENDS RawReplicationTypes

-----------------------------------------------------------------------------
(* The inductive invariant behind PrefixConsistent                         *)

\* committed is the history its batches produce.
HistoryOK ==
    \A o \in Nodes : \A q \in 1..localSeq[o] :
        committed[o][q] = Override(committed[o][q - 1], batch[o][q])

\* A node never applies its own origin.
OwnCursorZero == \A n \in Nodes : applied[n][n] = 0

\* Neither the index nor a retained row runs ahead of the node's own copy, and
\* a writer's index entry for itself is its local sequence.
IndexOK ==
    \A n, o \in Nodes : /\ origins[n][o] <= Position(n, o)
                        /\ n = o => origins[n][o] = localSeq[o]
RowsOK == \A n \in Nodes : \A id \in changelog[n] : id[2] <= Position(n, id[1])

ReplicasOK == PrefixConsistent /\ HistoryOK /\ OwnCursorZero /\ IndexOK /\ RowsOK

\* Exchanges carry batches that were committed, and snapshots carry tables
\* that agree with their tail.
RowsCommitted(ids) == \A id \in ids : id[2] <= localSeq[id[1]]
CopyOK(tables, cursor, o) == /\ cursor[o] <= localSeq[o]
                             /\ tables[o] = committed[o][cursor[o]]
ExchangeOK(e) ==
    /\ e.kind \in {"page", "push"} => RowsCommitted(e.ids)
    /\ e.kind = "snap" => \A o \in Nodes : CopyOK(e.data, e.tail, o)
ExchangesOK == \A r, s \in Nodes : ExchangeOK(chan[r][s])

\* The working state of a push is itself a consistent copy, ahead of the
\* committed one, and relays only what it applied.
TxnOK(r, t) ==
    /\ t.data[r] = data[r][r] /\ t.applied[r] = 0
    /\ RowsCommitted(t.rest)
    /\ \A id \in t.relayed : id[1] # r /\ id[2] <= t.applied[id[1]]
    /\ \A o \in Nodes \ {r} : /\ applied[r][o] <= t.applied[o]
                              /\ CopyOK(t.data, t.applied, o)
TxnsOK == \A r \in Nodes : wtxn[r].open => TxnOK(r, wtxn[r])

IInv == TypeOK /\ ReplicasOK /\ ExchangesOK /\ TxnsOK

\* A step that leaves the durable state alone keeps the replicas consistent.
LEMMA ReplicasFrame ==
    ReplicasOK /\ UNCHANGED <<localSeq, batch, committed, data, changelog, origins, applied>>
      => ReplicasOK'
  BY DEF ReplicasOK, PrefixConsistent, HistoryOK, OwnCursorZero, IndexOK, RowsOK, Position

\* A step that replaces one exchange by a sound one keeps all of them sound.
LEMMA ExchangesFrame ==
    ASSUME TypeOK, ExchangesOK, UNCHANGED <<localSeq, committed>>,
           NEW r \in Nodes, NEW s \in Nodes, NEW e, ExchangeOK(e),
           chan' = [chan EXCEPT ![r][s] = e]
    PROVE  ExchangesOK'
<1> SUFFICES ASSUME NEW a \in Nodes, NEW b \in Nodes PROVE ExchangeOK(chan[a][b])'
  BY DEF ExchangesOK
<1>1. chan'[a][b] = e \/ chan'[a][b] = chan[a][b]
  BY DEF TypeOK
<1>2. ExchangeOK(chan'[a][b])
  BY <1>1, Zenon DEF ExchangesOK
<1> QED
  BY <1>2 DEF ExchangeOK, RowsCommitted, CopyOK

\* So does a step that leaves the exchanges alone.
LEMMA ExchangesKept ==
    ExchangesOK /\ UNCHANGED <<localSeq, committed, chan>> => ExchangesOK'
  BY DEF ExchangesOK, ExchangeOK, RowsCommitted, CopyOK

\* An open push sees no change when the durable state does not change.
LEMMA TxnsFrame ==
    TxnsOK /\ UNCHANGED <<localSeq, committed, data, applied, wtxn>> => TxnsOK'
  BY DEF TxnsOK, TxnOK, RowsCommitted, CopyOK

\* The exchange that carries nothing is sound.
LEMMA IdleOK == ExchangeOK(Idle)
  BY DEF ExchangeOK, Idle

\* The initial state is consistent.
LEMMA InitInv == Init => IInv
<1> SUFFICES ASSUME Init PROVE IInv
  OBVIOUS
<1>1. ReplicasOK
  <2>1. MaxSeq \in Nat
    BY BoundAssumption
  <2>2. PrefixConsistent
    BY <2>1 DEF Init, PrefixConsistent, Position
  <2>3. HistoryOK /\ OwnCursorZero
    BY DEF Init, HistoryOK, OwnCursorZero
  <2>4. IndexOK /\ RowsOK
    BY DEF Init, IndexOK, RowsOK, Position
  <2> QED
    BY <2>2, <2>3, <2>4 DEF ReplicasOK
<1>2. ExchangesOK
  BY IdleOK DEF Init, ExchangesOK
<1>3. TxnsOK
  BY DEF Init, TxnsOK, NoTxn
<1> QED
  BY <1>1, <1>2, <1>3, InitType DEF IInv

\* A local commit appends to the history of its node and to nothing else.
LEMMA LocalCommitInv ==
    ASSUME IInv, NEW n \in Nodes, LocalCommit(n)
    PROVE  ReplicasOK' /\ ExchangesOK' /\ TxnsOK'
<1>0. MaxSeq \in Nat /\ TypeOK /\ ReplicasOK /\ ExchangesOK /\ TxnsOK
  BY BoundAssumption DEF IInv
<1> DEFINE q == localSeq[n] + 1
<1>1. PICK b \in Batches :
        /\ localSeq' = [localSeq EXCEPT ![n] = q]
        /\ batch' = [batch EXCEPT ![n][q] = b]
        /\ committed' = [committed EXCEPT ![n][q] = Override(data[n][n], b)]
        /\ data' = [data EXCEPT ![n][n] = Override(data[n][n], b)]
        /\ changelog' = [changelog EXCEPT ![n] = @ \cup {<<n, q>>}]
        /\ origins' = [origins EXCEPT ![n] = NoteOrigin(@, n, q)]
  BY Zenon DEF LocalCommit
<1>2. UNCHANGED <<applied, wtxn, chan>> /\ ~wtxn[n].open
  BY DEF LocalCommit
<1>3. q \in Seqs /\ q \in 0..MaxSeq /\ localSeq[n] \in Nat
  BY <1>0 DEF LocalCommit, TypeOK, Seqs
<1>4. \A o \in Nodes : /\ localSeq[o] \in Nat /\ localSeq'[o] \in Nat
                       /\ localSeq[o] <= localSeq'[o]
                       /\ o # n => localSeq'[o] = localSeq[o]
                       /\ o = n => localSeq'[o] = q
  BY <1>0, <1>1, <1>3 DEF TypeOK
<1>5. \A o \in Nodes : \A p \in 0..localSeq[o] : committed'[o][p] = committed[o][p]
  BY <1>0, <1>1, <1>3, <1>4 DEF TypeOK
<1>6. committed'[n][q] = Override(data[n][n], b) /\ batch'[n][q] = b
  BY <1>0, <1>1, <1>3 DEF TypeOK
<1>7. PrefixConsistent'
  <2> SUFFICES ASSUME NEW m \in Nodes, NEW o \in Nodes
               PROVE  (Position(m, o) <= localSeq[o] /\ data[m][o] = committed[o][Position(m, o)])'
    BY DEF PrefixConsistent
  <2>1. CASE m = n /\ o = n
    BY <1>0, <1>1, <1>4, <1>6, <2>1 DEF Position, TypeOK
  <2>2. CASE ~(m = n /\ o = n)
    <3>1. data'[m][o] = data[m][o]
      BY <1>0, <1>1, <2>2 DEF TypeOK
    <3>2. Position(m, o)' = Position(m, o)
      BY <1>2, <1>4, <2>2 DEF Position
    <3>3. Position(m, o) \in 0..localSeq[o]
      BY <1>0, <1>4 DEF ReplicasOK, PrefixConsistent, Position, TypeOK, Cursor
    <3> QED
      BY <1>0, <1>4, <1>5, <3>1, <3>2, <3>3 DEF ReplicasOK, PrefixConsistent
  <2> QED
    BY <2>1, <2>2
<1>8. HistoryOK'
  <2> SUFFICES ASSUME NEW o \in Nodes, NEW p \in 1..localSeq'[o]
               PROVE  committed'[o][p] = Override(committed'[o][p - 1], batch'[o][p])
    BY DEF HistoryOK
  <2>1. CASE o = n /\ p = q
    <3>1. committed'[n][q - 1] = data[n][n]
      BY <1>0, <1>3, <1>4, <1>5 DEF ReplicasOK, PrefixConsistent, Position
    <3> QED
      BY <1>6, <2>1, <3>1
  <2>2. CASE ~(o = n /\ p = q)
    <3>1. p \in 1..localSeq[o] /\ p - 1 \in 0..localSeq[o] /\ p \in 0..localSeq[o]
      BY <1>4, <2>2
    <3>2. batch'[o][p] = batch[o][p]
      BY <1>0, <1>1, <2>2, <3>1 DEF TypeOK
    <3> QED
      BY <1>0, <1>5, <3>1, <3>2 DEF ReplicasOK, HistoryOK
  <2> QED
    BY <2>1, <2>2
<1>9. OwnCursorZero'
  BY <1>0, <1>2 DEF ReplicasOK, OwnCursorZero
<1>10. IndexOK'
  <2> SUFFICES ASSUME NEW m \in Nodes, NEW o \in Nodes
               PROVE  (origins[m][o] <= Position(m, o) /\ (m = o => origins[m][o] = localSeq[o]))'
    BY DEF IndexOK
  <2>1. origins'[m][o] = IF m = n /\ o = n THEN q ELSE origins[m][o]
    <3>1. origins[n] \in Cursor /\ origins[n][n] = localSeq[n]
      BY <1>0 DEF TypeOK, ReplicasOK, IndexOK
    <3>2. NoteOrigin(origins[n], n, q) = [origins[n] EXCEPT ![n] = q]
      BY <1>3, <3>1 DEF NoteOrigin
    <3>3. origins' = [origins EXCEPT ![n] = [origins[n] EXCEPT ![n] = q]]
      BY <1>0, <1>1, <3>2, Zenon DEF TypeOK
    <3> QED
      BY <1>0, <3>1, <3>3, Zenon DEF TypeOK, Cursor
  <2>2. ~(m = n /\ o = n) => Position(m, o)' = Position(m, o)
    BY <1>2, <1>4 DEF Position
  <2> QED
    BY <1>0, <1>4, <2>1, <2>2 DEF ReplicasOK, IndexOK, Position
<1>11. RowsOK'
  <2> SUFFICES ASSUME NEW m \in Nodes, NEW id \in changelog'[m]
               PROVE  id[2] <= Position(m, id[1])'
    BY DEF RowsOK
  <2>1. CASE m = n /\ id = <<n, q>>
    BY <1>4, <2>1 DEF Position
  <2>2. CASE id \in changelog[m]
    <3>1. id[1] \in Nodes /\ id[2] \in Nat
      BY <1>0, <2>2 DEF TypeOK, Ids, Seqs
    <3>2. id[2] <= Position(m, id[1])
      BY <1>0, <2>2 DEF ReplicasOK, RowsOK
    <3> QED
      BY <1>2, <1>4, <3>1, <3>2 DEF Position
  <2> QED
    BY <1>0, <1>1, <2>1, <2>2 DEF TypeOK
<1>12. \A ids \in SUBSET Ids : RowsCommitted(ids) => RowsCommitted(ids)'
  BY <1>4 DEF RowsCommitted, Ids, Seqs
<1>13. \A tables, cursor, o : /\ o \in Nodes /\ cursor[o] \in Nat
                              /\ CopyOK(tables, cursor, o)
                              => CopyOK(tables, cursor, o)'
  BY <1>4, <1>5 DEF CopyOK
<1>14. ExchangesOK'
  <2> SUFFICES ASSUME NEW r \in Nodes, NEW s \in Nodes PROVE ExchangeOK(chan[r][s])'
    BY DEF ExchangesOK
  <2> DEFINE e == chan[r][s]
  <2>1. e \in Exchange /\ ExchangeOK(e)
    BY <1>0 DEF TypeOK, ExchangesOK
  <2>2. e.kind \in {"page", "push"} => RowsCommitted(e.ids)'
    BY <2>1, <1>2, <1>12, ExchangeKinds DEF ExchangeOK
  <2>3. e.kind = "snap" => \A o \in Nodes : CopyOK(e.data, e.tail, o)'
    BY <2>1, <1>2, <1>13, ExchangeKinds DEF ExchangeOK, Cursor
  <2> QED
    BY <1>2, <2>2, <2>3 DEF ExchangeOK
<1>15. TxnsOK'
  <2> SUFFICES ASSUME NEW r \in Nodes, wtxn'[r].open PROVE TxnOK(r, wtxn[r])'
    BY DEF TxnsOK
  <2> DEFINE t == wtxn[r]
  <2>1. t.open /\ wtxn'[r] = t /\ r # n /\ t \in Txn /\ TxnOK(r, t)
    BY <1>0, <1>2, OpenTxn DEF TxnsOK
  <2>2. t.rest \in SUBSET Ids /\ \A o \in Nodes : t.applied[o] \in Nat
    <3>1. t.rest \in SUBSET Ids /\ t.applied \in Cursor
      BY <2>1, Zenon DEF Txn
    <3> QED
      BY <1>0, <3>1 DEF Cursor
  <2>3. data'[r][r] = data[r][r] /\ RowsCommitted(t.rest)'
    BY <1>0, <1>1, <1>12, <2>1, <2>2 DEF TypeOK, TxnOK
  <2>4. \A o \in Nodes \ {r} : CopyOK(t.data, t.applied, o)'
    BY <1>13, <2>1, <2>2 DEF TxnOK
  <2> QED
    BY <1>2, <2>1, <2>3, <2>4 DEF TxnOK
<1> QED
  BY <1>7, <1>8, <1>9, <1>10, <1>11, <1>14, <1>15 DEF ReplicasOK

\* Rebuilding the index without losing a tail keeps it exact for the node's own
\* history and behind the node's copies of the others.
LEMMA RebuildInv ==
    ASSUME IInv, ~LoseTails, NEW n \in Nodes, RebuildOriginIndex(n)
    PROVE  ReplicasOK'
<1>0. TypeOK /\ ReplicasOK /\ MaxSeq \in Nat
  BY BoundAssumption DEF IInv
<1>1. /\ \A o \in Nodes : TailIn(changelog[n], o) >= origins[n][o]
      /\ origins' = [origins EXCEPT ![n] = [o \in Nodes |-> TailIn(changelog[n], o)]]
      /\ UNCHANGED <<localSeq, batch, committed, data, changelog, applied>>
  BY DEF RebuildOriginIndex
<1>2. ASSUME NEW o \in Nodes PROVE TailIn(changelog[n], o) <= Position(n, o)
  <2>1. CASE Retained(changelog[n], o) = {}
    <3>1. TailIn(changelog[n], o) = 0
      BY <2>1, TailInRetained, Zenon
    <3>2. Position(n, o) \in 0..MaxSeq
      BY <1>0 DEF TypeOK, Position, Cursor
    <3> QED
      BY <3>1, <3>2
  <2>2. CASE Retained(changelog[n], o) # {}
    <3>1. <<o, TailIn(changelog[n], o)>> \in changelog[n]
      BY <2>2, TailInRetained, Zenon
    <3> QED
      BY <1>0, <3>1 DEF ReplicasOK, RowsOK
  <2> QED
    BY <2>1, <2>2
<1>3. ASSUME NEW o \in Nodes, n = o PROVE TailIn(changelog[n], o) = localSeq[o]
  <2>1. TailIn(changelog[n], o) \in Nat /\ localSeq[o] \in Nat
    <3>1. TailIn(changelog[n], o) \in 0..MaxSeq
      BY TailInRetained, Zenon
    <3> QED
      BY <1>0, <3>1 DEF TypeOK
  <2>2. TailIn(changelog[n], o) >= localSeq[o] /\ TailIn(changelog[n], o) <= localSeq[o]
    BY <1>0, <1>1, <1>2, <1>3 DEF ReplicasOK, IndexOK, Position
  <2> QED
    BY <2>1, <2>2
<1>4. IndexOK'
  <2> SUFFICES ASSUME NEW m \in Nodes, NEW o \in Nodes
               PROVE  origins'[m][o] <= Position(m, o) /\ (m = o => origins'[m][o] = localSeq[o])
    BY <1>1 DEF IndexOK, Position
  <2>1. origins'[m][o] = IF m = n THEN TailIn(changelog[n], o) ELSE origins[m][o]
    BY <1>0, <1>1 DEF TypeOK
  <2> QED
    BY <1>0, <1>2, <1>3, <2>1 DEF ReplicasOK, IndexOK
<1> QED
  BY <1>0, <1>1, <1>4 DEF ReplicasOK, PrefixConsistent, HistoryOK, OwnCursorZero, RowsOK, Position

\* The rows of a page and of a push were committed by their origins.
LEMMA RetainedCommitted ==
    ASSUME IInv, NEW s \in Nodes, NEW ids \in SUBSET changelog[s]
    PROVE  RowsCommitted(ids)
<1> SUFFICES ASSUME NEW id \in ids PROVE id[2] <= localSeq[id[1]]
  BY DEF RowsCommitted
<1>0. MaxSeq \in Nat
  BY BoundAssumption
<1>1. id[1] \in Nodes /\ id[2] \in Nat
  BY DEF IInv, TypeOK, Ids, Seqs
<1>2. id[2] <= Position(s, id[1]) /\ Position(s, id[1]) <= localSeq[id[1]]
  BY <1>1 DEF IInv, ReplicasOK, RowsOK, PrefixConsistent
<1>3. Position(s, id[1]) \in Nat /\ localSeq[id[1]] \in Nat
  BY <1>0, <1>1 DEF IInv, TypeOK, Position, Cursor
<1> QED
  BY <1>1, <1>2, <1>3

\* handle_pull answers with rows it retains.
LEMMA HandlePullInv ==
    ASSUME IInv, NEW r \in Nodes, NEW s \in Nodes, HandlePull(r, s)
    PROVE  ExchangesOK'
<1>1. \A page \in Pages(s, chan[r][s].have) : RowsCommitted(page)
  <2>1. \A page \in Pages(s, chan[r][s].have) : page \in SUBSET changelog[s]
    BY DEF Pages, Available
  <2> QED
    BY <2>1, RetainedCommitted
<1>2. \E e : ExchangeOK(e) /\ chan' = [chan EXCEPT ![r][s] = e]
  <2>1. ExchangeOK([kind |-> "refused"])
    BY DEF ExchangeOK
  <2>2. \A page \in Pages(s, chan[r][s].have) : ExchangeOK([kind |-> "page", ids |-> page])
    BY <1>1 DEF ExchangeOK
  <2> QED
    BY <2>1, <2>2, IdleOK DEF HandlePull
<1>3. TypeOK /\ ExchangesOK /\ UNCHANGED <<localSeq, committed>>
  BY DEF IInv, HandlePull
<1> QED
  BY <1>2, <1>3, ExchangesFrame, Zenon

\* make_push_request sends rows the sender retains.
LEMMA MakePushInv ==
    ASSUME IInv, NEW r \in Nodes, NEW s \in Nodes, NEW from \in Seqs, NEW to \in Seqs,
           MakePushRequest(r, s, from, to)
    PROVE  ExchangesOK'
<1> DEFINE ids == {<<s, q>> : q \in from..to}
<1>1. ids \in SUBSET changelog[s]
  BY DEF MakePushRequest
<1>2. ExchangeOK([kind |-> "push", ids |-> ids])
  BY <1>1, RetainedCommitted DEF ExchangeOK
<1>3. TypeOK /\ ExchangesOK /\ UNCHANGED <<localSeq, committed>>
  BY DEF IInv, MakePushRequest
<1>4. chan' = [chan EXCEPT ![r][s] = [kind |-> "push", ids |-> ids]]
  BY DEF MakePushRequest
<1> QED
  BY <1>2, <1>3, <1>4, ExchangesFrame, Zenon

\* A snapshot is the source's own consistent copy: its tail is the source's
\* position in every history.
LEMMA MaterializeInv ==
    ASSUME IInv, NEW r \in Nodes, NEW s \in Nodes, MaterializeSnapshot(r, s)
    PROVE  ExchangesOK'
<1>0. TypeOK /\ ReplicasOK /\ ExchangesOK /\ MaxSeq \in Nat
  BY BoundAssumption DEF IInv
<1> DEFINE e == [kind |-> "snap", data |-> data[s], tail |-> SourceTail(s)]
<1>1. ASSUME NEW o \in Nodes PROVE SourceTail(s)[o] = Position(s, o)
  <2>1. origins[s][o] \in Nat /\ applied[s][o] \in Nat /\ localSeq[o] \in Nat
    BY <1>0 DEF TypeOK, Cursor
  <2>2. origins[s][o] <= Position(s, o) /\ (s = o => origins[s][o] = localSeq[o])
    BY <1>0 DEF ReplicasOK, IndexOK
  <2>3. s = o => applied[s][o] = 0
    BY <1>0 DEF ReplicasOK, OwnCursorZero
  <2> QED
    BY <2>1, <2>2, <2>3 DEF SourceTail, Position
<1>2. \A o \in Nodes : CopyOK(data[s], SourceTail(s), o)
  BY <1>0, <1>1 DEF CopyOK, ReplicasOK, PrefixConsistent
<1>3. ExchangeOK(e)
  BY <1>2 DEF ExchangeOK
<1>4. chan' = [chan EXCEPT ![r][s] = e] /\ UNCHANGED <<localSeq, committed>>
  BY DEF MaterializeSnapshot
<1> HIDE DEF e
<1> QED
  BY <1>0, <1>3, <1>4, ExchangesFrame, Zenon

\* Pruning removes rows and leaves everything the cursors speak of.
LEMMA PruneInv ==
    ASSUME IInv, NEW n \in Nodes, NEW o \in Nodes, NEW q \in Seqs, PruneUpTo(n, o, q)
    PROVE  ReplicasOK'
<1>1. ReplicasOK /\ UNCHANGED <<localSeq, batch, committed, data, origins, applied>>
  BY DEF IInv, PruneUpTo
<1>2. \A m \in Nodes : changelog'[m] \subseteq changelog[m]
  BY DEF IInv, TypeOK, PruneUpTo
<1> QED
  BY <1>1, <1>2
     DEF ReplicasOK, PrefixConsistent, HistoryOK, OwnCursorZero, IndexOK, RowsOK, Position

\* Ending a push answers it, or leaves the exchange to be resent.
LEMMA AnsweredInv ==
    ASSUME IInv, NEW r \in Nodes, wtxn[r].open, Answered(r), UNCHANGED <<localSeq, committed>>
    PROVE  ExchangesOK'
<1>1. TypeOK /\ ExchangesOK /\ wtxn[r].src \in Nodes
  BY OpenTxn, Zenon DEF IInv, Txn
<1>2. CASE chan' = [chan EXCEPT ![r][wtxn[r].src] = Idle]
  BY <1>1, <1>2, IdleOK, ExchangesFrame, Zenon
<1>3. CASE chan' = chan
  BY <1>1, <1>3, ExchangesKept
<1> QED
  BY <1>2, <1>3 DEF Answered

\* A push that is given up leaves the other open pushes as they were.
LEMMA TxnEnds ==
    ASSUME IInv, NEW r \in Nodes, wtxn' = [wtxn EXCEPT ![r] = NoTxn],
           UNCHANGED <<localSeq, committed, data, applied>>
    PROVE  TxnsOK'
<1>1. \A n \in Nodes : wtxn'[n].open => wtxn[n].open /\ wtxn'[n] = wtxn[n]
  BY DEF IInv, TypeOK, NoTxn
<1> QED
  BY <1>1 DEF IInv, TxnsOK, TxnOK, RowsCommitted, CopyOK
=============================================================================
