------------------------ MODULE RawReplicationProofs ------------------------
(***************************************************************************)
(* For every set of nodes, topology, batch set and bound: every replica    *)
(* holds a prefix of every origin, and cursors move with data.             *)
(***************************************************************************)
EXTENDS RawReplicationInvariant

-----------------------------------------------------------------------------
(* The steps that apply an exchange                                        *)

\* A push is begun on the receiver's committed, consistent state.
LEMMA BeginApplyInv ==
    ASSUME IInv, NEW r \in Nodes, NEW s \in Nodes, BeginApply(r, s)
    PROVE  TxnsOK'
<1>0. TypeOK /\ ReplicasOK /\ ExchangesOK /\ TxnsOK /\ MaxSeq \in Nat
  BY BoundAssumption DEF IInv
<1> DEFINE t == [open |-> TRUE, src |-> s, rest |-> chan[r][s].ids,
                 relayed |-> {}, data |-> data[r], applied |-> applied[r],
                 mode |-> mode[r]]
<1>1. /\ wtxn' = [wtxn EXCEPT ![r] = t] /\ chan[r][s].kind \in {"page", "push"}
      /\ UNCHANGED <<localSeq, committed, data, applied>>
  BY DEF BeginApply
<1>2. TxnOK(r, t)
  <2>1. RowsCommitted(t.rest)
    BY <1>0, <1>1 DEF ExchangesOK, ExchangeOK
  <2>2. t.applied[r] = 0
    BY <1>0 DEF ReplicasOK, OwnCursorZero
  <2>3. \A o \in Nodes \ {r} : applied[r][o] <= t.applied[o] /\ CopyOK(t.data, t.applied, o)
    <3>1. t.applied = applied[r] /\ t.data = data[r]
      OBVIOUS
    <3>2. \A o \in Nodes : applied[r][o] \in Nat
      BY <1>0 DEF TypeOK, Cursor
    <3>3. \A o \in Nodes \ {r} : Position(r, o) = applied[r][o]
      BY DEF Position
    <3>4. \A o \in Nodes \ {r} : CopyOK(data[r], applied[r], o)
      BY <1>0, <3>3 DEF ReplicasOK, PrefixConsistent, CopyOK
    <3> QED
      BY <3>1, <3>2, <3>4
  <2> QED
    BY <2>1, <2>2, <2>3 DEF TxnOK
<1> HIDE DEF t
<1>3. \A n \in Nodes : wtxn'[n] = IF n = r THEN t ELSE wtxn[n]
  BY SMTT(40), <1>0, <1>1 DEF TypeOK
<1> QED
  BY <1>0, <1>1, <1>2, <1>3 DEF TxnsOK, TxnOK, RowsCommitted, CopyOK

\* Applying the next batch moves the working copy to the next committed state.
LEMMA ApplyBatchInv ==
    ASSUME IInv, NEW r \in Nodes, ApplyBatch(r)
    PROVE  TxnsOK'
<1>0. TypeOK /\ ReplicasOK /\ TxnsOK /\ MaxSeq \in Nat
  BY BoundAssumption DEF IInv
<1> DEFINE t == wtxn[r]
           id == FirstOf(t.rest)
           o == id[1]
           skip == [t EXCEPT !.rest = @ \ {id}]
           done == [skip EXCEPT !.data[o] = Override(@, batch[o][id[2]]),
                                !.applied[o] = id[2],
                                !.mode = "full",
                                !.relayed = IF r \in Hubs THEN @ \cup {id} ELSE @]
<1>1. t \in Txn /\ t.rest # {} /\ TxnOK(r, t)
  BY <1>0, OpenTxn DEF ApplyBatch, TxnsOK
<1>2. id \in t.rest /\ id \in Ids /\ o \in Nodes /\ id[2] \in Seqs
  <2>1. id \in t.rest /\ id \in Ids
    BY <1>1, FirstOfMember, Zenon DEF Txn
  <2> QED
    BY <2>1 DEF Ids
<1>3. /\ wtxn' = [wtxn EXCEPT ![r] = IF Skipped(r, t, id) THEN skip ELSE done]
      /\ ~Conflict(r, t, id)
      /\ UNCHANGED <<localSeq, committed, data, applied>>
  BY DEF ApplyBatch
<1>4. /\ skip.rest \subseteq t.rest /\ skip.data = t.data
      /\ skip.applied = t.applied /\ skip.relayed = t.relayed
  BY <1>1 DEF Txn
<1> HIDE DEF t, id
<1>5. TxnOK(r, skip)
  BY <1>1, <1>4 DEF TxnOK, RowsCommitted, CopyOK
<1>6. ASSUME ~Skipped(r, t, id) PROVE TxnOK(r, done)
  <2>1. o # r /\ id[2] = t.applied[o] + 1 /\ id[2] \in 1..localSeq[o] /\ t.applied[o] \in Nat
    <3>1. id[2] \in Nat \ {0} /\ t.applied[o] \in Nat /\ localSeq[o] \in Nat
      <4>1. t.applied \in [Nodes -> 0..MaxSeq]
        BY <1>1, Zenon DEF Txn, Cursor
      <4> QED
        BY <1>0, <1>2, <4>1 DEF Seqs, TypeOK
    <3>2. o # r /\ id[2] = t.applied[o] + 1
      BY <1>3, <1>6 DEF Skipped, Conflict, SequenceGap
    <3>3. id[2] <= localSeq[o]
      BY <1>1, <1>2 DEF TxnOK, RowsCommitted
    <3> QED
      BY <3>1, <3>2, <3>3
  <2>2. /\ done.rest = skip.rest
        /\ done.data = [t.data EXCEPT ![o] = Override(t.data[o], batch[o][id[2]])]
        /\ done.applied = [t.applied EXCEPT ![o] = id[2]]
        /\ done.relayed \subseteq t.relayed \cup {id}
    BY <1>1, <1>2, <1>4 DEF Txn
  <2> HIDE DEF done, skip
  <2>3. t.data \in [Nodes -> Table] /\ t.applied \in [Nodes -> 0..MaxSeq]
        /\ t.relayed \in SUBSET Ids
    BY <1>1, Zenon DEF Txn, Cursor
  <2>4. Override(t.data[o], batch[o][id[2]]) = committed[o][id[2]]
    <3>1. t.data[o] = committed[o][id[2] - 1]
      <4>1. id[2] - 1 = t.applied[o]
        BY <2>1
      <4>2. t.data[o] = committed[o][t.applied[o]]
        BY <1>1, <1>2, <2>1 DEF TxnOK, CopyOK
      <4> QED
        BY <4>1, <4>2
    <3>2. committed[o][id[2]] = Override(committed[o][id[2] - 1], batch[o][id[2]])
      BY <1>0, <1>2, <2>1 DEF ReplicasOK, HistoryOK
    <3> QED
      BY <3>1, <3>2
  <2>5. done.data[r] = data[r][r] /\ done.applied[r] = 0
    BY <1>1, <2>1, <2>2, <2>3 DEF TxnOK
  <2>6. ASSUME NEW row \in done.relayed
        PROVE  row[1] # r /\ row[2] <= done.applied[row[1]]
    <3>1. CASE row = id
      <4>1. done.applied[o] = id[2] /\ id[2] \in Nat
        BY <1>0, <1>2, <2>2, <2>3 DEF Seqs
      <4> QED
        BY <2>1, <3>1, <4>1
    <3>2. CASE row \in t.relayed
      <4>1. row[1] \in Nodes /\ row[2] \in Nat /\ row[1] # r /\ row[2] <= t.applied[row[1]]
        BY <1>0, <1>1, <2>3, <3>2 DEF TxnOK, Ids, Seqs
      <4>2. done.applied[row[1]] = IF row[1] = o THEN t.applied[o] + 1 ELSE t.applied[row[1]]
        BY <2>1, <2>2, <2>3, <4>1
      <4> QED
        BY <2>1, <4>1, <4>2
    <3> QED
      BY <2>2, <2>6, <3>1, <3>2
  <2>7. ASSUME NEW p \in Nodes \ {r}
        PROVE  applied[r][p] <= done.applied[p] /\ CopyOK(done.data, done.applied, p)
    <3>1. applied[r][p] <= t.applied[p] /\ CopyOK(t.data, t.applied, p)
      BY <1>1 DEF TxnOK
    <3>2. CASE p = o
      <4>1. done.applied[p] = id[2] /\ done.data[p] = committed[p][id[2]]
        BY <2>2, <2>3, <2>4, <3>2
      <4>2. applied[r][p] \in Nat /\ t.applied[p] \in Nat /\ localSeq[p] \in Nat
        BY <1>0, <2>3 DEF TypeOK, Cursor
      <4> QED
        <5>1. applied[r][p] <= id[2] /\ id[2] <= localSeq[p]
          BY <2>1, <3>1, <3>2, <4>2
        <5> QED
          BY <4>1, <5>1 DEF CopyOK
    <3>3. CASE p # o
      BY <2>2, <2>3, <3>1, <3>3 DEF CopyOK
    <3> QED
      BY <3>2, <3>3
  <2> QED
    BY <1>5, <2>2, <2>5, <2>6, <2>7 DEF TxnOK
<1> HIDE DEF skip, done
<1>7. TxnOK(r, wtxn'[r])
  BY <1>0, <1>3, <1>5, <1>6 DEF TypeOK
<1>8. \A n \in Nodes \ {r} : wtxn'[n] = wtxn[n]
  BY <1>0, <1>3 DEF TypeOK
<1> QED
  BY <1>0, <1>3, <1>7, <1>8 DEF TxnsOK, TxnOK, RowsCommitted, CopyOK

\* Committing a push publishes its working copy, cursors and relayed rows.
LEMMA CommitApplyInv ==
    ASSUME IInv, NEW r \in Nodes, CommitApply(r)
    PROVE  ReplicasOK' /\ TxnsOK'
<1>0. TypeOK /\ ReplicasOK /\ TxnsOK /\ MaxSeq \in Nat
  BY BoundAssumption DEF IInv
<1> DEFINE t == wtxn[r]
<1>1. t \in Txn /\ TxnOK(r, t)
  BY <1>0, OpenTxn DEF CommitApply, TxnsOK
<1>2. /\ t.data \in [Nodes -> Table] /\ t.applied \in [Nodes -> 0..MaxSeq]
      /\ t.relayed \in SUBSET Ids
  BY <1>1, Zenon DEF Txn, Cursor
<1>3. /\ data' = [data EXCEPT ![r] = t.data]
      /\ applied' = [applied EXCEPT ![r] = t.applied]
      /\ changelog' = [changelog EXCEPT ![r] = @ \cup t.relayed]
      /\ wtxn' = [wtxn EXCEPT ![r] = NoTxn]
      /\ UNCHANGED <<localSeq, batch, committed>>
  BY DEF CommitApply, SaveCursor
<1>4. origins' = [origins EXCEPT ![r] = [o \in Nodes |-> TailEvidence(t.relayed, origins[r], o)]]
  BY <1>0 DEF CommitApply, TypeOK
<1> HIDE DEF t
<1>5. \A m, o \in Nodes : /\ data'[m][o] = IF m = r THEN t.data[o] ELSE data[m][o]
                          /\ applied'[m][o] = IF m = r THEN t.applied[o] ELSE applied[m][o]
  BY <1>0, <1>2, <1>3 DEF TypeOK
<1>6. \A m, o \in Nodes :
        Position(m, o)' = IF m = r /\ o # r THEN t.applied[o] ELSE Position(m, o)
  BY <1>3, <1>5 DEF Position
<1>7. \A m, o \in Nodes : Position(m, o) \in Nat /\ Position(m, o)' \in Nat
  <2>1. \A m, o \in Nodes : Position(m, o) \in Nat
    BY <1>0 DEF Position, TypeOK, Cursor
  <2> QED
    BY <1>0, <1>2, <1>6, <2>1
<1>8. \A m, o \in Nodes : Position(m, o) <= Position(m, o)'
  <2>1. \A o \in Nodes \ {r} : Position(r, o) <= t.applied[o]
    BY <1>1 DEF TxnOK, Position
  <2> QED
    BY <1>6, <1>7, <2>1
<1>9. PrefixConsistent'
  <2> SUFFICES ASSUME NEW m \in Nodes, NEW o \in Nodes
               PROVE  Position(m, o)' <= localSeq[o] /\ data'[m][o] = committed[o][Position(m, o)']
    BY <1>3 DEF PrefixConsistent
  <2>1. CASE m = r /\ o # r
    BY <1>1, <1>5, <1>6, <2>1 DEF TxnOK, CopyOK
  <2>2. CASE ~(m = r /\ o # r)
    <3>1. data'[m][o] = data[m][o]
      BY <1>1, <1>5, <2>2 DEF TxnOK
    <3> QED
      BY <1>0, <1>6, <2>2, <3>1 DEF ReplicasOK, PrefixConsistent
  <2> QED
    BY <2>1, <2>2
<1>10. HistoryOK'
  BY <1>0, <1>3 DEF ReplicasOK, HistoryOK
<1>11. OwnCursorZero'
  BY <1>0, <1>1, <1>5 DEF ReplicasOK, OwnCursorZero, TxnOK
<1>12. IndexOK'
  <2> SUFFICES ASSUME NEW m \in Nodes, NEW o \in Nodes
               PROVE  origins'[m][o] <= Position(m, o)' /\ (m = o => origins'[m][o] = localSeq[o])
    BY <1>3 DEF IndexOK
  <2>1. origins[m][o] <= Position(m, o) /\ (m = o => origins[m][o] = localSeq[o])
        /\ origins[m][o] \in Nat
    BY <1>0 DEF ReplicasOK, IndexOK, TypeOK, Cursor
  <2>2. CASE m # r
    BY SMTT(40), <1>0, <1>4, <1>6, <2>1, <2>2 DEF TypeOK
  <2>3. CASE m = r
    <3> DEFINE tail == TailIn(t.relayed, o)
    <3>1. origins'[m][o] = IF origins[m][o] > tail THEN origins[m][o] ELSE tail
      BY <1>0, <1>4, <2>3 DEF TypeOK, TailEvidence
    <3>2. tail \in 0..MaxSeq
      BY TailInRetained, Zenon
    <3>3. CASE Retained(t.relayed, o) = {}
      <4>1. tail = 0
        BY <3>3, TailInRetained, Zenon
      <4>2. origins'[m][o] = origins[m][o]
        BY <2>1, <3>1, <4>1
      <4> QED
        BY <1>7, <1>8, <2>1, <4>2
    <3>4. CASE Retained(t.relayed, o) # {}
      <4>1. <<o, tail>> \in t.relayed
        BY <3>4, TailInRetained, Zenon
      <4>2. o # r /\ tail <= t.applied[o]
        BY <1>1, <4>1 DEF TxnOK
      <4>3. Position(m, o)' = t.applied[o]
        BY <1>6, <2>3, <4>2
      <4>4. origins[m][o] <= Position(m, o)'
        BY <1>7, <1>8, <2>1
      <4> HIDE DEF tail
      <4> QED
        BY <2>3, <3>1, <4>2, <4>3, <4>4
    <3> QED
      BY <3>3, <3>4
  <2> QED
    BY <2>2, <2>3
<1>13. RowsOK'
  <2> SUFFICES ASSUME NEW m \in Nodes, NEW row \in changelog'[m]
               PROVE  row[2] <= Position(m, row[1])'
    BY DEF RowsOK
  <2>1. CASE row \in changelog[m]
    <3>1. row[1] \in Nodes /\ row[2] \in Nat
      BY <1>0, <2>1 DEF TypeOK, Ids, Seqs
    <3>2. row[2] <= Position(m, row[1])
      BY <1>0, <2>1 DEF ReplicasOK, RowsOK
    <3> QED
      BY <1>7, <1>8, <3>1, <3>2
  <2>2. CASE m = r /\ row \in t.relayed
    <3>1. row[1] \in Nodes
      BY SMTT(40), <1>2, <2>2 DEF Ids
    <3> QED
      BY <1>1, <1>6, <2>2, <3>1 DEF TxnOK
  <2> QED
    BY <1>0, <1>3, <2>1, <2>2 DEF TypeOK
<1>14. TxnsOK'
  <2> SUFFICES ASSUME NEW n \in Nodes, wtxn'[n].open PROVE TxnOK(n, wtxn[n])'
    BY DEF TxnsOK
  <2>1. n # r /\ wtxn'[n] = wtxn[n]
    BY <1>0, <1>3 DEF TypeOK, NoTxn
  <2>2. TxnOK(n, wtxn[n])
    BY <1>0, <2>1 DEF TxnsOK
  <2>3. data'[n][n] = data[n][n] /\ \A o \in Nodes : applied'[n][o] = applied[n][o]
    BY <1>5, <2>1
  <2> QED
    BY <1>3, <2>1, <2>2, <2>3 DEF TxnOK, RowsCommitted, CopyOK
<1> QED
  BY <1>9, <1>10, <1>11, <1>12, <1>13, <1>14 DEF ReplicasOK

\* Importing a snapshot gives a fresh node the source's consistent copy.
LEMMA ImportInv ==
    ASSUME IInv, NEW r \in Nodes, NEW s \in Nodes, ImportSnapshot(r, s)
    PROVE  ReplicasOK' /\ ExchangesOK' /\ TxnsOK'
<1>0. TypeOK /\ ReplicasOK /\ ExchangesOK /\ TxnsOK /\ MaxSeq \in Nat
  BY BoundAssumption DEF IInv
<1> DEFINE e == chan[r][s]
<1>1. /\ e.kind = "snap" /\ ~wtxn[r].open /\ Fresh(r, e)
      /\ data' = [data EXCEPT ![r] = e.data]
      /\ applied' = [applied EXCEPT ![r] = e.tail]
      /\ chan' = [chan EXCEPT ![r][s] = Idle]
      /\ UNCHANGED <<localSeq, batch, committed, changelog, origins, wtxn>>
  BY SMTT(40) DEF ImportSnapshot
<1>2. e.data \in [Nodes -> Table] /\ e.tail \in Cursor /\ ExchangeOK(e)
  BY <1>0, <1>1, ExchangeKinds DEF TypeOK, ExchangesOK
<1>3. \A o \in Nodes : CopyOK(e.data, e.tail, o) /\ e.tail[o] \in Nat
  BY SMTT(40), <1>0, <1>1, <1>2 DEF ExchangeOK, Cursor
<1> HIDE DEF e
<1>4. \A m, o \in Nodes : /\ data'[m][o] = IF m = r THEN e.data[o] ELSE data[m][o]
                          /\ applied'[m][o] = IF m = r THEN e.tail[o] ELSE applied[m][o]
  BY <1>0, <1>1, <1>2 DEF TypeOK, Cursor
<1>5. e.tail[r] = 0 /\ localSeq[r] = 0 /\ \A o \in Nodes : applied[r][o] = 0
  BY <1>1, Zenon DEF Fresh
<1>6. \A m, o \in Nodes : Position(m, o)' = IF m = r THEN e.tail[o] ELSE Position(m, o)
  BY <1>1, <1>4, <1>5 DEF Position
<1>7. \A m, o \in Nodes : /\ Position(m, o) \in Nat /\ Position(m, o)' \in Nat
                          /\ Position(m, o) <= Position(m, o)'
  <2>1. \A m, o \in Nodes : Position(m, o) \in Nat
    BY SMTT(40), <1>0 DEF Position, TypeOK, Cursor
  <2>2. \A o \in Nodes : Position(r, o) = 0
    BY SMTT(40), <1>5 DEF Position
  <2> QED
    BY <1>3, <1>6, <2>1, <2>2
<1>8. PrefixConsistent'
  <2> SUFFICES ASSUME NEW m \in Nodes, NEW o \in Nodes
               PROVE  Position(m, o)' <= localSeq[o] /\ data'[m][o] = committed[o][Position(m, o)']
    BY <1>1 DEF PrefixConsistent
  <2> QED
    BY <1>0, <1>3, <1>4, <1>6 DEF CopyOK, ReplicasOK, PrefixConsistent
<1>9. HistoryOK' /\ OwnCursorZero'
  BY <1>0, <1>1, <1>4, <1>5 DEF ReplicasOK, HistoryOK, OwnCursorZero
<1>10. IndexOK'
  <2>1. \A m, o \in Nodes : origins[m][o] \in Nat
    BY <1>0 DEF TypeOK, Cursor
  <2> QED
    BY <1>0, <1>1, <1>7, <2>1 DEF ReplicasOK, IndexOK
<1>11. RowsOK'
  <2>1. \A m \in Nodes : \A id \in changelog[m] : id[1] \in Nodes /\ id[2] \in Nat
    BY <1>0 DEF TypeOK, Ids, Seqs
  <2> QED
    BY <1>0, <1>1, <1>7, <2>1 DEF ReplicasOK, RowsOK
<1>12. ExchangesOK'
  BY ZenonT(40), <1>0, <1>1, IdleOK, ExchangesFrame
<1>13. TxnsOK'
  <2> SUFFICES ASSUME NEW n \in Nodes, wtxn'[n].open PROVE TxnOK(n, wtxn[n])'
    BY DEF TxnsOK
  <2>1. n # r /\ wtxn'[n] = wtxn[n] /\ TxnOK(n, wtxn[n])
    BY <1>0, <1>1 DEF TxnsOK
  <2>2. data'[n][n] = data[n][n] /\ \A o \in Nodes : applied'[n][o] = applied[n][o]
    BY <1>4, <2>1
  <2> QED
    BY <1>1, <2>1, <2>2 DEF TxnOK, RowsCommitted, CopyOK
<1> QED
  BY <1>8, <1>9, <1>10, <1>11, <1>12, <1>13 DEF ReplicasOK

-----------------------------------------------------------------------------
(* All steps, and the theorems                                             *)

\* Every step preserves the inductive invariant, as long as maintenance never
\* removes the last evidence of a tail.
LEMMA NextInv == ~LoseTails /\ IInv /\ [Next]_vars => IInv'
<1> SUFFICES ASSUME ~LoseTails, IInv, [Next]_vars
             PROVE  ReplicasOK' /\ ExchangesOK' /\ TxnsOK'
  BY NextType DEF IInv
<1>0. TypeOK /\ ReplicasOK /\ ExchangesOK /\ TxnsOK
  BY DEF IInv
<1> DEFINE Goal == ReplicasOK' /\ ExchangesOK' /\ TxnsOK'
<1>1. ASSUME NEW n \in Nodes, LocalCommit(n) PROVE Goal
  BY <1>1, LocalCommitInv
<1>2. ASSUME NEW n \in Nodes, RebuildOriginIndex(n) PROVE Goal
  BY <1>0, <1>2, RebuildInv, ExchangesKept, TxnsFrame DEF RebuildOriginIndex
<1>3. ASSUME NEW n \in Nodes, NEW o \in Nodes, NEW q \in Seqs, PruneUpTo(n, o, q)
      PROVE  Goal
  BY <1>0, <1>3, PruneInv, ExchangesKept, TxnsFrame DEF PruneUpTo
<1>4. ASSUME NEW r \in Nodes, NEW s \in Nodes, RequestPull(r, s) PROVE Goal
  <2>1. ExchangeOK([kind |-> "asked", have |-> applied[r]])
    BY DEF ExchangeOK
  <2>2. ExchangesOK'
    BY <1>0, <1>4, <2>1, ExchangesFrame, Zenon DEF RequestPull
  <2> QED
    BY <1>0, <1>4, <2>2, ReplicasFrame, TxnsFrame DEF RequestPull
<1>5. ASSUME NEW r \in Nodes, NEW s \in Nodes, HandlePull(r, s) PROVE Goal
  <2>1. UNCHANGED <<localSeq, batch, committed, data, changelog, origins, applied, wtxn>>
    BY <1>5 DEF HandlePull
  <2> QED
    BY <1>0, <1>5, <2>1, HandlePullInv, ReplicasFrame, TxnsFrame
<1>6. ASSUME NEW r \in Nodes, NEW s \in Nodes, NEW from \in Seqs, NEW to \in Seqs,
             MakePushRequest(r, s, from, to)
      PROVE  Goal
  <2>1. UNCHANGED <<localSeq, batch, committed, data, changelog, origins, applied, wtxn>>
    BY <1>6 DEF MakePushRequest
  <2> QED
    BY <1>0, <1>6, <2>1, MakePushInv, ReplicasFrame, TxnsFrame
<1>7. ASSUME NEW r \in Nodes, NEW s \in Nodes, LoseExchange(r, s) PROVE Goal
  <2>1. ExchangesOK'
    BY <1>0, <1>7, IdleOK, ExchangesFrame, Zenon DEF LoseExchange
  <2> QED
    BY <1>0, <1>7, <2>1, ReplicasFrame, TxnsFrame DEF LoseExchange
<1>8. ASSUME NEW r \in Nodes, NEW s \in Nodes, BeginApply(r, s) PROVE Goal
  <2>1. UNCHANGED <<localSeq, batch, committed, data, changelog, origins, applied, chan>>
    BY <1>8 DEF BeginApply
  <2> QED
    BY <1>0, <1>8, <2>1, BeginApplyInv, ReplicasFrame, ExchangesKept
<1>9. ASSUME NEW r \in Nodes, ApplyBatch(r) PROVE Goal
  <2>1. UNCHANGED <<localSeq, batch, committed, data, changelog, origins, applied, chan>>
    BY <1>9 DEF ApplyBatch
  <2> QED
    BY <1>0, <1>9, <2>1, ApplyBatchInv, ReplicasFrame, ExchangesKept
<1>10. ASSUME NEW r \in Nodes, RollbackApply(r) PROVE Goal
  <2>1. /\ wtxn[r].open /\ Answered(r) /\ wtxn' = [wtxn EXCEPT ![r] = NoTxn]
        /\ UNCHANGED <<localSeq, batch, committed, data, changelog, origins, applied>>
    BY <1>10 DEF RollbackApply
  <2> QED
    BY <1>0, <2>1, AnsweredInv, TxnEnds, ReplicasFrame, Zenon
<1>11. ASSUME NEW r \in Nodes, CommitApply(r) PROVE Goal
  <2>1. wtxn[r].open /\ Answered(r) /\ UNCHANGED <<localSeq, committed>>
    BY <1>11 DEF CommitApply
  <2> QED
    BY <1>11, <2>1, AnsweredInv, CommitApplyInv
<1>12. ASSUME NEW n \in Nodes, Crash(n) PROVE Goal
  <2>1. /\ wtxn' = [wtxn EXCEPT ![n] = NoTxn]
        /\ UNCHANGED <<localSeq, batch, committed, data, changelog, origins, applied>>
    BY <1>12 DEF Crash
  <2>2. \A r, s \in Nodes : chan'[r][s] = Idle \/ chan'[r][s] = chan[r][s]
    BY <1>0, <1>12 DEF Crash, TypeOK
  <2>3. \A r, s \in Nodes : ExchangeOK(chan'[r][s])
    BY ZenonT(40), <1>0, <2>2, IdleOK DEF ExchangesOK
  <2>4. ExchangesOK'
    BY <2>1, <2>3 DEF ExchangesOK, ExchangeOK, RowsCommitted, CopyOK
  <2> QED
    BY <1>0, <2>1, <2>4, TxnEnds, ReplicasFrame, Zenon
<1>13. ASSUME NEW r \in Nodes, NEW s \in Nodes, MaterializeSnapshot(r, s) PROVE Goal
  <2>1. UNCHANGED <<localSeq, batch, committed, data, changelog, origins, applied, wtxn>>
    BY <1>13 DEF MaterializeSnapshot
  <2> QED
    BY <1>0, <1>13, <2>1, MaterializeInv, ReplicasFrame, TxnsFrame
<1>14. ASSUME NEW r \in Nodes, NEW s \in Nodes, ImportSnapshot(r, s) PROVE Goal
  BY <1>14, ImportInv
<1>15. ASSUME NEW n \in Nodes, ClaimSelective(n) PROVE Goal
  BY <1>0, <1>15, ReplicasFrame, ExchangesKept, TxnsFrame DEF ClaimSelective
<1>16. CASE UNCHANGED vars
  BY <1>0, <1>16, ReplicasFrame, ExchangesKept, TxnsFrame DEF vars
<1> QED
  BY SMTT(40), <1>1, <1>2, <1>3, <1>4, <1>5, <1>6, <1>7, <1>8, <1>9, <1>10, <1>11, <1>12,
     <1>13, <1>14, <1>15, <1>16 DEF Next

\* Whatever is lost, resent, pruned or crashes, every replica's copy of an
\* origin's tables is the state that origin committed at the replica's cursor,
\* provided maintenance never removes the last evidence of a tail.
THEOREM ReplicasPrefixConsistent ==
    ASSUME ~LoseTails
    PROVE  Spec => []PrefixConsistent
<1>1. Init => IInv
  BY InitInv
<1>2. IInv /\ [Next]_vars => IInv'
  BY NextInv
<1>3. IInv => PrefixConsistent
  BY SMTT(40) DEF IInv, ReplicasOK
<1> QED
  BY <1>1, <1>2, <1>3, PTL DEF Spec

\* A step never moves a cursor back, and changes a copy of another origin only
\* together with its cursor.
LEMMA CursorsForward ==
    ASSUME IInv, IInv', [Next]_vars, NEW n \in Nodes, NEW o \in Nodes
    PROVE  /\ applied'[n][o] >= applied[n][o]
           /\ n # o /\ data'[n][o] # data[n][o] => applied'[n][o] > applied[n][o]
<1>1. applied[n][o] \in Nat /\ applied'[n][o] \in Nat
  BY BoundAssumption DEF IInv, TypeOK, Cursor
<1>2. CASE applied' = applied /\ data' = data
  BY SMTT(40), <1>1, <1>2
<1>3. ASSUME NEW r \in Nodes, LocalCommit(r)
      PROVE  applied' = applied /\ (n # o => data'[n][o] = data[n][o])
  BY SMTT(40), <1>3 DEF LocalCommit, IInv, TypeOK
<1>4. ASSUME localSeq' = localSeq, committed' = committed, applied'[n][o] >= applied[n][o],
             n # o, data'[n][o] # data[n][o]
      PROVE  applied'[n][o] > applied[n][o]
  <2>1. data[n][o] = committed[o][applied[n][o]]
    BY <1>4 DEF IInv, ReplicasOK, PrefixConsistent, Position
  <2>2. data'[n][o] = committed[o][applied'[n][o]]
    BY SMTT(40), <1>4 DEF IInv, ReplicasOK, PrefixConsistent, Position
  <2> QED
    BY SMTT(40), <1>1, <1>4, <2>1, <2>2
<1>5. ASSUME NEW r \in Nodes, CommitApply(r)
      PROVE  applied'[n][o] >= applied[n][o] /\ localSeq' = localSeq /\ committed' = committed
  <2>1. /\ applied' = [applied EXCEPT ![r] = wtxn[r].applied] /\ wtxn[r].open
        /\ localSeq' = localSeq /\ committed' = committed
    BY SMTT(40), <1>5 DEF CommitApply, SaveCursor
  <2>2. TxnOK(r, wtxn[r]) /\ TypeOK /\ OwnCursorZero /\ OwnCursorZero'
    BY <2>1 DEF IInv, TxnsOK, ReplicasOK
  <2>3. applied'[n][o] = IF n = r THEN wtxn[r].applied[o] ELSE applied[n][o]
    BY <2>1, <2>2 DEF TypeOK
  <2> QED
    BY <1>1, <2>1, <2>2, <2>3 DEF TxnOK, OwnCursorZero
<1>6. ASSUME NEW r \in Nodes, NEW s \in Nodes, ImportSnapshot(r, s)
      PROVE  applied'[n][o] >= applied[n][o] /\ localSeq' = localSeq /\ committed' = committed
  <2>1. /\ applied' = [applied EXCEPT ![r] = chan[r][s].tail]
        /\ \A p \in Nodes : applied[r][p] = 0
        /\ localSeq' = localSeq /\ committed' = committed
    BY ZenonT(40), <1>6 DEF ImportSnapshot, Fresh
  <2>2. n # r => applied'[n][o] = applied[n][o]
    BY <2>1 DEF IInv, TypeOK
  <2> QED
    BY <1>1, <2>1, <2>2
<1>7. \/ applied' = applied /\ data' = data
      \/ \E r \in Nodes : LocalCommit(r) \/ CommitApply(r)
      \/ \E r, s \in Nodes : ImportSnapshot(r, s)
  <2>1. ASSUME NEW r \in Nodes, \/ RebuildOriginIndex(r) \/ ApplyBatch(r)
                                \/ RollbackApply(r) \/ Crash(r) \/ ClaimSelective(r)
        PROVE  applied' = applied /\ data' = data
    BY <2>1 DEF RebuildOriginIndex, ApplyBatch, RollbackApply, Crash, ClaimSelective
  <2>2. ASSUME NEW r \in Nodes, NEW p \in Nodes, NEW q \in Seqs, PruneUpTo(r, p, q)
        PROVE  applied' = applied /\ data' = data
    BY SMTT(40), <2>2 DEF PruneUpTo
  <2>3. ASSUME NEW r \in Nodes, NEW s \in Nodes,
               \/ RequestPull(r, s) \/ HandlePull(r, s) \/ LoseExchange(r, s)
               \/ BeginApply(r, s) \/ MaterializeSnapshot(r, s)
               \/ \E from, to \in Seqs : MakePushRequest(r, s, from, to)
        PROVE  applied' = applied /\ data' = data
    BY Zenon, <2>3 DEF RequestPull, HandlePull, LoseExchange, BeginApply,
                MaterializeSnapshot, MakePushRequest
  <2>4. CASE UNCHANGED vars
    BY <2>4 DEF vars
  <2> QED
    BY <2>1, <2>2, <2>3, <2>4, Zenon DEF Next
<1> QED
  BY SMTT(40), <1>1, <1>2, <1>3, <1>4, <1>5, <1>6, <1>7

\* No cursor moves back, and a copy of another origin changes only together
\* with its cursor: apply_batch_ex and the snapshot import write both.
THEOREM CursorsMoveWithData ==
    ASSUME ~LoseTails
    PROVE  Spec => CursorsAdvanceWithData
<1> DEFINE Step == \A n, o \in Nodes :
             /\ applied'[n][o] >= applied[n][o]
             /\ n # o /\ data'[n][o] # data[n][o] => applied'[n][o] > applied[n][o]
<1>1. Init => IInv
  BY InitInv
<1>2. IInv /\ [Next]_vars => IInv'
  BY SMTT(40), NextInv
<1>3. IInv /\ IInv' /\ [Next]_vars => [Step]_vars
  BY CursorsForward
<1> QED
  BY <1>1, <1>2, <1>3, PTL DEF Spec, CursorsAdvanceWithData
=============================================================================
