------------------------ MODULE RawReplicationTypes ------------------------
(***************************************************************************)
(* Type correctness of RawReplication, and the lemmas about maxima,        *)
(* exchanges and pushes that the proofs share.                             *)
(***************************************************************************)
EXTENDS RawReplication, TLAPS, WellFoundedInduction

-----------------------------------------------------------------------------
(* Maxima of sets of sequence numbers                                      *)

\* A non-empty set of natural numbers has a least element.
LEMMA LeastElement ==
    ASSUME NEW T \in SUBSET Nat, T # {}
    PROVE  \E x \in T : \A y \in T : x <= y
<1>1. IsWellFoundedOn(OpToRel(<, Nat), Nat)
  BY NatLessThanWellFounded, Zenon
<1>2. PICK x \in T : \A y \in T : ~(<<y, x>> \in OpToRel(<, Nat))
  BY <1>1, WFMin, Zenon
<1>3. \A y \in T : ~(y < x)
  BY <1>2, Zenon DEF OpToRel
<1> QED
  BY <1>3

\* Max, which finds a changelog tail, is the greatest element of a bounded set.
LEMMA MaxOfBounded ==
    ASSUME NEW b \in Nat, NEW S \in SUBSET (1..b), S # {}
    PROVE  Max(S) \in S /\ \A y \in S : Max(S) >= y
<1> DEFINE T == {n \in Nat : b - n \in S}
<1>1. PICK z \in S : TRUE
  BY Zenon
<1>2. b - z \in T
  BY <1>1
<1>3. PICK m \in T : \A n \in T : m <= n
  BY <1>2, LeastElement, Zenon
<1>4. b - m \in S
  BY <1>3
<1>5. \A y \in S : b - m >= y
  <2> TAKE y \in S
  <2>1. b - y \in T
    BY b - (b - y) = y
  <2> QED
    BY <2>1, <1>3
<1> QED
  BY <1>4, <1>5, Zenon DEF Max

\* The tail collect_changelog_origin_tails finds is 0 or a retained sequence.
LEMMA TailInRetained ==
    ASSUME NEW log, NEW o
    PROVE  /\ TailIn(log, o) \in 0..MaxSeq
           /\ Retained(log, o) = {} => TailIn(log, o) = 0
           /\ Retained(log, o) # {} => /\ TailIn(log, o) \in Retained(log, o)
                                       /\ <<o, TailIn(log, o)>> \in log
<1>1. Retained(log, o) \in SUBSET (1..MaxSeq) /\ MaxSeq \in Nat
  BY BoundAssumption DEF Retained, Seqs
<1>2. CASE Retained(log, o) = {}
  BY <1>1, <1>2 DEF TailIn
<1>3. CASE Retained(log, o) # {}
  <2>1. Max(Retained(log, o)) \in Retained(log, o)
    BY <1>1, <1>3, MaxOfBounded, Zenon
  <2> QED
    BY <2>1, <1>1, <1>3 DEF TailIn, Retained
<1> QED
  BY <1>2, <1>3

-----------------------------------------------------------------------------
(* Type correctness                                                        *)

\* Applying a batch to tables gives tables.
LEMMA OverrideType ==
    ASSUME NEW t \in Table, NEW b \in Batches \cup {NoBatch}
    PROVE  Override(t, b) \in Table
<1> SUFFICES ASSUME NEW k \in Keys, k \in DOMAIN b
             PROVE  b[k] \in Values \cup {Absent}
  BY DEF Override, Table
<1>1. CASE b \in Batches
  <2>1. PICK D \in SUBSET Keys : b \in [D -> Values \cup {Absent}]
    BY <1>1, BatchAssumption
  <2> QED
    BY <2>1
<1>2. CASE b = NoBatch
  BY <1>2 DEF NoBatch
<1> QED
  BY <1>1, <1>2

\* The initial state is well typed.
LEMMA InitType == Init => TypeOK
<1> SUFFICES ASSUME Init PROVE TypeOK
  OBVIOUS
<1>1. EmptyTable \in Table
  BY DEF EmptyTable, Table
<1>2. Idle \in Exchange
  BY DEF Exchange
<1>3. MaxSeq \in Nat /\ [o \in Nodes |-> 0] \in Cursor
  BY BoundAssumption DEF Cursor
<1> QED
  BY SMTT(40), <1>1, <1>2, <1>3 DEF Init, TypeOK, Modes

\* What an exchange carries, by its kind.
LEMMA ExchangeKinds ==
    ASSUME NEW e \in Exchange
    PROVE  /\ e.kind \in {"page", "push"} => e.ids \in SUBSET Ids
           /\ e.kind = "snap" => e.data \in [Nodes -> Table] /\ e.tail \in Cursor
<1>1. CASE e = Idle
  BY <1>1 DEF Idle
<1>2. CASE e \in [kind : {"asked"}, have : Cursor]
  BY <1>2
<1>3. CASE e \in [kind : {"refused"}]
  BY <1>3
<1>4. CASE e \in [kind : {"page", "push"}, ids : SUBSET Ids]
  BY <1>4
<1>5. CASE e \in [kind : {"snap"}, data : [Nodes -> Table], tail : Cursor]
  BY <1>5
<1> QED
  BY <1>1, <1>2, <1>3, <1>4, <1>5 DEF Exchange

\* One exchange is replaced by another.
LEMMA ChanUpdate ==
    ASSUME TypeOK, NEW r \in Nodes, NEW s \in Nodes, NEW e \in Exchange
    PROVE  [chan EXCEPT ![r][s] = e] \in [Nodes -> [Nodes -> Exchange]]
  BY DEF TypeOK

\* An open transaction has all its fields.
LEMMA OpenTxn ==
    ASSUME TypeOK, NEW r \in Nodes, wtxn[r].open
    PROVE  wtxn[r] \in Txn
<1>1. wtxn[r] \in Txn \cup {NoTxn}
  BY DEF TypeOK
<1>2. wtxn[r] # NoTxn
  BY DEF NoTxn
<1> QED
  BY <1>1, <1>2

\* FirstOf is one of the rows: Rank orders origins, and sequences are naturals.
LEMMA FirstOfMember ==
    ASSUME NEW ids \in SUBSET Ids, ids # {}
    PROVE  FirstOf(ids) \in ids
<1>0. \A id \in ids : id[1] \in Nodes /\ id[2] \in Nat /\ id = <<id[1], id[2]>>
  BY BoundAssumption DEF Ids, Seqs
<1> DEFINE ranks == {k \in Nat : \E id \in ids : Rank[id[1]] = k}
<1>1. \A id \in ids : Rank[id[1]] \in ranks
  BY <1>0, RankAssumption
<1>2. PICK k \in ranks : \A j \in ranks : k <= j
  BY <1>1, LeastElement, Zenon
<1>3. PICK a \in ids : Rank[a[1]] = k
  BY <1>2
<1> DEFINE seqs == {q \in Nat : \E id \in ids : id[1] = a[1] /\ id[2] = q}
<1>4. a[2] \in seqs
  BY <1>0, <1>3
<1>5. PICK q \in seqs : \A p \in seqs : q <= p
  BY <1>4, LeastElement, Zenon
<1>6. PICK f \in ids : f[1] = a[1] /\ f[2] = q
  BY <1>5
<1>7. ASSUME NEW other \in ids \ {f} PROVE Before(f, other)
  <2>1. Rank[f[1]] <= Rank[other[1]] /\ Rank[f[1]] \in Nat /\ Rank[other[1]] \in Nat
    BY <1>0, <1>1, <1>2, <1>3, <1>6, RankAssumption
  <2>2. CASE Rank[f[1]] = Rank[other[1]]
    <3>1. other[1] = f[1]
      BY <1>0, <2>2, RankAssumption
    <3>2. other[2] \in seqs
      BY <1>0, <1>6, <3>1
    <3>3. f[2] <= other[2] /\ f[2] # other[2]
      BY <1>0, <1>5, <1>6, <3>1, <3>2
    <3> QED
      BY <1>0, <3>1, <3>3 DEF Before
  <2> QED
    BY <2>1, <2>2 DEF Before
<1> QED
  BY <1>7 DEF FirstOf

\* Every step keeps every variable in its type.
LEMMA NextType == TypeOK /\ [Next]_vars => TypeOK'
<1> SUFFICES ASSUME TypeOK, [Next]_vars PROVE TypeOK'
  OBVIOUS
<1>0. MaxSeq \in Nat
  BY BoundAssumption
<1>1. ASSUME NEW n \in Nodes, LocalCommit(n) PROVE TypeOK'
  <2>1. PICK b \in Batches :
          LET q == localSeq[n] + 1
              t == Override(data[n][n], b)
          IN  /\ localSeq' = [localSeq EXCEPT ![n] = q]
              /\ batch' = [batch EXCEPT ![n][q] = b]
              /\ committed' = [committed EXCEPT ![n][q] = t]
              /\ data' = [data EXCEPT ![n][n] = t]
              /\ changelog' = [changelog EXCEPT ![n] = @ \cup {<<n, q>>}]
              /\ origins' = [origins EXCEPT ![n] = NoteOrigin(@, n, q)]
    BY <1>1, Zenon DEF LocalCommit
  <2>2. Override(data[n][n], b) \in Table
    BY OverrideType DEF TypeOK
  <2>3. localSeq[n] + 1 \in Seqs
    BY <1>0, <1>1 DEF LocalCommit, TypeOK, Seqs
  <2>4. localSeq' \in [Nodes -> 0..MaxSeq] /\ batch' \in [Nodes -> [Seqs -> Batches \cup {NoBatch}]]
    BY <1>0, <2>1, <2>3 DEF TypeOK, Seqs
  <2>5. committed' \in [Nodes -> [0..MaxSeq -> Table]] /\ data' \in [Nodes -> [Nodes -> Table]]
    BY <1>0, <2>1, <2>2, <2>3 DEF TypeOK, Seqs
  <2>6. changelog' \in [Nodes -> SUBSET Ids]
    BY <1>0, <2>1, <2>3 DEF TypeOK, Ids
  <2>7. origins' \in [Nodes -> Cursor]
    BY <1>0, <2>1, <2>3 DEF TypeOK, Cursor, NoteOrigin, Seqs
  <2> QED
    BY <1>1, <2>4, <2>5, <2>6, <2>7 DEF LocalCommit, TypeOK
<1>2. ASSUME NEW n \in Nodes, RebuildOriginIndex(n) PROVE TypeOK'
  <2>1. origins' = [origins EXCEPT ![n] = [o \in Nodes |-> TailIn(changelog[n], o)]]
    BY <1>2 DEF RebuildOriginIndex
  <2>2. [o \in Nodes |-> TailIn(changelog[n], o)] \in Cursor
    BY TailInRetained, Zenon DEF Cursor
  <2>3. origins' \in [Nodes -> Cursor]
    BY <2>1, <2>2 DEF TypeOK
  <2> QED
    BY <1>2, <2>3 DEF RebuildOriginIndex, TypeOK
<1>3. ASSUME NEW n \in Nodes, NEW o \in Nodes, NEW q \in Seqs, PruneUpTo(n, o, q)
      PROVE TypeOK'
  BY <1>3 DEF PruneUpTo, TypeOK
<1>4. ASSUME NEW r \in Nodes, NEW s \in Nodes, RequestPull(r, s) PROVE TypeOK'
  BY <1>4 DEF RequestPull, TypeOK, Exchange
<1>5. ASSUME NEW r \in Nodes, NEW s \in Nodes, HandlePull(r, s) PROVE TypeOK'
  <2>1. \A page \in Pages(s, chan[r][s].have) : page \in SUBSET Ids
    BY DEF Pages, Available, TypeOK
  <2>2. \E e \in Exchange : chan' = [chan EXCEPT ![r][s] = e]
    <3>1. Idle \in Exchange /\ [kind |-> "refused"] \in Exchange
      BY DEF Exchange
    <3>2. \A page \in SUBSET Ids : [kind |-> "page", ids |-> page] \in Exchange
      BY DEF Exchange
    <3> QED
      BY <1>5, <2>1, <3>1, <3>2 DEF HandlePull
  <2>3. chan' \in [Nodes -> [Nodes -> Exchange]]
    BY <2>2, ChanUpdate
  <2> QED
    BY <1>5, <2>3 DEF HandlePull, TypeOK
<1>6. ASSUME NEW r \in Nodes, NEW s \in Nodes, NEW from \in Seqs, NEW to \in Seqs,
             MakePushRequest(r, s, from, to)
      PROVE TypeOK'
  <2>1. {<<s, q>> : q \in from..to} \in SUBSET Ids
    BY <1>0 DEF Seqs, Ids
  <2>2. chan' \in [Nodes -> [Nodes -> Exchange]]
    BY <1>6, <2>1 DEF MakePushRequest, TypeOK, Exchange
  <2> QED
    BY <1>6, <2>2 DEF MakePushRequest, TypeOK
<1>7. ASSUME NEW r \in Nodes, NEW s \in Nodes, LoseExchange(r, s) PROVE TypeOK'
  BY <1>7 DEF LoseExchange, TypeOK, Exchange
<1>8. ASSUME NEW r \in Nodes, NEW s \in Nodes, BeginApply(r, s) PROVE TypeOK'
  <2>1. chan[r][s].ids \in SUBSET Ids
    BY <1>8, ExchangeKinds DEF BeginApply, TypeOK
  <2>2. wtxn' \in [Nodes -> Txn \cup {NoTxn}]
    BY ZenonT(40), <1>8, <2>1 DEF BeginApply, TypeOK, Txn
  <2> QED
    BY <1>8, <2>2 DEF BeginApply, TypeOK
<1>9. ASSUME NEW r \in Nodes, ApplyBatch(r) PROVE TypeOK'
  <2> DEFINE t == wtxn[r]
             id == FirstOf(t.rest)
             o == id[1]
             skip == [t EXCEPT !.rest = @ \ {id}]
             done == [skip EXCEPT !.data[o] = Override(@, batch[o][id[2]]),
                                  !.applied[o] = id[2],
                                  !.mode = "full",
                                  !.relayed = IF r \in Hubs THEN @ \cup {id} ELSE @]
  <2>1. t \in Txn /\ t.rest # {}
    BY <1>9, OpenTxn DEF ApplyBatch
  <2>2. id \in t.rest /\ id \in Ids
    BY <2>1, FirstOfMember, Zenon DEF Txn
  <2>3. o \in Nodes /\ id[2] \in Seqs
    BY <2>2 DEF Ids
  <2> HIDE DEF t, id
  <2>4. skip \in Txn
    BY <2>1, Zenon DEF Txn
  <2>5. Override(t.data[o], batch[o][id[2]]) \in Table
    <3>1. t.data[o] \in Table /\ batch[o][id[2]] \in Batches \cup {NoBatch}
      BY <2>1, <2>3 DEF Txn, TypeOK
    <3> QED
      BY <3>1, OverrideType
  <2>6. done \in Txn
    <3>1. [skip.data EXCEPT ![o] = Override(t.data[o], batch[o][id[2]])] \in [Nodes -> Table]
      BY <2>1, <2>4, <2>5, Zenon DEF Txn
    <3>2. [skip.applied EXCEPT ![o] = id[2]] \in Cursor
      BY <1>0, <2>3, <2>4 DEF Txn, Cursor, Seqs
    <3>3. (IF r \in Hubs THEN skip.relayed \cup {id} ELSE skip.relayed) \in SUBSET Ids
      BY <2>2, <2>4, Zenon DEF Txn
    <3> QED
      BY <2>1, <2>4, <3>1, <3>2, <3>3, Zenon DEF Txn, Modes
  <2>7. wtxn' = [wtxn EXCEPT ![r] = IF Skipped(r, t, id) THEN skip ELSE done]
    BY <1>9 DEF ApplyBatch, t, id
  <2>8. wtxn' \in [Nodes -> Txn \cup {NoTxn}]
    BY <2>4, <2>6, <2>7 DEF TypeOK
  <2> QED
    BY <1>9, <2>8 DEF ApplyBatch, TypeOK
<1>10. ASSUME NEW r \in Nodes, RollbackApply(r) PROVE TypeOK'
  <2>1. chan' \in [Nodes -> [Nodes -> Exchange]]
    <3>1. wtxn[r].src \in Nodes /\ Idle \in Exchange
      BY <1>10, OpenTxn, Zenon DEF RollbackApply, Txn, Exchange
    <3>2. chan' = [chan EXCEPT ![r][wtxn[r].src] = Idle] \/ chan' = chan
      BY <1>10 DEF RollbackApply, Answered
    <3>3. [chan EXCEPT ![r][wtxn[r].src] = Idle] \in [Nodes -> [Nodes -> Exchange]]
      BY <3>1, ChanUpdate
    <3> QED
      BY <3>2, <3>3, Zenon DEF TypeOK
  <2> QED
    BY <1>10, <2>1, Zenon DEF RollbackApply, TypeOK
<1>11. ASSUME NEW r \in Nodes, CommitApply(r) PROVE TypeOK'
  <2>1. wtxn[r] \in Txn
    BY <1>11 DEF CommitApply, TypeOK, NoTxn
  <2>2. chan' \in [Nodes -> [Nodes -> Exchange]]
    <3>1. wtxn[r].src \in Nodes /\ Idle \in Exchange
      BY <1>11, OpenTxn, Zenon DEF CommitApply, Txn, Exchange
    <3>2. chan' = [chan EXCEPT ![r][wtxn[r].src] = Idle] \/ chan' = chan
      BY <1>11 DEF CommitApply, Answered
    <3>3. [chan EXCEPT ![r][wtxn[r].src] = Idle] \in [Nodes -> [Nodes -> Exchange]]
      BY <3>1, ChanUpdate
    <3> QED
      BY <3>2, <3>3, Zenon DEF TypeOK
  <2>3. [o \in Nodes |-> TailEvidence(wtxn[r].relayed, origins[r], o)] \in Cursor
    <3>1. \A o \in Nodes : origins[r][o] \in 0..MaxSeq
      BY DEF TypeOK, Cursor
    <3>2. \A o \in Nodes : TailEvidence(wtxn[r].relayed, origins[r], o) \in 0..MaxSeq
      BY <3>1, TailInRetained, Zenon DEF TailEvidence
    <3> QED
      BY <3>2 DEF Cursor
  <2>4. origins' = [origins EXCEPT ![r] =
                       [o \in Nodes |-> TailEvidence(wtxn[r].relayed, origins[r], o)]]
    BY <1>11 DEF CommitApply, TypeOK
  <2>5. origins' \in [Nodes -> Cursor]
    BY <2>3, <2>4 DEF TypeOK
  <2>6. changelog' \in [Nodes -> SUBSET Ids] /\ data' \in [Nodes -> [Nodes -> Table]]
    BY <1>11, <2>1 DEF CommitApply, TypeOK, Txn
  <2>7. applied' \in [Nodes -> Cursor] /\ mode' \in [Nodes -> Modes]
    BY <1>11, <2>1 DEF CommitApply, SaveCursor, TypeOK, Txn
  <2> QED
    BY SMTT(40), <1>11, <2>2, <2>5, <2>6, <2>7 DEF CommitApply, TypeOK
<1>12. ASSUME NEW n \in Nodes, Crash(n) PROVE TypeOK'
  BY SMTT(40), <1>12 DEF Crash, TypeOK, Exchange
<1>13. ASSUME NEW r \in Nodes, NEW s \in Nodes, MaterializeSnapshot(r, s) PROVE TypeOK'
  <2>1. SourceTail(s) \in Cursor
    BY SMTT(40), <1>0 DEF SourceTail, TypeOK, Cursor
  <2>2. chan' \in [Nodes -> [Nodes -> Exchange]]
    BY SMTT(40), <1>13, <2>1 DEF MaterializeSnapshot, TypeOK, Exchange
  <2> QED
    BY <1>13, <2>2 DEF MaterializeSnapshot, TypeOK
<1>14. ASSUME NEW r \in Nodes, NEW s \in Nodes, ImportSnapshot(r, s) PROVE TypeOK'
  <2>1. chan[r][s].data \in [Nodes -> Table] /\ chan[r][s].tail \in Cursor
    BY <1>14, ExchangeKinds DEF ImportSnapshot, TypeOK
  <2> QED
    BY SMTT(40), <1>14, <2>1 DEF ImportSnapshot, TypeOK, Modes, Exchange
<1>15. ASSUME NEW n \in Nodes, ClaimSelective(n) PROVE TypeOK'
  BY <1>15 DEF ClaimSelective, TypeOK, Modes
<1>16. CASE UNCHANGED vars
  BY <1>16 DEF vars, TypeOK
<1> QED
  BY <1>1, <1>2, <1>3, <1>4, <1>5, <1>6, <1>7, <1>8, <1>9, <1>10, <1>11, <1>12,
     <1>13, <1>14, <1>15, <1>16 DEF Next

\* Every reachable state of raw replication is well typed.
THEOREM TypeCorrect == Spec => []TypeOK
<1>1. Init => TypeOK
  BY InitType
<1>2. TypeOK /\ [Next]_vars => TypeOK'
  BY NextType
<1> QED
  BY <1>1, <1>2, PTL DEF Spec

-----------------------------------------------------------------------------
(* The durable receiver mode                                               *)

\* A selective node has no global cursor, and an open push carries the mode it
\* found, or the full mode it claims on a node that had none.
ModeInv ==
    \A n \in Nodes :
      /\ mode[n] = "selective" => \A o \in Nodes : applied[n][o] = 0
      /\ wtxn[n].open =>
           /\ wtxn[n].mode = mode[n] \/ (mode[n] = "none" /\ wtxn[n].mode = "full")
           /\ wtxn[n].mode = "selective" => \A o \in Nodes : wtxn[n].applied[o] = 0

\* A step that touches neither modes nor cursors, and ends pushes at most.
LEMMA ModeFrame ==
    ASSUME ModeInv, UNCHANGED <<mode, applied>>,
           \A n \in Nodes : wtxn'[n] = wtxn[n] \/ wtxn'[n] = NoTxn
    PROVE  ModeInv'
<1> SUFFICES ASSUME NEW n \in Nodes
             PROVE  /\ mode[n] = "selective" => \A o \in Nodes : applied[n][o] = 0
                    /\ wtxn'[n].open =>
                         /\ wtxn'[n].mode = mode[n]
                              \/ (mode[n] = "none" /\ wtxn'[n].mode = "full")
                         /\ wtxn'[n].mode = "selective" =>
                              \A o \in Nodes : wtxn'[n].applied[o] = 0
  BY DEF ModeInv
<1> QED
  BY DEF ModeInv, NoTxn

\* handle_push: claim_full_global refuses a selective node.
LEMMA ApplyBatchMode ==
    ASSUME TypeOK, ModeInv, NEW r \in Nodes, ApplyBatch(r)
    PROVE  ModeInv'
<1> DEFINE t == wtxn[r]
           u == wtxn'[r]
<1>1. /\ t.open /\ UNCHANGED <<mode, applied>>
      /\ \A n \in Nodes \ {r} : wtxn'[n] = wtxn[n]
  BY DEF ApplyBatch, TypeOK
<1>2. t \in Txn
  BY <1>1, OpenTxn
<1>3. \/ u.mode = t.mode /\ u.applied = t.applied
      \/ u.mode = "full" /\ t.mode # "selective"
  <2> DEFINE id == FirstOf(t.rest)
             skip == [t EXCEPT !.rest = @ \ {id}]
  <2>1. CASE Skipped(r, t, id)
    <3>1. u = skip
      BY <2>1 DEF ApplyBatch, TypeOK
    <3> QED
      BY <1>2, <3>1 DEF Txn
  <2>2. CASE ~Skipped(r, t, id)
    <3>1. t.mode # "selective"
      BY <2>2 DEF ApplyBatch, Conflict, ModeRefuses
    <3>2. u = [skip EXCEPT !.data[id[1]] = Override(@, batch[id[1]][id[2]]),
                           !.applied[id[1]] = id[2],
                           !.mode = "full",
                           !.relayed = IF r \in Hubs THEN @ \cup {id} ELSE @]
      BY <2>2 DEF ApplyBatch, TypeOK
    <3> QED
      BY <1>2, <3>1, <3>2 DEF Txn
  <2> QED
    BY <2>1, <2>2
<1>4. t.mode = mode[r] \/ (mode[r] = "none" /\ t.mode = "full")
  BY <1>1 DEF ModeInv
<1>5. mode[r] \in Modes
  BY DEF TypeOK
<1>6. /\ u.mode = mode[r] \/ (mode[r] = "none" /\ u.mode = "full")
      /\ u.mode = "selective" => \A o \in Nodes : u.applied[o] = 0
  BY SMTT(40), <1>1, <1>3, <1>4, <1>5 DEF Modes, ModeInv
<1> QED
  BY <1>1, <1>6 DEF ModeInv

\* Every step preserves it.
LEMMA NextMode ==
    ASSUME TypeOK, ModeInv, [Next]_vars
    PROVE  /\ ModeInv'
           /\ \A n \in Nodes : mode[n] # "none" => mode'[n] = mode[n]
<1> DEFINE Once == \A n \in Nodes : mode[n] # "none" => mode'[n] = mode[n]
<1>0. mode \in [Nodes -> Modes] /\ applied \in [Nodes -> Cursor]
      /\ wtxn \in [Nodes -> Txn \cup {NoTxn}]
  BY DEF TypeOK
<1>1. ASSUME NEW n \in Nodes, ApplyBatch(n) PROVE ModeInv' /\ Once
  <2>1. UNCHANGED mode
    BY <1>1 DEF ApplyBatch
  <2> QED
    BY <1>1, <2>1, ApplyBatchMode
<1>2. ASSUME NEW r \in Nodes, CommitApply(r) PROVE ModeInv' /\ Once
  <2>1. /\ wtxn[r].open /\ wtxn' = [wtxn EXCEPT ![r] = NoTxn]
        /\ applied' = [applied EXCEPT ![r] = wtxn[r].applied]
        /\ mode' = [mode EXCEPT ![r] = wtxn[r].mode]
    BY <1>2 DEF CommitApply, SaveCursor
  <2>2. \A n \in Nodes \ {r} : /\ wtxn'[n] = wtxn[n] /\ mode'[n] = mode[n]
                                /\ applied'[n] = applied[n]
    BY <1>0, <2>1
  <2>3. /\ wtxn'[r] = NoTxn /\ mode'[r] = wtxn[r].mode /\ applied'[r] = wtxn[r].applied
        /\ ~wtxn'[r].open
    BY <1>0, <2>1 DEF NoTxn
  <2>4. ModeInv'
    BY <2>1, <2>2, <2>3 DEF ModeInv
  <2>5. Once
    BY <2>1, <2>2, <2>3 DEF ModeInv
  <2> QED
    BY <2>4, <2>5
<1>3. ASSUME NEW r \in Nodes, NEW s \in Nodes, ImportSnapshot(r, s)
      PROVE  ModeInv' /\ Once
  <2>1. /\ ~wtxn[r].open /\ mode[r] # "selective" /\ UNCHANGED wtxn
        /\ mode' = [mode EXCEPT ![r] = "full"]
        /\ \A n \in Nodes \ {r} : applied'[n] = applied[n]
    BY <1>0, <1>3 DEF ImportSnapshot, Fresh
  <2> QED
    BY <1>0, <2>1 DEF ModeInv, Modes
<1>4. ASSUME NEW r \in Nodes, ClaimSelective(r) PROVE ModeInv' /\ Once
  <2>1. /\ ~wtxn[r].open /\ mode[r] = "none" /\ UNCHANGED <<wtxn, applied>>
        /\ mode' = [mode EXCEPT ![r] = "selective"]
        /\ \A o \in Nodes : applied[r][o] = 0
    BY <1>4 DEF ClaimSelective
  <2> QED
    BY <1>0, <2>1 DEF ModeInv
<1>5. ASSUME NEW r \in Nodes, NEW s \in Nodes, BeginApply(r, s)
      PROVE  ModeInv' /\ Once
  <2>1. /\ UNCHANGED <<mode, applied>> /\ wtxn'[r].mode = mode[r]
        /\ wtxn'[r].applied = applied[r]
        /\ \A n \in Nodes \ {r} : wtxn'[n] = wtxn[n]
    BY <1>0, <1>5 DEF BeginApply
  <2> QED
    BY <2>1 DEF ModeInv
<1>6. CASE /\ UNCHANGED <<mode, applied>>
           /\ \A n \in Nodes : wtxn'[n] = wtxn[n] \/ wtxn'[n] = NoTxn
  BY SMTT(40), <1>6, ModeFrame
<1>7. ASSUME NEW n \in Nodes, RollbackApply(n) \/ Crash(n) \/ LocalCommit(n)
                              \/ RebuildOriginIndex(n)
      PROVE  ModeInv' /\ Once
  BY <1>0, <1>6, <1>7 DEF RollbackApply, Crash, LocalCommit, RebuildOriginIndex
<1>8. ASSUME NEW n \in Nodes, NEW o \in Nodes, NEW q \in Seqs, PruneUpTo(n, o, q)
      PROVE  ModeInv' /\ Once
  BY SMTT(40), <1>6, <1>8 DEF PruneUpTo
<1>9. ASSUME NEW r \in Nodes, NEW s \in Nodes,
             \/ RequestPull(r, s) \/ HandlePull(r, s) \/ LoseExchange(r, s)
             \/ MaterializeSnapshot(r, s)
             \/ \E from, to \in Seqs : MakePushRequest(r, s, from, to)
      PROVE  ModeInv' /\ Once
  BY SMTT(40), <1>6, <1>9 DEF RequestPull, HandlePull, LoseExchange, MaterializeSnapshot,
                    MakePushRequest
<1>10. CASE UNCHANGED vars
  BY <1>6, <1>10 DEF vars
<1> QED
  BY <1>1, <1>2, <1>3, <1>4, <1>5, <1>7, <1>8, <1>9, <1>10 DEF Next

\* The durable receiver mode is claimed once, whichever of handle_push, the
\* snapshot import and handle_scoped_push comes first.
THEOREM ModeClaimedOnce == Spec => ReceiverModeExclusive
<1> DEFINE Step == \A n \in Nodes :
             /\ mode[n] # "none" => mode'[n] = mode[n]
             /\ mode'[n] = "selective" => \A o \in Nodes : applied'[n][o] = 0
<1>1. Init => TypeOK /\ ModeInv
  BY InitType DEF Init, ModeInv, NoTxn
<1>2. TypeOK /\ ModeInv /\ [Next]_vars => (TypeOK /\ ModeInv)'
  BY NextType, NextMode
<1>3. TypeOK /\ ModeInv /\ [Next]_vars => [Step]_vars
  <2> SUFFICES ASSUME TypeOK, ModeInv, [Next]_vars PROVE Step
    OBVIOUS
  <2> QED
    BY NextMode DEF ModeInv
<1> QED
  BY <1>1, <1>2, <1>3, PTL DEF Spec, ReceiverModeExclusive
=============================================================================
