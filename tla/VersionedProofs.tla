-------------------------- MODULE VersionedProofs --------------------------
(***************************************************************************)
(* What VersionedTable guarantees, for any nodes, keys, values and         *)
(* versions: the inductive invariant, the steps that write locally, the    *)
(* step that applies another node's operation, and the theorems.           *)
(*                                                                         *)
(* GreatestWins is not inductive by itself.  A winning local write must be *)
(* newer than everything the node wrote before, which needs its own log in *)
(* Dominates; and a table that is registered late must not have seen a     *)
(* versioned operation yet, which is what Unregistered adds.               *)
(***************************************************************************)
EXTENDS VersionedTable, TLAPS

\* A node that has not registered the DBI has an empty index and has seen
\* only operations without a version.
Unregistered ==
    \A n \in LwwNodes \ versioned :
        /\ \A k \in LwwKeys : index[n][k] = NoMarker
        /\ \A o \in LwwNodes : \A i \in 1..Reach(n, o) : written[o][i].rev = 0

LwwInv == LwwTypeOK /\ Unregistered /\ GreatestWins /\ VersionsUnique

\* The first state: no node is registered and nothing was written.
LEMMA LwwInitial == LwwInit => LwwInv
  BY VersionedAssumption
  DEF LwwInit, LwwInv, LwwTypeOK, Unregistered, GreatestWins, VersionsUnique, Reach,
      Marker, NoMarker

\* Steps that leave the tables, the index and the logs alone keep everything
\* but what depends on the registration.
LEMMA SetPolicyKeeps ==
  ASSUME LwwInv, NEW n \in LwwNodes, SetPolicy(n)
  PROVE  LwwInv'
  BY DEF LwwInv, LwwTypeOK, SetPolicy, Unregistered, GreatestWins, Dominates, HoldsWinner,
         VersionsUnique, Reach

\* A table registered for the first time is empty and its index is empty.
LEMMA RegisterKeeps ==
  ASSUME LwwInv, NEW n \in LwwNodes, register_table(n)
  PROVE  LwwInv'
<1>1. LwwTypeOK' BY DEF LwwInv, LwwTypeOK, register_table, register_dbi
<1>2. Unregistered' BY DEF LwwInv, Unregistered, register_table, register_dbi, Reach
<1>3. VersionsUnique' BY DEF LwwInv, VersionsUnique, register_table
<1>4. ASSUME NEW p \in versioned', NEW k \in LwwKeys
      PROVE  Dominates(p, k)' /\ HoldsWinner(p, k)'
  <2>1. CASE p \in versioned
    BY <2>1 DEF LwwInv, GreatestWins, Dominates, HoldsWinner, register_table, register_dbi, Reach
  <2>2. CASE p \notin versioned
    <3>1. p = n /\ index[n][k] = NoMarker /\ held[n][k] = NoValue
      BY <2>2 DEF LwwInv, Unregistered, register_table, register_dbi, is_sync_versioned_dbi
    <3>2. \A o \in LwwNodes : \A i \in 1..Reach(n, o) : written[o][i].rev = 0
      BY <2>2, <3>1 DEF LwwInv, Unregistered
    <3> QED BY <3>1, <3>2 DEF Dominates, HoldsWinner, register_table, register_dbi, Reach
  <2> QED BY <2>1, <2>2
<1> QED BY <1>1, <1>2, <1>3, <1>4 DEF LwwInv, GreatestWins

-----------------------------------------------------------------------------
(* One more operation is seen                                              *)

\* The step changes nothing of what p has seen or holds.
Untouched(p) ==
    /\ \A o \in LwwNodes : Reach(p, o)' = Reach(p, o)
    /\ \A o \in LwwNodes : \A i \in 1..Reach(p, o) : written'[o][i] = written[o][i]
    /\ index'[p] = index[p] /\ held'[p] = held[p]

\* The step makes op, of o, the next operation n has seen.
SeesNext(n, o, op) ==
    /\ Reach(n, o)' = Reach(n, o) + 1
    /\ \A q \in LwwNodes \ {o} : Reach(n, q)' = Reach(n, q)
    /\ \A q \in LwwNodes : \A i \in 1..Reach(n, q) : written'[q][i] = written[q][i]
    /\ written'[o][Reach(n, o) + 1] = op

\* What n has seen is a number of operations of each origin.
LEMMA ReachType ==
  ASSUME LwwTypeOK, NEW n \in LwwNodes, NEW o \in LwwNodes
  PROVE  /\ Reach(n, o) \in Nat
         /\ Reach(n, o) <= Len(written[o])
         /\ Len(written[o]) \in Nat
         /\ \A i \in 1..Reach(n, o) : written[o][i] \in LwwOp
  BY DEF LwwTypeOK, Reach

\* A node the step does not touch keeps its winners.
LEMMA UntouchedKeeps ==
  ASSUME NEW p \in LwwNodes, NEW k \in LwwKeys, Untouched(p),
         Dominates(p, k) /\ HoldsWinner(p, k)
  PROVE  Dominates(p, k)' /\ HoldsWinner(p, k)'
  BY DEF Untouched, Dominates, HoldsWinner

\* The two numbers of an index record.
LEMMA MarkerNumbers ==
  ASSUME LwwTypeOK, NEW n \in LwwNodes, NEW k \in LwwKeys
  PROVE  index[n][k].rev \in Nat /\ index[n][k].origin \in Nat
<1>1. index[n][k] \in Marker BY DEF LwwTypeOK
<1>2. index[n][k].rev \in 0..MaxRev /\ index[n][k].origin \in LwwNodes \cup {0}
  BY <1>1 DEF Marker
<1>3. index[n][k].rev \in Nat BY <1>2, VersionedAssumption
<1>4. \A q \in LwwNodes \cup {0} : q \in Nat BY VersionedAssumption
<1> QED BY <1>2, <1>3, <1>4

\* put_marker writes an index record.
LEMMA MarkerWritten ==
  ASSUME LwwTypeOK, NEW n \in LwwNodes, NEW o \in LwwNodes, NEW op \in LwwOp,
         index' = put_marker(n, op, o)
  PROVE  index' \in [LwwNodes -> [LwwKeys -> Marker]]
<1>1. index \in [LwwNodes -> [LwwKeys -> Marker]] BY DEF LwwTypeOK
<1>2. op.rev \in 0..MaxRev /\ op.key \in LwwKeys BY DEF LwwOp
<1>3. /\ tombstone(op, o) \in Marker
      /\ [rev |-> op.rev, origin |-> o, dead |-> FALSE] \in Marker
  BY <1>2 DEF tombstone, Marker
<1> QED BY <1>1, <1>2, <1>3 DEF put_marker

\* A versioned operation is compared with the index: a winner replaces it, any
\* other is already dominated.
LEMMA SeeingKeeps ==
  ASSUME LwwInv, NEW n \in versioned, NEW o \in LwwNodes, NEW op \in LwwOp, op.rev > 0,
         SeesNext(n, o, op),
         \/ /\ wins(n, op, o)
            /\ held' = apply_one_op(n, op)
            /\ index' = put_marker(n, op, o)
         \/ ~wins(n, op, o) /\ UNCHANGED <<held, index>>,
         NEW k \in LwwKeys
  PROVE  Dominates(n, k)' /\ HoldsWinner(n, k)'
<1>1. n \in LwwNodes /\ LwwTypeOK /\ o \in Nat \ {0}
  BY Zenon, VersionedAssumption DEF LwwInv, LwwTypeOK
<1>2. Dominates(n, k) /\ HoldsWinner(n, k) BY DEF LwwInv, GreatestWins
<1>3. \A q \in LwwNodes : Reach(n, q) \in Nat BY <1>1, ReachType
<1>4. /\ index[n][k] \in Marker /\ index[n][k].rev \in Nat /\ index[n][k].origin \in Nat
      /\ op.rev \in Nat /\ op.key \in LwwKeys
      /\ \A q \in LwwNodes : \A i \in 1..Reach(n, q) :
             written[q][i].rev \in Nat /\ q \in Nat
  <2>1. index[n][k] \in Marker BY <1>1 DEF LwwTypeOK
  <2>2. \A q \in LwwNodes : \A i \in 1..Reach(n, q) : written[q][i] \in LwwOp
    BY <1>1, ReachType
  <2>3. index[n][k].rev \in Nat /\ index[n][k].origin \in Nat BY <1>1, MarkerNumbers
  <2>4. op.rev \in Nat /\ op.key \in LwwKeys BY VersionedAssumption DEF LwwOp
  <2>5. \A w \in LwwOp : w.rev \in Nat BY VersionedAssumption DEF LwwOp
  <2>6. \A q \in LwwNodes : q \in Nat BY VersionedAssumption
  <2> QED BY <2>1, <2>2, <2>3, <2>4, <2>5, <2>6
<1>8. ASSUME held' = apply_one_op(n, op)
      PROVE  held'[n][k] = IF op.key = k THEN op.value ELSE held[n][k]
  BY <1>1, <1>4, <1>8 DEF apply_one_op, LwwTypeOK
<1>9. ASSUME index' = put_marker(n, op, o)
      PROVE  index'[n][k] = IF op.key # k THEN index[n][k]
                            ELSE IF op.value = NoValue THEN tombstone(op, o)
                            ELSE [rev |-> op.rev, origin |-> o, dead |-> FALSE]
  <2>1. index \in [LwwNodes -> [LwwKeys -> Marker]] BY <1>1 DEF LwwTypeOK
  <2> QED BY Zenon, <1>1, <1>4, <1>9, <2>1 DEF put_marker
<1>5. CASE op.key # k
  <2>1. index'[n][k] = index[n][k] /\ held'[n][k] = held[n][k]
    BY <1>1, <1>4, <1>5, <1>8, <1>9
  <2>2. Dominates(n, k)'
    BY <1>2, <1>3, <1>5, <2>1 DEF Dominates, SeesNext
  <2>3. HoldsWinner(n, k)'
    BY <1>2, <1>3, <2>1 DEF HoldsWinner, SeesNext
  <2> QED BY <2>2, <2>3
<1>6. CASE op.key = k /\ wins(n, op, o)
  <2>1. held'[n][k] = op.value
    BY <1>6, <1>8
  <2>2. /\ index'[n][k].rev = op.rev /\ index'[n][k].origin = o
        /\ index'[n][k].dead <=> op.value = NoValue
    BY <1>6, <1>9 DEF tombstone
  <2>3. Dominates(n, k)'
    <3>1. SUFFICES ASSUME NEW q \in LwwNodes, NEW i \in 1..Reach(n, q)',
                          written'[q][i].key = k, written'[q][i].rev > 0
                   PROVE  \/ op.rev > written'[q][i].rev
                          \/ op.rev = written'[q][i].rev /\ o >= q
      BY <2>2 DEF Dominates
    <3>2. CASE i \in 1..Reach(n, q)
      BY <1>1, <1>2, <1>4, <1>6, <3>1, <3>2 DEF Dominates, SeesNext, wins
    <3>3. CASE i \notin 1..Reach(n, q)
      <4>1. q = o /\ i = Reach(n, o) + 1 BY <1>3, <3>3 DEF SeesNext
      <4> QED BY <1>1, <1>4, <4>1 DEF SeesNext
    <3> QED BY <3>2, <3>3
  <2>4. HoldsWinner(n, k)'
    BY <1>3, <1>6, <2>1, <2>2 DEF HoldsWinner, SeesNext
  <2> QED BY <2>3, <2>4
<1>7. CASE op.key = k /\ ~wins(n, op, o)
  <2>1. index' = index /\ held' = held BY <1>7
  <2>2. Dominates(n, k)'
    <3>1. SUFFICES ASSUME NEW q \in LwwNodes, NEW i \in 1..Reach(n, q)',
                          written'[q][i].key = k, written'[q][i].rev > 0
                   PROVE  \/ index[n][k].rev > written'[q][i].rev
                          \/ index[n][k].rev = written'[q][i].rev /\ index[n][k].origin >= q
      BY <2>1 DEF Dominates
    <3>2. CASE i \in 1..Reach(n, q)
      BY <1>2, <3>1, <3>2 DEF Dominates, SeesNext
    <3>3. CASE i \notin 1..Reach(n, q)
      <4>1. q = o /\ i = Reach(n, o) + 1 BY <1>3, <3>3 DEF SeesNext
      <4> QED BY <1>1, <1>4, <1>7, <4>1 DEF SeesNext, wins
    <3> QED BY <3>2, <3>3
  <2>3. HoldsWinner(n, k)'
    BY <1>2, <1>3, <2>1 DEF HoldsWinner, SeesNext
  <2> QED BY <2>2, <2>3
<1> QED BY <1>5, <1>6, <1>7

-----------------------------------------------------------------------------
(* Local writes                                                            *)

\* What recording op at n does to the logs and to what each node has seen.
LEMMA Recorded ==
  ASSUME LwwTypeOK, NEW n \in LwwNodes, NEW op \in LwwOp, Record(n, op),
         UNCHANGED taken
  PROVE  /\ written' \in [LwwNodes -> Seq(LwwOp)]
         /\ Len(written'[n]) = Len(written[n]) + 1
         /\ written'[n][Len(written[n]) + 1] = op
         /\ \A i \in 1..Len(written[n]) : written'[n][i] = written[n][i]
         /\ \A q \in LwwNodes \ {n} : written'[q] = written[q]
         /\ \A p, q \in LwwNodes : p # n \/ q # n => Reach(p, q)' = Reach(p, q)
         /\ SeesNext(n, n, op)
<1>1. written \in [LwwNodes -> Seq(LwwOp)] BY DEF LwwTypeOK
<1>2. written[n] \in Seq(LwwOp) /\ written'[n] = Append(written[n], op)
  BY <1>1 DEF Record
<1>3. /\ Len(written'[n]) = Len(written[n]) + 1
      /\ written'[n][Len(written[n]) + 1] = op
      /\ \A i \in 1..Len(written[n]) : written'[n][i] = written[n][i]
      /\ written'[n] \in Seq(LwwOp)
  BY <1>2
<1>4. \A q \in LwwNodes \ {n} : written'[q] = written[q] BY <1>1 DEF Record
<1>5. written' \in [LwwNodes -> Seq(LwwOp)] BY <1>1, <1>3 DEF Record
<1>6. \A p, q \in LwwNodes : p # n \/ q # n => Reach(p, q)' = Reach(p, q)
  BY <1>4 DEF Reach
<1>7. SeesNext(n, n, op)
  <2>1. Reach(n, n)' = Reach(n, n) + 1 BY <1>3 DEF Reach
  <2>2. Reach(n, n) = Len(written[n]) BY DEF Reach
  <2> QED BY <1>3, <1>4, <1>6, <2>1, <2>2 DEF SeesNext
<1> QED BY <1>3, <1>4, <1>5, <1>6, <1>7

\* A record only lengthens a log.
LEMMA WithinLogs ==
  ASSUME LwwTypeOK, NEW n \in LwwNodes, NEW op \in LwwOp, Record(n, op),
         UNCHANGED taken
  PROVE  \A p, o \in LwwNodes : taken'[p][o] <= Len(written'[o])
<1>1. TAKE p, o \in LwwNodes
<1>2. taken[p][o] \in Nat /\ taken[p][o] <= Len(written[o]) /\ Len(written[o]) \in Nat
  BY DEF LwwTypeOK
<1>3. Len(written'[o]) \in {Len(written[o]), Len(written[o]) + 1} BY Recorded
<1> QED BY <1>2, <1>3

\* A record of n leaves every other node as it was.
LEMMA RecordedElsewhere ==
  ASSUME LwwTypeOK, NEW n \in LwwNodes, NEW op \in LwwOp, Record(n, op),
         UNCHANGED taken, NEW p \in LwwNodes, p # n,
         index'[p] = index[p], held'[p] = held[p]
  PROVE  Untouched(p)
<1>1. \A o \in LwwNodes : Reach(p, o)' = Reach(p, o) BY Recorded
<1>2. ASSUME NEW o \in LwwNodes, NEW i \in 1..Reach(p, o)
      PROVE  written'[o][i] = written[o][i]
  <2>1. CASE o # n BY <2>1, Recorded
  <2>2. CASE o = n
    <3>1. i \in 1..Len(written[n]) BY <2>2, ReachType
    <3> QED BY <2>2, <3>1, Recorded
  <2> QED BY <2>1, <2>2
<1> QED BY <1>1, <1>2 DEF Untouched

\* Appending an operation newer than n's earlier ones keeps versions unique.
LEMMA UniqueKept ==
  ASSUME LwwTypeOK, VersionsUnique, NEW n \in LwwNodes, NEW op \in LwwOp, Record(n, op),
         UNCHANGED taken,
         \A i \in 1..Len(written[n]) :
             written[n][i].key = op.key /\ written[n][i].rev > 0 => written[n][i].rev < op.rev
  PROVE  VersionsUnique'
<1>1. SUFFICES ASSUME NEW p \in LwwNodes, NEW i \in DOMAIN written'[p],
                      NEW j \in DOMAIN written'[p], i < j,
                      written'[p][i].key = written'[p][j].key, written'[p][i].rev > 0
               PROVE  written'[p][i].rev < written'[p][j].rev
  BY DEF VersionsUnique
<1>2. CASE p # n BY ZenonT(40), <1>1, <1>2, Recorded DEF VersionsUnique
<1>3. CASE p = n
  <2>1. /\ written[n] \in Seq(LwwOp) /\ written'[n] \in Seq(LwwOp)
        /\ Len(written'[n]) = Len(written[n]) + 1
        /\ written'[n][Len(written[n]) + 1] = op
        /\ \A q \in 1..Len(written[n]) : written'[n][q] = written[n][q]
    BY Recorded DEF LwwTypeOK
  <2>2. i \in 1..Len(written[n]) /\ written'[n][i] = written[n][i]
    BY <1>1, <1>3, <2>1
  <2>3. CASE j \in 1..Len(written[n])
    <3>1. written'[n][j] = written[n][j] BY <2>1, <2>3
    <3>2. i \in DOMAIN written[n] /\ j \in DOMAIN written[n] BY <2>1, <2>2, <2>3
    <3> QED BY <1>1, <1>3, <2>2, <3>1, <3>2 DEF VersionsUnique
  <2>4. CASE j \notin 1..Len(written[n])
    <3>1. j = Len(written[n]) + 1 BY <1>3, <2>1, <2>4
    <3> QED BY <1>1, <1>3, <2>1, <2>2, <3>1
  <2> QED BY <2>3, <2>4
<1> QED BY <1>2, <1>3

\* A plain write is made on an unregistered node and carries no version.
LEMMA PlainWriteKeeps ==
  ASSUME LwwInv, NEW n \in LwwNodes, NEW op \in LwwOp, PlainWrite(n, op)
  PROVE  LwwInv'
<1>1. LwwTypeOK /\ n \notin versioned /\ op.rev = 0 /\ Record(n, op)
      /\ UNCHANGED <<versioned, policy, index, taken>> /\ held' = apply_one_op(n, op)
  BY DEF LwwInv, PlainWrite, is_sync_versioned_dbi
<1>2. \A p \in LwwNodes \ {n} : Untouched(p)
  <2>1. \A p \in LwwNodes \ {n} : held'[p] = held[p] BY <1>1 DEF apply_one_op, LwwTypeOK
  <2> QED BY <1>1, <2>1, RecordedElsewhere
<1>3. LwwTypeOK'
  <2>1. held' \in [LwwNodes -> [LwwKeys -> LwwValues \cup {NoValue}]]
    BY <1>1 DEF apply_one_op, LwwTypeOK, LwwOp
  <2>2. written' \in [LwwNodes -> Seq(LwwOp)] BY <1>1, Recorded
  <2>3. \A p, o \in LwwNodes : taken'[p][o] <= Len(written'[o])
    BY <1>1, WithinLogs
  <2> QED BY <1>1, <2>1, <2>2, <2>3 DEF LwwTypeOK
<1>4. Unregistered'
  <2>1. SUFFICES ASSUME NEW p \in LwwNodes \ versioned, NEW o \in LwwNodes,
                        NEW i \in 1..Reach(p, o)'
                 PROVE  written'[o][i].rev = 0
    BY <1>1 DEF LwwInv, Unregistered
  <2>2. \A j \in 1..Reach(p, o) : written[o][j].rev = 0 BY DEF LwwInv, Unregistered
  <2>3. CASE p # n BY <1>2, <2>1, <2>2, <2>3 DEF Untouched
  <2>4. CASE p = n
    <3>1. SeesNext(n, n, op) BY <1>1, Recorded
    <3>2. CASE i \in 1..Reach(n, o) BY <2>2, <2>4, <3>1, <3>2 DEF SeesNext
    <3>3. CASE i \notin 1..Reach(n, o)
      <4>1. Reach(n, o) \in Nat BY <1>1, ReachType
      <4>2. o = n /\ i = Reach(n, n) + 1 BY <2>1, <2>4, <3>1, <3>3, <4>1 DEF SeesNext
      <4> QED BY <1>1, <3>1, <4>2 DEF SeesNext
    <3> QED BY <3>2, <3>3
  <2> QED BY <2>3, <2>4
<1>5. GreatestWins'
  <2>1. \A p \in versioned : p \in LwwNodes \ {n} BY <1>1 DEF LwwTypeOK
  <2> QED BY <1>1, <1>2, <2>1, UntouchedKeeps DEF LwwInv, GreatestWins
<1>6. VersionsUnique'
  <2>1. \A i \in 1..Len(written[n]) : written[n][i].rev = 0
    BY <1>1 DEF LwwInv, Unregistered, Reach
  <2> QED BY <1>1, <2>1, UniqueKept DEF LwwInv
<1> QED BY <1>3, <1>4, <1>5, <1>6 DEF LwwInv

\* A versioned write wins against everything its node has seen.
LEMMA VersionedWriteKeeps ==
  ASSUME LwwInv, NEW n \in LwwNodes, NEW op \in LwwOp, VersionedWrite(n, op)
  PROVE  LwwInv'
<1>1. /\ LwwTypeOK /\ n \in versioned /\ op.rev > 0 /\ Record(n, op) /\ wins(n, op, n)
      /\ UNCHANGED <<versioned, policy, taken>>
      /\ held' = apply_one_op(n, op) /\ index' = put_marker(n, op, n)
  BY DEF LwwInv, VersionedWrite, is_sync_versioned_dbi, Loses
<1>2. op.key \in LwwKeys /\ op.rev \in 0..MaxRev /\ op.value \in LwwValues \cup {NoValue}
  BY DEF LwwOp
<1>3. \A p \in LwwNodes \ {n} : Untouched(p)
  <2>1. \A p \in LwwNodes \ {n} : held'[p] = held[p] BY <1>1 DEF apply_one_op, LwwTypeOK
  <2>2. \A p \in LwwNodes \ {n} : index'[p] = index[p] BY <1>1 DEF put_marker, LwwTypeOK
  <2> QED BY <1>1, <2>1, <2>2, RecordedElsewhere
<1>4. LwwTypeOK'
  <2>1. held' \in [LwwNodes -> [LwwKeys -> LwwValues \cup {NoValue}]]
    BY <1>1, <1>2 DEF apply_one_op, LwwTypeOK
  <2>2. index' \in [LwwNodes -> [LwwKeys -> Marker]]
    BY <1>1, MarkerWritten
  <2>3. written' \in [LwwNodes -> Seq(LwwOp)] BY <1>1, Recorded
  <2>4. \A p, o \in LwwNodes : taken'[p][o] <= Len(written'[o]) BY <1>1, WithinLogs
  <2> QED BY <1>1, <2>1, <2>2, <2>3, <2>4 DEF LwwTypeOK
<1>5. Unregistered'
  <2>1. \A p \in LwwNodes \ versioned : p # n BY <1>1
  <2> QED BY <1>1, <1>3, <2>1 DEF LwwInv, Unregistered, Untouched
<1>6. GreatestWins'
  <2>1. SUFFICES ASSUME NEW p \in versioned, NEW k \in LwwKeys
                 PROVE  Dominates(p, k)' /\ HoldsWinner(p, k)'
    BY <1>1 DEF GreatestWins
  <2>2. p \in LwwNodes /\ Dominates(p, k) /\ HoldsWinner(p, k)
    BY <1>1 DEF LwwInv, GreatestWins, LwwTypeOK
  <2>3. CASE p # n BY <1>3, <2>2, <2>3, UntouchedKeeps
  <2>4. CASE p = n BY SMTT(40), <1>1, <2>4, Recorded, SeeingKeeps
  <2> QED BY <2>3, <2>4
<1>7. VersionsUnique'
  <2>1. \A i \in 1..Len(written[n]) :
            written[n][i].key = op.key /\ written[n][i].rev > 0 => written[n][i].rev < op.rev
    <3>1. TAKE i \in 1..Len(written[n])
    <3>2. Dominates(n, op.key) BY <1>1, <1>2 DEF LwwInv, GreatestWins
    <3>3. written[n][i].key = op.key /\ written[n][i].rev > 0 =>
              \/ index[n][op.key].rev > written[n][i].rev
              \/ index[n][op.key].rev = written[n][i].rev /\ index[n][op.key].origin >= n
      BY <3>1, <3>2 DEF Dominates, Reach
    <3>4. written[n][i].rev \in Nat /\ op.rev \in Nat /\ n \in Nat
      <4>1. written[n][i] \in LwwOp BY <3>1 DEF LwwInv, LwwTypeOK
      <4> QED BY <1>2, <4>1, VersionedAssumption DEF LwwOp
    <3>5. index[n][op.key].rev \in Nat /\ index[n][op.key].origin \in Nat
      BY <1>1, <1>2, MarkerNumbers
    <3> QED BY SMTT(40), <1>1, <3>3, <3>4, <3>5 DEF wins
  <2> QED BY <1>1, <2>1, UniqueKept DEF LwwInv
<1> QED BY <1>4, <1>5, <1>6, <1>7 DEF LwwInv

-----------------------------------------------------------------------------
(* Applying another node's operation                                       *)

\* What advancing n's cursor for o does to what each node has seen.
LEMMA Advanced ==
  ASSUME LwwTypeOK, NEW n \in LwwNodes, NEW o \in LwwNodes, n # o,
         taken[n][o] < Len(written[o]),
         taken' = [taken EXCEPT ![n][o] = taken[n][o] + 1], UNCHANGED written
  PROVE  /\ taken' \in [LwwNodes -> [LwwNodes -> Nat]]
         /\ \A p, q \in LwwNodes : taken'[p][q] <= Len(written'[q])
         /\ \A p, q \in LwwNodes : p # n \/ q # o => Reach(p, q)' = Reach(p, q)
         /\ written[o][taken[n][o] + 1] \in LwwOp
         /\ SeesNext(n, o, written[o][taken[n][o] + 1])
<1>1. /\ taken \in [LwwNodes -> [LwwNodes -> Nat]] /\ taken[n][o] \in Nat
      /\ \A q \in LwwNodes : written[q] \in Seq(LwwOp) /\ Len(written[q]) \in Nat
  BY DEF LwwTypeOK
<1>2. taken' \in [LwwNodes -> [LwwNodes -> Nat]] BY <1>1
<1>3. taken'[n][o] = taken[n][o] + 1 BY <1>1
<1>4. \A p, q \in LwwNodes : p # n \/ q # o => taken'[p][q] = taken[p][q] BY <1>1
<1>5. \A p, q \in LwwNodes : taken'[p][q] <= Len(written'[q])
  <2>1. TAKE p, q \in LwwNodes
  <2>2. CASE p = n /\ q = o BY <1>1, <1>3, <2>2
  <2>3. CASE p # n \/ q # o BY <1>4, <2>3 DEF LwwTypeOK
  <2> QED BY <2>2, <2>3
<1>6. \A p, q \in LwwNodes : p # n \/ q # o => Reach(p, q)' = Reach(p, q)
  BY <1>4 DEF Reach
<1>7. written[o][taken[n][o] + 1] \in LwwOp BY <1>1
<1>8. SeesNext(n, o, written[o][taken[n][o] + 1])
  <2>1. Reach(n, o) = taken[n][o] /\ Reach(n, o)' = taken[n][o] + 1 BY <1>3 DEF Reach
  <2> QED BY <1>6, <2>1 DEF SeesNext
<1> QED BY <1>2, <1>5, <1>6, <1>7, <1>8

\* An applied operation: raw on an unregistered node, compared on a registered
\* one.
LEMMA ApplyKeeps ==
  ASSUME LwwInv, NEW n \in LwwNodes, NEW o \in LwwNodes, LwwApply(n, o)
  PROVE  LwwInv'
<1> DEFINE op == written[o][taken[n][o] + 1]
<1>1. /\ LwwTypeOK /\ n # o /\ taken[n][o] < Len(written[o])
      /\ taken' = [taken EXCEPT ![n][o] = taken[n][o] + 1]
      /\ UNCHANGED <<versioned, policy, written>>
      /\ validate_versioned_dbi_batch(n, op)
  BY DEF LwwInv, LwwApply, CursorAt
<1>2. \/ /\ n \in versioned /\ op.rev > 0 /\ wins(n, op, o)
         /\ held' = apply_one_op(n, op) /\ index' = put_marker(n, op, o)
      \/ n \in versioned /\ op.rev > 0 /\ ~wins(n, op, o) /\ UNCHANGED <<held, index>>
      \/ n \notin versioned /\ op.rev = 0 /\ held' = apply_one_op(n, op) /\ UNCHANGED index
  BY DEF LwwApply, validate_versioned_dbi_batch, is_sync_versioned_dbi, apply_lww_one_op
<1>3. op \in LwwOp /\ SeesNext(n, o, op) BY Zenon, <1>1, Advanced
<1> HIDE DEF op
<1>4. op.key \in LwwKeys /\ op.value \in LwwValues \cup {NoValue} BY <1>3 DEF LwwOp
<1>5. \A p \in LwwNodes \ {n} : Untouched(p)
  <2>1. \A p \in LwwNodes \ {n} : held'[p] = held[p]
    BY <1>1, <1>2 DEF apply_one_op, LwwTypeOK
  <2>2. \A p \in LwwNodes \ {n} : index'[p] = index[p]
    BY SMTT(40), <1>1, <1>2 DEF put_marker, LwwTypeOK
  <2>3. \A p \in LwwNodes \ {n} : \A q \in LwwNodes : Reach(p, q)' = Reach(p, q)
    BY Zenon, <1>1, Advanced
  <2> QED BY <1>1, <2>1, <2>2, <2>3 DEF Untouched
<1>6. LwwTypeOK'
  <2>1. held' \in [LwwNodes -> [LwwKeys -> LwwValues \cup {NoValue}]]
    <3>1. CASE held' = held BY <1>1, <3>1 DEF LwwTypeOK
    <3>2. CASE held' = apply_one_op(n, op) BY <1>1, <1>4, <3>2 DEF apply_one_op, LwwTypeOK
    <3> QED BY <1>2, <3>1, <3>2
  <2>2. index' \in [LwwNodes -> [LwwKeys -> Marker]]
    <3>1. CASE index' = index BY <1>1, <3>1 DEF LwwTypeOK
    <3>2. CASE index' = put_marker(n, op, o) BY <1>1, <1>3, <3>2, MarkerWritten
    <3> QED BY <1>2, <3>1, <3>2
  <2>3. /\ taken' \in [LwwNodes -> [LwwNodes -> Nat]]
        /\ \A p, q \in LwwNodes : taken'[p][q] <= Len(written'[q])
    BY Zenon, <1>1, Advanced
  <2> QED BY <1>1, <2>1, <2>2, <2>3 DEF LwwTypeOK
<1>7. Unregistered'
  <2>1. SUFFICES ASSUME NEW p \in LwwNodes \ versioned
                 PROVE  /\ \A k \in LwwKeys : index'[p][k] = NoMarker
                        /\ \A q \in LwwNodes : \A i \in 1..Reach(p, q)' :
                               written'[q][i].rev = 0
    BY <1>1 DEF Unregistered
  <2>2. /\ \A k \in LwwKeys : index[p][k] = NoMarker
        /\ \A q \in LwwNodes : \A i \in 1..Reach(p, q) : written[q][i].rev = 0
    BY <2>1 DEF LwwInv, Unregistered
  <2>3. CASE p # n BY <1>5, <2>2, <2>3 DEF Untouched
  <2>4. CASE p = n
    <3>1. index' = index /\ op.rev = 0 BY <1>2, <2>1, <2>4
    <3>2. ASSUME NEW q \in LwwNodes, NEW i \in 1..Reach(n, q)'
          PROVE  written'[q][i].rev = 0
      <4>1. CASE i \in 1..Reach(n, q) BY <2>2, <2>4, <1>3, <4>1 DEF SeesNext
      <4>2. CASE i \notin 1..Reach(n, q)
        <5>1. Reach(n, q) \in Nat BY <1>1, ReachType
        <5>2. q = o /\ i = Reach(n, o) + 1 BY <1>3, <3>2, <4>2, <5>1 DEF SeesNext
        <5> QED BY <1>3, <3>1, <5>2 DEF SeesNext
      <4> QED BY <4>1, <4>2
    <3> QED BY <2>2, <2>4, <3>1, <3>2
  <2> QED BY <2>3, <2>4
<1>8. GreatestWins'
  <2>1. SUFFICES ASSUME NEW p \in versioned, NEW k \in LwwKeys
                 PROVE  Dominates(p, k)' /\ HoldsWinner(p, k)'
    BY <1>1 DEF GreatestWins
  <2>2. p \in LwwNodes /\ Dominates(p, k) /\ HoldsWinner(p, k)
    BY <1>1 DEF LwwInv, GreatestWins, LwwTypeOK
  <2>3. CASE p # n BY <1>5, <2>2, <2>3, UntouchedKeeps
  <2>4. CASE p = n BY <1>2, <1>3, <2>1, <2>4, SeeingKeeps
  <2> QED BY <2>3, <2>4
<1>9. VersionsUnique' BY <1>1 DEF LwwInv, VersionsUnique
<1> QED BY <1>6, <1>7, <1>8, <1>9 DEF LwwInv

-----------------------------------------------------------------------------
(* Theorems                                                                *)

\* LwwInv holds in every reachable state.
THEOREM LwwInvariance == LwwSpec => []LwwInv
<1>1. LwwInit => LwwInv BY LwwInitial
<1>2. LwwInv /\ [LwwNext]_lwwVars => LwwInv'
  <2>1. SUFFICES ASSUME LwwInv, [LwwNext]_lwwVars PROVE LwwInv'
    BY Zenon
  <2>2. CASE UNCHANGED lwwVars
    BY <2>1, <2>2 DEF lwwVars, LwwInv, LwwTypeOK, Unregistered, GreatestWins, Dominates,
       HoldsWinner, VersionsUnique, Reach
  <2>3. ASSUME NEW n \in LwwNodes, register_table(n) PROVE LwwInv'
    BY <2>1, <2>3, RegisterKeeps
  <2>4. ASSUME NEW n \in LwwNodes, SetPolicy(n) PROVE LwwInv'
    BY <2>1, <2>4, SetPolicyKeeps
  <2>5. ASSUME NEW n \in LwwNodes, NEW op \in LwwOp, PlainWrite(n, op) PROVE LwwInv'
    BY <2>1, <2>5, PlainWriteKeeps
  <2>6. ASSUME NEW n \in LwwNodes, NEW op \in LwwOp,
               insert_or_assign(n, op) \/ erase(n, op)
        PROVE  LwwInv'
    BY <2>1, <2>6, VersionedWriteKeeps DEF insert_or_assign, erase
  <2>7. ASSUME NEW n \in LwwNodes, NEW o \in LwwNodes, LwwApply(n, o) PROVE LwwInv'
    BY <2>1, <2>7, ApplyKeeps
  <2> QED BY <2>1, <2>2, <2>3, <2>4, <2>5, <2>6, <2>7 DEF LwwNext
<1> QED BY <1>1, <1>2, PTL DEF LwwSpec

\* apply_lww_one_op and VersionedKeyValueTable: a registered node always holds,
\* for every key, the operation with the greatest version (then node) it has
\* seen; a tombstone is one of them.
THEOREM GreatestAlwaysWins == LwwSpec => []GreatestWins
<1>1. LwwInv => GreatestWins BY DEF LwwInv
<1> QED BY <1>1, LwwInvariance, PTL

\* wins and validate_repeated_write: a version of a key and its node name one
\* published operation.
THEOREM VersionsAlwaysUnique == LwwSpec => []VersionsUnique
<1>1. LwwInv => VersionsUnique BY DEF LwwInv
<1> QED BY <1>1, LwwInvariance, PTL

\* Two nodes whose index names the same winner of k hold the same value.
LEMMA SameWinnerSameValue ==
  ASSUME LwwInv, NEW n \in versioned, NEW m \in versioned, NEW k \in LwwKeys,
         \A o \in LwwNodes : Reach(n, o) = Reach(m, o)
  PROVE  held[n][k] = held[m][k]
<1>1. /\ n \in LwwNodes /\ m \in LwwNodes /\ LwwTypeOK
      /\ Dominates(n, k) /\ HoldsWinner(n, k) /\ Dominates(m, k) /\ HoldsWinner(m, k)
  BY DEF LwwInv, LwwTypeOK, GreatestWins
<1>2. /\ index[n][k].rev \in Nat /\ index[n][k].origin \in Nat
      /\ index[m][k].rev \in Nat /\ index[m][k].origin \in Nat
  BY <1>1, MarkerNumbers
<1>3. CASE index[n][k].rev = 0 /\ index[m][k].rev = 0
  BY SMTT(40), <1>1, <1>3 DEF HoldsWinner
<1>4. ASSUME NEW p \in {n, m}, index[p][k].rev > 0
      PROVE  \E o \in LwwNodes : \E i \in 1..Reach(n, o) :
                /\ written[o][i].key = k /\ written[o][i].value = held[p][k]
                /\ written[o][i].rev = index[p][k].rev /\ index[p][k].origin = o
  BY <1>1, <1>4 DEF HoldsWinner, NoMarker
<1>5. ASSUME NEW p \in {n, m}, NEW q \in {n, m}, index[p][k].rev > 0
      PROVE  \/ index[q][k].rev > index[p][k].rev
             \/ index[q][k].rev = index[p][k].rev /\ index[q][k].origin >= index[p][k].origin
  <2>1. PICK o \in LwwNodes : \E i \in 1..Reach(n, o) :
           /\ written[o][i].key = k
           /\ written[o][i].rev = index[p][k].rev /\ index[p][k].origin = o
    BY <1>4, <1>5
  <2>2. Dominates(q, k) /\ Reach(q, o) = Reach(n, o) BY <1>1, <1>5
  <2> QED BY <1>5, <2>1, <2>2 DEF Dominates
<1>6. CASE index[n][k].rev > 0 \/ index[m][k].rev > 0
  <2>1. /\ index[n][k].rev > 0 /\ index[m][k].rev > 0
        /\ index[n][k].rev = index[m][k].rev /\ index[n][k].origin = index[m][k].origin
    <3>1. index[n][k].rev > 0 =>
             \/ index[m][k].rev > index[n][k].rev
             \/ index[m][k].rev = index[n][k].rev /\ index[m][k].origin >= index[n][k].origin
      BY <1>5
    <3>2. index[m][k].rev > 0 =>
             \/ index[n][k].rev > index[m][k].rev
             \/ index[n][k].rev = index[m][k].rev /\ index[n][k].origin >= index[m][k].origin
      BY <1>5
    <3> QED BY <1>2, <1>6, <3>1, <3>2
  <2>2. PICK o \in LwwNodes : index[n][k].origin = o /\ \E i \in 1..Reach(n, o) :
           /\ written[o][i].key = k /\ written[o][i].value = held[n][k]
           /\ written[o][i].rev = index[n][k].rev
    BY <1>4, <2>1
  <2>3. \E j \in 1..Reach(n, o) :
           /\ written[o][j].key = k /\ written[o][j].value = held[m][k]
           /\ written[o][j].rev = index[n][k].rev
    <3>1. PICK q \in LwwNodes : \E j \in 1..Reach(n, q) :
             /\ written[q][j].key = k /\ written[q][j].value = held[m][k]
             /\ written[q][j].rev = index[m][k].rev /\ index[m][k].origin = q
      BY <1>4, <2>1
    <3> QED BY ZenonT(40), <2>1, <2>2, <3>1
  <2>4. 1..Reach(n, o) \subseteq DOMAIN written[o]
    <3>1. written[o] \in Seq(LwwOp) BY <1>1 DEF LwwTypeOK
    <3>2. /\ Reach(n, o) \in Nat /\ Len(written[o]) \in Nat
          /\ Reach(n, o) <= Len(written[o])
      BY <1>1, ReachType
    <3> QED BY <3>1, <3>2
  <2>5. PICK i \in 1..Reach(n, o), j \in 1..Reach(n, o) :
           /\ written[o][i].key = k /\ written[o][i].value = held[n][k]
           /\ written[o][j].key = k /\ written[o][j].value = held[m][k]
           /\ written[o][i].rev = index[n][k].rev /\ written[o][j].rev = index[n][k].rev
    BY <2>2, <2>3
  <2>6. i \in DOMAIN written[o] /\ j \in DOMAIN written[o] BY <2>4
  <2>7. ~(i < j) /\ ~(j < i) BY <1>2, <2>1, <2>5, <2>6 DEF LwwInv, VersionsUnique
  <2>8. i = j BY <2>7
  <2> QED BY <2>5, <2>8
<1> QED BY <1>2, <1>3, <1>6

\* docs/sync.md: registered nodes that have seen the same operations hold the
\* same table, whatever order they applied them in.
THEOREM ReplicasConverge == LwwSpec => []Convergence
<1>1. LwwInv => Convergence
  <2>1. SUFFICES ASSUME LwwInv, NEW n \in versioned, NEW m \in versioned,
                        \A o \in LwwNodes : Reach(n, o) = Reach(m, o)
                 PROVE  held[n] = held[m]
    BY DEF Convergence
  <2>2. \A k \in LwwKeys : held[n][k] = held[m][k] BY <2>1, SameWinnerSameValue
  <2>3. /\ held[n] \in [LwwKeys -> LwwValues \cup {NoValue}]
        /\ held[m] \in [LwwKeys -> LwwValues \cup {NoValue}]
    BY <2>1 DEF LwwInv, LwwTypeOK
  <2> QED BY <2>2, <2>3
<1> QED BY <1>1, LwwInvariance, PTL
=============================================================================
