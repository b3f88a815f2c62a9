--------------------------- MODULE KeyValueTable ---------------------------
(***************************************************************************)
(* KeyValueTable.hpp: one value per key. The mutators report each storage   *)
(* call to the attached capture sink (Put, Delete, ClearTable), which a     *)
(* follower replays as an upsert, an erasure and a drop; inside a logical   *)
(* capture session (KeyValueTableLogicalAdapter) the raw reports are        *)
(* suppressed and the adapter's own changes are replayed. The readers are   *)
(* the cursor loops of the wrapper over the ordered rows.                   *)
(***************************************************************************)
EXTENDS TableStore

---------------------------------------------------------------------------
(* Readers.                                                                 *)

\* A forward loop from position i while the key does not pass "to".
ForwardScan(s, i, to) ==
    LET scan[j \in 0..Len(s)] ==
          IF j = 0 THEN <<>>
          ELSE IF s[j].key > to THEN <<>>
          ELSE <<s[j]>> \o scan[CursorNext(s, j)]
    IN scan[i]

\* A backward loop from position i while the key does not pass "from" and
\* fewer than limit rows were taken.
BackwardScan(s, i, from, limit) ==
    LET scan[j \in 0..Len(s), left \in 0..limit] ==
          IF j = 0 THEN <<>>
          ELSE IF s[j].key < from THEN <<>>
          ELSE IF left = 1 THEN <<s[j]>>
          ELSE <<s[j]>> \o scan[CursorPrev(s, j), left - 1]
    IN scan[i, limit]

DbLoad(s) == ForwardScan(s, CursorFirst(s), IF s = <<>> THEN 0 ELSE Last(s).key)

DbRange(s, from, to) ==
    IF from > to THEN <<>> ELSE ForwardScan(s, CursorSetRange(s, from), to)

DbRangeValues(s, from, to) ==
    [i \in 1..Len(DbRange(s, from, to)) |-> DbRange(s, from, to)[i].val]

\* The rows a callback sees that stops at the first key of stops.
DbForEachRange(s, from, to, stops) ==
    LET seen == DbRange(s, from, to)
        at == FirstAt(seen, LAMBDA r : r.key \in stops)
    IN IF at = 0 THEN seen ELSE SubSeq(seen, 1, at)

\* The position of the answer, 0 for none: an exact hit first, then a seek.
DbLowerBound(s, k) ==
    LET exact == CursorSetKey(s, k)
    IN IF exact # 0 THEN exact ELSE CursorSetRange(s, k)

DbUpperBound(s, k) ==
    LET at == CursorSetRange(s, k)
    IN IF at = 0 THEN 0
       ELSE IF s[at].key = k THEN CursorNext(s, at) ELSE at

DbFirst(s) == CursorFirst(s)
DbLast(s) == CursorLast(s)

DbRangeReverse(s, from, to, limit) ==
    LET at == CursorSetRange(s, to)
        start == IF at = 0 THEN CursorLast(s)
                 ELSE IF s[at].key > to THEN CursorPrev(s, at) ELSE at
    IN IF limit = 0 \/ from > to THEN <<>>
       ELSE BackwardScan(s, start, from, limit)

DbContainsRange(s, from, to) ==
    /\ from <= to
    /\ CursorSetRange(s, from) # 0
    /\ s[CursorSetRange(s, from)].key <= to

DbCountRange(s, from, to) == Len(DbRange(s, from, to))

DbGet(s, k) == CursorSetKey(s, k)

DbFindMany(s, ks) ==
    FoldLeft(LAMBDA out, k : IF DbGet(s, k) = 0 THEN out
                             ELSE Append(out, s[DbGet(s, k)]), <<>>, ks)

\* The public readers run the loops on the caller's transaction or on a
\* snapshot of their own.
KvLoad == DbLoad(Seen)
KvRange(f, t) == DbRange(Seen, f, t)
KvRangeValues(f, t) == DbRangeValues(Seen, f, t)
KvForEachRange(f, t, stops) == DbForEachRange(Seen, f, t, stops)
KvFilterRange(f, t, kept) ==
    SelectSeq(DbForEachRange(Seen, f, t, {}), LAMBDA r : r.key \in kept)
KvLowerBound(k) == RowAt(Seen, DbLowerBound(Seen, k))
KvUpperBound(k) == RowAt(Seen, DbUpperBound(Seen, k))
KvFirst == RowAt(Seen, DbFirst(Seen))
KvLast == RowAt(Seen, DbLast(Seen))
KvMinKey == {r.key : r \in KvFirst}
KvMaxKey == {r.key : r \in KvLast}
KvRangeReverse(f, t, limit) == DbRangeReverse(Seen, f, t, limit)
KvContainsRange(f, t) == DbContainsRange(Seen, f, t)
KvCountRange(f, t) == DbCountRange(Seen, f, t)
KvFind(k) == RowAt(Seen, DbGet(Seen, k))
KvFindMany(ks) == DbFindMany(Seen, ks)
KvContains(k) == DbGet(Seen, k) # 0
KvCount == Len(Seen)

---------------------------------------------------------------------------
(* Mutators, as outcomes of a call.                                         *)

\* KeyValueTableLogicalAdapter::apply: the change a session recorded.
AdapterApply(c, change) ==
    CASE change.type = "Put" -> Upserted(c, change.key, change.val)
      [] change.type = "Delete" -> Without(c, change.key)
      [] change.type = "ClearTable" -> {}

Reported(c, op) == IF table.capture = "session" THEN AdapterApply(c, op)
                   ELSE ApplyOneOp(c, op)

DbInsertOrAssign(d, k, v) ==
    Write(d, Upserted(d.rows, k, v), Reported(d.copy, Put(k, v)))

DbInsertIfAbsent(d, k, v) ==
    IF HasKey(d.rows, k) THEN d
    ELSE Write(d, Upserted(d.rows, k, v), Reported(d.copy, Put(k, v)))

\* fn maps the stored value to the new one.
DbUpdate(d, k, fn) ==
    LET s == Ordered(d.rows) IN
    IF DbGet(s, k) = 0 THEN d
    ELSE DbInsertOrAssign(d, k, fn[s[DbGet(s, k)].val])

\* Mutant: the erasure is not reported.
DbEraseUnreported(d, k) == [d EXCEPT !.rows = Without(@, k)]

DbErase(d, k) ==
    IF ~HasKey(d.rows, k) THEN d
    ELSE Write(d, Without(d.rows, k), Reported(d.copy, Delete(k)))

\* The cursor deletes the row it is on and moves to the next one.
DbEraseRange(d, from, to) ==
    ForEach(d, DbRange(Ordered(d.rows), from, to),
            LAMBDA acc, r : Write(acc, acc.rows \ {r},
                                  Reported(acc.copy, Delete(r.key))))

DbAppend(d, container) ==
    ForEach(d, container, LAMBDA acc, p : DbInsertOrAssign(acc, p[1], p[2]))

\* Upserts the container, then deletes the rows of other keys.
DbReconcile(d, container) ==
    LET put == DbAppend(d, container)
        wanted == {container[i][1] : i \in DOMAIN container}
    IN ForEach(put, Ordered(put.rows),
               LAMBDA acc, r : IF r.key \in wanted THEN acc
                               ELSE Write(acc, acc.rows \ {r},
                                          Reported(acc.copy, Delete(r.key))))

DbClear(d) == Write(d, {}, Reported(d.copy, ClearTable))

---------------------------------------------------------------------------
(* The public calls.                                                        *)

Pairs == Keys \X Values

Insert == \E p \in Pairs : WithTransaction(DbInsertIfAbsent(Start, p[1], p[2]))
InsertOrAssign ==
    \E p \in Pairs : WithTransaction(DbInsertOrAssign(Start, p[1], p[2]))
Update == \E k \in Keys : \E fn \in [Values \cup Oversized -> Values] :
              WithTransaction(DbUpdate(Start, k, fn))
Erase == \E k \in Keys : WithTransaction(DbErase(Start, k))
EraseRange == \E f, t \in Keys : WithTransaction(DbEraseRange(Start, f, t))
AppendAll == \E c \in Containers : WithTransaction(DbAppend(Start, c))
Reconcile == \E c \in Containers : WithTransaction(DbReconcile(Start, c))
Clear == WithTransaction(DbClear(Start))

\* The operations of KeyValueTableLogicalAdapter::LogicalCaptureSession.
SessionInsertOrAssign ==
    \E p \in Pairs : WithSession(DbInsertOrAssign(Start, p[1], p[2]))
SessionErase == \E k \in Keys : WithSession(DbErase(Start, k))
SessionClear == WithSession(DbClear(Start))

KeyValueNext ==
    \/ /\ Wrapper("KeyValueTable")
       /\ \/ Insert \/ InsertOrAssign \/ Update \/ Erase
          \/ EraseRange \/ AppendAll \/ Reconcile \/ Clear
    \/ /\ Session("KeyValueTable")
       /\ SessionInsertOrAssign \/ SessionErase \/ SessionClear

=============================================================================
