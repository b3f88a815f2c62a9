------------------------------ MODULE KeyTable ------------------------------
(***************************************************************************)
(* KeyTable.hpp: a set of keys, stored as rows with an empty value. Its     *)
(* cursor loops are those of KeyValueTable without the values; its mutators *)
(* differ: insert never overwrites, reconcile clears and inserts again.     *)
(***************************************************************************)
EXTENDS KeyValueTable

Empty == 0  \* the empty value of a key row

KeysOf(rs) == [i \in DOMAIN rs |-> rs[i].key]

KtDbLoad(s) == KeysOf(DbLoad(s))
KtDbRange(s, from, to) == KeysOf(DbRange(s, from, to))
KtDbForEachRange(s, from, to, stops) == KeysOf(DbForEachRange(s, from, to, stops))
KtDbRangeReverse(s, from, to, limit) == KeysOf(DbRangeReverse(s, from, to, limit))

KtLoad == KtDbLoad(Seen)
KtRange(f, t) == KtDbRange(Seen, f, t)
KtForEachRange(f, t, stops) == KtDbForEachRange(Seen, f, t, stops)
KtFilterRange(f, t, kept) == SelectSeq(KtDbRange(Seen, f, t), LAMBDA k : k \in kept)
KtDbLowerBound(s, k) == KeysOf(SetToSeq(RowAt(s, DbLowerBound(s, k))))
KtDbUpperBound(s, k) == KeysOf(SetToSeq(RowAt(s, DbUpperBound(s, k))))
KtLowerBound(k) == KtDbLowerBound(Seen, k)
KtUpperBound(k) == KtDbUpperBound(Seen, k)
KtFirst == KeysOf(SetToSeq(RowAt(Seen, CursorFirst(Seen))))
KtLast == KeysOf(SetToSeq(RowAt(Seen, CursorLast(Seen))))
KtRangeReverse(f, t, limit) == KtDbRangeReverse(Seen, f, t, limit)
KtDbCountRange(s, f, t) == Len(KtDbRange(s, f, t))
KtDbContainsRange(s, f, t) == DbContainsRange(s, f, t)
KtContainsRange(f, t) == KtDbContainsRange(Seen, f, t)
KtCountRange(f, t) == KtDbCountRange(Seen, f, t)
KtContains(k) == CursorSetKey(Seen, k) # 0
KtCount == Len(Seen)

\* KeyTableLogicalAdapter::apply.
KtAdapterApply(c, change) ==
    CASE change.type = "Put" -> IF HasKey(c, change.key) THEN c
                                ELSE c \cup {Row(change.key, 0, Empty)}
      [] change.type = "Delete" -> Without(c, change.key)
      [] change.type = "ClearTable" -> {}

KtReported(c, op) == IF table.capture = "session" THEN KtAdapterApply(c, op)
                     ELSE ApplyOneOp(c, op)

KtDbInsert(d, k) ==
    IF HasKey(d.rows, k) THEN d
    ELSE Write(d, d.rows \cup {Row(k, 0, Empty)},
               KtReported(d.copy, Put(k, Empty)))

KtDbErase(d, k) ==
    IF ~HasKey(d.rows, k) THEN d
    ELSE Write(d, Without(d.rows, k), KtReported(d.copy, Delete(k)))

KtDbEraseRange(d, from, to) ==
    ForEach(d, DbRange(Ordered(d.rows), from, to),
            LAMBDA acc, r : Write(acc, acc.rows \ {r},
                                  KtReported(acc.copy, Delete(r.key))))

KtDbClear(d) == Write(d, {}, KtReported(d.copy, ClearTable))

KtDbAppend(d, ks) == ForEach(d, ks, KtDbInsert)

KtReconciled(d, ks) == KtDbAppend(KtDbClear(d), ks)

KeyLists == {<<>>} \cup {<<k>> : k \in Keys} \cup {<<j, k>> : j, k \in Keys}

KtInsert == \E k \in Keys : WithTransaction(KtDbInsert(Start, k))
KtErase == \E k \in Keys : WithTransaction(KtDbErase(Start, k))
KtEraseRange == \E f, t \in Keys : WithTransaction(KtDbEraseRange(Start, f, t))
KtAppend == \E ks \in KeyLists : WithTransaction(KtDbAppend(Start, ks))
KtReconcile == \E ks \in KeyLists : WithTransaction(KtReconciled(Start, ks))
KtClear == WithTransaction(KtDbClear(Start))

\* The operations of KeyTableLogicalAdapter::LogicalCaptureSession.
KtSessionInsert == \E k \in Keys : WithSession(KtDbInsert(Start, k))
KtSessionErase == \E k \in Keys : WithSession(KtDbErase(Start, k))
KtSessionClear == WithSession(KtDbClear(Start))

KeyTableNext ==
    \/ /\ Wrapper("KeyTable")
       /\ \/ KtInsert \/ KtErase \/ KtEraseRange
          \/ KtAppend \/ KtReconcile \/ KtClear
    \/ /\ Session("KeyTable")
       /\ KtSessionInsert \/ KtSessionErase \/ KtSessionClear

=============================================================================
