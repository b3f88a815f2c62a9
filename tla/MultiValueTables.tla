-------------------------- MODULE MultiValueTables --------------------------
(***************************************************************************)
(* KeyMultiValueTable.hpp and KeyOrderedMultiValueTable.hpp: several values *)
(* per key, each stored behind a per-key order number. Neither reports raw  *)
(* operations; a DBI with an automatic logical binding (capture "auto")     *)
(* reports logical changes, a capture session of the adapter records its    *)
(* own ("session"), and otherwise nothing is captured ("none").             *)
(* table.version is the schema version of the adapter.                      *)
(***************************************************************************)
EXTENDS SequenceTable

CONSTANT MaxPairs  \* the max_pairs argument of a session's erase_range

OfKey(s, k) == SelectSeq(s, LAMBDA r : r.key = k)
Matching(s, k, v) == SelectSeq(s, LAMBDA r : r.key = k /\ r.val = v)

\* The number of rows holding each pair: what the multiset contract is about.
Multiplicity(rs) ==
    [p \in Keys \X Values |-> Cardinality({r \in rs : r.key = p[1] /\ r.val = p[2]})]

---------------------------------------------------------------------------
(* A duplicate loop: SET_KEY, then NEXT_DUP until NOTFOUND.                 *)

DupScan(s, k) ==
    LET scan[i \in 0..Len(s)] ==
          IF i = 0 THEN <<>> ELSE <<s[i]>> \o scan[CursorNextDup(s, i)]
    IN scan[CursorSetKey(s, k)]

MvDbFind(s, k) == [i \in 1..Len(DupScan(s, k)) |-> DupScan(s, k)[i].val]
MvDbCountKey(s, k) == Len(DupScan(s, k))
MvDbCountPair(s, k, v) == Len(Matching(DupScan(s, k), k, v))

\* Bounds and reverse ranges differ from KeyValueTable's: the next distinct
\* key, and the last duplicate of the upper key.
MvDbUpperBound(s, k) ==
    LET at == CursorSetRange(s, k)
    IN IF at = 0 THEN 0
       ELSE IF s[at].key = k THEN CursorNextNodup(s, at) ELSE at

\* Mutant: the range starts at the first duplicate of its upper key.
MvDbRangeReverseFirst(s, from, to, limit) == DbRangeReverse(s, from, to, limit)

MvDbRangeReverse(s, from, to, limit) ==
    LET at == CursorSetRange(s, to)
        start == IF at = 0 THEN CursorLast(s)
                 ELSE IF s[at].key > to THEN CursorPrev(s, at)
                 ELSE CursorLastDup(s, at)
    IN IF limit = 0 \/ from > to THEN <<>>
       ELSE BackwardScan(s, start, from, limit)

MvDbRange(s, from, to) ==
    IF from > to THEN <<>> ELSE ForwardScan(s, CursorSetRange(s, from), to)

MvDbContainsRange(s, from, to) ==
    /\ from <= to
    /\ CursorSetRange(s, from) # 0
    /\ s[CursorSetRange(s, from)].key <= to

MvDbCountRange(s, from, to) == Len(MvDbRange(s, from, to))

\* The public readers.
MvLoad == DbLoad(Seen)
MvRange(f, t) == MvDbRange(Seen, f, t)
MvRangeValues(f, t) == [i \in 1..Len(MvRange(f, t)) |-> MvRange(f, t)[i].val]
MvForEachRange(f, t, stops) ==
    LET at == FirstAt(MvRange(f, t), LAMBDA r : r.key \in stops)
    IN IF at = 0 THEN MvRange(f, t) ELSE SubSeq(MvRange(f, t), 1, at)
MvFilterRange(f, t, kept) == SelectSeq(MvRange(f, t), LAMBDA r : r.key \in kept)
MvLowerBound(k) == RowAt(Seen, CursorSetRange(Seen, k))
MvUpperBound(k) == RowAt(Seen, MvDbUpperBound(Seen, k))
MvFirst == RowAt(Seen, CursorFirst(Seen))
MvLast == RowAt(Seen, CursorLast(Seen))
MvMinKey == {r.key : r \in MvFirst}
MvMaxKey == {r.key : r \in MvLast}
MvRangeReverse(f, t, limit) == MvDbRangeReverse(Seen, f, t, limit)
MvContainsRange(f, t) == MvDbContainsRange(Seen, f, t)
MvCountRange(f, t) == MvDbCountRange(Seen, f, t)
MvFind(k) == MvDbFind(Seen, k)
MvContains(k, v) == MvDbCountPair(Seen, k, v) > 0
MvCounts(k, v) == <<Len(Seen), MvDbCountKey(Seen, k), MvDbCountPair(Seen, k, v)>>

---------------------------------------------------------------------------
(* The logical change a mutation stands for, replayed on the follower by    *)
(* KeyMultiValueTableLogicalAdapter::apply through the same table calls.    *)

InsertOne(k, v) == [op |-> "InsertOne", key |-> k, val |-> v]
EraseKey(k) == [op |-> "EraseKey", key |-> k, val |-> 0]
EraseAllValues(k, v) == [op |-> "EraseAllValues", key |-> k, val |-> v]
EraseOneValue(k, v) == [op |-> "EraseOneValue", key |-> k, val |-> v]
ClearAll == [op |-> "Clear", key |-> 0, val |-> 0]

\* next_sequence: one past the last duplicate of the key, 0 for a new key.
MvNextSequence(rs, k) ==
    LET dups == DupScan(Ordered(rs), k)
    IN IF dups = <<>> THEN 0 ELSE Last(dups).seq + 1

\* The follower numbers its rows itself; only their order per key is kept.
Renumbered(rs) ==
    {Row(r.key, Cardinality({q \in rs : q.key = r.key /\ q.seq < r.seq}), r.val) :
        r \in rs}

MvAdapterApply(c, change) ==
    LET k == change.key
        hits == Matching(Ordered(c), k, change.val)
    IN Renumbered(
        CASE change.op = "InsertOne" -> c \cup {Row(k, MvNextSequence(c, k), change.val)}
          [] change.op = "EraseKey" -> Without(c, k)
          [] change.op = "EraseAllValues" -> c \ ToSet(hits)
          [] change.op = "EraseOneValue" -> IF hits = <<>> THEN c ELSE c \ {Head(hits)}
          [] change.op = "Clear" -> {})

\* One storage call and its automatic logical report; a version-1 schema has
\* no exact-one erase, and the refused report forbids the commit.
MvReport(d, rs, change) ==
    IF change.op = "EraseOneValue" /\ table.capture = "auto" /\ table.version < 2
    THEN [d EXCEPT !.rows = rs, !.ok = FALSE, !.live = FALSE]
    ELSE Write(d, rs, MvAdapterApply(d.copy, change))

MvDbInsert(d, k, v) ==
    LET seq == MvNextSequence(d.rows, k)
    IN IF seq > MaxOrder \/ v \in Oversized THEN Throw(d)
       ELSE MvReport(d, d.rows \cup {Row(k, seq, v)}, InsertOne(k, v))

MvDbEraseKey(d, k) ==
    IF ~HasKey(d.rows, k) THEN d
    ELSE MvReport(d, Without(d.rows, k), EraseKey(k))

\* Every duplicate equal to v goes, under one report.
MvDbErasePair(d, k, v) ==
    LET hits == Matching(DupScan(Ordered(d.rows), k), k, v)
    IN IF hits = <<>> THEN d
       ELSE MvReport(d, d.rows \ ToSet(hits), EraseAllValues(k, v))

\* The first duplicate equal to v goes.
MvDbEraseOnePair(d, k, v) ==
    LET hits == Matching(DupScan(Ordered(d.rows), k), k, v)
    IN IF hits = <<>> THEN d
       ELSE MvReport(d, d.rows \ {Head(hits)}, EraseOneValue(k, v))

MvDbClear(d) == MvReport(d, {}, ClearAll)

MvDbAppend(d, pairs) ==
    ForEach(d, pairs, LAMBDA acc, p : MvDbInsert(acc, p[1], p[2]))

\* erase_range is refused for a bound DBI and reports nothing otherwise.
MvDbEraseRange(d, from, to) ==
    IF table.capture = "auto" THEN Throw(d)
    ELSE ForEach(d, MvDbRange(Ordered(d.rows), from, to),
                 LAMBDA acc, r : [acc EXCEPT !.rows = @ \ {r}, !.n = @ + 1])

Wanted(pairs, p) == Len(SelectSeq(pairs, LAMBDA q : q = p))

\* db_reconcile_impl: in cursor order the first wanted rows of a pair stay
\* and the surplus goes, then the missing pairs are inserted.
MvDbReconcile(d, pairs) ==
    LET s == Ordered(d.rows)
        rank(i) == Cardinality({j \in 1..i : s[j].key = s[i].key /\ s[j].val = s[i].val})
        keep(i) == rank(i) <= Wanted(pairs, <<s[i].key, s[i].val>>)
        kept(p) == Cardinality({i \in DOMAIN s : keep(i) /\ <<s[i].key, s[i].val>> = p})
        surplus == SelectSeq([i \in DOMAIN s |-> i], LAMBDA i : ~keep(i))
        trimmed == ForEach(d, surplus,
                       LAMBDA acc, i : MvReport(acc, acc.rows \ {s[i]},
                                                EraseOneValue(s[i].key, s[i].val)))
        nth(j) == Cardinality({i \in 1..j : pairs[i] = pairs[j]})
        missing == SelectSeq([j \in DOMAIN pairs |-> j],
                             LAMBDA j : kept(pairs[j]) + nth(j)
                                            <= Wanted(pairs, pairs[j]))
    IN ForEach(trimmed, missing,
               LAMBDA acc, j : MvDbInsert(acc, pairs[j][1], pairs[j][2]))

---------------------------------------------------------------------------
(* KeyMultiValueTable's public calls.                                       *)

Ranges == Keys \X Keys

MvInsert == \E p \in Pairs : WithTransaction(MvDbInsert(Start, p[1], p[2]))
MvAppend == \E c \in Containers : WithTransaction(MvDbAppend(Start, c))
MvReconcile == \E c \in Containers : WithTransaction(MvDbReconcile(Start, c))
MvEraseKey == \E k \in Keys : WithTransaction(MvDbEraseKey(Start, k))
MvErasePair == \E p \in Pairs : WithTransaction(MvDbErasePair(Start, p[1], p[2]))
MvEraseOne == \E p \in Pairs : WithTransaction(MvDbEraseOnePair(Start, p[1], p[2]))
MvEraseRange == \E r \in Ranges : WithTransaction(MvDbEraseRange(Start, r[1], r[2]))
MvClear == WithTransaction(MvDbClear(Start))

---------------------------------------------------------------------------
(* KeyMultiValueTableLogicalAdapter::LogicalCaptureSession.                 *)

\* The distinct keys of the range are planned under the max_pairs bound
\* before the first erasure; a refused plan rolls the session back.
SessionEraseRangePlan(d, from, to) ==
    LET found == MvDbRange(Ordered(d.rows), from, to)
        planned == SelectSeq([i \in DOMAIN found |-> i],
                       LAMBDA i : i = 1 \/ found[i].key # found[i - 1].key)
    IN IF table.version < 3 \/ Len(found) > MaxPairs THEN Throw(d)
       ELSE ForEach(d, planned, LAMBDA acc, i : MvDbEraseKey(acc, found[i].key))

\* A greedy match of existing rows with wanted pairs, then the unmatched
\* rows erased one by one by value and the unmatched pairs inserted.
SessionReconcilePlan(d, pairs) ==
    LET s == Ordered(d.rows)
        pair(i) == <<s[i].key, s[i].val>>
        matched == FoldLeft(
            LAMBDA m, i : LET free == {j \in DOMAIN pairs :
                                          pairs[j] = pair(i) /\ j \notin m.pairs}
                          IN IF free = {} THEN m
                             ELSE [rows |-> m.rows \cup {i},
                                   pairs |-> m.pairs \cup
                                     {CHOOSE j \in free : \A q \in free : j <= q}],
            [rows |-> {}, pairs |-> {}], [i \in DOMAIN s |-> i])
        erased == ForEach(d, [i \in DOMAIN s |-> i],
                      LAMBDA acc, i : IF i \in matched.rows THEN acc
                                      ELSE MvDbEraseOnePair(acc, s[i].key, s[i].val))
    IN IF table.version < 2 THEN Throw(d)
       ELSE ForEach(erased, [j \in DOMAIN pairs |-> j],
                LAMBDA acc, j : IF j \in matched.pairs THEN acc
                                ELSE MvDbInsert(acc, pairs[j][1], pairs[j][2]))

MvSessionInsert == \E p \in Pairs : WithSession(MvDbInsert(Start, p[1], p[2]))
MvSessionAppend == \E c \in Containers : WithSession(MvDbAppend(Start, c))
MvSessionEraseKey == \E k \in Keys : WithSession(MvDbEraseKey(Start, k))
MvSessionErasePair ==
    \E p \in Pairs : WithSession(MvDbErasePair(Start, p[1], p[2]))
\* Encoding the change is refused by an older schema before the mutation.
MvSessionEraseOne ==
    /\ table.version >= 2
    /\ \E p \in Pairs : WithSession(MvDbEraseOnePair(Start, p[1], p[2]))
MvSessionEraseRange ==
    \E r \in Ranges : WithSession(SessionEraseRangePlan(Start, r[1], r[2]))
MvSessionReconcile ==
    \E c \in Containers : WithSession(SessionReconcilePlan(Start, c))
MvSessionClear == WithSession(MvDbClear(Start))

MultiValueNext ==
    \/ /\ Wrapper("KeyMultiValueTable")
       /\ \/ MvInsert \/ MvAppend \/ MvReconcile \/ MvEraseKey
          \/ MvErasePair \/ MvEraseOne \/ MvEraseRange \/ MvClear
    \/ /\ Session("KeyMultiValueTable")
       /\ \/ MvSessionInsert \/ MvSessionAppend \/ MvSessionEraseKey
          \/ MvSessionErasePair \/ MvSessionEraseOne \/ MvSessionEraseRange
          \/ MvSessionReconcile \/ MvSessionClear

---------------------------------------------------------------------------
(* KeyOrderedMultiValueTable: the order of the values of a key is part of   *)
(* the contract; a bound DBI (and the version-1 session) only appends.      *)

OmAdapterApply(c, change) ==
    c \cup {Row(change.key, MvNextSequence(c, change.key), change.val)}

OmDbAppendOne(d, k, v) ==
    LET order == MvNextSequence(d.rows, k)
    IN IF order > MaxOrder \/ v \in Oversized THEN Throw(d)
       ELSE Write(d, d.rows \cup {Row(k, order, v)},
                  OmAdapterApply(d.copy, InsertOne(k, v)))

OmDbAppend(d, pairs) ==
    ForEach(d, pairs, LAMBDA acc, p : OmDbAppendOne(acc, p[1], p[2]))

OmDbFind(s, k) == [i \in 1..Len(DupScan(s, k)) |-> DupScan(s, k)[i].val]

OmDbRange(s, from, to) ==
    IF from > to THEN <<>> ELSE ForwardScan(s, CursorSetRange(s, from), to)

OmLoad == DbLoad(Seen)
OmRange(f, t) == OmDbRange(Seen, f, t)
OmFind(k) == OmDbFind(Seen, k)
OmCounts(k, v) == <<Len(Seen), Len(OmFind(k)), Len(Matching(DupScan(Seen, k), k, v))>>

\* ensure_logical_operation_supported, in front of every other mutation.
OmDestructive(d, rs) ==
    IF table.capture = "auto" THEN Throw(d) ELSE [d EXCEPT !.rows = rs]

OmDbEraseKey(d, k) == OmDestructive(d, Without(d.rows, k))

OmDbErasePair(d, k, v) ==
    OmDestructive(d, d.rows \ ToSet(Matching(DupScan(Ordered(d.rows), k), k, v)))

\* index is zero-based among the values of the key.
OmDbEraseAt(d, k, index) ==
    LET dups == DupScan(Ordered(d.rows), k)
    IN OmDestructive(d, IF index < Len(dups) THEN d.rows \ {dups[index + 1]}
                        ELSE d.rows)

OmDbReplaceWith(d, pairs) ==
    LET cleared == OmDestructive(d, {})
    IN IF cleared.ok THEN OmDbAppend(cleared, pairs) ELSE cleared

OmAppend == \E p \in Pairs : WithTransaction(OmDbAppendOne(Start, p[1], p[2]))
OmAppendAll == \E c \in Containers : WithTransaction(OmDbAppend(Start, c))
OmReplaceWith == \E c \in Containers : WithTransaction(OmDbReplaceWith(Start, c))
OmEraseKey == \E k \in Keys : WithTransaction(OmDbEraseKey(Start, k))
OmErasePair == \E p \in Pairs : WithTransaction(OmDbErasePair(Start, p[1], p[2]))
OmEraseAt == \E k \in Keys, i \in 0..MaxOrder :
                 WithTransaction(OmDbEraseAt(Start, k, i))
OmClear == WithTransaction(OmDestructive(Start, {}))

OmSessionAppend == \E p \in Pairs : WithSession(OmDbAppendOne(Start, p[1], p[2]))

OrderedMultiValueNext ==
    \/ /\ Wrapper("KeyOrderedMultiValueTable")
       /\ \/ OmAppend \/ OmAppendAll \/ OmReplaceWith \/ OmEraseKey
          \/ OmErasePair \/ OmEraseAt \/ OmClear
    \/ /\ Session("KeyOrderedMultiValueTable")
       /\ OmSessionAppend

=============================================================================
