---------------------------- MODULE SequenceTable ----------------------------
(***************************************************************************)
(* SequenceTable.hpp (values under consecutive 64-bit indices) and          *)
(* ValueTable.hpp (one value under the singleton key 0): both are plain     *)
(* DBIs whose mutators report raw operations. Indices are 0..MaxOrder,      *)
(* MaxOrder standing for the largest uint64_t.                              *)
(***************************************************************************)
EXTENDS KeyTable

SqIds == 0..MaxOrder

SqReported(c, op) == ApplyOneOp(c, op)

SqDbLastIndex(s) == CursorLast(s)
SqDbFirstIndex(s) == CursorFirst(s)
SqDbLoadEntries(s) == DbLoad(s)
SqDbRange(s, from, to) ==
    IF from > to THEN <<>> ELSE ForwardScan(s, CursorSetRange(s, from), to)

SqRange(f, t) == SqDbRange(Seen, f, t)
SqEntries == SqDbLoadEntries(Seen)
SqFind(id) == RowAt(Seen, CursorSetKey(Seen, id))
SqIndices == <<RowAt(Seen, SqDbFirstIndex(Seen)), RowAt(Seen, SqDbLastIndex(Seen))>>

\* The index after the largest stored one; the put refuses to overwrite.
SqDbAppend(d, v) ==
    LET s == Ordered(d.rows)
        id == IF s = <<>> THEN 0 ELSE Last(s).key + 1
    IN IF s # <<>> /\ Last(s).key = MaxOrder THEN Throw(d)
       ELSE IF HasKey(d.rows, id) THEN Throw(d)
       ELSE Write(d, Upserted(d.rows, id, v), SqReported(d.copy, Put(id, v)))

SqDbSet(d, id, v) ==
    Write(d, Upserted(d.rows, id, v), SqReported(d.copy, Put(id, v)))

SqDbErase(d, id) ==
    IF ~HasKey(d.rows, id) THEN d
    ELSE Write(d, Without(d.rows, id), SqReported(d.copy, Delete(id)))

SqDbClear(d) == Write(d, {}, SqReported(d.copy, ClearTable))

SqAppend == \E v \in Values : WithTransaction(SqDbAppend(Start, v))
SqAppendMany ==
    \E v, w \in Values : WithTransaction(ForEach(Start, <<v, w>>, SqDbAppend))
SqSet == \E id \in SqIds, v \in Values : WithTransaction(SqDbSet(Start, id, v))
SqErase == \E id \in SqIds : WithTransaction(SqDbErase(Start, id))
SqClear == WithTransaction(SqDbClear(Start))

SequenceTableNext ==
    /\ Wrapper("SequenceTable")
    /\ SqAppend \/ SqAppendMany \/ SqSet \/ SqErase \/ SqClear

---------------------------------------------------------------------------
SingletonKey == 0

VtReported(c, op) == ApplyOneOp(c, op)

VtDbSet(d, v) ==
    Write(d, Upserted(d.rows, SingletonKey, v),
          VtReported(d.copy, Put(SingletonKey, v)))

VtDbInsert(d, v) == IF HasKey(d.rows, SingletonKey) THEN d ELSE VtDbSet(d, v)

VtDbGet(s) == CursorSetKey(s, SingletonKey)

VtDbErase(d) ==
    IF ~HasKey(d.rows, SingletonKey) THEN d
    ELSE Write(d, Without(d.rows, SingletonKey),
               VtReported(d.copy, Delete(SingletonKey)))

VtDbClear(d) == Write(d, {}, VtReported(d.copy, ClearTable))

VtFind == RowAt(Seen, VtDbGet(Seen))
VtGetOr(default) == IF VtFind = {} THEN {default} ELSE {r.val : r \in VtFind}
VtHasValue == VtFind # {}

VtUpdated(d, fn) ==
    LET s == Ordered(d.rows) IN
    IF VtDbGet(s) = 0 THEN d ELSE VtDbSet(d, fn[s[VtDbGet(s)].val])

VtSet == \E v \in Values : WithTransaction(VtDbSet(Start, v))
VtInsert == \E v \in Values : WithTransaction(VtDbInsert(Start, v))
VtUpdate == \E fn \in [Values \cup Oversized -> Values] : WithTransaction(VtUpdated(Start, fn))
VtErase == WithTransaction(VtDbErase(Start))
VtClear == WithTransaction(VtDbClear(Start))

ValueTableNext ==
    /\ Wrapper("ValueTable")
    /\ VtSet \/ VtInsert \/ VtUpdate \/ VtErase \/ VtClear

=============================================================================
