------------------------------- MODULE Tables -------------------------------
(***************************************************************************)
(* The table wrappers together: which wrapper owns the DBI is chosen in the *)
(* initial state (table.wrapper), and every behaviour is one of that        *)
(* wrapper's calls interleaved with the caller's transaction.               *)
(***************************************************************************)
EXTENDS MultiValueTables, HashedKeyValueStore

CONSTANT AllKeys  \* every key of every table explored

tableVars == <<storeVars, hsVars>>

TablesInit ==
    /\ StoreInit
    /\ HsInit
    /\ (table.wrapper = "HashedKeyValueStore") = (layout # "none")

TablesNext ==
    \/ /\ table.wrapper # "HashedKeyValueStore"
       /\ UNCHANGED hsVars
       /\ \/ StoreNext
          \/ KeyValueNext
          \/ KeyTableNext
          \/ SequenceTableNext
          \/ ValueTableNext
          \/ MultiValueNext
          \/ OrderedMultiValueNext
    \/ /\ table.wrapper = "HashedKeyValueStore"
       /\ UNCHANGED storeVars
       /\ HsNext

TablesSpec == TablesInit /\ [][TablesNext]_tableVars

---------------------------------------------------------------------------
Multi == table.wrapper \in {"KeyMultiValueTable", "KeyOrderedMultiValueTable"}
Captured == table.capture # "none"

TableKeys == Keys \cup SqIds \cup {SingletonKey}
TableValues == Values \cup Oversized \cup {Empty}

TablesTypeOK ==
    /\ HsTypeOK
    /\ \A rs \in {rows, replica, work.rows, work.copy} :
          rs \subseteq [key : TableKeys, seq : 0..MaxOrder, val : TableValues]
    /\ work.open \in BOOLEAN /\ work.live \in BOOLEAN

\* What a follower is promised: the multiset of pairs for a KeyMultiValue
\* table, the rows themselves otherwise.
Content(rs) == IF table.wrapper = "KeyMultiValueTable" THEN Multiplicity(rs) ELSE rs

\* Every storage write of every wrapper reaches a follower: replaying what
\* the calls reported, in order, rebuilds the transaction's table while the
\* transaction may still commit, and a follower of the committed batches has
\* the committed table - through calls that throw half-way, refused
\* destructive calls, rolled-back sessions and older schema versions.
ReportsRebuildTable ==
    Captured => /\ Content(replica) = Content(rows)
                /\ work.open /\ work.live => Content(work.copy) = Content(work.rows)

---------------------------------------------------------------------------
(* Reference definitions for the cursor algorithms.                         *)

Between(rs, f, t) == {r \in rs : f <= r.key /\ r.key <= t}
FirstOf(rs) == IF rs = {} THEN {} ELSE {Ordered(rs)[1]}
Probes == 0..4  \* keys and positions asked for, present or not

\* The range loops answer what their set definitions say for every pair of
\* bounds and every limit, bounds that are absent, reversed or past either
\* end of the table included; a reverse range starts at the last duplicate of
\* its upper key.
RangesExact ==
    \A f, t \in Probes :
          LET in == Ordered(Between(View, f, t))
              back(limit) == SubSeq(Reverse(in), 1, IF limit < Len(in) THEN limit
                                                    ELSE Len(in))
              stop == {k \in Probes : k > f}
              few == SelectSeq(in, LAMBDA r : r.key = f)
          IN /\ table.wrapper = "KeyValueTable" =>
                   /\ KvRange(f, t) = in /\ KvCountRange(f, t) = Len(in)
                   /\ KvRangeValues(f, t) = [i \in DOMAIN in |-> in[i].val]
                   /\ KvContainsRange(f, t) = (in # <<>>)
                   /\ IsPrefix(KvForEachRange(f, t, stop), in)
                   /\ KvFilterRange(f, t, {f}) = few
                   /\ \A limit \in Probes : KvRangeReverse(f, t, limit) = back(limit)
             /\ table.wrapper = "KeyTable" =>
                   /\ KtRange(f, t) = KeysOf(in) /\ KtCountRange(f, t) = Len(in)
                   /\ KtContainsRange(f, t) = (in # <<>>)
                   /\ IsPrefix(KtForEachRange(f, t, stop), KeysOf(in))
                   /\ KtFilterRange(f, t, {f}) = KeysOf(few)
                   /\ \A limit \in Probes :
                         KtRangeReverse(f, t, limit) = KeysOf(back(limit))
             /\ table.wrapper = "KeyMultiValueTable" =>
                   /\ MvRange(f, t) = in /\ MvCountRange(f, t) = Len(in)
                   /\ MvRangeValues(f, t) = [i \in DOMAIN in |-> in[i].val]
                   /\ MvContainsRange(f, t) = (in # <<>>)
                   /\ IsPrefix(MvForEachRange(f, t, stop), in)
                   /\ MvFilterRange(f, t, {f}) = few
                   /\ \A limit \in Probes : MvRangeReverse(f, t, limit) = back(limit)
             /\ table.wrapper = "KeyOrderedMultiValueTable" => OmRange(f, t) = in
             /\ table.wrapper = "SequenceTable" => SqRange(f, t) = in

\* Bounds and point reads answer the set definitions too; an upper bound
\* skips every duplicate of its key.
BoundsExact ==
    /\ \A k \in Probes :
          LET lower == FirstOf({r \in View : r.key >= k})
              upper == FirstOf({r \in View : r.key > k})
              here == {r \in View : r.key = k}
          IN /\ table.wrapper = "KeyValueTable" =>
                   /\ KvLowerBound(k) = lower /\ KvUpperBound(k) = upper
                   /\ KvFind(k) = here /\ KvContains(k) = (here # {})
                   /\ KvFindMany(<<k, k>>) = Ordered(here) \o Ordered(here)
             /\ table.wrapper = "KeyTable" =>
                   /\ KtLowerBound(k) = KeysOf(SetToSeq(lower))
                   /\ KtUpperBound(k) = KeysOf(SetToSeq(upper))
                   /\ KtContains(k) = (here # {})
             /\ table.wrapper = "SequenceTable" => SqFind(k) = here
             /\ table.wrapper = "KeyMultiValueTable" =>
                   /\ MvLowerBound(k) = lower /\ MvUpperBound(k) = upper
                   /\ MvFind(k) = [i \in 1..Cardinality(here) |-> Ordered(here)[i].val]
                   /\ \A v \in Values : MvCounts(k, v)[3] =
                         Cardinality({r \in here : r.val = v})
             /\ table.wrapper = "KeyOrderedMultiValueTable" =>
                   OmFind(k) = [i \in 1..Cardinality(here) |-> Ordered(here)[i].val]
    /\ table.wrapper = "KeyValueTable" => KvLoad = Seen /\ KvCount = Cardinality(View)
    /\ table.wrapper = "KeyTable" => KtLoad = KeysOf(Seen)
    /\ Multi => MvLoad = Seen /\ OmLoad = Seen
    /\ table.wrapper = "SequenceTable" => SqEntries = Seen
    /\ table.wrapper = "ValueTable" => VtFind = View /\ VtGetOr(9) # {}

SingleKey(c, k) == SelectSeq(c, LAMBDA p : p[1] = k)
ValuesOf(c) == [i \in DOMAIN c |-> c[i][2]]

\* The outcome of a bulk or positional call is the one asked for, from every
\* reachable table: a reconciled table holds exactly the container (the last
\* value of a key, or each pair as often as wanted), replace_with keeps the
\* container's order per key, erase_at removes one position, a sequence append
\* takes a fresh index above all others, and a refused append leaves the rows
\* it found.
MutatorsExact ==
    /\ \A c \in Containers :
          /\ table.wrapper = "KeyValueTable" =>
                LET d == DbReconcile(Start, c)
                IN d.rows = {Row(k, 0, Last(SingleKey(c, k))[2]) :
                                k \in {c[i][1] : i \in DOMAIN c}}
          /\ table.wrapper = "KeyMultiValueTable" =>
                \A d \in {MvDbReconcile(Start, c), SessionReconcilePlan(Start, c)} :
                    d.ok => Multiplicity(d.rows) = [p \in Pairs |-> Wanted(c, p)]
          /\ table.wrapper = "KeyOrderedMultiValueTable" =>
                LET d == OmDbReplaceWith(Start, c)
                IN d.ok => \A k \in Keys :
                              OmDbFind(Ordered(d.rows), k) = ValuesOf(SingleKey(c, k))
    /\ table.wrapper = "KeyOrderedMultiValueTable" =>
          \A k \in Keys, i \in 0..MaxOrder :
             LET d == OmDbEraseAt(Start, k, i)
                 old == OmDbFind(Ordered(Start.rows), k)
             IN d.ok /\ i < Len(old) =>
                   OmDbFind(Ordered(d.rows), k) = RemoveAt(old, i + 1)
    /\ table.wrapper = "SequenceTable" =>
          \A v \in Values :
             LET d == SqDbAppend(Start, v)
             IN /\ Start.rows \subseteq d.rows
                /\ \A r \in d.rows \ Start.rows, q \in Start.rows : q.key < r.key
                /\ ~d.ok => HasKey(d.rows, MaxOrder)

---------------------------------------------------------------------------
ValuesNow(k) == OmDbFind(Ordered(View), k)
ValuesNext(k) == OmDbFind(Ordered(IF work'.open THEN work'.rows ELSE rows'), k)

Embeds(short, long) ==
    \E picked \in SUBSET DOMAIN long :
        short = [i \in 1..Cardinality(picked) |-> long[SetToSortSeq(picked, <)[i]]]

\* A call on the ordered table never reorders the values of a key: it only
\* appends, only removes, or replaces the whole table by its container. Order
\* numbers freed by erasures are never reused in front of a stored value.
OrderPreserved ==
    [][ (table.wrapper = "KeyOrderedMultiValueTable" /\ work.open = work'.open) =>
          \/ \A k \in Keys : IsPrefix(ValuesNow(k), ValuesNext(k))
          \/ \A k \in Keys : Embeds(ValuesNext(k), ValuesNow(k))
          \/ \E c \in Containers : \A k \in Keys :
                IsPrefix(ValuesNext(k), ValuesOf(SingleKey(c, k))) ]_tableVars

RowsAsMap(rs) ==
    IF table.wrapper # "KeyValueTable" THEN [k \in {} |-> 0]
    ELSE [k \in {r.key : r \in rs} |-> (CHOOSE r \in rs : r.key = k).val]

KvMap == INSTANCE KeyedMap
           WITH MapKeys <- AllKeys, MapValues <- Values \cup Oversized, Bulks <- Containers,
                map <- RowsAsMap(rows),
                txn <- [open |-> work.open, map |-> RowsAsMap(work.rows)]

\* KeyValueTable implements a transactional map: a call outside a transaction
\* is one atomic change, a session or transaction is visible only through its
\* commit, and a transaction that may not commit changes nothing.
KvImplementsMap == KvMap!MapSpec

=============================================================================
