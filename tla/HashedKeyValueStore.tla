------------------------ MODULE HashedKeyValueStore ------------------------
(***************************************************************************)
(* HashedKeyValueStore.hpp: arbitrary keys found through a 64-bit hash.     *)
(* LargeValues keeps records under (hash, ordinal) in one DBI and the       *)
(* ordinals of each hash in a second, duplicate-sorted one; SmallValues     *)
(* keeps the packed records as the duplicates of the hash. Two keys may     *)
(* have the same hash. Neither layout is captured by sync.                  *)
(*                                                                         *)
(* A store is [index, recs]: index holds <<hash, ordinal>> pairs and recs   *)
(* records [hash, ord, key, val]; SmallValues leaves index empty and ord 0. *)
(* A call computes an outcome [index, recs, ok] in its transaction.         *)
(***************************************************************************)
EXTENDS Integers, Sequences, FiniteSets, SequencesExt, FiniteSetsExt

CONSTANTS HsKeys, HsValues,
          Hash(_),      \* the hash of the key's bytes (external: xxHash)
          HsOversized,  \* values whose record exceeds the duplicate limit
          MaxOrdinal,   \* stands for the largest uint64_t
          HsContainers, \* the containers given to append and reconcile
          Layouts       \* the layouts explored

VARIABLES layout, store, hsTxn

hsVars == <<layout, store, hsTxn>>

EmptyStore == [index |-> {}, recs |-> {}]
HsClosed == [open |-> FALSE, live |-> TRUE, store |-> EmptyStore]

HsRecord(h, o, k, v) == [hash |-> h, ord |-> o, key |-> k, val |-> v]
HsThrow(d) == [d EXCEPT !.ok = FALSE]

---------------------------------------------------------------------------
(* LargeValues.                                                             *)

Bucket(d, h) == {e[2] : e \in {x \in d.index : x[1] = h}}
At(d, h, o) == {r \in d.recs : r.hash = h /\ r.ord = o}

\* db_find_record_bytes: the ordinals of the bucket in order; a missing
\* record throws. The answer is a set of at most one record, or "missing".
FindRecordBytes(d, k) ==
    LET h == Hash(k)
        ords == SetToSortSeq(Bucket(d, h), <)
        from[i \in 1..(Len(ords) + 1)] ==
          IF i > Len(ords) THEN [found |-> {}, ok |-> TRUE]
          ELSE IF At(d, h, ords[i]) = {} THEN [found |-> {}, ok |-> FALSE]
          ELSE IF \E r \in At(d, h, ords[i]) : r.key = k
               THEN [found |-> At(d, h, ords[i]), ok |-> TRUE]
          ELSE from[i + 1]
    IN from[1]

NextOrdinal(d, h) == IF Bucket(d, h) = {} THEN 0 ELSE Max(Bucket(d, h)) + 1

\* The record first (no overwrite), then its index entry.
PutNewRecord(d, k, v) ==
    LET h == Hash(k)
        o == NextOrdinal(d, h)
        put == [d EXCEPT !.recs = @ \cup {HsRecord(h, o, k, v)}]
    IN IF o > MaxOrdinal \/ At(d, h, o) # {} THEN HsThrow(d)
       ELSE IF <<h, o>> \in d.index THEN HsThrow(put)
       ELSE [put EXCEPT !.index = @ \cup {<<h, o>>}]

LargeInsertOrAssign(d, k, v) ==
    LET hit == FindRecordBytes(d, k)
    IN IF ~hit.ok THEN HsThrow(d)
       ELSE IF hit.found = {} THEN PutNewRecord(d, k, v)
       ELSE [d EXCEPT !.recs = (@ \ hit.found)
                                 \cup {[r EXCEPT !.val = v] : r \in hit.found}]

LargeInsertIfAbsent(d, k, v) ==
    LET hit == FindRecordBytes(d, k)
    IN IF ~hit.ok THEN HsThrow(d)
       ELSE IF hit.found = {} THEN PutNewRecord(d, k, v) ELSE d

DeleteIndexEntry(d, r) ==
    IF <<r.hash, r.ord>> \notin d.index THEN HsThrow(d)
    ELSE [d EXCEPT !.index = @ \ {<<r.hash, r.ord>>}]

\* The record first, then its index entry.  Mutant: the entry stays.
LargeEraseRecord(d, k) ==
    [d EXCEPT !.recs = @ \ FindRecordBytes(d, k).found]

LargeErase(d, k) ==
    LET hit == FindRecordBytes(d, k)
    IN IF ~hit.ok THEN HsThrow(d)
       ELSE IF hit.found = {} THEN d
       ELSE LET r == CHOOSE x \in hit.found : TRUE
            IN DeleteIndexEntry([d EXCEPT !.recs = @ \ {r}], r)

---------------------------------------------------------------------------
(* SmallValues.                                                             *)

MatchingDuplicate(d, k) == {r \in d.recs : r.hash = Hash(k) /\ r.key = k}

\* The payload is checked against the duplicate limit before the old record
\* is deleted, and an equal duplicate is refused.
SmallInsertOrAssign(d, k, v) ==
    LET without == [d EXCEPT !.recs = @ \ MatchingDuplicate(d, k)]
        new == HsRecord(Hash(k), 0, k, v)
    IN IF v \in HsOversized THEN HsThrow(d)
       ELSE IF new \in without.recs THEN HsThrow(without)
       ELSE [without EXCEPT !.recs = @ \cup {new}]

SmallInsertIfAbsent(d, k, v) ==
    IF MatchingDuplicate(d, k) # {} THEN d
    ELSE IF v \in HsOversized THEN HsThrow(d)
    ELSE [d EXCEPT !.recs = @ \cup {HsRecord(Hash(k), 0, k, v)}]

SmallErase(d, k) == [d EXCEPT !.recs = @ \ MatchingDuplicate(d, k)]

---------------------------------------------------------------------------
(* Both layouts.                                                            *)

HsInsertOrAssign(d, k, v) == IF layout = "large" THEN LargeInsertOrAssign(d, k, v)
                             ELSE SmallInsertOrAssign(d, k, v)

HsInsertIfAbsent(d, k, v) == IF layout = "large" THEN LargeInsertIfAbsent(d, k, v)
                             ELSE SmallInsertIfAbsent(d, k, v)

HsErase(d, k) == IF layout = "large" THEN LargeErase(d, k) ELSE SmallErase(d, k)

LargeGet(d, k) == FindRecordBytes(d, k).found
SmallGet(d, k) == MatchingDuplicate(d, k)
HsGet(d, k) == IF layout = "large" THEN LargeGet(d, k) ELSE SmallGet(d, k)

HsForEach(d, seq, Step(_, _)) ==
    FoldLeft(LAMBDA acc, e : IF acc.ok THEN Step(acc, e) ELSE acc, d, seq)

HsAppend(d, pairs) ==
    HsForEach(d, pairs, LAMBDA acc, p : HsInsertOrAssign(acc, p[1], p[2]))

\* The wanted pairs are written, then a scan deletes the stale records.
KeysIn(pairs) == {pairs[i][1] : i \in DOMAIN pairs}

LargeReconcile(d, pairs) ==
    LET put == HsAppend(d, pairs)
        stale == {r \in put.recs : r.key \notin KeysIn(pairs)}
    IN HsForEach(put, SetToSeq(stale), LAMBDA acc, r :
           DeleteIndexEntry([acc EXCEPT !.recs = @ \ {r}], r))

SmallReconcile(d, pairs) ==
    LET put == HsAppend(d, pairs)
    IN IF ~put.ok THEN put
       ELSE [put EXCEPT !.recs = {r \in @ : r.key \in KeysIn(pairs)}]

HsReconcile(d, pairs) == IF layout = "large" THEN LargeReconcile(d, pairs)
                         ELSE SmallReconcile(d, pairs)

HsClear(d) == [d EXCEPT !.index = {}, !.recs = {}]

---------------------------------------------------------------------------
(* The public calls (HashedKeyValueStorePublicApi.hpp) and transactions.    *)

HsStart == LET s == IF hsTxn.open THEN hsTxn.store ELSE store
           IN [index |-> s.index, recs |-> s.recs, ok |-> TRUE]

\* A call's own transaction commits only when it did not throw; in the
\* caller's transaction whatever was written stays.
HsWithTransaction(d) ==
    LET s == [index |-> d.index, recs |-> d.recs]
    IN /\ IF hsTxn.open
          THEN hsTxn' = [hsTxn EXCEPT !.store = s] /\ store' = store
          ELSE d.ok /\ store' = s /\ hsTxn' = hsTxn
       /\ layout' = layout

HsLoad == {<<r.key, r.val>> : r \in HsStart.recs}
HsFind(k) == {r.val : r \in HsGet(HsStart, k)}
HsContains(k) == HsGet(HsStart, k) # {}

HsPairs == HsKeys \X HsValues

HsInsertCall ==
    \E p \in HsPairs : HsWithTransaction(HsInsertIfAbsent(HsStart, p[1], p[2]))
HsInsertOrAssignCall ==
    \E p \in HsPairs : HsWithTransaction(HsInsertOrAssign(HsStart, p[1], p[2]))
HsEraseCall == \E k \in HsKeys : HsWithTransaction(HsErase(HsStart, k))
HsAppendCall == \E c \in HsContainers : HsWithTransaction(HsAppend(HsStart, c))
HsReconcileCall == \E c \in HsContainers : HsWithTransaction(HsReconcile(HsStart, c))
HsClearCall == HsWithTransaction(HsClear(HsStart))

HsBegin ==
    /\ ~hsTxn.open
    /\ hsTxn' = [open |-> TRUE, live |-> TRUE, store |-> store]
    /\ UNCHANGED <<layout, store>>

\* A storage error inside a call poisons the libmdbx transaction.
HsBreaks ==
    /\ hsTxn.open
    /\ hsTxn' = [hsTxn EXCEPT !.live = FALSE]
    /\ UNCHANGED <<layout, store>>

HsCommit ==
    /\ hsTxn.open
    /\ store' = IF hsTxn.live THEN hsTxn.store ELSE store
    /\ hsTxn' = HsClosed
    /\ layout' = layout

HsRollback ==
    /\ hsTxn.open
    /\ hsTxn' = HsClosed
    /\ UNCHANGED <<layout, store>>

HsInit ==
    /\ layout \in Layouts
    /\ store = EmptyStore
    /\ hsTxn = HsClosed

HsNext ==
    \/ HsInsertCall \/ HsInsertOrAssignCall \/ HsEraseCall \/ HsAppendCall
    \/ HsReconcileCall \/ HsClearCall
    \/ HsBegin \/ HsBreaks \/ HsCommit \/ HsRollback

---------------------------------------------------------------------------
(* Properties.                                                              *)

HsStores == {store, hsTxn.store}

HsTypeOK ==
    /\ \A s \in HsStores :
          /\ \A e \in s.index : e[2] \in 0..MaxOrdinal
          /\ \A r \in s.recs : /\ r.key \in HsKeys /\ r.val \in HsValues
                               /\ r.ord \in 0..MaxOrdinal
    /\ hsTxn.open \in BOOLEAN

\* The two DBIs of LargeValues never drift apart: in every transaction and
\* in the committed state the index lists exactly the ordinals of the stored
\* records, each record is under the hash of its key, no two records share a
\* slot, and a key is stored once - whatever calls threw half-way through in
\* the caller's transaction.
IndexMatchesRecords ==
    \A s \in HsStores :
        /\ layout = "large" => s.index = {<<r.hash, r.ord>> : r \in s.recs}
        /\ \A r \in s.recs : r.hash = Hash(r.key)
        /\ \A r, q \in s.recs : r # q =>
              r.key # q.key /\ (layout = "large" => <<r.hash, r.ord>> # <<q.hash, q.ord>>)

\* A bucket scan answers for the key it was asked about and not for another
\* key with the same hash, and finds every stored key.
LookupFindsItsKey ==
    layout # "none" => \A k \in HsKeys :
        /\ HsFind(k) = {p[2] : p \in {q \in HsLoad : q[1] = k}}
        /\ HsContains(k) = (\E p \in HsLoad : p[1] = k)

\* The value a key has after an assignment, reconciliation or erasure is the
\* one asked for, and an assignment refused for its size keeps the old value:
\* the replacement is checked before the old duplicate is deleted.
AssignmentsExact ==
    layout # "none" =>
    /\ \A p \in HsPairs :
          LET d == HsInsertOrAssign(HsStart, p[1], p[2])
              now == {r.val : r \in {x \in d.recs : x.key = p[1]}}
          IN /\ d.ok => now = {p[2]}
             /\ ~d.ok => d.recs = HsStart.recs
    /\ \A c \in HsContainers :
          LET d == HsReconcile(HsStart, c)
          IN d.ok => {r.key : r \in d.recs} = {c[i][1] : i \in DOMAIN c}
    /\ \A k \in HsKeys : \A r \in HsErase(HsStart, k).recs : r.key # k

AsMap(s) == [k \in {r.key : r \in s.recs} |-> (CHOOSE r \in s.recs : r.key = k).val]

Map == INSTANCE KeyedMap
         WITH MapKeys <- HsKeys, MapValues <- HsValues, Bulks <- HsContainers,
              map <- AsMap(store),
              txn <- [open |-> hsTxn.open, map |-> AsMap(hsTxn.store)]

\* Both layouts implement a transactional map: collisions, ordinals and the
\* second DBI cannot be observed.
HsImplementsMap == Map!MapSpec

=============================================================================
