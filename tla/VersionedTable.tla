--------------------------- MODULE VersionedTable ---------------------------
(***************************************************************************)
(* Source-version-wins registers: VersionedKeyValueTable over one DBI of   *)
(* several nodes, with the identity index that remembers the winning       *)
(* version of every key and the raw apply that consults it.                *)
(*                                                                         *)
(* Every node writes its own changelog, one operation per transaction, and *)
(* applies the others' in order (what RawReplication shows of delivery).   *)
(* A source version is a number, a node identity too: both are compared as *)
(* bytes.  Version 0 is the absence of a version.                          *)
(***************************************************************************)
EXTENDS Integers, Sequences

CONSTANTS
    LwwNodes,       \* node identities, in their byte order
    LwwKeys,
    LwwValues,
    NoValue,        \* a key without a value
    MaxRev,         \* bound: source versions
    MaxOps          \* bound: [LwwNodes -> operations the node writes]

ASSUME VersionedAssumption ==
    /\ LwwNodes \subseteq Nat \ {0}
    /\ NoValue \notin LwwValues
    /\ MaxRev \in Nat /\ MaxOps \in [LwwNodes -> Nat]

VARIABLES
    versioned,  \* VersionedDbiStore: the nodes that registered the DBI
    policy,     \* the nodes whose engine has ConflictPolicy::LastWriterWins
    held,       \* the user table of each node
    index,      \* IdentityIndexStore of each node
    written,    \* the changelog each node originated
    taken       \* taken[n][o]: operations of o that n has applied

lwwVars == <<versioned, policy, held, index, written, taken>>

\* A captured operation; NoValue is a delete.
LwwOp == [key: LwwKeys, value: LwwValues \cup {NoValue}, rev: 0..MaxRev]

\* IdentityIndexValue; a key without a record has NoMarker.
Marker == [rev: 0..MaxRev, origin: LwwNodes \cup {0}, dead: BOOLEAN]
NoMarker == [rev |-> 0, origin |-> 0, dead |-> TRUE]

LwwInit ==
    /\ versioned = {}
    /\ policy \in SUBSET LwwNodes
    /\ held = [n \in LwwNodes |-> [k \in LwwKeys |-> NoValue]]
    /\ index = [n \in LwwNodes |-> [k \in LwwKeys |-> NoMarker]]
    /\ written = [n \in LwwNodes |-> << >>]
    /\ taken = [n \in LwwNodes |-> [o \in LwwNodes |-> 0]]

is_sync_versioned_dbi(n) == n \in versioned

register_dbi(n) == versioned' = versioned \cup {n}

\* The constructor: the first registration needs an empty table.
register_table(n) ==
    /\ is_sync_versioned_dbi(n) \/ \A k \in LwwKeys : held[n][k] = NoValue
    /\ register_dbi(n)
    /\ UNCHANGED <<policy, held, index, written, taken>>

\* The engine is made anew with the other conflict policy.
SetPolicy(n) ==
    /\ policy' = IF n \in policy THEN policy \ {n} ELSE policy \cup {n}
    /\ UNCHANGED <<versioned, held, index, written, taken>>

\* apply_one_op: put, or delete and no matter whether the key was there.
apply_one_op(n, op) == [held EXCEPT ![n][op.key] = op.value]

\* A delete keeps its version.  Mutant: the record is removed.
tombstone_erased(op, o) == NoMarker
tombstone(op, o) == [rev |-> op.rev, origin |-> o, dead |-> TRUE]

put_marker(n, op, o) ==
    [index EXCEPT ![n][op.key] =
        IF op.value = NoValue THEN tombstone(op, o)
        ELSE [rev |-> op.rev, origin |-> o, dead |-> FALSE]]

\* The greater version, then the greater node.
wins(n, op, o) ==
    LET m == index[n][op.key] IN
    op.rev > m.rev \/ (op.rev = m.rev /\ o > m.origin)

-----------------------------------------------------------------------------
(* Local writes                                                            *)

Record(n, op) ==
    /\ Len(written[n]) < MaxOps[n]
    /\ written' = [written EXCEPT ![n] = Append(@, op)]

\* A captured write through the plain table; validate_sync_dbi_write refuses
\* it on a registered DBI.
PlainWrite(n, op) ==
    /\ ~is_sync_versioned_dbi(n)
    /\ op.rev = 0
    /\ held' = apply_one_op(n, op)
    /\ Record(n, op)
    /\ UNCHANGED <<versioned, policy, index, taken>>

\* validate_repeated_write: the version is the key's own, with another state.
Reused(n, op) ==
    LET m == index[n][op.key] IN
    m.rev = op.rev /\ m.origin = n /\ held[n][op.key] # op.value

\* A write that does not win is ignored, and one that reuses a version throws:
\* neither changes anything.
Loses(n, op) == ~wins(n, op, n)

VersionedWrite(n, op) ==
    /\ is_sync_versioned_dbi(n)
    /\ op.rev > 0
    /\ ~Loses(n, op)
    /\ held' = apply_one_op(n, op)
    /\ index' = put_marker(n, op, n)
    /\ Record(n, op)
    /\ UNCHANGED <<versioned, policy, taken>>

insert_or_assign(n, op) == op.value # NoValue /\ VersionedWrite(n, op)
erase(n, op) == op.value = NoValue /\ VersionedWrite(n, op)

-----------------------------------------------------------------------------
(* Apply                                                                   *)

\* An operation with a version goes to a registered DBI under the policy, one
\* without to an unregistered DBI; anything else is a conflict, and the
\* operation stays to be applied.
validate_versioned_dbi_batch(n, op) ==
    IF is_sync_versioned_dbi(n) THEN n \in policy /\ op.rev > 0 ELSE op.rev = 0

apply_lww_one_op(n, op, o) ==
    IF wins(n, op, o)
    THEN held' = apply_one_op(n, op) /\ index' = put_marker(n, op, o)
    ELSE UNCHANGED <<held, index>>

\* The cursor moves with the operation.
CursorAt(i) == i

\* The next operation of o, at n.
LwwApply(n, o) ==
    /\ n # o
    /\ taken[n][o] < Len(written[o])
    /\ LET i == taken[n][o] + 1
           op == written[o][i]
       IN  /\ validate_versioned_dbi_batch(n, op)
           /\ taken' = [taken EXCEPT ![n][o] = CursorAt(i)]
           /\ IF is_sync_versioned_dbi(n)
              THEN apply_lww_one_op(n, op, o)
              ELSE held' = apply_one_op(n, op) /\ UNCHANGED index
    /\ UNCHANGED <<versioned, policy, written>>

LwwNext ==
    \/ \E n \in LwwNodes : register_table(n) \/ SetPolicy(n)
    \/ \E n \in LwwNodes : \E op \in LwwOp :
           PlainWrite(n, op) \/ insert_or_assign(n, op) \/ erase(n, op)
    \/ \E n, o \in LwwNodes : LwwApply(n, o)

LwwSpec == LwwInit /\ [][LwwNext]_lwwVars

-----------------------------------------------------------------------------
(* Properties                                                              *)

\* Every variable stays in its type.
LwwTypeOK ==
    /\ versioned \subseteq LwwNodes /\ policy \subseteq LwwNodes
    /\ held \in [LwwNodes -> [LwwKeys -> LwwValues \cup {NoValue}]]
    /\ index \in [LwwNodes -> [LwwKeys -> Marker]]
    /\ written \in [LwwNodes -> Seq(LwwOp)]
    /\ taken \in [LwwNodes -> [LwwNodes -> Nat]]
    /\ \A n, o \in LwwNodes : taken[n][o] <= Len(written[o])

\* The operations of o that shaped n's table: all of its own.
Reach(n, o) == IF n = o THEN Len(written[o]) ELSE taken[n][o]

\* The index of k at n is not behind any operation n has seen.
Dominates(n, k) ==
    \A o \in LwwNodes : \A i \in 1..Reach(n, o) :
        written[o][i].key = k /\ written[o][i].rev > 0 =>
            \/ index[n][k].rev > written[o][i].rev
            \/ index[n][k].rev = written[o][i].rev /\ index[n][k].origin >= o

\* n holds what the operation its index names wrote.
HoldsWinner(n, k) ==
    \/ index[n][k] = NoMarker /\ held[n][k] = NoValue
    \/ \E o \in LwwNodes : \E i \in 1..Reach(n, o) :
           /\ written[o][i].key = k /\ written[o][i].value = held[n][k]
           /\ written[o][i].rev = index[n][k].rev /\ index[n][k].rev > 0
           /\ index[n][k].origin = o
           /\ index[n][k].dead <=> held[n][k] = NoValue

\* apply_lww_one_op and docs/sync.md ("a durable sidecar tombstone prevents an
\* older put from resurrecting a delete"): on a registered node the index
\* names, for every key, the greatest version among all operations it has
\* seen (then the greatest node), and the table holds that operation's value,
\* or none after a delete, whatever the order in which origins are applied.
GreatestWins ==
    \A n \in versioned : \A k \in LwwKeys : Dominates(n, k) /\ HoldsWinner(n, k)

\* VersionedKeyValueTable.hpp: "Reusing one source version for different state
\* from the same node throws": a node's changelog never carries one version of
\* a key twice, so that a version and its node name one state everywhere.
VersionsUnique ==
    \A n \in LwwNodes : \A i, j \in DOMAIN written[n] :
        i < j /\ written[n][i].key = written[n][j].key /\ written[n][i].rev > 0
            => written[n][i].rev < written[n][j].rev

\* docs/sync.md: two registered nodes that have seen the same operations, in
\* whatever order, hold the same table.
Convergence ==
    \A n, m \in versioned :
        (\A o \in LwwNodes : Reach(n, o) = Reach(m, o)) => held[n] = held[m]
=============================================================================
