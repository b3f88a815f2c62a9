------------------------------ MODULE KeyedMap ------------------------------
(***************************************************************************)
(* What the single-value containers promise their caller: a finite map with *)
(* transactions. KeyValueTable and both layouts of HashedKeyValueStore are  *)
(* shown to implement it, each under its own refinement mapping.            *)
(*                                                                         *)
(* A call outside a transaction is one atomic change of the committed map.  *)
(* A call inside the caller's transaction changes that transaction's map    *)
(* only; a bulk call that throws there leaves a prefix of its assignments.  *)
(***************************************************************************)
EXTENDS Integers, Sequences, TLC

CONSTANTS MapKeys, MapValues,
          Bulks     \* the containers given to append and reconcile

VARIABLES map,  \* the committed map, a function on the present keys
          txn   \* the caller's transaction: [open, map]

mapVars == <<map, txn>>

Empty == [k \in {} |-> 0]
NoTxn == [open |-> FALSE, map |-> Empty]

Assign(m, k, v) == (k :> v) @@ m
Remove(m, ks) == [k \in DOMAIN m \ ks |-> m[k]]

AssignAll(m, bulk) ==
    LET after[i \in 0..Len(bulk)] ==
          IF i = 0 THEN m ELSE Assign(after[i - 1], bulk[i][1], bulk[i][2])
    IN after[Len(bulk)]

\* The maps a call that returns may produce from m.
Complete(m) ==
    {Assign(m, k, v) : k \in MapKeys, v \in MapValues}
      \cup {Remove(m, {k \in MapKeys : f <= k /\ k <= t}) : f, t \in MapKeys}
      \cup {AssignAll(m, b) : b \in Bulks}
      \cup {AssignAll(Empty, b) : b \in Bulks}
      \cup {Empty}

\* The maps a bulk call that throws may leave in the caller's transaction.
Interrupted(m) ==
    UNION {{AssignAll(m, SubSeq(b, 1, n)) : n \in 0..Len(b)} : b \in Bulks}

OwnTransaction == ~txn.open /\ map' \in Complete(map) /\ txn' = txn

InTransaction ==
    /\ txn.open
    /\ txn'.open
    /\ txn'.map \in Complete(txn.map) \cup Interrupted(txn.map)
    /\ map' = map

MapBegin == ~txn.open /\ txn' = [open |-> TRUE, map |-> map] /\ map' = map

MapCommit == txn.open /\ map' = txn.map /\ txn' = NoTxn

MapRollback == txn.open /\ map' = map /\ txn' = NoTxn

\* A lookup, or a call that finds nothing to change.
Lookup == UNCHANGED mapVars

MapInit == map = Empty /\ txn = NoTxn

MapNext ==
    \/ Lookup \/ MapBegin \/ MapCommit \/ MapRollback
    \/ OwnTransaction \/ InTransaction

MapSpec == MapInit /\ [][MapNext]_mapVars

=============================================================================
