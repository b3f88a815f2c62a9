--------------------------- MODULE SchemaMarkers ---------------------------
(***************************************************************************)
(* The persistent schema markers of one database's logical tables, and the *)
(* engine calls that write them.  A schema owns one DBI, so that tables    *)
(* are indexed by their schema.  A record is its version, the DBI it lists *)
(* and the node it designates as ordered delivery origin.                  *)
(*                                                                         *)
(* A row is the committed change that wrote it, with its author.           *)
(***************************************************************************)
EXTENDS Integers, Sequences, SequencesExt

CONSTANTS
    Node, None,
    SchemaOrder,    \* the schemas, in the order of their DBI names
    Ordered,        \* schemas whose adapter requires ordered delivery
    Versions,       \* [schema -> versions its adapter may have]
    RecordsOf,      \* [schema -> set of LogicalSchemaRecord]
    MaxSeq,         \* the largest 64-bit sequence
    MaxLocal        \* bound: local changes made

Schemas == Range(SchemaOrder)

ASSUME SchemaAssumption ==
    /\ Ordered \subseteq Schemas
    /\ MaxSeq \in Nat \ {0} /\ MaxLocal \in Nat

VARIABLES
    marker,     \* SchemaRegistryStore: schema -> record, or None
    made,       \* local changes made so far
    rows        \* committed changes of each table, in order

SchemaInit ==
    /\ marker = [s \in Schemas |-> None]
    /\ made = 0
    /\ rows = [s \in Schemas |-> << >>]

\* A marker that differs makes it throw.
register_or_verify(s, r) == marker[s] \in {None, r}

\* The marker r has the adapter's version and lists the adapter's DBI.
FitsAdapter(s, r, v) == r.version = v /\ r.dbi = s

\* validate_logical_adapter_marker.  Mutant: only the presence is checked.
validate_logical_adapter_marker_present(s, v) == marker[s] # None
validate_logical_adapter_marker(s, v) ==
    marker[s] # None /\ FitsAdapter(s, marker[s], v)

\* validate_ordered_logical_schema_record_origin.
validate_ordered_logical_schema_record_origin(r) == r.origin = Node

\* register_logical_schema
RegisterSchema(s, r) ==
    /\ register_or_verify(s, r)
    /\ marker' = [marker EXCEPT ![s] = r]
    /\ UNCHANGED <<made, rows>>

\* initialize_logical_adapter_schema: the record must fit the adapter.
InitializeSchema(s, v, r) ==
    /\ FitsAdapter(s, r, v)
    /\ register_or_verify(s, r)
    /\ marker' = [marker EXCEPT ![s] = r]
    /\ UNCHANGED <<made, rows>>

\* A retry finds its replacement in place.
migrate_or_verify(s, expected, replacement) ==
    marker[s] \in {expected, replacement}

\* migrate_logical_schema
MigrateSchema(s, expected, replacement) ==
    /\ migrate_or_verify(s, expected, replacement)
    /\ marker' = [marker EXCEPT ![s] = replacement]
    /\ UNCHANGED <<made, rows>>

\* Any of the calls that write a marker.
MarkerCall ==
    \E s \in Schemas : \E r \in RecordsOf[s] :
        \/ RegisterSchema(s, r)
        \/ \E v \in Versions[s] : InitializeSchema(s, v, r)
        \/ \E q \in RecordsOf[s] : MigrateSchema(s, q, r)
=============================================================================
