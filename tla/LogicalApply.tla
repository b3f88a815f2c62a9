---------------------------- MODULE LogicalApply ----------------------------
(***************************************************************************)
(* Applying logical changes to one database: the adapters registered with  *)
(* the engine, and the delivery envelopes of other nodes, unordered or in  *)
(* order, with the delivery markers that make a replay harmless.           *)
(*                                                                         *)
(* Markers, delivery markers, watermarks and the order frontier are        *)
(* durable; adapters live as long as the process.  An engine call is one   *)
(* write transaction.  Envelopes arrive in any order, any number of times. *)
(***************************************************************************)
EXTENDS SchemaMarkers

CONSTANTS
    Envelopes,      \* the envelopes that may arrive
    MaxDirect       \* bound: changes applied without an envelope

VARIABLES
    adapter,    \* LogicalTableRegistry: schema -> adapter version, or None
    seen,       \* LogicalDeliveryStore: envelopes with a delivery marker
    prunedThrough,  \* its pruned-through boundary of each origin
    frontier    \* LogicalDeliveryOrderStore: last ordered sequence applied

deliveryVars == <<seen, prunedThrough, frontier>>
applyVars == <<marker, made, rows, adapter, deliveryVars>>

Origins == {e.origin : e \in Envelopes} \ {Node}

ApplyInit ==
    /\ adapter = [s \in Schemas |-> None]
    /\ seen = {}
    /\ prunedThrough = [o \in Origins |-> 0]
    /\ frontier = [o \in Origins |-> 0]

ChangeMarker == MarkerCall /\ UNCHANGED <<adapter, deliveryVars>>

register_adapter(s, v) ==
    /\ adapter[s] = None
    /\ adapter' = [adapter EXCEPT ![s] = v]
    /\ UNCHANGED <<marker, made, rows, deliveryVars>>

unregister_adapter(s) ==
    /\ adapter[s] # None
    /\ adapter' = [adapter EXCEPT ![s] = None]
    /\ UNCHANGED <<marker, made, rows, deliveryVars>>

\* The process ends.
RestartEngine ==
    /\ adapter' = [s \in Schemas |-> None]
    /\ UNCHANGED <<marker, made, rows, deliveryVars>>

-----------------------------------------------------------------------------
(* Apply                                                                   *)

\* validate_change: the change is for the version the adapter registered with.
validate_change(c) == adapter[c.schema] = c.version

validate_logical_schema_markers(changes) ==
    \A i \in DOMAIN changes :
        /\ adapter[changes[i].schema] # None
        /\ validate_logical_adapter_marker(changes[i].schema, adapter[changes[i].schema])

\* With the first loop of preflight_then_apply.
Admissible(changes, ordered) ==
    /\ validate_logical_schema_markers(changes)
    /\ \A i \in DOMAIN changes : /\ validate_change(changes[i])
                                 /\ changes[i].schema \in Ordered => ordered

\* What the adapters' apply leaves when the first n changes were applied.
AppliedRows(e, n) ==
    [s \in Schemas |->
        LET mine == SelectSeq(SubSeq(e.changes, 1, n), LAMBDA c : c.schema = s)
        IN  rows[s] \o [i \in DOMAIN mine |->
                [by |-> e.origin, seq |-> e.seq, frame |-> e.frame,
                 version |-> mine[i].version]]]

\* The transaction is rolled back.  Mutant: what was applied stays.
RolledBackNot(partial) == partial
RolledBack(partial) == rows

\* preflight_then_apply: an adapter may fail before or after any change, and
\* the caller then rolls back its transaction, marker and frontier included.
ApplyInTxn(e, delivered) ==
    \/ rows' = AppliedRows(e, Len(e.changes)) /\ delivered
    \/ \E n \in 0..Len(e.changes) : rows' = RolledBack(AppliedRows(e, n))
                                    /\ UNCHANGED deliveryVars

\* apply_logical_changes and apply_logical_frame: no envelope, no marker.
apply_logical_changes(s, v) ==
    LET e == [origin |-> None, seq |-> made + 1, frame |-> None,
              changes |-> <<[schema |-> s, version |-> v]>>] IN
    /\ made < MaxDirect
    /\ Admissible(e.changes, FALSE)
    /\ made' = made + 1
    /\ ApplyInTxn(e, UNCHANGED deliveryVars)
    /\ UNCHANGED <<marker, adapter>>

SameIdentity(e, f) == e.origin = f.origin /\ e.seq = f.seq /\ e.frame = f.frame

\* A marker of the same identity whose frame differs is a conflict: it throws.
contains(e) == \E m \in seen : SameIdentity(m, e)

is_at_or_below_watermark(e) == e.seq <= prunedThrough[e.origin]

try_mark_applied(e) == ~is_at_or_below_watermark(e) /\ ~contains(e)

\* Addressed to this database by another node.
Foreign(e) == e.here /\ e.origin # Node

apply_logical_delivery_envelope(e) ==
    /\ Foreign(e)
    /\ try_mark_applied(e)
    /\ Admissible(e.changes, FALSE)
    /\ ApplyInTxn(e, seen' = seen \cup {e} /\ UNCHANGED <<prunedThrough, frontier>>)
    /\ UNCHANGED <<marker, made, adapter>>

validate_ordered_logical_schema_origins(e) ==
    \A i \in DOMAIN e.changes :
        LET c == e.changes[i] IN
        c.schema \in Ordered => /\ adapter[c.schema] # None
                                /\ marker[c.schema] # None
                                /\ marker[c.schema].version = c.version
                                /\ marker[c.schema].origin = e.origin

\* LogicalDeliveryOrderStore::advance.
advance(e) == frontier[e.origin] # MaxSeq /\ e.seq = frontier[e.origin] + 1

apply_ordered_logical_delivery_envelope(e) ==
    /\ Foreign(e)
    /\ advance(e)
    /\ validate_ordered_logical_schema_origins(e)
    /\ try_mark_applied(e)
    /\ Admissible(e.changes, TRUE)
    /\ ApplyInTxn(e, /\ seen' = seen \cup {e}
                     /\ frontier' = [frontier EXCEPT ![e.origin] = e.seq]
                     /\ UNCHANGED prunedThrough)
    /\ UNCHANGED <<marker, made, adapter>>

\* write_watermark of prune_up_to.  Mutant: the boundary is taken exclusive.
WatermarkPast(safe) == safe + 1
WatermarkAt(safe) == safe

\* prune_up_to: the boundary is the caller's, and never moves back.
prune_logical_delivery_markers(o, safe) ==
    /\ prunedThrough[o] < safe
    /\ seen' = {e \in seen : ~(e.origin = o /\ e.seq <= safe)}
    /\ prunedThrough' = [prunedThrough EXCEPT ![o] = WatermarkAt(safe)]
    /\ UNCHANGED <<marker, made, rows, adapter, frontier>>

-----------------------------------------------------------------------------
ApplyNext ==
    \/ ChangeMarker \/ RestartEngine
    \/ \E s \in Schemas : \E v \in Versions[s] : register_adapter(s, v) \/ apply_logical_changes(s, v)
    \/ \E s \in Schemas : unregister_adapter(s)
    \/ \E e \in Envelopes : apply_logical_delivery_envelope(e)
    \/ \E e \in Envelopes : apply_ordered_logical_delivery_envelope(e)
    \/ \E o \in Origins : \E n \in 1..MaxSeq : prune_logical_delivery_markers(o, n)

-----------------------------------------------------------------------------
(* Properties                                                              *)

\* Every variable stays in its type.
ApplyTypeOK ==
    /\ \A s \in Schemas : marker[s] \in RecordsOf[s] \cup {None}
    /\ \A s \in Schemas : adapter[s] \in Versions[s] \cup {None}
    /\ seen \subseteq Envelopes
    /\ prunedThrough \in [Origins -> 0..MaxSeq]
    /\ frontier \in [Origins -> 0..MaxSeq]

RowsOf(e, s) == SelectSeq(rows[s], LAMBDA r :
                    r.by = e.origin /\ r.seq = e.seq /\ r.frame = e.frame)
ChangesOf(e, s) == SelectSeq(e.changes, LAMBDA c : c.schema = s)
Untouched(e) == \A s \in Schemas : RowsOf(e, s) = << >>
Whole(e) == \A s \in Schemas : Len(RowsOf(e, s)) = Len(ChangesOf(e, s))

\* apply_logical_delivery_envelope: an envelope changes all its tables or none,
\* at most once, however often and by whichever path it arrives and whatever
\* was pruned; a marker stands for an envelope applied whole, and one of this
\* node's own or for another database changes nothing.
AppliedWhole ==
    /\ \A e \in Envelopes : Untouched(e) \/ \E f \in Envelopes : SameIdentity(e, f) /\ Whole(f)
    /\ \A e \in seen : Whole(e)
    /\ \A e \in Envelopes : ~Foreign(e) => Untouched(e)

FromOrigin(s, o) == SelectSeq(rows[s], LAMBDA r : r.by = o)

\* LogicalDeliveryOrderStore::advance: a table that requires ordered delivery
\* takes the changes of an origin in the order of their sequences, and none
\* beyond the origin's frontier.
OrderedInOrder ==
    \A s \in Ordered : \A o \in Origins :
        LET q == FromOrigin(s, o) IN
        /\ \A i, j \in DOMAIN q : i < j => q[i].seq <= q[j].seq
        /\ \A i \in DOMAIN q : q[i].seq <= frontier[o]
        /\ \A n \in 1..frontier[o] : n <= prunedThrough[o] \/ \E e \in seen : e.origin = o /\ e.seq = n

\* validate_logical_schema_markers: a change is applied only while the adapter
\* that understands it and the durable marker agree on its version, and one to
\* an ordered table only from the origin the marker names at that moment.
MarkerGoverns ==
    \A s \in Schemas : \A i \in (Len(rows[s]) + 1)..Len(rows'[s]) :
        LET r == rows'[s][i] IN
        r.by # Node =>
        /\ marker[s] # None /\ marker[s].version = r.version /\ marker[s].dbi = s
        /\ s \in Ordered => marker[s].origin = r.by
=============================================================================
