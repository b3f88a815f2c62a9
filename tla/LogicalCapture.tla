--------------------------- MODULE LogicalCapture ---------------------------
(***************************************************************************)
(* Automatic logical capture: the durable binding of a table's DBI, the    *)
(* capture object that is attached to the connection after it, and the     *)
(* local transactions whose changes it appends to the logical journal.     *)
(*                                                                         *)
(* Markers, bindings and the journal are durable, attached captures live   *)
(* as long as the process.  MDBX has one writer: an engine call is one     *)
(* write transaction and waits for an open local one.                      *)
(***************************************************************************)
EXTENDS SchemaMarkers

CONSTANTS
    CaptureVersion, \* [schema -> the version automatic capture supports]
    Destinations    \* databases a capture may be bound to

VARIABLES
    binding,    \* LogicalDbiBindingStore: schema -> destination, or None
    attaching,  \* binding calls between their commit and their attach
    capture,    \* m_logical_dbi_captures: schema -> destination, or None
    legacy,     \* the outbox was written by a release without a journal
    txn,        \* the open local write transaction
    entries     \* LogicalJournalStore: the entries of each destination

bindingVars == <<binding, attaching, capture>>
captureVars == <<bindingVars, legacy, txn, entries>>
tableVars == <<marker, made, rows>>

Closed == [open |-> FALSE, failed |-> FALSE, writes |-> << >>,
           pending |-> [s \in Schemas |-> << >>]]

CaptureInit ==
    /\ binding = [s \in Schemas |-> None]
    /\ attaching = {}
    /\ capture = [s \in Schemas |-> None]
    /\ legacy \in BOOLEAN
    /\ txn = Closed
    /\ entries = [d \in Destinations |-> << >>]

Idle == ~txn.open

WriteMarker == Idle /\ MarkerCall /\ UNCHANGED captureVars

-----------------------------------------------------------------------------
(* Binding                                                                 *)

\* LogicalDbiBindingStore::register_or_verify.
BindingAccepts(s, d) == binding[s] \in {None, d}

\* Marker and binding in one transaction; the capture is attached after its
\* commit.
Bind(s, d, r) ==
    /\ Idle
    /\ FitsAdapter(s, r, CaptureVersion[s])
    /\ register_or_verify(s, r)
    /\ BindingAccepts(s, d)
    /\ marker' = [marker EXCEPT ![s] = r]
    /\ binding' = [binding EXCEPT ![s] = d]
    /\ attaching' = attaching \cup {<<s, d>>}
    /\ UNCHANGED <<made, rows, capture, legacy, txn, entries>>

bind_key_multi_value_logical_capture(s, d, r) == s \notin Ordered /\ Bind(s, d, r)

\* Capture must not journal what receivers reject: another node's table.
bind_key_ordered_multi_value_logical_capture(s, d, r) ==
    /\ s \in Ordered
    /\ validate_ordered_logical_schema_record_origin(r)
    /\ Bind(s, d, r)

\* attach_logical_dbi_capture keeps a capture that is already there, and
\* throws when it differs.
attach_logical_dbi_capture(s, d) ==
    /\ <<s, d>> \in attaching
    /\ attaching' = attaching \ {<<s, d>>}
    /\ capture' = [capture EXCEPT ![s] = IF @ = None THEN d ELSE @]
    /\ UNCHANGED <<tableVars, binding, legacy, txn, entries>>

\* The process ends: the open transaction and everything in memory are gone.
RestartCapture ==
    /\ txn' = Closed
    /\ attaching' = {}
    /\ capture' = [s \in Schemas |-> None]
    /\ UNCHANGED <<tableVars, binding, legacy, entries>>

-----------------------------------------------------------------------------
(* Local writes                                                            *)

is_sync_logical_dbi(s) == binding[s] # None

\* A committed local change: its number, and whether the DBI was bound.
LocalRow(s, n) ==
    [by |-> Node, seq |-> n, frame |-> None, bound |-> is_sync_logical_dbi(s)]

Begin ==
    /\ Idle
    /\ txn' = [Closed EXCEPT !.open = TRUE]
    /\ UNCHANGED <<tableVars, bindingVars, legacy, entries>>

\* logical_dbi_capture_for: a bound DBI needs the capture it is bound to.
\* Mutant: without a capture the write goes on unrecorded.
CaptureMissingNever(s) == FALSE
CaptureMissing(s) == is_sync_logical_dbi(s) /\ capture[s] # binding[s]

\* ensure_logical_dbi_capture_not_suppressed: public raw suppression may not
\* bypass a binding.
SuppressionThrows(s, op) == is_sync_logical_dbi(s) /\ op = "suppressed"

\* The ordered capture is append-only.
DestructiveThrows(s, op) == is_sync_logical_dbi(s) /\ op = "erase" /\ s \in Ordered

\* The write was put and then its record is refused; the transaction may only
\* be rolled back.
RecordThrows(s, op) ==
    CaptureMissing(s) \/ SuppressionThrows(s, op) \/ DestructiveThrows(s, op)

\* One table call.  A bulk call on a bound DBI throws before it writes.
Write(s, op) ==
    /\ txn.open /\ made < MaxLocal
    /\ ~(is_sync_logical_dbi(s) /\ op = "bulk")
    /\ made' = made + 1
    /\ txn' = [txn EXCEPT
           !.writes = Append(@, <<s, made + 1>>),
           !.failed = @ \/ RecordThrows(s, op),
           !.pending[s] = IF is_sync_logical_dbi(s) /\ ~RecordThrows(s, op)
                          THEN Append(@, made + 1) ELSE @]
    /\ UNCHANGED <<marker, rows, bindingVars, legacy, entries>>

\* The ordered capture rereads its marker when it flushes.
OrderedFlushAllowed(s) ==
    /\ validate_logical_adapter_marker(s, CaptureVersion[s])
    /\ validate_ordered_logical_schema_record_origin(marker[s])

\* has_persistent_state: a journal may not start beside an outbox that never
\* had one.
JournalMayStart == ~legacy

\* AutomaticCapture::flush_in_txn.
FlushAllowed(s) ==
    txn.pending[s] # << >> =>
        JournalMayStart /\ (s \in Ordered => OrderedFlushAllowed(s))

\* LogicalJournalStore::append of one more entry: the sequence after it must
\* be a 64-bit number too.
Exhausted(d, n) == Len(entries[d]) + n >= MaxSeq

\* The captures bound to d that have changes, in the order they are visited.
Flushing(d) ==
    SelectSeq(SchemaOrder, LAMBDA s : txn.pending[s] # << >> /\ capture[s] = d)

\* One entry for each of them.
EntriesFor(d) ==
    [i \in DOMAIN Flushing(d) |->
        [seq |-> Len(entries[d]) + i, schema |-> Flushing(d)[i],
         changes |-> txn.pending[Flushing(d)[i]]]]

MayCommit ==
    /\ ~txn.failed
    /\ \A s \in Schemas : FlushAllowed(s)
    /\ \A d \in Destinations : \A n \in DOMAIN Flushing(d) : ~Exhausted(d, n)

LocalRowsOf(s) ==
    LET mine == SelectSeq(txn.writes, LAMBDA w : w[1] = s)
    IN  [i \in DOMAIN mine |-> LocalRow(s, mine[i][2])]

\* on_pre_commit and the native commit.
Commit ==
    /\ txn.open /\ MayCommit
    /\ rows' = [s \in Schemas |-> rows[s] \o LocalRowsOf(s)]
    /\ entries' = [d \in Destinations |-> entries[d] \o EntriesFor(d)]
    /\ txn' = Closed
    /\ UNCHANGED <<marker, made, bindingVars, legacy>>

\* on_pre_commit throws; the captures flushed so far gave their changes away,
\* and the mark keeps a second commit from succeeding without them.
CommitThrows ==
    /\ txn.open /\ ~MayCommit
    /\ txn' = [txn EXCEPT !.failed = TRUE,
                          !.pending = IF txn.failed THEN @ ELSE Closed.pending]
    /\ UNCHANGED <<tableVars, bindingVars, legacy, entries>>

Rollback ==
    /\ txn.open
    /\ txn' = Closed
    /\ UNCHANGED <<tableVars, bindingVars, legacy, entries>>

\* A write that does not feed the automatic capture.
Uncaptured(s) ==
    /\ Idle /\ made < MaxLocal
    /\ made' = made + 1
    /\ rows' = [rows EXCEPT ![s] = Append(@, LocalRow(s, made + 1))]
    /\ UNCHANGED <<marker, captureVars>>

\* ensure_sync_dbi_external_txn_supported: a transaction the caller began with
\* MDBX itself.
WriteExternally(s) == ~is_sync_logical_dbi(s) /\ Uncaptured(s)

\* A typed capture session of one change: LogicalCaptureSession's constructor
\* and ensure_logical_dbi_capture_session_supported.
WriteInSession(s, v) ==
    /\ ~is_sync_logical_dbi(s)
    /\ validate_logical_adapter_marker(s, v)
    /\ s \in Ordered => validate_ordered_logical_schema_record_origin(marker[s])
    /\ Uncaptured(s)

-----------------------------------------------------------------------------
CaptureNext ==
    \/ WriteMarker
    \/ \E s \in Schemas : \E r \in RecordsOf[s] : \E d \in Destinations :
        \/ bind_key_multi_value_logical_capture(s, d, r)
        \/ bind_key_ordered_multi_value_logical_capture(s, d, r)
    \/ \E s \in Schemas : \E d \in Destinations : attach_logical_dbi_capture(s, d)
    \/ \E s \in Schemas : WriteExternally(s)
    \/ \E s \in Schemas : \E v \in Versions[s] : WriteInSession(s, v)
    \/ \E s \in Schemas : \E op \in {"insert", "erase", "bulk", "suppressed"} : Write(s, op)
    \/ Begin \/ Commit \/ CommitThrows \/ Rollback \/ RestartCapture

-----------------------------------------------------------------------------
(* Properties                                                              *)

\* Every variable stays in its type, and what is attached is durably bound.
CaptureTypeOK ==
    /\ \A s \in Schemas : marker[s] \in RecordsOf[s] \cup {None}
    /\ binding \in [Schemas -> Destinations \cup {None}]
    /\ \A s \in Schemas : capture[s] \in {None, binding[s]}
    /\ \A p \in attaching : binding[p[1]] = p[2]
    /\ made \in 0..MaxLocal

Locally(s) == SelectSeq(rows[s], LAMBDA r : r.by = Node /\ r.bound)
EntriesOf(s, d) == SelectSeq(entries[d], LAMBDA j : j.schema = s)
Journalled(s, d) == FlattenSeq([i \in DOMAIN EntriesOf(s, d) |-> EntriesOf(s, d)[i].changes])

\* SyncEngine::bind_key_multi_value_logical_capture: from its binding on, the
\* journal holds exactly the local changes a table committed, in their order:
\* none is lost while no capture is attached (after a restart, before the
\* attach) or while capture is suppressed, none of a rolled back transaction
\* and no applied remote change gets in.  Entries are numbered without a gap
\* and the number after the last one is still a 64-bit one.
JournalExact ==
    /\ \A s \in Schemas : \A d \in Destinations :
           Journalled(s, d) = IF d = binding[s]
                              THEN [i \in DOMAIN Locally(s) |-> Locally(s)[i].seq]
                              ELSE << >>
    /\ \A d \in Destinations : \A i \in DOMAIN entries[d] :
           entries[d][i].seq = i /\ i < MaxSeq

\* validate_ordered_logical_adapter_origin: "an authority cutover makes a stale
\* local writer fail before its physical mutation can commit": a captured
\* change to an ordered table commits only while the marker names this node,
\* whatever it named when the capture was bound or attached.
LocalAuthority ==
    \A s \in Ordered : \A i \in (Len(rows[s]) + 1)..Len(rows'[s]) :
        rows'[s][i].by = Node /\ rows'[s][i].bound =>
            marker[s] # None /\ marker[s].origin = Node
=============================================================================
