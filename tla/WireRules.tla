------------------------------ MODULE WireRules ------------------------------
(***************************************************************************)
(* The validation every encoder runs before it writes and every decoder    *)
(* runs on what it has read: the rules that relate several fields.  What a *)
(* single field may hold is part of its layout.                            *)
(***************************************************************************)
EXTENDS StoredLayouts

CONSTANT ReservedCell       \* a DBI name starting with it is "_mdbxc_..."

NonZero(m, fields) == \A f \in fields : m[f] # 0

is_reserved_dbi(name) == name # <<>> /\ name[1] = ReservedCell

\* std::string's operator<
Before(a, b) ==
    \E n \in 0..Len(a) :
        /\ n <= Len(b)
        /\ SubSeq(a, 1, n) = SubSeq(b, 1, n)
        /\ \/ n = Len(a) /\ n < Len(b)
           \/ n < Len(a) /\ n < Len(b) /\ a[n + 1] < b[n + 1]

Sorted(names) == \A i \in 1..Len(names) - 1 : Before(names[i], names[i + 1])

ManifestOK(manifest) ==
    /\ manifest # <<>>
    /\ \A i \in DOMAIN manifest :
           /\ manifest[i].dbi_name # <<>>
           /\ ~is_reserved_dbi(manifest[i].dbi_name)
    /\ Sorted([i \in DOMAIN manifest |-> manifest[i].dbi_name])

\* find_manifest_dbi and manifest_entry_flags, and the flags they must match.
InManifest(op, manifest) ==
    \E i \in DOMAIN manifest : /\ manifest[i].dbi_name = op.dbi_name
                               /\ manifest[i].dbi_flags = op.dbi_flags

-----------------------------------------------------------------------------

validate_op(m) == m.op_flags \in TOMBSTONE => m.value = <<>>

validate_snapshot_operation(op) ==
    /\ op.op_type \in {0, 2}
    /\ op.op_flags = 0
    /\ op.identity_key = <<>> /\ op.revision_key = <<>>
    /\ op.op_type = 2 => op.storage_key = <<>> /\ op.value = <<>>

validate_chunk(m) ==
    /\ NonZero(m, {"node_id", "db_uuid"})
    /\ m.snapshot_id # <<>>
    /\ (m.has_more = 1) = (m.continuation # <<>>)
    /\ m.manifest_version = 1
    /\ ManifestOK(m.manifest)
    /\ m.batch.seq = 0 /\ m.batch.origin = m.node_id
    /\ m.batch.batch_flags = 2 * m.has_more
    /\ m.batch.ops # <<>>
    /\ \A i \in DOMAIN m.batch.ops :
           /\ validate_snapshot_operation(m.batch.ops[i])
           /\ InManifest(m.batch.ops[i], m.manifest)

validate_pull_request_snapshot(m) ==
    /\ m.request_full_snapshot = 0 =>
           m.full_snapshot_id = <<>> /\ m.full_snapshot_continuation = <<>>
    /\ (m.full_snapshot_id = <<>>) = (m.full_snapshot_continuation = <<>>)

validate_pull_response_snapshot(m) ==
    m.is_full_snapshot = 1 =>
        /\ m.batches = <<>>
        /\ m.ok = 1
        /\ m.has_more = m.snapshot_chunk.has_more

-----------------------------------------------------------------------------

validate_change_version(m) == m.schema_version # 0

validate_envelope(m) == NonZero(m, {"destination", "origin", "sequence"})

validate_hello(m) == NonZero(m, {"node_id", "db_uuid"})

validate_delivery_request(m) == m.receiver # 0

validate_acknowledgement(m) ==
    /\ NonZero(m, {"destination", "receiver", "origin"})
    /\ m.ok = 1 => m.retryable = 0 /\ m.error = <<>>

-----------------------------------------------------------------------------

validate_descriptor(m) == m.writer # 0 /\ ManifestOK(m.manifest)

\* The scope and writer a batch names, and every operation's DBI, are the
\* descriptor's.
validate_scoped_batch(b, d) ==
    /\ b.scope_id = d.scope_id
    /\ b.batch.origin = d.writer
    /\ b.batch.seq # 0
    /\ b.batch.batch_flags = 0
    /\ b.batch.ops # <<>>
    /\ \A i \in DOMAIN b.batch.ops : InManifest(b.batch.ops[i], d.manifest)

validate_scoped_batches(batches, d) ==
    /\ \A i \in DOMAIN batches : validate_scoped_batch(batches[i], d)
    /\ \A i \in 1..Len(batches) - 1 :
           batches[i + 1].batch.seq = batches[i].batch.seq + 1

validate_scoped_pull_request(m) ==
    /\ NonZero(m, {"requester", "db_id"})
    /\ NonZero(m, {"max_batches", "max_bytes", "max_single_batch_bytes"})
    /\ m.max_batches <= Bounds.max_batches_per_message
    /\ m.max_bytes <= Bounds.max_transport_message_bytes
    /\ m.max_single_batch_bytes <= Bounds.max_batch_total_bytes

validate_response_status(m) ==
    IF m.ok = 1
    THEN m.error = <<>> /\ m.error_retryable = 0 /\ m.error_code = 0
    ELSE m.error_code # 0

validate_scoped_pull_response(m) ==
    /\ validate_response_status(m)
    /\ m.ok = 1 =>
           /\ validate_scoped_batches(m.batches, m.descriptor)
           /\ m.has_more = 1 => m.batches # <<>>
           /\ m.remote_tail_known = 0 => m.remote_tail = 0
           /\ m.remote_tail_known = 1 /\ m.batches # <<>> =>
                  m.remote_tail >= m.batches[Len(m.batches)].batch.seq

validate_scoped_push_request(m) ==
    /\ NonZero(m, {"sender", "db_id"})
    /\ m.sender = m.descriptor.writer
    /\ m.batches # <<>>
    /\ validate_scoped_batches(m.batches, m.descriptor)

-----------------------------------------------------------------------------

validate_recovery_request(m) ==
    /\ NonZero(m, {"requester", "db_id", "max_bytes", "max_single_batch_bytes"})
    /\ (m.snapshot_id = <<>>) = (m.continuation = <<>>)

validate_marker(m) == Len(m.encoded_frame) = m.frame_bytes_size

validate_baseline(b, chunk) ==
    /\ b.node_id = chunk.node_id /\ b.db_uuid = chunk.db_uuid
    /\ b.snapshot_id = chunk.snapshot_id
    /\ \A i \in DOMAIN b.schemas : /\ b.schemas[i].schema_id # <<>>
                                   /\ b.schemas[i].dbi_name # <<>>
    /\ \A i \in DOMAIN b.markers :
           /\ NonZero(b.markers[i], {"destination", "origin", "sequence"})
           /\ b.markers[i].frame_id # <<>>

validate_recovery_response(m) ==
    IF m.ok = 0
    THEN m.has_more = 0 /\ m.has_baseline = 0
    ELSE /\ m.error = <<>> /\ m.error_code = 0 /\ m.error_retryable = 0
         /\ m.has_more = m.chunk.has_more
         /\ m.has_more # m.has_baseline
         /\ m.has_baseline = 1 => validate_baseline(m.baseline, m.chunk)

-----------------------------------------------------------------------------

validate_record(m) ==
    /\ m.schema_id # <<>> /\ m.dbi_name # <<>>
    /\ <<>> \notin m.dbi_names /\ m.dbi_name \in m.dbi_names
    /\ m.kind \in 1..7 /\ m.schema_version # 0 /\ m.flags = 0

validate_dbi_binding(m) ==
    /\ m.destination # 0
    /\ m.schema_id # <<>> /\ m.kind \in 1..7 /\ m.schema_version # 0

\* The v1 limits of SelectiveReplicationStore.
validate_stored_descriptor(m) ==
    /\ Len(m.scope_id) \in 1..Bounds.max_selective_scope_id_len
    /\ m.writer # 0
    /\ Len(m.manifest) <= Bounds.max_selective_manifest_entries
    /\ ManifestOK(m.manifest)
    /\ \A i \in DOMAIN m.manifest :
           Len(m.manifest[i].dbi_name) <= Bounds.max_dbi_name_len

validate_route_metadata(m) ==
    m.known_tail >= m.acknowledged_through /\ m.origin # 0

validate_mode(m) == (m.mode = 1) = (m.scope_ids = <<>>) /\ Sorted(m.scope_ids)
=============================================================================
