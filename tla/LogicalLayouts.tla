--------------------------- MODULE LogicalLayouts ---------------------------
(***************************************************************************)
(* The layouts of the logical delivery, recovery and selective protocols   *)
(* and of the records their stores keep, continuing WireLayouts.           *)
(***************************************************************************)
EXTENDS WireLayouts

TableKind == Enum(1..7)     \* is_known_logical_table_kind
SchemaId == Bytes(1, Bounds.max_logical_schema_id_len)
FrameId == Bytes(1, Bounds.max_logical_delivery_frame_id_len)

-----------------------------------------------------------------------------
(* LogicalChangeFrameCodec, LogicalDeliveryEnvelopeCodec                   *)

encode_frame ==
    << <<"changes", Many(Struct("change"), Bounds.max_ops_per_batch)>> >>

append_change ==
    << <<"schema_id", SchemaId>>, <<"kind", TableKind>>,
       <<"schema_version", Num>>, <<"opcode", Num>>, <<"flags", Version(0)>>,
       <<"payload", Bytes(0, Bounds.max_value_len)>> >>

decode_frame ==
    << <<"changes", Many(Struct("change"), Bounds.max_ops_per_batch)>> >>

read_change ==
    << <<"schema_id", SchemaId>>, <<"kind", TableKind>>,
       <<"schema_version", Num>>, <<"opcode", Num>>, <<"flags", Version(0)>>,
       <<"payload", Bytes(0, Bounds.max_value_len)>> >>

Frame == Message("frame", U32Max)

encode_envelope ==
    << <<"destination", Num>>, <<"origin", Num>>, <<"sequence", Num>>,
       <<"frame_id", FrameId>>, <<"frame", Frame>> >>

decode_envelope ==
    << <<"destination", Num>>, <<"origin", Num>>, <<"sequence", Num>>,
       <<"frame_id", FrameId>>, <<"frame", Frame>> >>

-----------------------------------------------------------------------------
(* LogicalDeliveryProtocolCodec                                            *)

Envelope == Message("envelope", U32Max)

encode_hello == << <<"node_id", Num>>, <<"db_uuid", Num>>, <<"flags", Num>> >>

decode_hello == << <<"node_id", Num>>, <<"db_uuid", Num>>, <<"flags", Num>> >>

encode_delivery == << <<"envelope", Envelope>> >>

decode_delivery == << <<"envelope", Envelope>> >>

encode_delivery_request ==
    << <<"receiver", Num>>, <<"flags", Num>>, <<"envelope", Envelope>> >>

decode_delivery_request ==
    << <<"receiver", Num>>, <<"flags", Num>>, <<"envelope", Envelope>> >>

encode_acknowledgement ==
    << <<"destination", Num>>, <<"receiver", Num>>, <<"origin", Num>>,
       <<"through", Num>>, <<"ok", Bool>>, <<"retryable", Bool>>,
       <<"error", Error>> >>

decode_acknowledgement ==
    << <<"destination", Num>>, <<"receiver", Num>>, <<"origin", Num>>,
       <<"through", Num>>, <<"ok", Bool>>, <<"retryable", Bool>>,
       <<"error", Error>> >>

-----------------------------------------------------------------------------
(* SelectiveReplicationCodec                                               *)

ScopeId == Bytes(1, Bounds.max_selective_scope_id_len)
SelectiveErrorCode == Enum(0..10)
ScopedManifest == Many(Struct("dbi"), Bounds.max_selective_manifest_entries)
ScopedBatches == Many(Struct("scoped_batch"), Bounds.max_batches_per_message)

\* append_scoped_batches and read_scoped_batches: one scoped batch.
ScopedBatch ==
    << <<"scope_id", ScopeId>>,
       <<"batch", Message("batch", Bounds.max_batch_total_bytes)>> >>

append_descriptor ==
    << <<"scope_id", ScopeId>>, <<"writer", Num>>,
       <<"manifest", ScopedManifest>> >>

read_descriptor ==
    << <<"scope_id", ScopeId>>, <<"writer", Num>>,
       <<"manifest", ScopedManifest>> >>

append_response_status ==
    << <<"ok", Bool>>, <<"error_code", SelectiveErrorCode>>,
       <<"error_retryable", Bool>>, <<"error", Error>> >>

read_response_status ==
    << <<"ok", Bool>>, <<"error_code", SelectiveErrorCode>>,
       <<"error_retryable", Bool>>, <<"error", Error>> >>

encode_scoped_hello ==
    << <<"node_id", Num>>, <<"db_uuid", Num>>, <<"flags", Num>> >>

decode_scoped_hello ==
    << <<"node_id", Num>>, <<"db_uuid", Num>>, <<"flags", Num>> >>

encode_scoped_pull_request ==
    << <<"requester", Num>>, <<"db_id", Num>>, <<"scope_id", ScopeId>>,
       <<"have_sequence", Num>>, <<"max_batches", Num>>, <<"max_bytes", Num>>,
       <<"max_single_batch_bytes", Num>> >>

decode_scoped_pull_request ==
    << <<"requester", Num>>, <<"db_id", Num>>, <<"scope_id", ScopeId>>,
       <<"have_sequence", Num>>, <<"max_batches", Num>>, <<"max_bytes", Num>>,
       <<"max_single_batch_bytes", Num>> >>

IfOk(k) == When([ok |-> {1}], k)

encode_scoped_pull_response ==
    append_response_status \o
    << <<"descriptor", IfOk(Struct("descriptor"))>>,
       <<"remote_tail", IfOk(Num)>>, <<"remote_tail_known", IfOk(Bool)>>,
       <<"batches", IfOk(ScopedBatches)>>, <<"has_more", IfOk(Bool)>> >>

decode_scoped_pull_response ==
    read_response_status \o
    << <<"descriptor", IfOk(Struct("descriptor"))>>,
       <<"remote_tail", IfOk(Num)>>, <<"remote_tail_known", IfOk(Bool)>>,
       <<"batches", IfOk(ScopedBatches)>>, <<"has_more", IfOk(Bool)>> >>

encode_scoped_push_request ==
    << <<"sender", Num>>, <<"db_id", Num>>,
       <<"descriptor", Struct("descriptor")>>, <<"batches", ScopedBatches>> >>

decode_scoped_push_request ==
    << <<"sender", Num>>, <<"db_id", Num>>,
       <<"descriptor", Struct("descriptor")>>, <<"batches", ScopedBatches>> >>

encode_scoped_push_response ==
    append_response_status \o
    << <<"scope_id", ScopeId>>, <<"receiver_sequence", Num>> >>

decode_scoped_push_response ==
    read_response_status \o
    << <<"scope_id", ScopeId>>, <<"receiver_sequence", Num>> >>

-----------------------------------------------------------------------------
(* LogicalRecoveryProtocolCodec                                            *)

encode_recovery_request ==
    << <<"requester", Num>>, <<"db_id", Num>>, <<"snapshot_id", Token>>,
       <<"continuation", Token>>, <<"max_bytes", Num>>,
       <<"max_single_batch_bytes", Num>> >>

decode_recovery_request ==
    << <<"requester", Num>>, <<"db_id", Num>>, <<"snapshot_id", Token>>,
       <<"continuation", Token>>, <<"max_bytes", Num>>,
       <<"max_single_batch_bytes", Num>> >>

append_recovery_error_code == Enum(0..9)
read_recovery_error_code == Enum(0..9)
IfBaseline(k) == When([ok |-> {1}, has_baseline |-> {1}], k)

encode_recovery_response ==
    << <<"ok", Bool>>, <<"has_more", Bool>>, <<"has_baseline", Bool>>,
       <<"error_code", append_recovery_error_code>>, <<"error_retryable", Bool>>,
       <<"error", Error>>, <<"chunk", IfOk(Chunk)>>,
       <<"baseline", IfBaseline(Struct("baseline"))>> >>

decode_recovery_response ==
    << <<"ok", Bool>>, <<"has_more", Bool>>, <<"has_baseline", Bool>>,
       <<"error_code", read_recovery_error_code>>, <<"error_retryable", Bool>>,
       <<"error", Error>>, <<"chunk", IfOk(Chunk)>>,
       <<"baseline", IfBaseline(Struct("baseline"))>> >>

Collection(k) == Many(k, Bounds.max_snapshot_manifest_entries)
Pending == Message("envelope", Bounds.max_batch_total_bytes)
Progress == Collection(Struct("progress"))

\* A watermark or an order entry: an origin and a sequence.
OriginProgress == << <<"origin", Num>>, <<"sequence", Num>> >>

append_baseline ==
    << <<"node_id", Num>>, <<"db_uuid", Num>>, <<"snapshot_id", Token>>,
       <<"schemas", Collection(Struct("schema"))>>,
       <<"markers", Collection(Struct("marker"))>>,
       <<"watermarks", Progress>>, <<"order", Progress>>,
       <<"pending", Collection(Pending)>>, <<"known_tail", Num>> >>

read_baseline ==
    << <<"node_id", Num>>, <<"db_uuid", Num>>, <<"snapshot_id", Token>>,
       <<"schemas", Collection(Struct("schema"))>>,
       <<"markers", Collection(Struct("marker"))>>,
       <<"watermarks", Progress>>, <<"order", Progress>>,
       <<"pending", Collection(Pending)>>, <<"known_tail", Num>> >>

DbiName == Bytes(0, Bounds.max_dbi_name_len)

append_schema ==
    << <<"schema_id", Bytes(0, Bounds.max_logical_schema_id_len)>>,
       <<"dbi_name", DbiName>>, <<"kind", TableKind>>,
       <<"schema_version", Num>>, <<"flags", Num>>,
       <<"dbi_names", Collection(DbiName)>>, <<"origin", Num>> >>

read_schemas ==
    << <<"schema_id", Bytes(0, Bounds.max_logical_schema_id_len)>>,
       <<"dbi_name", DbiName>>, <<"kind", TableKind>>,
       <<"schema_version", Num>>, <<"flags", Num>>,
       <<"dbi_names", Collection(DbiName)>>, <<"origin", Num>> >>

\* frame_bytes_size is followed by the frame's own size, which must equal it.
append_marker ==
    << <<"destination", Num>>, <<"origin", Num>>, <<"sequence", Num>>,
       <<"frame_id", Bytes(0, Bounds.max_logical_delivery_frame_id_len)>>,
       <<"frame_codec_version", Num>>, <<"frame_bytes_size", Num>>,
       <<"encoded_frame", Bytes(0, Bounds.max_batch_total_bytes)>> >>

read_markers ==
    << <<"destination", Num>>, <<"origin", Num>>, <<"sequence", Num>>,
       <<"frame_id", Bytes(0, Bounds.max_logical_delivery_frame_id_len)>>,
       <<"frame_codec_version", Num>>, <<"frame_bytes_size", Num>>,
       <<"encoded_frame", Bytes(0, Bounds.max_batch_total_bytes)>> >>
=============================================================================
