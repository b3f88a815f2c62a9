----------------------------- MODULE WireLayouts -----------------------------
(***************************************************************************)
(* What every encoder of the sync layer writes and what every decoder      *)
(* reads, field by field, each transcribed from its own function: the wire *)
(* messages, the messages nested in them, and the records the logical and  *)
(* selective stores keep.                                                  *)
(*                                                                         *)
(* A message is a sequence of cells.  An integer, an id, a flag or an      *)
(* enumerator is one cell; a string is its length and its characters; a    *)
(* nested message is its size and its cells.  A layout is a sequence of    *)
(* <<field, kind>>.                                                        *)
(***************************************************************************)
EXTENDS Integers, Sequences

CONSTANT Bounds     \* CodecBounds, in cells

U32Max == 99        \* no length reaches it; as a value length it is "absent"

Num == [t |-> "num"]
Enum(S) == [t |-> "enum", of |-> S]
Bool == Enum({0, 1})
Bytes(lo, hi) == [t |-> "bytes", lo |-> lo, hi |-> hi]
Optional(hi) == [t |-> "optional", hi |-> hi]        \* U32Max when empty
Many(k, hi) == [t |-> "many", of |-> k, hi |-> hi]
Map(hi) == [t |-> "map", hi |-> hi]                  \* SyncCursor
Names == [t |-> "names"]                             \* a set, written sorted
Struct(c) == [t |-> "struct", of |-> c]              \* written in line
Message(c, hi) == [t |-> "message", of |-> c, hi |-> hi]
When(cond, k) == [t |-> "when", cond |-> cond, then |-> k]

AnyBytes == Bytes(0, U32Max)
Version(n) == Enum({n})

-----------------------------------------------------------------------------
(* ChangeBatchCodec                                                        *)

OpFlags == 0..7
IDENTITY == {1, 3, 5, 7}    \* op_flags with OP_HAS_IDENTITY_KEY
REVISION == {2, 3, 6, 7}
TOMBSTONE == {4, 5, 6, 7}

encode_batch ==
    << <<"version", Version(1)>>, <<"batch_flags", Enum({0, 2})>>,
       <<"origin", Num>>, <<"seq", Num>>, <<"time", Num>>,
       <<"ops", Many(Struct("op"), Bounds.max_ops_per_batch)>> >>

encode_op ==
    << <<"op_type", Enum(0..2)>>, <<"op_flags", Enum(OpFlags)>>,
       <<"dbi_flags", Num>>,
       <<"dbi_name", Bytes(0, Bounds.max_dbi_name_len)>>,
       <<"storage_key", Bytes(0, Bounds.max_storage_key_len)>>,
       <<"value", Optional(Bounds.max_value_len)>>,
       <<"identity_key", When([op_flags |-> IDENTITY],
                              Bytes(1, Bounds.max_identity_key_len))>>,
       <<"revision_key", When([op_flags |-> REVISION],
                              Bytes(1, Bounds.max_revision_key_len))>> >>

decode_batch ==
    << <<"version", Version(1)>>, <<"batch_flags", Enum({0, 2})>>,
       <<"origin", Num>>, <<"seq", Num>>, <<"time", Num>>,
       <<"ops", Many(Struct("op"), Bounds.max_ops_per_batch)>> >>

\* Mutant: the revision key is read before the identity key.
decode_op_swapped ==
    SubSeq(encode_op, 1, 6) \o <<encode_op[8], encode_op[7]>>
decode_op ==
    << <<"op_type", Enum(0..2)>>, <<"op_flags", Enum(OpFlags)>>,
       <<"dbi_flags", Num>>,
       <<"dbi_name", Bytes(0, Bounds.max_dbi_name_len)>>,
       <<"storage_key", Bytes(0, Bounds.max_storage_key_len)>>,
       <<"value", Optional(Bounds.max_value_len)>>,
       <<"identity_key", When([op_flags |-> IDENTITY],
                              Bytes(1, Bounds.max_identity_key_len))>>,
       <<"revision_key", When([op_flags |-> REVISION],
                              Bytes(1, Bounds.max_revision_key_len))>> >>

-----------------------------------------------------------------------------
(* TransportMessageCodec                                                   *)

Cursor == Map(Bounds.max_cursor_origins)
Token == Bytes(0, Bounds.max_snapshot_id_len)
Error == Bytes(0, Bounds.max_error_len)
append_response_error_code == Enum(0..9)    \* SyncResponseErrorCode
read_response_error_code == Enum(0..9)
Batches == Many(Message("batch", Bounds.max_batch_total_bytes),
                Bounds.max_batches_per_message)
Chunk == Message("chunk", Bounds.max_snapshot_chunk_bytes)

encode_pull_request ==
    << <<"requester", Num>>, <<"db_id", Num>>, <<"have", Cursor>>,
       <<"max_batches", Num>>, <<"max_bytes", Num>>,
       <<"request_full_snapshot", Bool>>,
       <<"full_snapshot_id", Token>>, <<"full_snapshot_continuation", Token>>,
       <<"max_single_batch_bytes", Num>> >>

decode_pull_request ==
    << <<"requester", Num>>, <<"db_id", Num>>, <<"have", Cursor>>,
       <<"max_batches", Num>>, <<"max_bytes", Num>>,
       <<"request_full_snapshot", Bool>>,
       <<"full_snapshot_id", Token>>, <<"full_snapshot_continuation", Token>>,
       <<"max_single_batch_bytes", Num>> >>

encode_pull_response ==
    << <<"remote_have", Cursor>>, <<"remote_tail", Cursor>>,
       <<"remote_tail_known", Bool>>, <<"batches", Batches>>,
       <<"has_more", Bool>>, <<"is_full_snapshot", Bool>>,
       <<"snapshot_chunk", When([is_full_snapshot |-> {1}], Chunk)>>,
       <<"ok", Bool>>, <<"error", Error>>,
       <<"error_code", append_response_error_code>>,
       <<"error_retryable", Bool>> >>

decode_pull_response ==
    << <<"remote_have", Cursor>>, <<"remote_tail", Cursor>>,
       <<"remote_tail_known", Bool>>, <<"batches", Batches>>,
       <<"has_more", Bool>>, <<"is_full_snapshot", Bool>>,
       <<"snapshot_chunk", When([is_full_snapshot |-> {1}], Chunk)>>,
       <<"ok", Bool>>, <<"error", Error>>,
       <<"error_code", read_response_error_code>>,
       <<"error_retryable", Bool>> >>

encode_push_request ==
    << <<"sender", Num>>, <<"db_id", Num>>, <<"batches", Batches>> >>

decode_push_request ==
    << <<"sender", Num>>, <<"db_id", Num>>, <<"batches", Batches>> >>

encode_push_response ==
    << <<"receiver_have", Cursor>>, <<"ok", Bool>>, <<"error", Error>>,
       <<"error_code", append_response_error_code>>, <<"error_retryable", Bool>> >>

decode_push_response ==
    << <<"receiver_have", Cursor>>, <<"ok", Bool>>, <<"error", Error>>,
       <<"error_code", read_response_error_code>>, <<"error_retryable", Bool>> >>

-----------------------------------------------------------------------------
(* FullSnapshotCodec                                                       *)

Manifest == Many(Struct("dbi"), Bounds.max_snapshot_manifest_entries)

\* One manifest entry, read and written by the same loop body.
ManifestDbi ==
    << <<"dbi_name", Bytes(0, Bounds.max_dbi_name_len)>>, <<"dbi_flags", Num>> >>

encode_chunk ==
    << <<"node_id", Num>>, <<"db_uuid", Num>>, <<"snapshot_id", Token>>,
       <<"source_tail", Cursor>>, <<"chunk_index", Num>>, <<"has_more", Bool>>,
       <<"scope", Enum({0, 1})>>, <<"continuation", Token>>,
       <<"manifest_version", Num>>, <<"manifest", Manifest>>,
       <<"batch", Message("batch", U32Max)>> >>

decode_chunk ==
    << <<"node_id", Num>>, <<"db_uuid", Num>>, <<"snapshot_id", Token>>,
       <<"source_tail", Cursor>>, <<"chunk_index", Num>>, <<"has_more", Bool>>,
       <<"scope", Enum({0, 1})>>, <<"continuation", Token>>,
       <<"manifest_version", Num>>, <<"manifest", Manifest>>,
       <<"batch", Message("batch", U32Max)>> >>
=============================================================================
