---------------------------- MODULE StoredLayouts ----------------------------
(***************************************************************************)
(* The records and keys the schema registry, DBI binding, delivery,        *)
(* outbox, journal, order, selective and receiver-mode stores keep in      *)
(* their DBIs, continuing LogicalLayouts.  The stores bound no length      *)
(* beyond the bytes present, except for the v1 limits of the selective     *)
(* descriptor, which are the defaults of its wire bounds.                  *)
(***************************************************************************)
EXTENDS LogicalLayouts

\* SchemaRegistryStore: the owned DBI names are sorted before writing.
encode_record ==
    << <<"schema_id", AnyBytes>>, <<"kind", Num>>, <<"schema_version", Num>>,
       <<"flags", Num>>, <<"dbi_name", AnyBytes>>, <<"dbi_names", Names>>,
       <<"origin", Num>> >>

\* A record written before the ordered origin existed ends after dbi_names.
decode_record ==
    << <<"schema_id", AnyBytes>>, <<"kind", Num>>, <<"schema_version", Num>>,
       <<"flags", Num>>, <<"dbi_name", AnyBytes>>, <<"dbi_names", Names>>,
       <<"origin", [t |-> "last", default |-> 0]>> >>

\* LogicalDbiBindingStore
encode_dbi_binding ==
    << <<"kind", Num>>, <<"schema_version", Num>>, <<"schema_id", AnyBytes>>,
       <<"destination", Num>> >>

decode_dbi_binding ==
    << <<"kind", Num>>, <<"schema_version", Num>>, <<"schema_id", AnyBytes>>,
       <<"destination", Num>> >>

\* LogicalDeliveryStore
make_marker_key ==
    << <<"origin", Num>>, <<"sequence", Num>>, <<"frame_id_digest", Num>> >>

decode_marker_key ==
    << <<"origin", Num>>, <<"sequence", Num>>, <<"frame_id_digest", Num>> >>

make_marker_value ==
    << <<"destination", Num>>, <<"origin", Num>>, <<"sequence", Num>>,
       <<"frame_id", AnyBytes>>, <<"frame_codec_version", Num>>,
       <<"encoded_frame", AnyBytes>> >>

decode_marker_value ==
    << <<"destination", Num>>, <<"origin", Num>>, <<"sequence", Num>>,
       <<"frame_id", AnyBytes>>, <<"frame_codec_version", Num>>,
       <<"encoded_frame", AnyBytes>> >>

encode_watermark == << <<"sequence", Num>> >>

decode_watermark == << <<"sequence", Num>> >>

\* LogicalDeliveryOrderStore
encode_order == << <<"sequence", Num>> >>

decode_order == << <<"sequence", Num>> >>

\* LogicalOutboxStore
make_origin_metadata_key == << <<"destination", Num>>, <<"origin", Num>> >>

make_route_metadata_key == << <<"destination", Num>>, <<"receiver", Num>> >>

decode_route == << <<"destination", Num>>, <<"receiver", Num>> >>

make_entry_key ==
    << <<"destination", Num>>, <<"receiver", Num>>, <<"sequence", Num>> >>

decode_entry_sequence ==
    << <<"destination", Num>>, <<"receiver", Num>>, <<"sequence", Num>> >>

encode_origin_metadata == << <<"next_sequence", Num>> >>

decode_origin_metadata == << <<"next_sequence", Num>> >>

encode_metadata ==
    << <<"acknowledged_through", Num>>, <<"known_tail", Num>>,
       <<"origin", Num>> >>

decode_metadata ==
    << <<"acknowledged_through", Num>>, <<"known_tail", Num>>,
       <<"origin", Num>> >>

\* LogicalJournalStore
make_journal_metadata_key == << <<"destination", Num>>, <<"origin", Num>> >>

make_journal_entry_key ==
    << <<"destination", Num>>, <<"origin", Num>>, <<"sequence", Num>> >>

decode_entry ==
    << <<"destination", Num>>, <<"origin", Num>>, <<"sequence", Num>> >>

encode_journal_metadata == << <<"next_sequence", Num>> >>

decode_journal_metadata == << <<"next_sequence", Num>> >>

\* SelectiveReplicationStore
put_descriptor ==
    << <<"scope_id", AnyBytes>>, <<"writer", Num>>,
       <<"manifest", Many(Struct("stored_dbi"), U32Max)>> >>

decode_descriptor ==
    << <<"scope_id", AnyBytes>>, <<"writer", Num>>,
       <<"manifest", Many(Struct("stored_dbi"), U32Max)>> >>

StoredDbi == << <<"dbi_name", AnyBytes>>, <<"dbi_flags", Num>> >>

put_binding ==
    << <<"scope_id", AnyBytes>>, <<"writer", Num>>, <<"dbi_flags", Num>> >>

decode_binding ==
    << <<"scope_id", AnyBytes>>, <<"writer", Num>>, <<"dbi_flags", Num>> >>

\* ReceiverReplicationModeStore
encode_mode ==
    << <<"mode", Enum({1, 2})>>,
       <<"scope_ids", Many(Bytes(1, Bounds.max_selective_scope_id_len),
                           Bounds.max_selective_manifest_entries)>> >>

decode_mode ==
    << <<"mode", Enum({1, 2})>>,
       <<"scope_ids", Many(Bytes(1, Bounds.max_selective_scope_id_len),
                           Bounds.max_selective_manifest_entries)>> >>
=============================================================================
