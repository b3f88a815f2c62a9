----------------------------- MODULE MCWireCodec -----------------------------
(***************************************************************************)
(* Small bounds, so that every limit is met and exceeded by some message,  *)
(* and messages of every codec.  9 starts a reserved DBI name.             *)
(***************************************************************************)
EXTENDS WireCodec

MCBounds ==
    [max_ops_per_batch |-> 2, max_dbi_name_len |-> 2,
     max_storage_key_len |-> 1, max_value_len |-> 1,
     max_identity_key_len |-> 1, max_revision_key_len |-> 1,
     max_batch_total_bytes |-> 24, max_cursor_origins |-> 2,
     max_batches_per_message |-> 2, max_error_len |-> 1,
     max_logical_schema_id_len |-> 1, max_logical_delivery_frame_id_len |-> 1,
     max_selective_scope_id_len |-> 1, max_selective_manifest_entries |-> 2,
     max_transport_message_bytes |-> 77, max_snapshot_id_len |-> 1,
     max_snapshot_manifest_entries |-> 2, max_snapshot_chunk_bytes |-> 48]

MCReserved == 9
MCDamaged == {0, 1, 2, 9, U32Max}

E0 == <<>>
Op(t, f, key, value) ==
    [op_type |-> t, op_flags |-> f, dbi_flags |-> 0, dbi_name |-> <<1>>,
     storage_key |-> key, value |-> value,
     identity_key |-> IF f \in IDENTITY THEN <<4>> ELSE E0,
     revision_key |-> IF f \in REVISION THEN <<5>> ELSE E0]

Put == Op(0, 0, <<1>>, <<2>>)
Empty == Op(0, 0, <<1>>, E0)
Clear == Op(2, 0, E0, E0)
Keyed == Op(0, 3, <<1>>, <<2>>)
Stale == Op(1, 6, <<1>>, E0)

Batch(origin, seq, flags, ops) ==
    [version |-> 1, batch_flags |-> flags, origin |-> origin, seq |-> seq,
     time |-> 7, ops |-> ops]

MCBatches ==
    {Batch(1, 1, f, ops) : f \in {0, 1, 2},
        ops \in {E0, <<Put>>, <<Keyed>>, <<Stale>>, <<Put, Empty>>,
                 <<Clear, Put>>, <<Keyed, Keyed>>, <<Put, Put, Put>>,
                 <<Op(1, 4, <<1>>, <<2>>)>>, <<Op(0, 0, <<1>>, <<2, 2>>)>>}}

B(n) == Batch(1, n, 0, <<Put>>)

Cursors == {E0, 1 :> 3, (2 :> 0) @@ (1 :> 3), [i \in 1..3 |-> i]}
Dbi(n, f) == [dbi_name |-> n, dbi_flags |-> f]

MCChunk(id, more, next, manifest, batch) ==
    [node_id |-> 1, db_uuid |-> 2, snapshot_id |-> id,
     source_tail |-> 1 :> 3, chunk_index |-> 0, has_more |-> more,
     scope |-> 1, continuation |-> next, manifest_version |-> 1,
     manifest |-> manifest, batch |-> batch]
WholeDbis == <<Dbi(<<1>>, 0), Dbi(<<1, 2>>, 1)>>
LastChunk == MCChunk(<<3>>, 0, E0, WholeDbis, Batch(1, 0, 0, <<Clear, Put>>))
FirstChunk == MCChunk(<<3>>, 1, <<3>>, WholeDbis, Batch(1, 0, 2, <<Clear>>))

MCChunks ==
    {LastChunk, FirstChunk,
     MCChunk(<<3>>, 0, <<3>>, WholeDbis, Batch(1, 0, 0, <<Put>>)),
     MCChunk(E0, 0, E0, WholeDbis, Batch(1, 0, 0, <<Put>>)),
     MCChunk(<<3>>, 0, E0, <<WholeDbis[2], WholeDbis[1]>>, Batch(1, 0, 0, <<Put>>)),
     MCChunk(<<3>>, 0, E0, <<Dbi(<<9>>, 0)>>, Batch(1, 0, 0, <<Put>>)),
     MCChunk(<<3>>, 0, E0, WholeDbis, Batch(1, 0, 0, <<Keyed>>))}

MCPullRequests ==
    {[requester |-> 1, db_id |-> 2, have |-> have, max_batches |-> 1,
      max_bytes |-> 5, request_full_snapshot |-> full,
      full_snapshot_id |-> id, full_snapshot_continuation |-> next,
      max_single_batch_bytes |-> 4] :
        have \in Cursors, full \in {0, 1}, id \in {E0, <<3>>},
        next \in {E0, <<3>>}}

MCPullResponse(batches, full, chunk, more, ok, error) ==
    [remote_have |-> 1 :> 3, remote_tail |-> E0, remote_tail_known |-> 0,
     batches |-> batches, has_more |-> more, is_full_snapshot |-> full,
     snapshot_chunk |-> chunk, ok |-> ok, error |-> error,
     error_code |-> 1 - ok, error_retryable |-> 0]

MCPullResponses ==
    {MCPullResponse(bs, 0, E0, 0, ok, e) :
        bs \in {E0, <<B(1)>>, <<B(1), B(2)>>, <<B(1), B(2), B(3)>>},
        ok \in {0, 1}, e \in {E0, <<4>>, <<4, 4>>}}
    \cup {MCPullResponse(bs, 1, c, more, ok, E0) :
        bs \in {E0, <<B(1)>>}, c \in {FirstChunk, LastChunk},
        more \in {0, 1}, ok \in {0, 1}}

MCPushRequests ==
    {[sender |-> 1, db_id |-> 2, batches |-> bs] :
        bs \in {E0, <<B(1)>>, <<B(1), B(2)>>, <<B(1), B(2), B(3)>>}}

MCPushResponses ==
    {[receiver_have |-> have, ok |-> 0, error |-> <<4>>, error_code |-> 9,
      error_retryable |-> 1] : have \in Cursors}

Change(v, p) == [schema_id |-> <<6>>, kind |-> 3, schema_version |-> v,
                 opcode |-> 1, flags |-> 0, payload |-> p]
MCFrame(cs) == [changes |-> cs]
Frames == {MCFrame(cs) : cs \in {E0, <<Change(1, <<2>>)>>, <<Change(0, E0)>>,
                                 <<Change(1, E0), Change(2, <<2>>)>>}}
MCEnvelope(n, id) ==
    [destination |-> 2, origin |-> 1, sequence |-> n, frame_id |-> id,
     frame |-> MCFrame(<<Change(1, <<2>>)>>)]
SampleEnvelopes == {MCEnvelope(n, id) : n \in {0, 1}, id \in {E0, <<5>>, <<5, 5>>}}

Hellos == {[node_id |-> n, db_uuid |-> 2, flags |-> 3] : n \in {0, 1}}
Acks ==
    {[destination |-> 2, receiver |-> 3, origin |-> 1, through |-> 4,
      ok |-> ok, retryable |-> r, error |-> e] :
        ok \in {0, 1}, r \in {0, 1}, e \in {E0, <<4>>}}

Scope(id, w, manifest) == [scope_id |-> id, writer |-> w, manifest |-> manifest]
One == Scope(<<7>>, 1, <<Dbi(<<1>>, 0)>>)
Descriptors == {One, Scope(<<7>>, 0, WholeDbis), Scope(E0, 1, WholeDbis),
                Scope(<<7>>, 1, WholeDbis), Scope(<<7>>, 1, E0),
                Scope(<<7>>, 1, <<WholeDbis[2], WholeDbis[1]>>)}
Scoped(id, n) == [scope_id |-> id, batch |-> B(n)]
ScopedRuns == {E0, <<Scoped(<<7>>, 1)>>, <<Scoped(<<8>>, 1)>>,
               <<Scoped(<<7>>, 1), Scoped(<<7>>, 2)>>,
               <<Scoped(<<7>>, 1), Scoped(<<7>>, 3)>>}

ScopedPullRequests ==
    {[requester |-> 1, db_id |-> 2, scope_id |-> <<7>>, have_sequence |-> 0,
      max_batches |-> n, max_bytes |-> 9, max_single_batch_bytes |-> b] :
        n \in 0..3, b \in {0, 9, 25}}
ScopedPullResponses ==
    {[ok |-> 1, error_code |-> 0, error_retryable |-> 0, error |-> E0,
      descriptor |-> One, remote_tail |-> t, remote_tail_known |-> k,
      batches |-> bs, has_more |-> h] :
        t \in {0, 2}, k \in {0, 1}, bs \in ScopedRuns, h \in {0, 1}}
    \cup {[ok |-> 0, error_code |-> c, error_retryable |-> 1, error |-> <<4>>,
           descriptor |-> <<>>, remote_tail |-> 0, remote_tail_known |-> 0,
           batches |-> <<>>, has_more |-> 0] : c \in {0, 10}}
ScopedPushRequests ==
    {[sender |-> w, db_id |-> 2, descriptor |-> d, batches |-> bs] :
        w \in {1, 2}, d \in Descriptors, bs \in ScopedRuns}
ScopedPushResponses ==
    {[ok |-> ok, error_code |-> c, error_retryable |-> 0, error |-> E0,
      scope_id |-> <<7>>, receiver_sequence |-> 2] :
        ok \in {0, 1}, c \in {0, 5}}

RecoveryRequests ==
    {[requester |-> 1, db_id |-> 2, snapshot_id |-> id, continuation |-> next,
      max_bytes |-> n, max_single_batch_bytes |-> 9] :
        id \in {E0, <<3>>}, next \in {E0, <<3>>}, n \in {0, 9}}
Baseline(id, names, size) ==
    [node_id |-> 1, db_uuid |-> 2, snapshot_id |-> id,
     schemas |-> <<[schema_id |-> <<6>>, dbi_name |-> <<1>>, kind |-> 3,
                    schema_version |-> 1, flags |-> 0, dbi_names |-> names,
                    origin |-> 1]>>,
     markers |-> <<[destination |-> 2, origin |-> 1, sequence |-> 1,
                    frame_id |-> <<5>>, frame_codec_version |-> 1,
                    frame_bytes_size |-> size, encoded_frame |-> <<8, 8>>]>>,
     watermarks |-> E0, order |-> <<[origin |-> 1, sequence |-> 1]>>,
     pending |-> E0, known_tail |-> 1]
\* A page small enough to leave room for the baseline.
SmallChunk == MCChunk(<<3>>, 0, E0, <<Dbi(<<1>>, 0)>>, Batch(1, 0, 0, <<Clear>>))
Pending1 == [Baseline(<<3>>, E0, 2) EXCEPT !.schemas = <<>>, !.markers = <<>>,
                                            !.pending = <<MCEnvelope(1, <<5>>)>>]
RecoveryResponses ==
    {[ok |-> 1, has_more |-> h, has_baseline |-> b, error_code |-> 0,
      error_retryable |-> 0, error |-> E0, chunk |-> c,
      baseline |-> IF b = 1 THEN bl ELSE <<>>] :
        h \in {0, 1}, b \in {0, 1}, c \in {FirstChunk, SmallChunk},
        bl \in {Baseline(<<3>>, <<<<1>>>>, 2), Baseline(<<4>>, E0, 2),
                Baseline(<<3>>, E0, 1), Pending1}}
    \cup {[ok |-> 0, has_more |-> h, has_baseline |-> 0, error_code |-> 7,
           error_retryable |-> 1, error |-> <<4>>, chunk |-> <<>>,
           baseline |-> <<>>] : h \in {0, 1}}

Records ==
    {[schema_id |-> <<6>>, kind |-> k, schema_version |-> v, flags |-> 0,
      dbi_name |-> <<1>>, dbi_names |-> ns, origin |-> o] :
        k \in {0, 3}, v \in {0, 1}, ns \in {{<<1>>}, {<<1>>, <<1, 2>>}, {<<2>>}},
        o \in {0, 1}}
Ids == [destination : {0, 2}, receiver : {3}]
OriginIds == [destination : {0, 2}, origin : {1}]
Sequenced(S) == {("sequence" :> n) @@ k : n \in {0, 4}, k \in S}

MCMessages ==
    [batch |-> MCBatches, chunk |-> MCChunks,
     pull_request |-> MCPullRequests, pull_response |-> MCPullResponses,
     push_request |-> MCPushRequests, push_response |-> MCPushResponses,
     frame |-> Frames, envelope |-> SampleEnvelopes, hello |-> Hellos,
     hello_request |-> {<<>>}, acknowledgement |-> Acks,
     delivery |-> {[envelope |-> e] : e \in SampleEnvelopes},
     delivery_request |-> {[receiver |-> r, flags |-> 3, envelope |-> e] :
                               r \in {0, 3}, e \in SampleEnvelopes},
     scoped_hello |-> Hellos, scoped_pull_request |-> ScopedPullRequests,
     scoped_pull_response |-> ScopedPullResponses,
     scoped_push_request |-> ScopedPushRequests,
     scoped_push_response |-> ScopedPushResponses,
     recovery_request |-> RecoveryRequests,
     recovery_response |-> RecoveryResponses]
    @@
    [record |-> Records,
     dbi_binding |-> {[kind |-> k, schema_version |-> 1, schema_id |-> <<6>>,
                       destination |-> d] : k \in {0, 3}, d \in {0, 2}},
     marker_key |-> {[origin |-> 1, sequence |-> 4, frame_id_digest |-> 5]},
     marker_value |-> {[destination |-> 2, origin |-> 1, sequence |-> 4,
                        frame_id |-> <<5>>, frame_codec_version |-> 1,
                        encoded_frame |-> f] : f \in {E0, <<8, 8>>}},
     watermark |-> [sequence : 0..2], order |-> [sequence : 0..2],
     outbox_origin_key |-> OriginIds, outbox_route_key |-> Ids,
     outbox_entry_key |-> Sequenced(Ids), outbox_origin |-> [next_sequence : 0..2],
     outbox_route |-> [acknowledged_through : 0..2, known_tail : 0..2,
                       origin : {0, 1}],
     journal_layout_key |-> {<<>>}, journal_origin_key |-> OriginIds,
     journal_entry_key |-> Sequenced(OriginIds),
     journal_origin |-> [next_sequence : 0..2],
     scope |-> Descriptors \cup {Scope(<<7, 7>>, 1, WholeDbis)},
     scope_binding |-> {[scope_id |-> <<7>>, writer |-> 1, dbi_flags |-> 0]},
     mode |-> {[mode |-> m, scope_ids |-> ids] : m \in {1, 2},
                ids \in {E0, <<<<7>>>>, <<<<7>>, <<8>>>>, <<<<8>>, <<7>>>>}}]
=============================================================================
