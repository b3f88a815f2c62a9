------------------------------ MODULE WireCodec ------------------------------
(***************************************************************************)
(* Encoding and decoding as the codecs of the sync layer do them, driven   *)
(* by the layouts and the rules of their own functions, and one message    *)
(* on its way: written by an encoder, possibly damaged in transport or on  *)
(* disk, and read by the decoder that expects it.                          *)
(***************************************************************************)
EXTENDS WireRules, FiniteSets, SequencesExt

CONSTANTS
    Messages,       \* codec -> the messages a node may want to send with it
    DamagedCells    \* what a damaged cell may become

VARIABLES
    wire,           \* the codec and message sent, and the cells on the wire
    got             \* what the decoder answered

wireVars == <<wire, got>>

-----------------------------------------------------------------------------
(* The headers, with a distinct first cell standing for each magic         *)

transport_header(type) == <<101, 5, type, 0>>
delivery_header(type) == <<102, 2, type, 0>>
selective_header(type) == <<103, 1, type, 0>>
recovery_header(type) == <<104, 2, type>>
batch_header == <<105, 1>>
chunk_header == <<106, 2>>
frame_header == <<107, 1, 0>>
envelope_header == <<108, 1, 0>>

outbox_key(kind) == <<3, kind>>
journal_key(kind) == <<1, kind>>

\* A codec: its header, what it writes, what it reads, its size limit, and
\* what the fields that are not always written hold by default.
Codec(head, out, in, limit, default) ==
    [head |-> head, out |-> out, in |-> in, limit |-> limit,
     default |-> default]

Wire(head, out, in) ==
    Codec(head, out, in, Bounds.max_transport_message_bytes, <<>>)
Part(out, in) == Codec(<<>>, out, in, U32Max, <<>>)
Stored(head, out, in) == Codec(head, out, in, U32Max, <<>>)

RawCodecs ==
    [batch |-> Codec(batch_header, encode_batch, decode_batch,
                     Bounds.max_batch_total_bytes, <<>>),
     op |-> Codec(<<>>, encode_op, decode_op, U32Max,
                  [identity_key |-> <<>>, revision_key |-> <<>>]),
     dbi |-> Part(ManifestDbi, ManifestDbi),
     chunk |-> Codec(chunk_header, encode_chunk, decode_chunk,
                     Bounds.max_snapshot_chunk_bytes, <<>>),
     pull_request |-> Wire(transport_header(1), encode_pull_request,
                           decode_pull_request),
     pull_response |-> Codec(transport_header(2), encode_pull_response,
                             decode_pull_response,
                             Bounds.max_transport_message_bytes,
                             [snapshot_chunk |-> <<>>]),
     push_request |-> Wire(transport_header(3), encode_push_request,
                           decode_push_request),
     push_response |-> Wire(transport_header(4), encode_push_response,
                            decode_push_response)]

DeliveryCodecs ==
    [frame |-> Wire(frame_header, encode_frame, decode_frame),
     change |-> Part(append_change, read_change),
     envelope |-> Wire(envelope_header, encode_envelope, decode_envelope),
     hello |-> Wire(delivery_header(1), encode_hello, decode_hello),
     delivery |-> Wire(delivery_header(2), encode_delivery, decode_delivery),
     acknowledgement |-> Wire(delivery_header(3), encode_acknowledgement,
                              decode_acknowledgement),
     hello_request |-> Wire(delivery_header(4), <<>>, <<>>),
     delivery_request |-> Wire(delivery_header(5), encode_delivery_request,
                               decode_delivery_request)]

SelectiveCodecs ==
    [scoped_hello |-> Wire(selective_header(1), encode_scoped_hello,
                           decode_scoped_hello),
     scoped_pull_request |-> Wire(selective_header(2),
                                  encode_scoped_pull_request,
                                  decode_scoped_pull_request),
     scoped_pull_response |->
         Codec(selective_header(3), encode_scoped_pull_response,
               decode_scoped_pull_response,
               Bounds.max_transport_message_bytes,
               [descriptor |-> <<>>, remote_tail |-> 0,
                remote_tail_known |-> 0, batches |-> <<>>, has_more |-> 0]),
     scoped_push_request |-> Wire(selective_header(4),
                                  encode_scoped_push_request,
                                  decode_scoped_push_request),
     scoped_push_response |-> Wire(selective_header(5),
                                   encode_scoped_push_response,
                                   decode_scoped_push_response),
     descriptor |-> Part(append_descriptor, read_descriptor),
     scoped_batch |-> Part(ScopedBatch, ScopedBatch)]

RecoveryCodecs ==
    [recovery_request |-> Wire(recovery_header(1), encode_recovery_request,
                               decode_recovery_request),
     recovery_response |->
         Codec(recovery_header(2), encode_recovery_response,
               decode_recovery_response,
               Bounds.max_transport_message_bytes,
               [chunk |-> <<>>, baseline |-> <<>>]),
     baseline |-> Part(append_baseline, read_baseline),
     schema |-> Part(append_schema, read_schemas),
     marker |-> Part(append_marker, read_markers),
     progress |-> Part(OriginProgress, OriginProgress)]

StoredCodecs ==
    [record |-> Stored(<<>>, encode_record, decode_record),
     dbi_binding |-> Stored(<<>>, encode_dbi_binding, decode_dbi_binding),
     marker_key |-> Stored(<<1>>, make_marker_key, decode_marker_key),
     marker_value |-> Stored(<<1>>, make_marker_value, decode_marker_value),
     watermark |-> Stored(<<1>>, encode_watermark, decode_watermark),
     order |-> Stored(<<1>>, encode_order, decode_order),
     outbox_origin_key |-> Stored(outbox_key(0), make_origin_metadata_key,
                                  make_origin_metadata_key),
     outbox_route_key |-> Stored(outbox_key(1), make_route_metadata_key,
                                 decode_route),
     outbox_entry_key |-> Stored(outbox_key(2), make_entry_key,
                                 decode_entry_sequence),
     outbox_origin |-> Stored(<<1>>, encode_origin_metadata,
                              decode_origin_metadata),
     outbox_route |-> Stored(<<1>>, encode_metadata, decode_metadata),
     journal_layout_key |-> Stored(journal_key(0), <<>>, <<>>),
     journal_origin_key |-> Stored(journal_key(1), make_journal_metadata_key,
                                   make_journal_metadata_key),
     journal_entry_key |-> Stored(journal_key(2), make_journal_entry_key,
                                  decode_entry),
     journal_origin |-> Stored(<<1>>, encode_journal_metadata,
                               decode_journal_metadata),
     scope |-> Stored(<<1>>, put_descriptor, decode_descriptor),
     stored_dbi |-> Part(StoredDbi, StoredDbi),
     scope_binding |-> Stored(<<1>>, put_binding, decode_binding),
     mode |-> Stored(<<1>>, encode_mode, decode_mode)]

Codecs == RawCodecs @@ DeliveryCodecs @@ SelectiveCodecs @@ RecoveryCodecs
              @@ StoredCodecs

Valid(c, m) ==
    CASE c = "op" -> validate_op(m)
      [] c = "chunk" -> validate_chunk(m)
      [] c = "pull_request" -> validate_pull_request_snapshot(m)
      [] c = "pull_response" -> validate_pull_response_snapshot(m)
      [] c = "change" -> validate_change_version(m)
      [] c = "envelope" -> validate_envelope(m)
      [] c \in {"hello", "scoped_hello"} -> validate_hello(m)
      [] c = "delivery_request" -> validate_delivery_request(m)
      [] c = "acknowledgement" -> validate_acknowledgement(m)
      [] c = "descriptor" -> validate_descriptor(m)
      [] c = "scoped_pull_request" -> validate_scoped_pull_request(m)
      [] c = "scoped_pull_response" -> validate_scoped_pull_response(m)
      [] c = "scoped_push_request" -> validate_scoped_push_request(m)
      [] c = "scoped_push_response" -> validate_response_status(m)
      [] c = "recovery_request" -> validate_recovery_request(m)
      [] c = "recovery_response" -> validate_recovery_response(m)
      [] c = "marker" -> validate_marker(m)
      [] c = "record" -> validate_record(m)
      [] c = "dbi_binding" -> validate_dbi_binding(m)
      [] c = "scope" -> validate_stored_descriptor(m)
      [] c = "outbox_route" -> validate_route_metadata(m)
      [] c \in {"outbox_origin", "journal_origin"} -> m.next_sequence # 0
      [] c \in {"watermark", "order"} -> m.sequence # 0
      [] c \in {"outbox_route_key", "outbox_entry_key"} ->
             NonZero(m, {"destination", "receiver"})
      [] c = "journal_entry_key" -> NonZero(m, {"destination", "origin"})
      [] c = "mode" -> validate_mode(m)
      [] OTHER -> TRUE

-----------------------------------------------------------------------------
(* Writing                                                                 *)

Refused == <<-1>>       \* the encoder throws

Join(parts) ==
    IF \E i \in DOMAIN parts : parts[i] = Refused THEN Refused
    ELSE FlattenSeq(parts)

Present(k, m) == k.t = "when" =>
    \A f \in DOMAIN k.cond : m[f] \in k.cond[f]

WriteBytes(v) == <<Len(v)>> \o v

\* append_cursor: the entries of a std::map, in the order of its keys.
WriteCursor(v) ==
    LET origins == SetToSortSeq(DOMAIN v, <)
    IN  <<Len(origins)>> \o
        FlattenSeq([i \in DOMAIN origins |-> <<origins[i], v[origins[i]]>>])

RECURSIVE WriteCells(_, _), Encode(_, _)

WriteEach(fields, m) ==
    Join([i \in DOMAIN fields |-> WriteCells(fields[i][2], m[fields[i][1]])])

WriteFields(c, m) ==
    IF ~Valid(c, m) THEN Refused
    ELSE WriteEach(SelectSeq(Codecs[c].out, LAMBDA f : Present(f[2], m)), m)

Nested(cells, hi) ==
    IF cells = Refused \/ Len(cells) > hi THEN Refused ELSE WriteBytes(cells)

WriteCells(k, v) ==
    CASE k.t = "num" -> <<v>>
      [] k.t = "enum" -> IF v \in k.of THEN <<v>> ELSE Refused
      [] k.t = "bytes" ->
             IF Len(v) \in k.lo..k.hi THEN WriteBytes(v) ELSE Refused
      [] k.t = "optional" -> IF Len(v) > k.hi THEN Refused
                             ELSE IF v = <<>> THEN <<U32Max>>
                             ELSE WriteBytes(v)
      [] k.t = "many" ->
             IF Len(v) > k.hi THEN Refused
             ELSE Join(<<<<Len(v)>>>> \o
                       [i \in DOMAIN v |-> WriteCells(k.of, v[i])])
      [] k.t = "map" -> IF Cardinality(DOMAIN v) > k.hi THEN Refused
                        ELSE WriteCursor(v)
      [] k.t = "names" -> Join(<<<<Cardinality(v)>>>> \o
                               LET names == SetToSortSeq(v, Before)
                               IN  [i \in DOMAIN names |->
                                        WriteBytes(names[i])])
      [] k.t = "struct" -> WriteFields(k.of, v)
      [] k.t = "message" -> Nested(Encode(k.of, v), k.hi)
      [] k.t = "when" -> WriteCells(k.then, v)

Limited(cells, limit) == IF Len(cells) > limit THEN Refused ELSE cells

Encode(c, m) ==
    LET codec == Codecs[c]
    IN  Limited(Join(<<codec.head, WriteFields(c, m)>>), codec.limit)

-----------------------------------------------------------------------------
(* Reading: the value and the position after it, or a failure              *)

Fail == [ok |-> FALSE, v |-> <<>>, pos |-> 0]
Value(v, pos) == [ok |-> TRUE, v |-> v, pos |-> pos]

ReadNum(s, pos) == IF pos > Len(s) THEN Fail ELSE Value(s[pos], pos + 1)

ReadBytes(s, pos, lo, hi) ==
    LET n == ReadNum(s, pos)
    IN  IF ~n.ok \/ n.v \notin lo..hi \/ pos + n.v > Len(s) THEN Fail
        ELSE Value(SubSeq(s, pos + 1, pos + n.v), pos + n.v + 1)

RECURSIVE Read(_, _, _), ReadMany(_, _, _, _, _), ReadFields(_, _, _, _),
          Decode(_, _)

\* n more elements of kind k after those in acc, the last of which is r.
MoreOf(r, k, n, s, acc) ==
    IF r.ok THEN ReadMany(k, n, s, r.pos, Append(acc, r.v)) ELSE Fail

ReadMany(k, n, s, pos, acc) ==
    IF n = 0 THEN Value(acc, pos) ELSE MoreOf(Read(k, s, pos), k, n - 1, s, acc)

\* A count no larger than hi, then that many elements.
ReadCounted(k, hi, s, pos) ==
    LET n == ReadNum(s, pos)
    IN  IF ~n.ok \/ n.v > hi THEN Fail
        ELSE ReadMany(k, n.v, s, pos + 1, <<>>)

Distinct(seq) == Cardinality(ToSet(seq)) = Len(seq)

\* read_cursor: a repeated origin is refused.
CursorOf(r) ==
    LET origins == [i \in DOMAIN r.v |-> r.v[i].origin]
    IN  IF ~r.ok \/ ~Distinct(origins) THEN Fail
        ELSE Value([o \in ToSet(origins) |->
                        r.v[CHOOSE i \in DOMAIN r.v : r.v[i].origin = o]
                            .sequence], r.pos)

ReadStruct(codec, s, pos) == ReadFields(codec.in, s, pos, codec.default)
NamesOf(r) == IF ~r.ok \/ ~Distinct(r.v) THEN Fail ELSE Value(ToSet(r.v), r.pos)
ValidOnly(c, r) == IF r.ok /\ Valid(c, r.v) THEN r ELSE Fail
Inner(r, inner) == IF r.ok /\ inner.ok THEN Value(inner.v, r.pos) ELSE Fail

Read(k, s, pos) ==
    CASE k.t = "num" -> ReadNum(s, pos)
      [] k.t = "enum" -> LET r == ReadNum(s, pos)
                         IN  IF r.ok /\ r.v \in k.of THEN r ELSE Fail
      [] k.t = "bytes" -> ReadBytes(s, pos, k.lo, k.hi)
      [] k.t = "optional" ->
             IF pos <= Len(s) /\ s[pos] = U32Max THEN Value(<<>>, pos + 1)
             ELSE ReadBytes(s, pos, 0, k.hi)
      [] k.t = "many" -> ReadCounted(k.of, k.hi, s, pos)
      [] k.t = "map" ->
             CursorOf(ReadCounted(Struct("progress"), k.hi, s, pos))
      [] k.t = "names" -> NamesOf(ReadCounted(AnyBytes, Len(s), s, pos))
      [] k.t = "struct" ->
             ValidOnly(k.of, ReadStruct(Codecs[k.of], s, pos))
      [] k.t = "message" -> LET r == ReadBytes(s, pos, 0, k.hi)
                            IN  Inner(r, Decode(k.of, r.v))
      [] k.t = "when" -> Read(k.then, s, pos)
      [] k.t = "last" -> IF pos > Len(s) THEN Value(k.default, pos)
                         ELSE ReadNum(s, pos)

\* The fields over what m already holds; r is the first of them.
MoreFields(r, fields, s, m) ==
    IF r.ok THEN ReadFields(Tail(fields), s, r.pos, fields[1][1] :> r.v @@ m)
    ELSE Fail

ReadFields(fields, s, pos, m) ==
    IF fields = <<>> THEN Value(m, pos)
    ELSE IF ~Present(fields[1][2], m) THEN ReadFields(Tail(fields), s, pos, m)
    ELSE MoreFields(Read(fields[1][2], s, pos), fields, s, m)

\* read_header_type and check_header.
CheckHeader(head, s) == Len(s) >= Len(head) /\ SubSeq(s, 1, Len(head)) = head

\* peek_message_type of each protocol: the type of a message whose header is
\* well formed, before anything else of it is read, and 0 for the exception.
Peek(s, magic, version, types) ==
    IF Len(s) >= 4 /\ s[1] = magic /\ s[2] = version /\ s[3] \in types
         /\ s[4] = 0
    THEN s[3] ELSE 0
peek_transport(s) == Peek(s, 101, 5, 1..4)
peek_delivery(s) == Peek(s, 102, 2, 1..5)
peek_selective(s) == Peek(s, 103, 1, 1..5)
peek_recovery(s) ==
    IF Len(s) >= 3 /\ s[1] = 104 /\ s[2] = 2 /\ s[3] \in 1..2 THEN s[3] ELSE 0

check_consumed(r, s) == IF r.ok /\ r.pos = Len(s) + 1 THEN r ELSE Fail

Unwrap(codec, s) ==
    IF Len(s) > codec.limit \/ ~CheckHeader(codec.head, s) THEN Fail
    ELSE check_consumed(ReadStruct(codec, s, Len(codec.head) + 1), s)

Decode(c, s) == ValidOnly(c, Unwrap(Codecs[c], s))

-----------------------------------------------------------------------------
(* One message on its way                                                  *)

NoMessage == [codec |-> "none"]
Unread == [ok |-> FALSE, v |-> <<>>, pos |-> -1]

WireInit == wire = NoMessage /\ got = Unread

\* A message the encoder refuses is not sent: the caller gets the exception.
SendMessage(c, m) ==
    /\ wire = NoMessage
    /\ LET cells == Encode(c, m)
       IN  /\ cells # Refused
           /\ wire' = [codec |-> c, m |-> m, cells |-> cells,
                       damage |-> "none"]
    /\ UNCHANGED got

Intact == wire # NoMessage /\ wire.damage = "none" /\ got = Unread

Truncate(n) ==
    /\ Intact /\ n < Len(wire.cells)
    /\ wire' = [wire EXCEPT !.cells = SubSeq(@, 1, n), !.damage = "length"]
    /\ UNCHANGED got

Extend(v) ==
    /\ Intact
    /\ wire' = [wire EXCEPT !.cells = Append(@, v), !.damage = "length"]
    /\ UNCHANGED got

Corrupt(i, v) ==
    /\ Intact /\ wire.cells[i] # v
    /\ wire' = [wire EXCEPT !.cells[i] = v, !.damage = "cell"]
    /\ UNCHANGED got

ReadMessage ==
    /\ wire # NoMessage /\ got = Unread
    /\ got' = Decode(wire.codec, wire.cells)
    /\ UNCHANGED wire

Done ==
    /\ got # Unread
    /\ wire' = NoMessage /\ got' = Unread

WireNext ==
    \/ \E c \in DOMAIN Messages : \E m \in Messages[c] : SendMessage(c, m)
    \/ wire # NoMessage /\ \E n \in 0..Len(wire.cells) : Truncate(n)
    \/ \E v \in DamagedCells : Extend(v)
    \/ wire # NoMessage /\ \E i \in DOMAIN wire.cells, v \in DamagedCells :
                          Corrupt(i, v)
    \/ ReadMessage
    \/ Done

WireSpec == WireInit /\ [][WireNext]_wireVars

-----------------------------------------------------------------------------
(* Properties                                                              *)

\* A message is on the wire or none is, within the size limit of its codec
\* unless damage made it longer, and a decoder consumes no more than it was
\* given.
WireTypeOK ==
    /\ got.ok \in BOOLEAN
    /\ wire # NoMessage =>
           /\ wire.codec \in DOMAIN Messages
           /\ \A i \in DOMAIN wire.cells : wire.cells[i] \in Nat
           /\ wire.damage \in {"none", "length", "cell"}
           /\ wire.damage = "none" => Len(wire.cells) <= Codecs[wire.codec].limit
           /\ got.ok => got.pos <= Len(wire.cells) + 1
    /\ wire = NoMessage => got = Unread

\* What an encoder accepts under some bounds, the decoder accepts under the
\* same bounds and returns unchanged: no message is sent that its receiver
\* must refuse, and no field is lost or moved.
RoundTrip ==
    wire # NoMessage /\ wire.damage = "none" /\ got # Unread =>
        got.ok /\ got.v = wire.m

\* The messages that meet on one connection, and the keys that meet in one
\* DBI.
Families ==
    {{c \in DOMAIN Codecs : Len(Codecs[c].head) >= 2 /\ Codecs[c].head[1] > 100},
     {"outbox_origin_key", "outbox_route_key", "outbox_entry_key"},
     {"journal_layout_key", "journal_origin_key", "journal_entry_key"}}

\* At most one decoder of a family accepts a sequence of cells, damaged or
\* not, and the dispatchers that peek at the type of a message before they
\* decode it choose that decoder: a request is never taken for a response,
\* nor an outbox entry for the metadata of its route.
DecodersExclusive ==
    wire # NoMessage /\ got.ok =>
        /\ \A f \in Families : wire.codec \in f =>
               \A c \in f \ {wire.codec} : ~Decode(c, wire.cells).ok
        /\ LET head == Codecs[wire.codec].head
               type == IF Len(head) < 3 THEN 0
                       ELSE CASE head[1] = 101 -> peek_transport(wire.cells)
                              [] head[1] = 102 -> peek_delivery(wire.cells)
                              [] head[1] = 103 -> peek_selective(wire.cells)
                              [] head[1] = 104 -> peek_recovery(wire.cells)
                              [] OTHER -> head[3]
           IN  Len(head) >= 3 => type = head[3]

\* A message cut short or extended is refused.  The one exception is a schema
\* record that ends before its ordered origin, which is read as a record
\* written before that field existed, with no ordered origin.
LengthExact ==
    wire # NoMessage /\ wire.damage = "length" /\ got.ok =>
        /\ wire.codec = "record"
        /\ Len(wire.cells) = Len(Encode("record", wire.m)) - 1
        /\ got.v = [wire.m EXCEPT !.origin = 0]

\* Whatever a decoder accepts, damaged or not, satisfies the rules its own
\* encoder enforces: it can be written again under the same bounds, as a node
\* does when it stores or forwards what it received, and reads back the same.
Reencodable ==
    got.ok =>
        LET again == Decode(wire.codec, Encode(wire.codec, got.v))
        IN  again.ok /\ again.v = got.v
=============================================================================
