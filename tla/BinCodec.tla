------------------------------ MODULE BinCodec ------------------------------
(***************************************************************************)
(* aicl/bin: header.py, validation.py, codec_packet.py, codec_view.py and  *)
(* codec_api.py.  A sender encodes a Packet, the bytes may be damaged on   *)
(* their way, and a receiver decodes them into a PacketView and reads its  *)
(* properties.                                                             *)
(*                                                                         *)
(* The header is the record of its fields, flags the set of the bits that  *)
(* are set, and CRC32 has no collisions.  A record of types.py is the      *)
(* sequence of its fields.  The codec of the operands is a parameter,      *)
(* which BinOperands' definitions are given for.                           *)
(***************************************************************************)
EXTENDS BinValues

CONSTANTS EncodeSymbol(_),           \* encode_symbol, and whether it raises
          CanEncode(_),
          DecodeItems(_, _, _, _),   \* decode_items and decode_symbols
          DecodeSymbols(_, _, _),
          Packets,                   \* packets the sender may encode
          MAX_TLV_VALUE_SIZE,        \* 0xFFFFFF
          Numbers                    \* numbers shown to encode_varint

VARIABLES pkt, checksum,   \* what encode was called with
          wire,            \* the bytes: [hdr, body], or the error encode raised
          damage,          \* history: what happened to them
          view             \* what decode returned or raised

vars == <<pkt, checksum, wire, damage, view>>

----------------------------------------------------------------------------
(* extension_tags.py: the fields of a Packet that travel as vendor         *)
(* operands, in the order _append_extensions adds them.                    *)
Extensions ==
  <<"session_id", "origin", "targets", "intent", "response_symbols", "confidence", "priority",
    "capabilities", "qos", "security", "trace", "chunk_info", "blob_refs", "backpressure",
    "error_info", "ack_info", "target_caps", "schema_id", "stream_id", "partial_result",
    "model_invocation", "tool_invocation", "metadata">>
ExtTag(f) == 127 + CHOOSE i \in DOMAIN Extensions : Extensions[i] = f

Opaque   == {"session_id", "security", "stream_id", "partial_result"}
Texts    == {"intent", "schema_id"}
NameList == {"targets", "capabilities", "target_caps"}
Repeated == {"trace", "blob_refs"}
Defaults == [confidence |-> 1, priority |-> 128]

(* The struct formats: N(w, c) is field c in w bytes, I(w, c) signed,      *)
(* L(w, c) the length of field c, T(c) its text, LE(w, c) field c in       *)
(* native order, which is little-endian here, Zero(w) padding and          *)
(* constants, Rest(c) all that is left.                                    *)
N(w, c)  == <<"N", w, c>>
I(w, c)  == <<"I", w, c>>
L(w, c)  == <<"L", w, c>>
T(c)     == <<"T", 0, c>>
LE(w, c) == <<"LE", w, c>>
Zero(w)  == <<"Zero", w, 0>>
Rest(c)  == <<"Rest", 0, c>>

(* What _append_extensions and Identity.to_bytes write. *)
Written ==
  [origin           |-> <<N(1, 1), L(1, 2), T(2), N(4, 3)>>,
   qos              |-> <<N(1, 1), N(1, 2), N(1, 3), N(1, 4), N(4, 5), N(4, 6)>>,
   trace            |-> <<N(1, 1), L(1, 2), L(1, 3), T(2), T(3), I(8, 4), I(4, 5)>>,
   chunk_info       |-> <<N(1, 1), N(1, 2), N(4, 3), N(4, 4), N(4, 5)>>,
   blob_refs        |-> <<N(1, 1), L(1, 4), Zero(2), LE(4, 2), N(4, 3), T(4)>>,
   backpressure     |-> <<N(4, 1), N(4, 2), N(2, 3), N(2, 4)>>,
   error_info       |-> <<N(2, 1), N(2, 2), L(1, 3), T(3), L(2, 4), T(4)>>,
   ack_info         |-> <<Zero(1), T(2)>>,
   model_invocation |-> <<L(1, 1), L(1, 2), L(1, 3), T(1), T(2), T(3), N(4, 4)>>,
   tool_invocation  |-> <<L(1, 1), L(1, 2), T(1), T(2), N(4, 3)>>]

(* What the properties of PacketView and Identity.from_bytes read, and the *)
(* place each value gets in the record they build.                         *)
Read ==
  [origin           |-> <<N(1, 1), L(1, 2), T(2), N(4, 3)>>,
   qos              |-> <<N(1, 1), N(1, 2), N(1, 3), N(1, 4), N(4, 5), N(4, 6)>>,
   trace            |-> <<N(1, 1), L(1, 2), L(1, 3), T(2), T(3), I(8, 4), I(4, 5)>>,
   chunk_info       |-> <<N(1, 1), N(1, 2), N(4, 3), N(4, 4), N(4, 5)>>,
   blob_refs        |-> <<N(1, 1), L(1, 2), N(4, 3), N(4, 4), T(2)>>,
   backpressure     |-> <<N(4, 1), N(4, 2), N(2, 3), N(2, 4)>>,
   error_info       |-> <<N(2, 1), N(2, 2), L(1, 3), T(3), L(2, 4), T(4)>>,
   ack_info         |-> <<Zero(1), Rest(1)>>,
   model_invocation |-> <<L(1, 1), L(1, 2), L(1, 3), T(1), T(2), T(3), N(4, 4)>>,
   tool_invocation  |-> <<L(1, 1), L(1, 2), T(1), T(2), N(4, 3)>>]

(* Below this length a property answers None. *)
MinLen == [qos |-> 12, chunk_info |-> 14, backpressure |-> 12, error_info |-> 7, ack_info |-> 1,
           model_invocation |-> 3, tool_invocation |-> 2, origin |-> 1]

Text(x) == IF x = None THEN << >> ELSE x
Pack(layout, rec) ==
  FlattenSeq(Map(LAMBDA it : CASE it[1] \in {"N", "I"} -> BE(it[2], rec[it[3]])
                               [] it[1] = "L"    -> BE(it[2], Len(Text(rec[it[3]])))
                               [] it[1] = "T"    -> Text(rec[it[3]])
                               [] it[1] = "LE"   -> Reverse(BE(it[2], rec[it[3]]))
                               [] it[1] = "Zero" -> BE(it[2], 0), layout))
Packable(layout, rec) ==
  \A i \in DOMAIN layout : LET it == layout[i] IN
    /\ it[1] \in {"N", "I", "LE"} => InWidth(it[1] = "I", it[2], rec[it[3]])
    /\ it[1] = "L" => InWidth(FALSE, it[2], Len(Text(rec[it[3]])))

(* A slice stops at the end of the data; a number that is not there is 0,  *)
(* which only a foreign sender's timeout or length can be.                 *)
Slice(d, pos, n) == SubSeq(d, pos, Least({pos + n - 1, Len(d)}))
Unpack(layout, d) ==
  FoldLeft(LAMBDA st, it :
             LET len == CASE it[1] = "T" -> st.len[it[3]] [] it[1] = "Rest" -> Len(d)
                          [] OTHER -> it[2]
                 raw == Slice(d, st.pos, len)
             IN  [pos |-> st.pos + len,
                  len |-> IF it[1] = "L" THEN it[3] :> FromBE(FALSE, raw) @@ st.len ELSE st.len,
                  rec |-> CASE it[1] \in {"N", "I"} -> it[3] :> FromBE(it[1] = "I", raw) @@ st.rec
                            [] it[1] \in {"T", "Rest"} -> it[3] :> raw @@ st.rec
                            [] OTHER -> st.rec],
           [pos |-> 1, len |-> << >>, rec |-> << >>], layout).rec

----------------------------------------------------------------------------
(* codec_packet.py *)
FLAG == [REQUEST |-> 1, RESPONSE |-> 2, STREAM_CHUNK |-> 4, STREAM_END |-> 8, ERROR |-> 16, CANCEL |-> 32,
         HEARTBEAT |-> 64, COMPRESSED |-> 128, ENCRYPTED |-> 256, HAS_TRAILER |-> 256]

(* A Packet with nothing given. *)
Packet ==
  [f \in {"targets", "intent", "symbols", "response_symbols", "capabilities", "trace", "blob_refs",
          "target_caps", "schema_id", "metadata"} |-> << >>]
  @@ [f \in {"session_id", "message_id", "correlation_id", "origin", "qos", "security", "chunk_info",
             "backpressure", "error_info", "ack_info", "stream_id", "partial_result",
             "model_invocation", "tool_invocation"} |-> None]
  @@ [version |-> 256, flags |-> {FLAG.REQUEST}, operation |-> 0, deadline_ms |-> 0] @@ Defaults

(* The bytes of a list of names and back, and those of a field. *)
Comma == 44
Join(names) == FlattenSeq([i \in DOMAIN names |-> IF i = 1 THEN names[i] ELSE <<Comma>> \o names[i]])
Split(v) == LET cut == SetToSortSeq({i \in DOMAIN v : v[i] = Comma} \cup {0, Len(v) + 1}, <)
            IN  SelectSeq([j \in 1 .. Len(cut) - 1 |-> SubSeq(v, cut[j] + 1, cut[j + 1] - 1)],
                          LAMBDA name : name # << >>)

FieldBytes(f, v) ==
  CASE f \in Opaque \cup Texts  -> v
    [] f \in NameList           -> Join(v)
    [] f = "response_symbols"   -> FlattenSeq(Map(EncodeSymbol, v))
    [] f = "confidence"         -> BE(8, v)
    [] f = "priority"           -> BE(1, v)
    [] f = "metadata"           -> FlattenSeq(Map(LAMBDA e : BE(1, Len(e.k)) \o e.k \o BE(2, Len(e.v)) \o e.v, v))
    [] OTHER                    -> Pack(Written[f], v)

Present(f, v) == IF f \in DOMAIN Defaults THEN v # Defaults[f] ELSE v \notin {None, << >>}

(* The operands of a packet: its own, then the extensions. *)
_append_extensions(p) ==
  LET Ext(f) == Map(LAMBDA raw : [tag |-> ExtTag(f), value |-> raw],
                    IF f \in Repeated THEN Map(LAMBDA e : FieldBytes(f, e), p[f])
                    ELSE IF Present(f, p[f]) THEN <<FieldBytes(f, p[f])>> ELSE << >>)
  IN  p.symbols \o FlattenSeq(Map(Ext, Extensions))

build_payload(p) ==
  LET operands == _append_extensions(p)
  IN  <<p.operation % 256>> \o encode_varint(Len(operands)) \o FlattenSeq(Map(EncodeSymbol, operands))

(* What struct and encode_symbol accept. *)
Buildable(p) ==
  /\ \A i \in DOMAIN p.symbols : CanEncode(p.symbols[i])
  /\ \A i \in DOMAIN p.response_symbols : CanEncode(p.response_symbols[i])
  /\ InWidth(FALSE, 1, p.priority)
  /\ \A i \in DOMAIN p.metadata : InWidth(FALSE, 1, Len(p.metadata[i].k)) /\ InWidth(FALSE, 2, Len(p.metadata[i].v))
  /\ \A f \in DOMAIN Written : IF f \in Repeated THEN \A i \in DOMAIN p[f] : Packable(Written[f], p[f][i])
                               ELSE p[f] # None => Packable(Written[f], p[f])

(* Packet's __post_init__: ids that were not given. *)
Uuid == [i \in 1 .. 16 |-> 99]
NoId == [i \in 1 .. 16 |-> 0]
__post_init__(p) ==
  LET Given(id, other) == IF id = None THEN other ELSE id
      q == [p EXCEPT !.session_id = Given(@, Uuid), !.message_id = Given(@, Uuid),
                     !.correlation_id = Given(@, NoId)]
  IN  IF {Len(q.session_id), Len(q.message_id), Len(q.correlation_id)} = {16}
      THEN q ELSE Raise("EncodeError")

(* None is no value of a field; a deadline is a number and a payload bytes. *)
ASSUME NoneAssumption == None # "AICL" /\ None # 256 /\ None # Uuid /\ None # NoId /\ None \notin Packets
ASSUME PacketAssumption ==
  \A p \in Packets :
    /\ {"message_id", "correlation_id", "deadline_ms"} \subseteq DOMAIN p /\ p.deadline_ms \in Int
    /\ LET q == __post_init__(p)
       IN  ~Raised(q) /\ Buildable(q) => build_payload(q) \in Seq(0 .. 255)
ASSUME NumberAssumption == Numbers \subseteq Nat

----------------------------------------------------------------------------
(* header.py, validation.py, codec_api.py *)
SUPPORTED_VERSIONS == {256}
compute_crc32(x) == [crc |-> x]
CHECKSUM_SIZE == 4

HeaderFields == {"magic", "version", "flags", "message_id", "correlation_id", "deadline_ms", "payload_length"}

pack_header(version, flags, message_id, correlation_id, deadline_ms, payload_length) ==
  LET prefix == [magic |-> "AICL", version |-> version, flags |-> flags, message_id |-> message_id,
                 correlation_id |-> correlation_id, deadline_ms |-> deadline_ms,
                 payload_length |-> payload_length]
  IN  IF \/ version \notin SUPPORTED_VERSIONS \/ Len(message_id) # 16 \/ Len(correlation_id) # 16
         \/ payload_length >= UINT32_LIMIT \/ deadline_ms >= UINT32_LIMIT
      THEN Raise("HeaderError")
      ELSE IF deadline_ms < 0 THEN Raise("struct.error")
      ELSE [f \in HeaderFields \cup {"crc"} |-> IF f = "crc" THEN compute_crc32(prefix) ELSE prefix[f]]

(* Mutant: the header's CRC is not compared. *)
validate_header_no_crc(h) ==
  h.magic = "AICL" /\ h.version \in SUPPORTED_VERSIONS /\ h.payload_length <= MAX_TLV_VALUE_SIZE

validate_header(h) ==
  /\ h.magic = "AICL"
  /\ h.version \in SUPPORTED_VERSIONS
  /\ h.crc = compute_crc32([f \in HeaderFields |-> h[f]])
  /\ h.payload_length <= MAX_TLV_VALUE_SIZE

(* The four bytes of a CRC32. *)
CrcBytes(x) == [i \in 1 .. CHECKSUM_SIZE |-> <<i, compute_crc32(x)>>]
validate_trailer(h, payload, crc) == crc = CrcBytes(<<h, payload>>)

encode(packet, with_checksum) ==
  LET p       == __post_init__(packet)
      payload == build_payload(p)
      hdr     == pack_header(p.version, IF with_checksum THEN p.flags \cup {FLAG.HAS_TRAILER} ELSE p.flags,
                             p.message_id, p.correlation_id, p.deadline_ms, Len(payload))
  IN  IF Raised(p) THEN p
      ELSE IF ~Buildable(p) THEN Raise("struct.error")
      ELSE IF Raised(hdr) THEN hdr
      ELSE [hdr |-> hdr, body |-> payload \o IF with_checksum THEN CrcBytes(<<hdr, payload>>) ELSE << >>]

(* Mutant: a vendor operand is a core one too. *)
Core_all(syms) == syms

(* The two lists PacketView's __init__ makes of the operands. *)
Core(syms)   == SelectSeq(syms, LAMBDA s : ~is_vendor(s.tag))
Vendor(syms) == SelectSeq(syms, LAMBDA s : is_vendor(s.tag))

PacketView(h, payload) ==
  LET count == decode_varint(payload, 2)
      syms  == DecodeItems(FALSE, payload, count.v, [v |-> << >>, pos |-> count.pos])
  IN  IF Len(payload) <= 1
      THEN [hdr |-> h, operation |-> IF payload = << >> THEN 0 ELSE payload[1], symbols |-> << >>, ext |-> << >>]
      ELSE IF Raised(count) THEN count
      ELSE IF Raised(syms) THEN syms
      ELSE [hdr |-> h, operation |-> payload[1], symbols |-> Core(syms.v), ext |-> Vendor(syms.v)]

(* The trailer is there when there are bytes after the payload, and then   *)
(* belongs to what the view reads its operands from.                       *)
decode(w) ==
  LET plen  == w.hdr.payload_length
      extra == Len(w.body) - plen
  IN  IF w.hdr = None THEN Raise("TruncatedPacketError")
      ELSE IF ~validate_header(w.hdr) THEN Raise("HeaderError")
      ELSE IF extra < 0 THEN Raise("TruncatedPacketError")
      ELSE IF extra = 0 THEN PacketView(w.hdr, w.body)
      ELSE IF extra < CHECKSUM_SIZE THEN Raise("struct.error")
      ELSE IF ~validate_trailer(w.hdr, SubSeq(w.body, 1, plen), SubSeq(w.body, plen + 1, plen + CHECKSUM_SIZE))
      THEN Raise("ChecksumError")
      ELSE PacketView(w.hdr, SubSeq(w.body, 1, plen + CHECKSUM_SIZE))

----------------------------------------------------------------------------
(* codec_view.py: the values of an extension, and the properties. *)
_ext_all(v, f) == Map(LAMBDA s : s.value, SelectSeq(v.ext, LAMBDA s : s.tag = ExtTag(f)))

(* The metadata loop: entries until one does not fit in what is left; None *)
(* when struct.unpack_from raises.                                         *)
Entries(v) ==
  LET from[pos \in 1 .. Len(v) + 1] ==
        LET k    == Take(v, pos + 1, v[pos])
            vlen == Take(v, k.pos, 2)
            val  == Take(v, vlen.pos, FromBE(FALSE, vlen.v))
            rest == from[val.pos]
        IN  IF pos > Len(v) THEN << >>
            ELSE IF Raised(k) THEN << >>
            ELSE IF Raised(vlen) THEN None
            ELSE IF Raised(val) THEN << >>
            ELSE IF rest = None THEN None ELSE <<[k |-> k.v, v |-> val.v]>> \o rest
  IN  from[1]

Property(v, f) ==
  LET all    == _ext_all(v, f)
      absent == all = << >> \/ all[1] = << >>
      one    == all[1]
      Raw(r) == IF Raised(r) THEN r ELSE r.v
  IN  CASE f \in Repeated         -> Map(LAMBDA d : Unpack(Read[f], d), all)
        [] f \in Opaque           -> IF all = << >> THEN None ELSE one
        [] f \in DOMAIN Defaults  -> IF absent THEN Defaults[f] ELSE FromBE(FALSE, Slice(one, 1, IF f = "confidence" THEN 8 ELSE 1))
        [] f \in Texts            -> IF absent THEN << >> ELSE one
        [] f \in NameList         -> IF absent THEN << >> ELSE Split(one)
        [] f = "response_symbols" -> IF absent THEN << >> ELSE Raw(DecodeSymbols(one, 1, << >>))
        [] f = "metadata"         -> IF absent THEN << >> ELSE Entries(one)
        [] OTHER -> IF \/ absent \/ Len(one) < MinLen[f]
                       \/ f = "error_info" /\ 5 + one[5] > Len(one)
                    THEN None
                    ELSE LET rec == Unpack(Read[f], one)
                         IN  IF f = "error_info" /\ rec[4] = << >> THEN [rec EXCEPT ![4] = None] ELSE rec

----------------------------------------------------------------------------
Init == pkt = None /\ checksum = FALSE /\ wire = None /\ damage = "none" /\ view = None

Encode(p, c) ==
  /\ pkt = None
  /\ pkt' = p /\ checksum' = c /\ wire' = encode(p, c)
  /\ UNCHANGED <<damage, view>>

OnTheWire == wire # None /\ ~Raised(wire) /\ damage = "none" /\ view = None

(* The bytes end early, inside the header or n bytes after it. *)
CutHeader == /\ OnTheWire
             /\ wire' = [hdr |-> None, body |-> << >>] /\ damage' = "cut"
             /\ UNCHANGED <<pkt, checksum, view>>
Cut(n) == /\ OnTheWire /\ n < Len(wire.body)
          /\ wire' = [wire EXCEPT !.body = SubSeq(@, 1, n)] /\ damage' = "cut"
          /\ UNCHANGED <<pkt, checksum, view>>

(* One byte of the header or of the rest is another one: another checksum  *)
(* is that of something else.                                              *)
AlterHeader(f) ==
  /\ OnTheWire
  /\ wire' = [wire EXCEPT !.hdr[f] = CASE f = "flags"   -> (@ \cup {FLAG.ERROR}) \ (@ \cap {FLAG.ERROR})
                                       [] f \in {"payload_length", "deadline_ms"} -> @ + 1
                                       [] f = "crc" -> [crc |-> @]
                                       [] OTHER -> None]
  /\ damage' = "altered"
  /\ UNCHANGED <<pkt, checksum, view>>
Alter(n) ==
  /\ OnTheWire /\ n \in DOMAIN wire.body
  /\ wire' = [wire EXCEPT !.body[n] = IF n > wire.hdr.payload_length THEN <<0, n>> ELSE (@ + 128) % 256]
  /\ damage' = "altered"
  /\ UNCHANGED <<pkt, checksum, view>>

(* Bytes that follow, such as those of another packet, reach decode too. *)
Follow(n) == /\ OnTheWire
             /\ wire' = [wire EXCEPT !.body = @ \o [i \in 1 .. n |-> <<0, i>>]] /\ damage' = "followed"
             /\ UNCHANGED <<pkt, checksum, view>>

Decode == /\ wire # None /\ ~Raised(wire) /\ view = None
          /\ view' = decode(wire)
          /\ UNCHANGED <<pkt, checksum, wire, damage>>

(* The next packet. *)
Done == /\ view # None \/ (wire # None /\ Raised(wire))
        /\ pkt' = None /\ checksum' = FALSE /\ wire' = None /\ damage' = "none" /\ view' = None

Damage == \/ CutHeader
          \/ OnTheWire /\ \E n \in 0 .. Len(wire.body) : Cut(n) \/ Alter(n)
          \/ \E f \in HeaderFields \cup {"crc"} : AlterHeader(f)
          \/ \E n \in 1 .. CHECKSUM_SIZE + 1 : Follow(n)

Direct == Done \/ \E p \in Packets, c \in BOOLEAN : Encode(p, c)

Next == Direct \/ Decode \/ Damage

Spec == Init /\ [][Next]_vars

----------------------------------------------------------------------------
(* encode_varint and decode_varint agree on every number below 2^28, and   *)
(* the bytes of a larger one are refused, never read as another number     *)
(* (the application counts with them whenever no packet is under way).     *)
VarintExact ==
  pkt = None =>
    \A n \in Numbers : LET r == decode_varint(encode_varint(n) \o <<0>>, 1)
                       IN  IF n < 128 * Weight[_MAX_BYTES] THEN ~Raised(r) /\ r.v = n ELSE Raised(r)

Sent     == __post_init__(pkt)
Accepted == view # None /\ ~Raised(view)

(* A field is shadowed when the caller's own operands use its vendor tag:  *)
(* _ext_one then finds theirs first.                                       *)
Shadowed(f) == \E i \in DOMAIN pkt.symbols : pkt.symbols[i].tag = ExtTag(f)

(* Names without a comma and not empty; error details that are not "". *)
Plain(f, v) ==
  /\ f \in NameList => \A i \in DOMAIN v : v[i] # << >> /\ \A j \in DOMAIN v[i] : v[i][j] # Comma
  /\ f = "error_info" /\ v # None => v[4] # << >>

(* "A Python decoder recognizes these specific tags and reconstructs the   *)
(* rich fields": what encode made and nothing damaged, decode accepts if   *)
(* its payload keeps the bound, and then every field but two reads as it   *)
(* was written.  The two are blob_refs, whose struct is written in native  *)
(* order and read in network order, and ack_info, whose message is read as *)
(* its type.  The operands arrive in order and apart from the extensions,  *)
(* nested ones included; those with a vendor tag do not arrive as operands.*)
RoundTrip ==
  view # None /\ damage = "none" =>
    IF Len(build_payload(Sent)) > MAX_TLV_VALUE_SIZE THEN view = Raise("HeaderError")
    ELSE /\ Accepted
         /\ \A f \in {"version", "message_id", "correlation_id", "deadline_ms"} : view.hdr[f] = Sent[f]
         /\ view.hdr.flags = Sent.flags \cup (IF checksum THEN {FLAG.HAS_TRAILER} ELSE {})
         /\ view.operation = pkt.operation % 256
         /\ view.symbols = SelectSeq(pkt.symbols, LAMBDA s : s.tag \notin 128 .. 255)
         /\ \A f \in Range(Extensions) \ {"blob_refs", "ack_info"} :
              Shadowed(f) \/ ~Plain(f, Sent[f]) \/ Property(view, f) = Sent[f]

(* No damage goes unnoticed, header or body, as long as a checksum was     *)
(* asked for; without one, damage to the header, a packet cut short and    *)
(* bytes after it do not.  The exceptions: decode looks at the length and  *)
(* not at FLAG_HAS_TRAILER, so a packet that lost all of its trailer and   *)
(* nothing else passes, and it looks at nothing after the trailer.         *)
DamageNoticed ==
  view # None /\ damage # "none" =>
    \/ Raised(view)
    \/ damage = "cut" /\ checksum /\ Len(wire.body) = wire.hdr.payload_length
    \/ damage = "altered" /\ ~checksum /\ wire.hdr.crc = compute_crc32([f \in HeaderFields |-> wire.hdr[f]])
    \/ damage = "followed" /\ checksum
=============================================================================
