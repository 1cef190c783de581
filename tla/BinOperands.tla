---------------------------- MODULE BinOperands ----------------------------
(***************************************************************************)
(* aicl/bin/operands.py: operands to bytes and back, nested ones included; *)
(* and adapter.py's _to_binary_symbol, which makes an operand of a Python  *)
(* value.  An operand is a record [tag, value]; the value of a MAP is the  *)
(* sequence of its [k, item] in the order of the dict.                     *)
(***************************************************************************)
EXTENDS BinValues

RECURSIVE encode_symbol(_)
encode_symbol(s) ==
  <<s.tag>> \o
  CASE s.tag \in DOMAIN Width -> BE(Width[s.tag], s.value)
    [] s.tag = Tag.BOOL    -> <<IF s.value THEN 1 ELSE 0>>
    [] s.tag \in {Tag.STRING, Tag.BYTES} \/ is_vendor(s.tag) -> encode_varint(Len(s.value)) \o s.value
    [] s.tag = Tag.UUID    -> s.value
    [] s.tag = Tag.BUF_REF -> BE(8, s.value[1]) \o BE(4, s.value[2]) \o BE(4, s.value[3])
    [] s.tag = Tag.LIST    -> encode_varint(Len(s.value)) \o FlattenSeq(Map(encode_symbol, s.value))
    [] s.tag = Tag.MAP     ->
         encode_varint(Len(s.value))
           \o FlattenSeq(Map(LAMBDA e : encode_varint(Len(e.k)) \o e.k \o encode_symbol(e.item),
                             s.value))
    [] s.tag = Tag.NULL    -> << >>

(* encode_symbol raises on a number its format cannot hold, a UUID that is *)
(* not 16 bytes and a tag nobody assigned.                                 *)
RECURSIVE Encodable(_)
Encodable(s) ==
  CASE s.tag \in DOMAIN Width -> s.tag \in Floats \/ InWidth(s.tag \in Signed, Width[s.tag], s.value)
    [] s.tag = Tag.BUF_REF -> /\ InWidth(FALSE, 8, s.value[1])
                              /\ InWidth(FALSE, 4, s.value[2]) /\ InWidth(FALSE, 4, s.value[3])
    [] s.tag = Tag.UUID -> Len(s.value) = 16
    [] s.tag = Tag.LIST -> \A i \in DOMAIN s.value : Encodable(s.value[i])
    [] s.tag = Tag.MAP  -> \A i \in DOMAIN s.value : Encodable(s.value[i].item)
    [] OTHER -> s.tag \in {Tag.BOOL, Tag.STRING, Tag.BYTES, Tag.NULL} \/ is_vendor(s.tag)

(* The value a tag makes of the bytes, items or entries that follow it. *)
Value(tag, v) ==
  CASE tag \in DOMAIN Width -> FromBE(tag \in Signed, v)
    [] tag = Tag.BOOL    -> v[1] = 1
    [] tag = Tag.BUF_REF -> <<FromBE(FALSE, SubSeq(v, 1, 8)), FromBE(FALSE, SubSeq(v, 9, 12)),
                              FromBE(FALSE, SubSeq(v, 13, 16))>>
    [] tag = Tag.NULL    -> None
    [] OTHER             -> v
Operand(tag, r) ==
  IF Raised(r) THEN r
  ELSE IF tag = Tag.BOOL /\ r.v[1] > 1 THEN Raise("BOOL: invalid value")
  ELSE IF tag = Tag.STRING /\ \E i \in DOMAIN r.v : r.v[i] > 127 THEN Raise("UnicodeDecodeError")
  ELSE [v |-> [tag |-> tag, value |-> Value(tag, r.v)], pos |-> r.pos]

(* A LIST is decoded as operands, a MAP (keyed) as keys and operands:      *)
(* count more of them, after those in done.                                *)
RECURSIVE decode_symbol(_, _), decode_items(_, _, _, _)
decode_items(keyed, data, count, done) ==
  LET key  == IF keyed THEN TakeCounted(data, done.pos) ELSE [v |-> None, pos |-> done.pos]
      Add(k, r) == IF Raised(r) THEN r
                   ELSE decode_items(keyed, data, count - 1,
                          [v |-> IF keyed THEN Put(done.v, k, r.v) ELSE Append(done.v, r.v), pos |-> r.pos])
      Item(k) == IF Raised(k) THEN k ELSE Add(k.v, decode_symbol(data, k.pos))
  IN  IF count = 0 THEN done ELSE Item(key)

Counted(tag, data, n) ==
  IF Raised(n) THEN n ELSE decode_items(tag = Tag.MAP, data, n.v, [v |-> << >>, pos |-> n.pos])

decode_symbol(data, pos) ==
  LET tag == data[pos]
  IN  IF pos > Len(data) THEN Raise("operand: no tag byte")
      ELSE Operand(tag,
        CASE tag \in DOMAIN Width -> Take(data, pos + 1, Width[tag])
          [] tag = Tag.BOOL -> Take(data, pos + 1, 1)
          [] tag \in {Tag.STRING, Tag.BYTES} \/ is_vendor(tag) -> TakeCounted(data, pos + 1)
          [] tag \in {Tag.UUID, Tag.BUF_REF} -> Take(data, pos + 1, 16)
          [] tag \in {Tag.LIST, Tag.MAP} -> Counted(tag, data, decode_varint(data, pos + 1))
          [] tag = Tag.NULL -> Take(data, pos + 1, 0)
          [] OTHER -> Raise("Unknown operand tag"))

(* decode_symbols, iter_symbols and _decode_symbol_seq: operands to the    *)
(* end of the data.                                                        *)
RECURSIVE decode_symbols(_, _, _)
decode_symbols(data, pos, done) ==
  IF pos > Len(data) THEN [v |-> done, pos |-> pos]
  ELSE LET r == decode_symbol(data, pos)
       IN  IF Raised(r) THEN r ELSE decode_symbols(data, r.pos, Append(done, r.v))
----------------------------------------------------------------------------
(* adapter.py: the operand of a Python value. *)
RECURSIVE _to_binary_symbol(_)
_to_binary_symbol(x) ==
  CASE IsA(x, "str")   -> [tag |-> Tag.STRING, value |-> x.str]
    [] IsA(x, "bool")  -> [tag |-> Tag.BOOL, value |-> x.bool]
    [] IsA(x, "int")   -> [tag |-> Tag.I64, value |-> x.int]
    [] IsA(x, "float") -> [tag |-> Tag.F64, value |-> x.float]
    [] IsA(x, "list")  -> [tag |-> Tag.LIST, value |-> Map(_to_binary_symbol, x.list)]
    [] IsA(x, "dict")  -> [tag |-> Tag.STRING, value |-> dumps(x.dict)]
    [] IsA(x, "none")  -> [tag |-> Tag.NULL, value |-> None]
=============================================================================
