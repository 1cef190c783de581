----------------------------- MODULE BinValues -----------------------------
(***************************************************************************)
(* What the models of aicl/bin and aicl/semantic are written with: results *)
(* and exceptions, Python values, the varints of varint.py, the tags of    *)
(* symbol_types.py, and numbers as struct packs them.                      *)
(*                                                                         *)
(* Bytes are numbers; texts are sequences of bytes, one above 127 stands   *)
(* for what is not UTF-8.  Floats are bit patterns.  Positions count from  *)
(* 1.  A Python value is a record of one field, named for its type; a dict *)
(* is its entries and its JSON text.                                       *)
(***************************************************************************)
EXTENDS Integers, SequencesExt

CONSTANTS None,                \* Python's None
          UINT16_LIMIT,        \* 2^16, 2^32 and 2^64: the first numbers that two,
          UINT32_LIMIT,        \* four and eight bytes cannot hold
          UINT64_LIMIT

ASSUME LimitAssumption == UINT16_LIMIT \in Nat /\ UINT32_LIMIT \in Nat /\ UINT64_LIMIT \in Nat

Raise(e)  == [raised |-> e]
Raised(r) == "raised" \in DOMAIN r
Least(S)  == CHOOSE x \in S : \A y \in S : x <= y
Map(F(_), s) == [i \in DOMAIN s |-> F(s[i])]

IsA(x, t) == t \in DOMAIN x
dumps(d)  == IF d.entries = << >> THEN <<123, 125>> ELSE d.json

----------------------------------------------------------------------------
(* varint.py *)
_MAX_BYTES == 4
Weight == <<1, 128, 16384, 2097152>>     \* 128 to the power of i - 1

(* Mutant: the fourth byte never has a continuation bit. *)
encode_varint_clipped(n) ==
  LET rest(i) == n \div Weight[i]
      groups  == Least({k \in 1 .. _MAX_BYTES : rest(k) <= 127} \cup {_MAX_BYTES})
  IN  [i \in 1 .. groups |-> (rest(i) % 128) + (IF i < groups THEN 128 ELSE 0)]

(* Seven bits to a byte, low ones first; a fourth byte that is still not   *)
(* enough keeps its continuation bit.                                      *)
encode_varint(n) ==
  LET rest(i) == n \div Weight[i]
      groups  == Least({k \in 1 .. _MAX_BYTES : rest(k) <= 127} \cup {_MAX_BYTES})
  IN  [i \in 1 .. groups |-> (rest(i) % 128) + (IF rest(i) > 127 THEN 128 ELSE 0)]

decode_varint(data, pos) ==
  LET Ends(i) == pos + i - 1 <= Len(data) /\ data[pos + i - 1] < 128
      last    == CHOOSE i \in 1 .. _MAX_BYTES : Ends(i) /\ \A j \in 1 .. i - 1 : ~Ends(j)
      Part(i) == IF i <= last THEN (data[pos + i - 1] % 128) * Weight[i] ELSE 0
  IN  IF \E i \in 1 .. _MAX_BYTES : Ends(i)
      THEN [v |-> Part(1) + Part(2) + Part(3) + Part(4), pos |-> pos + last]
      ELSE Raise(IF pos + _MAX_BYTES - 1 > Len(data) THEN "varint truncated" ELSE "varint > 4 bytes")

----------------------------------------------------------------------------
(* symbol_types.py: the tags, and the width of the operands packed by      *)
(* struct.                                                                 *)
Tag == [I8 |-> 1, I16 |-> 2, I32 |-> 3, I64 |-> 4, U8 |-> 5, U16 |-> 6, U32 |-> 7, U64 |-> 8,
        F32 |-> 9, F64 |-> 10, BOOL |-> 16, STRING |-> 17, BYTES |-> 18, UUID |-> 19,
        HANDLE |-> 20, REF |-> 21, BUF_REF |-> 22, LIST |-> 23, MAP |-> 24, NULL |-> 25,
        TS_MS |-> 26, DURATION_MS |-> 27]

is_vendor(tag) == tag \in 128 .. 255

Width == [t \in {Tag.I8, Tag.U8} |-> 1] @@ [t \in {Tag.I16, Tag.U16, Tag.REF} |-> 2]
           @@ [t \in {Tag.I32, Tag.U32, Tag.F32, Tag.DURATION_MS} |-> 4]
           @@ [t \in {Tag.I64, Tag.U64, Tag.F64, Tag.TS_MS, Tag.HANDLE} |-> 8]

(* A number in w bytes, high ones first, and back.  Numbers of the model   *)
(* stay below 2^28 in size; one that would not stops growing.              *)
BE(w, v) == [i \in 1 .. w |-> IF w - i > 3 THEN (IF v < 0 THEN 255 ELSE 0)
                                           ELSE (v \div 256 ^ (w - i)) % 256]
FromBE(signed, b) ==
  FoldLeft(LAMBDA acc, d : IF acc \in -1048576 .. 1048576 THEN acc * 256 + d ELSE acc,
           IF signed /\ b # << >> /\ b[1] >= 128 THEN -1 ELSE 0, b)
Signed == {Tag.I8, Tag.I16, Tag.I32, Tag.I64, Tag.TS_MS}
Floats == {Tag.F32, Tag.F64}

(* struct.pack takes a number that its format can hold. *)
Limit == [w \in {1, 2, 4, 8} |-> CASE w = 1 -> 256 [] w = 2 -> UINT16_LIMIT
                                   [] w = 4 -> UINT32_LIMIT [] w = 8 -> UINT64_LIMIT]
InWidth(signed, w, v) ==
  IF signed THEN -(Limit[w] \div 2) <= v /\ v < Limit[w] \div 2 ELSE 0 <= v /\ v < Limit[w]

(* The next n bytes, and the bytes after a varint that counts them. *)
Take(data, pos, n) ==
  IF pos + n - 1 > Len(data) THEN Raise("truncated")
  ELSE [v |-> SubSeq(data, pos, pos + n - 1), pos |-> pos + n]
TakeCounted(data, pos) ==
  LET n == decode_varint(data, pos) IN IF Raised(n) THEN n ELSE Take(data, n.pos, n.v)

(* A dict keeps the place of a key it has. *)
Put(entries, k, item) ==
  IF \E i \in DOMAIN entries : entries[i].k = k
  THEN Map(LAMBDA e : IF e.k = k THEN [k |-> k, item |-> item] ELSE e, entries)
  ELSE Append(entries, [k |-> k, item |-> item])
=============================================================================
