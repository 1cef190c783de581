---------------------------- MODULE MCBinCodec ----------------------------
(* TLC instance of BinCodec: the empty packet, packets with one field, and *)
(* packets whose fields meet.                                              *)
EXTENDS BinCodec, BinOperands

Ab == <<97, 98>>
C  == <<99>>
Id(n) == [i \in 1 .. 16 |-> n]
Sym(t, v) == [tag |-> t, value |-> v]

Leaves == {Sym(Tag.I8, -3), Sym(Tag.I32, -70000), Sym(Tag.U16, 513), Sym(Tag.U64, 268000000),
           Sym(Tag.BOOL, TRUE), Sym(Tag.STRING, Ab), Sym(Tag.BYTES, <<200, 128>>), Sym(Tag.UUID, Id(7)),
           Sym(Tag.REF, 258), Sym(Tag.BUF_REF, <<5, 256, 70000>>), Sym(Tag.NULL, None), Sym(Tag.F64, 7),
           Sym(Tag.I8, -128), Sym(Tag.I16, 127), Sym(Tag.TS_MS, -1), Sym(Tag.DURATION_MS, 70000),
           Sym(Tag.STRING, [i \in 1 .. 130 |-> 97]), Sym(Tag.STRING, [i \in 1 .. 140 |-> 97]), Sym(Tag.STRING, << >>), Sym(131, Ab), Sym(200, C)}
Nested == {Sym(Tag.LIST, << >>), Sym(Tag.LIST, <<Sym(Tag.REF, 1), Sym(131, C), Sym(Tag.LIST, <<Sym(Tag.NULL, None)>>)>>),
           Sym(Tag.MAP, <<[k |-> Ab, item |-> Sym(Tag.BOOL, FALSE)],
                          [k |-> << >>, item |-> Sym(Tag.LIST, <<Sym(Tag.U8, 255)>>)]>>)}
Refused == {Sym(Tag.U8, 256), Sym(Tag.UUID, Ab), Sym(99, Ab), Sym(Tag.U8, -1), Sym(Tag.I8, 128), Sym(Tag.I8, -129),
            Sym(Tag.U32, UINT32_LIMIT), Sym(Tag.I32, UINT32_LIMIT \div 2), Sym(Tag.HANDLE, -1), Sym(Tag.REF, UINT16_LIMIT),
            Sym(Tag.I64, UINT64_LIMIT \div 2), Sym(Tag.BUF_REF, <<5, -1, 7>>), Sym(Tag.LIST, <<Sym(Tag.U64, -1)>>)}

With(f, V) == {[Packet EXCEPT ![f] = v] : v \in V}
Lists == {<<Ab, C>>, <<C, << >>, Ab>>, <<(<<97, 44, 98>>)>>, <<(<< >>)>>}

MCPackets ==
  {Packet, [Packet EXCEPT !.intent = Ab, !.symbols = <<Sym(131, C), Sym(Tag.REF, 4)>>],
   [Packet EXCEPT !.trace = <<(<<3, Ab, C, 7, -1>>), (<<1, << >>, Ab, -300, 256>>)>>, !.symbols = <<Sym(Tag.NULL, None)>>]}
  \cup With("symbols", {<<s>> : s \in Leaves \cup Nested \cup Refused})
  \cup With("response_symbols", {<<s, Sym(Tag.U8, 1)>> : s \in Nested})
  \cup UNION {With(f, Lists) : f \in NameList}
  \cup UNION {With(f, {Ab}) : f \in Texts \cup (Opaque \ {"session_id"})}
  \cup With("session_id", {Id(1), Ab}) \cup With("correlation_id", {Id(2)})
  \cup With("origin", {<<3, Ab, 70000>>, <<3, Ab, -1>>}) \cup With("operation", {64, 320})
  \cup With("confidence", {0, 3}) \cup With("priority", {-1, 0, 255, 256}) \cup With("deadline_ms", {-1, UINT32_LIMIT - 1, UINT32_LIMIT})
  \cup With("flags", {{}, {FLAG.ENCRYPTED}}) \cup With("version", {1})
  \cup With("qos", {<<1, 2, 0, 1, 300, 70000>>, <<1, 2, 0, 1, 300, UINT32_LIMIT>>}) \cup With("chunk_info", {<<2, 1, 70000, 256, 3>>})
  \cup With("blob_refs", {<<(<<1, 300, 5, Ab>>)>>}) \cup With("backpressure", {<<300, 1, 513, 2>>})
  \cup With("error_info", {<<257, 2, Ab, None>>, <<1, 2, << >>, C>>, <<1, 2, Ab, << >>>>, <<1, 2, [i \in 1 .. 256 |-> 97], None>>})
  \cup With("ack_info", {<<Ab, C>>})
  \cup With("model_invocation", {<<Ab, C, << >>, 70000>>}) \cup With("tool_invocation", {<<Ab, C, 5000>>, <<Ab, C, -5>>})
  \cup With("metadata", {<<[k |-> Ab, v |-> C], [k |-> C, v |-> << >>]>>, <<[k |-> [i \in 1 .. 256 |-> 97], v |-> C]>>})

MCNumbers == {0, 1, 127, 128, 129, 16383, 16384, 2097151, 2097152, 268435455, 268435456, 2147483647}
=============================================================================
