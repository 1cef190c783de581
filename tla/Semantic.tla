------------------------------ MODULE Semantic ------------------------------
(***************************************************************************)
(* aicl/semantic: types.py, adapter.py, grammar.py, fast_codec.py and      *)
(* fast_action_codec.py, over the binary codec.  A model says something,   *)
(* its adapter makes an action and a packet of it, the adapter at the      *)
(* other end makes an observation and a request of the bytes, a model      *)
(* answers and the answer travels back.  The two fast codecs carry an      *)
(* action without a packet.  The application may use the codec directly.   *)
(*                                                                         *)
(* A Python value is a record of one field, named for its type.  A dict is *)
(* its entries [k, v] and its JSON text, an id given as text the bytes its *)
(* digits spell (None when they are not digits) and whether it has dashes; *)
(* "" is None.  Confidence counts ten-thousandths.                         *)
(***************************************************************************)
EXTENDS BinCodec

CONSTANTS ToSymbol(_),    \* _to_binary_symbol
          Outputs,        \* what a model may say
          Gates,          \* the gates an application may set
          Grammars,       \* the schemas of grammar.py in use
          Observations,   \* what an application may observe by itself
          Results,        \* what the answering model may return
          Dicts           \* every dict that is spelled on a wire

VARIABLES gate,      \* [out, in]: the intents it denies
          said,      \* the model's output
          action,    \* the ModelAction parsed from it, or the error
          obs,       \* the ModelObservation at the other end, or the error
          request,   \* the ModelRequest made of it
          reply,     \* the ModelResult that was returned
          asked,     \* history: the packet of the request, if it came undamaged
          frame,     \* [codec, data]: a fast codec's bytes, or the error
          heard      \* what a fast decoder made of them

talk  == <<said, action, obs, request, reply, asked, frame, heard>>
svars == <<vars, gate, talk>>

----------------------------------------------------------------------------
(* types.py *)
ModelIntent ==
  <<"CLASSIFY", "GENERATE", "REASON", "EMBED", "RANK", "SUMMARIZE", "SYNTHESIZE", "VERIFY", "EXTRACT",
    "TRANSFORM", "PLAN", "EVALUATE", "CALL_MODEL", "CALL_TOOL", "READ_MEMORY", "WRITE_MEMORY",
    "DELETE_MEMORY", "INDEX_QUERY", "INDEX_UPSERT", "ROUTE", "FILTER", "RETURN_RESULT",
    "STREAM_RESULT", "CANCEL">>
Intents == Range(ModelIntent)

(* The text of an intent: one letter of its own. *)
Spelled(intent) == <<64 + CHOOSE i \in DOMAIN ModelIntent : ModelIntent[i] = intent>>

INTENT_TO_OPCODE ==
  [CLASSIFY |-> 67, REASON |-> 68, VERIFY |-> 68, EMBED |-> 66, CALL_MODEL |-> 64, CALL_TOOL |-> 65,
   READ_MEMORY |-> 32, WRITE_MEMORY |-> 33, DELETE_MEMORY |-> 34, INDEX_QUERY |-> 35,
   INDEX_UPSERT |-> 36, ROUTE |-> 3, RETURN_RESULT |-> 17, STREAM_RESULT |-> 18, CANCEL |-> 9]
  @@ [i \in {"GENERATE", "RANK", "SUMMARIZE", "SYNTHESIZE", "EXTRACT", "TRANSFORM", "PLAN", "EVALUATE",
             "FILTER"} |-> 70]

Str(b)    == [str |-> b]
EmptyDict == [json |-> << >>, entries |-> << >>]
Has(d, k) == \E i \in DOMAIN d.entries : d.entries[i].k = k
Get(d, k, default) ==
  IF Has(d, k) THEN d.entries[CHOOSE i \in DOMAIN d.entries : d.entries[i].k = k].v ELSE default
Truthy(x) == ~IsA(x, "none") /\ (IsA(x, "str") => x.str # << >>) /\ (IsA(x, "list") => x.list # << >>)

(* The keys the code asks for. *)
Key == [text |-> <<116>>, tool_name |-> <<110>>, parameters |-> <<112>>, timeout_ms |-> <<109>>,
        task |-> <<107>>, semantic_intent |-> <<105>>, tokens_used |-> <<117>>, latency_ms |-> <<108>>,
        label |-> <<98>>, confidence |-> <<99>>]

One == 10000       \* a confidence of 1.0

(* The fields of the four types and their defaults. *)
ModelAction ==
  [intent |-> None, target |-> << >>, inputs |-> EmptyDict, params |-> EmptyDict, result |-> EmptyDict,
   confidence |-> One, stream |-> FALSE, cancel |-> FALSE, correlation_id |-> None,
   deadline_ms |-> 0, metadata |-> EmptyDict]
ModelObservation ==
  [task |-> << >>, context |-> << >>, inputs |-> EmptyDict, params |-> EmptyDict, schema_id |-> << >>,
   trace_id |-> None, origin |-> << >>, confidence |-> One, deadline_ms |-> 0, metadata |-> << >>]
ModelRequest ==
  [target_model |-> << >>, task |-> << >>, prompt |-> << >>, inputs |-> EmptyDict, params |-> EmptyDict,
   max_tokens |-> 512, temperature |-> 7000, stop |-> << >>, stream |-> FALSE, grammar |-> None,
   correlation_id |-> None, deadline_ms |-> 0, metadata |-> << >>]
ModelResult ==
  [intent |-> None, output |-> [none |-> None], confidence |-> One, tokens_used |-> 0,
   latency_ms |-> 0, error |-> None, done |-> TRUE, metadata |-> EmptyDict]

(* ModelAction.from_dict.  Its defaults, written out again in the code,    *)
(* are the fields' own.                                                    *)
from_dict(d) ==
  IF "intent" \in DOMAIN d /\ d.intent \in Intents
  THEN [f \in DOMAIN ModelAction |-> IF f \in DOMAIN d THEN d[f] ELSE ModelAction[f]]
  ELSE Raise("SemanticError")

(* The comparisons of validate raise when a number is not there: from_dict *)
(* takes what the JSON says, null too.                                     *)
Comparable(a) == a.confidence # None /\ a.deadline_ms # None

(* The errors of an action, the exception among them. *)
validate(a) ==
  IF ~Comparable(a) THEN {"TypeError"}
  ELSE {e \in {"confidence", "deadline", "target", "tool_name"} :
          \/ e = "confidence" /\ ~(0 <= a.confidence /\ a.confidence <= One)
          \/ e = "deadline" /\ a.deadline_ms < 0
          \/ /\ e = "target" /\ a.target = << >>
             /\ a.intent \in {"CLASSIFY", "CALL_MODEL", "CALL_TOOL", "READ_MEMORY", "WRITE_MEMORY"}
          \/ e = "tool_name" /\ a.intent = "CALL_TOOL" /\ ~Has(a.params, Key.tool_name)}

----------------------------------------------------------------------------
(* grammar.py: what the JSON schemas admit.  A grammar is [kind, intents,  *)
(* name]: name is the one label or tool allowed, None for any.             *)
_build_json_schema(g, d) ==
  /\ DOMAIN d \subseteq DOMAIN ModelAction
  /\ "intent" \in DOMAIN d /\ d.intent \in g.intents
  /\ "confidence" \in DOMAIN d => d.confidence # None /\ d.confidence \in 0 .. One
  /\ "deadline_ms" \in DOMAIN d => d.deadline_ms # None /\ d.deadline_ms >= 0

Allowed(g, x) == IsA(x, "str") /\ (g.name = None \/ x.str = g.name)

_build_classify_schema(g, d) ==
  /\ {"intent", "target", "inputs", "result"} \subseteq DOMAIN d /\ d.intent = "CLASSIFY"
  /\ Has(d.inputs, Key.text) /\ IsA(Get(d.inputs, Key.text, None), "str")
  /\ Has(d.result, Key.label) /\ Allowed(g, Get(d.result, Key.label, None))
  /\ Has(d.result, Key.confidence)

_build_tool_schema(g, d) ==
  /\ {"intent", "target", "params"} \subseteq DOMAIN d /\ d.intent = "CALL_TOOL"
  /\ Has(d.params, Key.tool_name) /\ Allowed(g, Get(d.params, Key.tool_name, None))

(* for_intents and for_all, for_classify, for_tool; for_generate has no    *)
(* schema.                                                                 *)
Admits(g, d) == CASE g.kind = "intents"  -> _build_json_schema(g, d)
                  [] g.kind = "classify" -> _build_classify_schema(g, d)
                  [] g.kind = "tool"     -> _build_tool_schema(g, d)

----------------------------------------------------------------------------
(* adapter.py *)
(* A float's bits, 1.0's being BinCodec's default, and back. *)
F64(c)     == IF c = One THEN Defaults.confidence ELSE 2 * c
FromF64(b) == IF b = Defaults.confidence THEN One ELSE b \div 2

(* str: numbers are one digit. *)
str(x) == CASE IsA(x, "str") -> x.str [] IsA(x, "int") -> <<48 + x.int>> [] IsA(x, "float") -> <<48 + x.float, 46, 48>>

(* The text first, then the other inputs, then params and result as JSON. *)
_build_symbols(a) ==
  LET text   == Get(a.inputs, Key.text, [none |-> None])
      others == SelectSeq(a.inputs.entries, LAMBDA e : e.k # Key.text)
      Json(d) == IF d.entries = << >> THEN << >> ELSE <<[dict |-> d]>>
  IN  Map(ToSymbol,
          (IF Truthy(text) THEN <<text>> ELSE << >>) \o Map(LAMBDA e : e.v, others)
            \o Json(a.params) \o Json(a.result))

(* The ids uuid4 makes in a conversation, and uuid.UUID(text).bytes. *)
Fresh(n)   == [i \in 1 .. 16 |-> n]
Zeros      == [i \in 1 .. 16 |-> 0]
IsUuid(id) == id.hex # None /\ Len(Text(id.hex)) = 16
Origin(name) == <<4, name, 0>>

(* Mutant: what the adapter adds replaces what the action says. *)
Tagged(k, x) == [k |-> k, item |-> x]
Merged_first(first, second) ==
  Map(LAMBDA e : [k |-> e.k, v |-> str(e.item)],
      FoldLeft(LAMBDA acc, e : Put(acc, e.k, e.item), Map(LAMBDA e : Tagged(e.k, e.v), second.entries), first))

(* {first..., **second} as the metadata operand spells it. *)
Merged(first, second) ==
  Map(LAMBDA e : [k |-> e.k, v |-> str(e.item)],
      FoldLeft(LAMBDA acc, e : Put(acc, e.k, e.v), first, second.entries))

(* Mutant: the gate is asked after the packet is made, and not heard. *)
action_to_packet_ungated(a) ==
  IF validate(a) # {} THEN Raise("ValidationError")
  ELSE [Packet EXCEPT !.session_id = Fresh(1), !.message_id = Fresh(2), !.correlation_id = Zeros,
                      !.origin = Origin(<<111>>), !.intent = Spelled(a.intent)]

(* stream sets 0x0080, which constants.py calls FLAG_COMPRESSED. *)
action_to_packet(a) ==
  LET plain == [Packet EXCEPT
        !.flags = {FLAG.REQUEST} \cup (IF a.stream THEN {FLAG.COMPRESSED} ELSE {})
                                 \cup (IF a.cancel THEN {FLAG.CANCEL} ELSE {}),
        !.session_id = Fresh(1), !.message_id = Fresh(2),
        !.correlation_id = IF a.correlation_id = None THEN Zeros ELSE a.correlation_id.hex,
        !.origin = Origin(<<111>>), !.targets = IF a.target = << >> THEN << >> ELSE <<a.target>>,
        !.operation = INTENT_TO_OPCODE[a.intent], !.intent = Spelled(a.intent),
        !.symbols = _build_symbols(a), !.confidence = F64(a.confidence), !.deadline_ms = a.deadline_ms,
        !.metadata = Merged(<<Tagged(Key.semantic_intent, Str(Spelled(a.intent)))>>, a.metadata)]
      tool    == Get(a.params, Key.tool_name, Str(<< >>)).str
      given   == Get(a.params, Key.parameters, [dict |-> EmptyDict]).dict
      task    == Get(a.params, Key.task, Str(Spelled(a.intent))).str
      timeout == Get(a.params, Key.timeout_ms, [int |-> 5000]).int
  IN  IF validate(a) # {} THEN Raise(IF Comparable(a) THEN "ValidationError" ELSE "TypeError")
      ELSE IF a.intent \in gate.out THEN Raise("SemanticError")
      ELSE IF a.correlation_id # None /\ ~IsUuid(a.correlation_id) THEN Raise("ValueError")
      ELSE IF a.intent = "CALL_TOOL" /\ tool # << >>
      THEN [plain EXCEPT !.tool_invocation = <<tool, dumps(given), timeout>>]
      ELSE IF a.intent = "CALL_MODEL" /\ a.target # << >>
      THEN [plain EXCEPT !.model_invocation = <<a.target, task, dumps(a.params), timeout>>]
      ELSE plain

(* The properties bytes_to_observation reads raise nothing. *)
Utf8(b) == \A i \in DOMAIN b : b[i] < 128
Readable(v) ==
  LET origin == _ext_all(v, "origin")
      bits   == _ext_all(v, "confidence")
      meta   == Property(v, "metadata")
  IN  /\ Utf8(Property(v, "intent")) /\ Utf8(Property(v, "schema_id"))
      /\ origin # << >> /\ origin[1] # << >> =>
           /\ Len(origin[1]) >= 2 /\ Len(origin[1]) >= 6 + origin[1][2]
           /\ Utf8(SubSeq(origin[1], 3, 2 + origin[1][2]))
      /\ bits # << >> /\ bits[1] # << >> => Len(bits[1]) >= 8
      /\ meta # None /\ \A i \in DOMAIN meta : Utf8(meta[i].k) /\ Utf8(meta[i].v)

(* The operands are Symbols and the loop wants tuples: inputs and params   *)
(* stay empty.                                                             *)
packet_view_to_observation(v) ==
  IF Property(v, "intent") \in gate.in THEN Raise("SemanticError")
  ELSE IF ~Readable(v) THEN Raise("ValueError")
  ELSE [ModelObservation EXCEPT
          !.task       = Property(v, "intent"),
          !.context    = Property(v, "intent"),
          !.schema_id  = Property(v, "schema_id"),
          !.trace_id   = IF Property(v, "session_id") \in {None, << >>} THEN None
                         ELSE [hex |-> Property(v, "session_id"), dashes |-> FALSE],
          !.origin     = IF Property(v, "origin") = None THEN << >> ELSE Property(v, "origin")[2],
          !.confidence = FromF64(Property(v, "confidence")),
          !.deadline_ms = v.hdr.deadline_ms,
          !.metadata   = Property(v, "metadata")]

upper(b) == Map(LAMBDA x : IF x \in 97 .. 122 THEN x - 32 ELSE x, b)

observation_to_request(o, model_name, grammar) ==
  LET text == Get(o.inputs, Key.text, Str(<< >>))
  IN  [ModelRequest EXCEPT
         !.target_model = model_name,
         !.task         = IF o.task = << >> THEN Spelled("GENERATE") ELSE upper(o.task),
         !.prompt       = IF Truthy(text) THEN text.str
                          ELSE FlattenSeq(Map(LAMBDA e : e.k \o str(e.v), o.inputs.entries)),
         !.inputs = o.inputs, !.params = o.params, !.grammar = grammar,
         !.correlation_id = o.trace_id, !.deadline_ms = o.deadline_ms, !.metadata = o.metadata]

(* Mutant: the flags are left at their default. *)
result_to_packet_request(r, correlation_id) ==
  [Packet EXCEPT !.session_id = Fresh(3), !.message_id = Fresh(4), !.intent = Spelled(r.intent),
                 !.correlation_id = IF correlation_id = None THEN Zeros ELSE correlation_id.hex]

(* The flags are FLAG_RESPONSE, for an error too. *)
result_to_packet(r, correlation_id) ==
  LET failed == r.error \notin {None, << >>}
      output == CASE IsA(r.output, "none") -> << >>
                  [] IsA(r.output, "dict") -> <<ToSymbol(r.output)>>
                  [] OTHER -> <<ToSymbol(Str(str(r.output)))>>
  IN  IF correlation_id # None /\ ~IsUuid(correlation_id) THEN Raise("ValueError")
      ELSE [Packet EXCEPT
              !.flags = {FLAG.RESPONSE}, !.session_id = Fresh(3), !.message_id = Fresh(4),
              !.correlation_id = IF correlation_id = None THEN Zeros ELSE correlation_id.hex,
              !.origin = Origin(<<112>>), !.operation = INTENT_TO_OPCODE[r.intent],
              !.intent = Spelled(r.intent), !.confidence = F64(r.confidence),
              !.symbols = output \o IF failed THEN <<ToSymbol(Str(r.error))>> ELSE << >>,
              !.metadata = Merged(<<Tagged(Key.semantic_intent, Str(Spelled(r.intent))),
                                    Tagged(Key.tokens_used, [int |-> r.tokens_used]),
                                    Tagged(Key.latency_ms, [float |-> r.latency_ms])>>, r.metadata),
              !.error_info = IF failed THEN <<1, 1, r.error, None>> ELSE None]

(* Output is a JSON object, or text with the names of intents in it. *)
TextDict(b) == [json |-> <<34>> \o b, entries |-> <<[k |-> Key.text, v |-> Str(b)]>>]
parse_model_output(raw) ==
  IF "dict" \in DOMAIN raw THEN from_dict(raw.dict)
  ELSE IF raw.text = << >> THEN Raise("SemanticError")
  ELSE IF raw.words = {} THEN [ModelAction EXCEPT !.intent = "RETURN_RESULT", !.result = TextDict(raw.text)]
  ELSE [ModelAction EXCEPT !.intent = ModelIntent[Least({i \in DOMAIN ModelIntent : ModelIntent[i] \in raw.words})],
                           !.inputs = TextDict(raw.text)]

----------------------------------------------------------------------------
(* fast_codec.py ("v1") and fast_action_codec.py ("v2"). *)
_INTENT_BYTE ==
  [CLASSIFY |-> 1, GENERATE |-> 2, REASON |-> 3, EMBED |-> 4, RANK |-> 5, SUMMARIZE |-> 6,
   SYNTHESIZE |-> 7, VERIFY |-> 8, EXTRACT |-> 9, TRANSFORM |-> 10, PLAN |-> 11, EVALUATE |-> 12,
   CALL_MODEL |-> 16, CALL_TOOL |-> 17, READ_MEMORY |-> 32, WRITE_MEMORY |-> 33, DELETE_MEMORY |-> 34,
   INDEX_QUERY |-> 35, INDEX_UPSERT |-> 36, ROUTE |-> 48, FILTER |-> 49, RETURN_RESULT |-> 64,
   STREAM_RESULT |-> 65, CANCEL |-> 255]
_INTENT_TO_BYTE ==
  [RANK |-> 71, SUMMARIZE |-> 72, SYNTHESIZE |-> 73, VERIFY |-> 74, EXTRACT |-> 75, TRANSFORM |-> 76,
   PLAN |-> 77, EVALUATE |-> 78, FILTER |-> 4] @@ INTENT_TO_OPCODE
_FLAGS  == [stream |-> 1, cancel |-> 2, params |-> 4, result |-> 8, metadata |-> 16]
_FLAGS2 == [stream |-> 4, cancel |-> 32, params |-> 256, result |-> 512, metadata |-> 1024]

Codecs  == {"v1", "v2"}
Bytes(codec) == IF codec = "v1" THEN _INTENT_BYTE ELSE _INTENT_TO_BYTE
Bits(codec)  == IF codec = "v1" THEN _FLAGS ELSE _FLAGS2
DictFields   == {"inputs", "params", "result", "metadata"}
Present16(a, f) == IF f \in DictFields THEN a[f].entries # << >> ELSE a[f]
FlagBits(codec, a) == (IF codec = "v1" THEN 0 ELSE FLAG.REQUEST)
                      + SumFunction([f \in DOMAIN Bits(codec) |-> IF Present16(a, f) THEN Bits(codec)[f] ELSE 0])

_encode_str16(b) == BE(2, Len(b)) \o b
_encode_json_small(d) == IF d.entries = << >> THEN <<0, 0>> ELSE _encode_str16(d.json)
loads(b) == IF \E d \in Dicts : d.json = b THEN CHOOSE d \in Dicts : d.json = b ELSE Raise("JSONDecodeError")

(* int(confidence * 1000), which truncates, in a uint16. *)
Thousandths(c) == Least({IF c < 0 THEN -((-c) \div 10) ELSE c \div 10, 65535})

(* v2 writes its numbers in little-endian order, lengths excepted. *)
Order(codec, b) == IF codec = "v1" THEN b ELSE Reverse(b)

Section(codec, f, a) ==
  CASE f \in {"session_id", "message_id"} -> Fresh(5)
    [] f = "correlation_id" -> IF a[f] = None THEN Zeros ELSE a[f].hex
    [] f = "target"         -> _encode_str16(a[f])
    [] f \in DictFields     -> _encode_json_small(a[f])
    [] f = "deadline_ms"    -> Order(codec, BE(4, a[f] % UINT32_LIMIT))
    [] f = "confidence"     -> Order(codec, BE(2, Thousandths(a[f])))

(* The sections an encoder writes and those a decoder reads, in order. *)
Optional(f, there) == IF there THEN <<f>> ELSE << >>
EncodeOrder(codec, a) ==
  LET id    == <<"correlation_id">>
      dicts == <<"target", "inputs">> \o Optional("params", Present16(a, "params"))
                                      \o Optional("result", Present16(a, "result"))
  IN  (IF codec = "v1" THEN <<"session_id">> \o dicts \o id ELSE <<"session_id", "message_id">> \o id \o dicts)
        \o <<"deadline_ms", "confidence">> \o Optional("metadata", Present16(a, "metadata"))

encode_action(codec, a) ==
  IF a.correlation_id # None /\ (a.correlation_id.hex = None \/ (codec = "v1" /\ ~IsUuid(a.correlation_id)))
  THEN Raise("ValueError")
  ELSE IF ~Comparable(a) THEN Raise("TypeError")
  ELSE IF \/ Thousandths(a.confidence) < 0 \/ Len(a.target) >= UINT16_LIMIT
          \/ \E f \in DictFields : Len(a[f].json) >= UINT16_LIMIT
  THEN Raise("struct.error")
  ELSE [codec |-> codec,
        data  |-> (IF codec = "v1" THEN <<1, Bytes(codec)[a.intent], FlagBits(codec, a)>>
                   ELSE <<2, Bytes(codec)[a.intent]>> \o Reverse(BE(4, FlagBits(codec, a))))
                  \o FlattenSeq(Map(LAMBDA f : Section(codec, f, a), EncodeOrder(codec, a)))]

(* Mutant: the decoder takes the result for the params. *)
DecodeOrder_swapped(codec, there) ==
  LET id    == <<"correlation_id">>
      dicts == <<"target", "inputs">> \o Optional("result", "result" \in there) \o Optional("params", "params" \in there)
  IN  (IF codec = "v1" THEN <<"session_id">> \o dicts \o id ELSE <<"session_id", "message_id">> \o id \o dicts)
        \o <<"deadline_ms", "confidence">> \o Optional("metadata", "metadata" \in there)

DecodeOrder(codec, there) ==
  LET id    == <<"correlation_id">>
      dicts == <<"target", "inputs">> \o Optional("params", "params" \in there) \o Optional("result", "result" \in there)
  IN  (IF codec = "v1" THEN <<"session_id">> \o dicts \o id ELSE <<"session_id", "message_id">> \o id \o dicts)
        \o <<"deadline_ms", "confidence">> \o Optional("metadata", "metadata" \in there)

(* One section after those in st = [pos, rec]. *)
Got(st, f, v, pos) == IF v # None /\ f # "target" /\ Raised(v) THEN v ELSE [pos |-> pos, rec |-> f :> v @@ st.rec]
_decode_str16(data, pos) ==
  LET n == Take(data, pos, 2)
  IN  IF Raised(n) THEN n
      ELSE [v |-> Slice(data, pos + 2, FromBE(FALSE, n.v)), pos |-> pos + 2 + FromBE(FALSE, n.v)]

decode_section(codec, data, st, f) ==
  LET raw  == Slice(data, st.pos, 16)
      text == _decode_str16(data, st.pos)
      num  == Take(data, st.pos, IF f = "deadline_ms" THEN 4 ELSE 2)
      n    == FromBE(FALSE, Order(codec, num.v))
  IN  CASE Raised(st) -> st
        [] f \in {"session_id", "message_id"} -> [st EXCEPT !.pos = @ + 16]
        [] f = "correlation_id" ->
             IF raw = Zeros THEN Got(st, f, None, st.pos + 16)
             ELSE IF codec = "v1" /\ Len(raw) < 16 THEN Raise("ValueError")
             ELSE Got(st, f, [hex |-> raw, dashes |-> codec = "v1"], st.pos + 16)
        [] f = "target" ->
             IF Raised(text) THEN Raise("struct.error")
             ELSE IF ~Utf8(text.v) THEN Raise("UnicodeDecodeError")
             ELSE Got(st, f, text.v, text.pos)
        [] f \in DictFields ->
             IF Raised(text) THEN Raise("struct.error")
             ELSE IF text.pos = st.pos + 2 THEN Got(st, f, EmptyDict, text.pos)
             ELSE Got(st, f, loads(text.v), text.pos)
        [] OTHER ->
             IF Raised(num) THEN Raise("struct.error")
             ELSE [pos |-> num.pos, rec |-> f :> (IF f = "confidence" THEN 10 * n ELSE n) @@ st.rec]

decode_action(codec, data) ==
  LET known   == {i \in Intents : Bytes(codec)[i] = data[2]}
      flags   == IF codec = "v1" THEN data[3] ELSE FromBE(FALSE, Reverse(SubSeq(data, 3, 6)))
      Flag(f) == (flags \div Bits(codec)[f]) % 2 = 1
      body    == FoldLeft(LAMBDA st, f : decode_section(codec, data, st, f),
                          [pos |-> IF codec = "v1" THEN 4 ELSE 7, rec |-> << >>],
                          DecodeOrder(codec, {f \in {"params", "result", "metadata"} : Flag(f)}))
  IN  IF data[1] # (IF codec = "v1" THEN 1 ELSE 2) THEN Raise("SemanticError")
      ELSE IF known = {} THEN Raise("SemanticError")
      ELSE IF Raised(body) THEN body
      ELSE body.rec @@ [intent |-> CHOOSE i \in known : TRUE, stream |-> Flag("stream"), cancel |-> Flag("cancel")]
             @@ ModelAction

(* What a model and an application may give: intents in a text are known   *)
(* ones, a confidence or a deadline in a JSON object is a number or None.  *)
ASSUME OutputAssumption ==
  None \notin Outputs /\ \A raw \in Outputs :
    IF "dict" \in DOMAIN raw
    THEN \A f \in {"confidence", "deadline_ms"} : f \in DOMAIN raw.dict => raw.dict[f] \in Int \cup {None}
    ELSE raw.words \subseteq Intents
ASSUME GivenAssumption == None \notin Observations \cup Results

----------------------------------------------------------------------------
SInit == /\ Init
         /\ gate = [out |-> {}, in |-> {}]
         /\ said = None /\ action = None /\ obs = None /\ request = None /\ reply = None /\ asked = None
         /\ frame = None /\ heard = None

Idle == said = None /\ pkt = None /\ obs = None

set_gate(g) == Idle /\ gate' = g /\ UNCHANGED <<vars, talk>>

Say(raw) ==
  /\ Idle
  /\ said' = raw /\ action' = parse_model_output(raw)
  /\ UNCHANGED <<vars, gate, obs, request, reply, asked, frame, heard>>

HasAction == action # None /\ ~Raised(action) /\ wire = None /\ frame = None

action_to_bytes(c) ==
  /\ HasAction
  /\ LET p == action_to_packet(action)
     IN  IF Raised(p) THEN wire' = p /\ UNCHANGED <<pkt, checksum>>
         ELSE pkt' = p /\ checksum' = c /\ wire' = encode(p, c)
  /\ UNCHANGED <<damage, view, gate, talk>>

bytes_to_observation ==
  /\ wire # None /\ ~Raised(wire) /\ view = None /\ obs = None
  /\ view' = decode(wire)
  /\ obs' = IF Raised(view') THEN view' ELSE packet_view_to_observation(view')
  /\ asked' = IF damage = "none" THEN Sent ELSE None
  /\ UNCHANGED <<pkt, checksum, wire, damage, gate, said, action, request, reply, frame, heard>>

(* An observation the application made itself. *)
Observe(o) ==
  /\ Idle
  /\ obs' = o
  /\ UNCHANGED <<vars, gate, said, action, request, reply, asked, frame, heard>>

(* Bound: only what came undamaged is followed further. *)
Undamaged == asked # None \/ pkt = None

Ask(model_name, g) ==
  /\ obs # None /\ ~Raised(obs) /\ request = None /\ Undamaged
  /\ request' = observation_to_request(obs, model_name, g)
  /\ UNCHANGED <<vars, gate, said, action, obs, reply, asked, frame, heard>>

(* The answer travels on the same wire. *)
result_to_bytes(r) ==
  /\ request # None /\ reply = None
  /\ reply' = r
  /\ LET p == result_to_packet(r, request.correlation_id)
     IN  IF Raised(p) THEN wire' = p /\ pkt' = None ELSE pkt' = p /\ wire' = encode(p, FALSE)
  /\ checksum' = FALSE /\ damage' = "none" /\ view' = None
  /\ UNCHANGED <<gate, said, action, obs, request, asked, frame, heard>>

FastEncode(codec) ==
  /\ HasAction
  /\ frame' = encode_action(codec, action)
  /\ UNCHANGED <<vars, gate, said, action, obs, request, reply, asked, heard>>

FastDecode(codec) ==
  /\ frame # None /\ ~Raised(frame) /\ heard = None
  /\ heard' = [codec |-> codec, got |-> decode_action(codec, frame.data)]
  /\ UNCHANGED <<vars, gate, said, action, obs, request, reply, asked, frame>>

(* The conversation ends, answered or not. *)
Hangs(x) == x # None /\ Raised(x)
End ==
  /\ \/ Hangs(action) \/ Hangs(frame) \/ heard # None
     \/ Hangs(wire) \/ (view # None /\ (request = None \/ reply # None))
  /\ said' = None /\ action' = None /\ obs' = None /\ request' = None /\ reply' = None /\ asked' = None
  /\ frame' = None /\ heard' = None /\ gate' = [out |-> {}, in |-> {}]
  /\ pkt' = None /\ checksum' = FALSE /\ wire' = None /\ damage' = "none" /\ view' = None

(* The codec used directly, and the wire between adapters. *)
Wire ==
  /\ \/ said = None /\ obs = None /\ Direct
     \/ Decode
     \/ reply = None /\ Damage
  /\ UNCHANGED <<gate, talk>>

SNext == \/ Wire \/ End \/ bytes_to_observation
         \/ \E g \in Gates : set_gate(g)
         \/ \E raw \in Outputs : Say(raw)
         \/ \E c \in BOOLEAN : action_to_bytes(c)
         \/ \E o \in Observations : Observe(o)
         \/ \E bnf \in {None, "bnf"} : Ask(<<109>>, bnf)
         \/ \E r \in Results : result_to_bytes(r)
         \/ \E codec \in Codecs : FastEncode(codec) \/ FastDecode(codec)

SSpec == SInit /\ [][SNext]_svars

----------------------------------------------------------------------------
(* The error that keeps an action the model gave from being sent. *)
Unsendable(a) ==
  \/ a.confidence = None \/ a.deadline_ms = None
  \/ a.confidence \notin 0 .. One \/ a.deadline_ms < 0
  \/ a.target = << >> /\ a.intent \in {"CLASSIFY", "CALL_MODEL", "CALL_TOOL", "READ_MEMORY", "WRITE_MEMORY"}
  \/ a.intent = "CALL_TOOL" /\ ~Has(a.params, Key.tool_name)
  \/ a.intent \in gate.out
  \/ a.correlation_id # None /\ (a.correlation_id.hex = None \/ Len(a.correlation_id.hex) # 16)

(* What the packet has no room for: a text of an invocation or a key of    *)
(* the metadata of more than 255 bytes, a value of the metadata of 2^16 or *)
(* more, a timeout or a deadline that is not a uint32, an integer among    *)
(* the inputs that is not an int64.                                        *)
TooBig(a) ==
  LET timeout == Get(a.params, Key.timeout_ms, [int |-> 5000]).int
      Text255(texts) == \A t \in texts : Len(t) <= 255
      Fits(texts)    == Text255(texts) /\ timeout \in 0 .. UINT32_LIMIT - 1
      tool == Get(a.params, Key.tool_name, Str(<< >>)).str
  IN  \/ a.deadline_ms >= UINT32_LIMIT
      \/ /\ a.intent = "CALL_TOOL" /\ tool # << >>
         /\ ~Fits({tool, dumps(Get(a.params, Key.parameters, [dict |-> EmptyDict]).dict)})
      \/ /\ a.intent = "CALL_MODEL"
         /\ ~Fits({a.target, dumps(a.params), Get(a.params, Key.task, Str(<< >>)).str})
      \/ \E i \in DOMAIN a.metadata.entries : LET e == a.metadata.entries[i]
                                              IN  Len(e.k) > 255 \/ Len(str(e.v)) >= UINT16_LIMIT
      \/ \E i \in DOMAIN a.inputs.entries : ~CanEncode(ToSymbol(a.inputs.entries[i].v))

Outbound == action # None /\ ~Raised(action) /\ wire # None /\ reply = None

(* "validate -> Gate -> Packet -> binary": an action is turned away exactly *)
(* when it is invalid, lacks a number, is denied by the gate, names an id   *)
(* that is no UUID or holds something the packet has no room for.  Nothing  *)
(* invalid or denied is ever on the wire.                                   *)
SentUnlessRefused == Outbound => (Raised(wire) <=> Unsendable(action) \/ TooBig(action))

(* What the other end observes is what the model said: intent, deadline,   *)
(* confidence and metadata arrive, and the operands in order, unless the   *)
(* inbound gate denies the intent.  The opcode alone would not tell: nine  *)
(* intents share one.                                                      *)
ObservedAsSaid ==
  Outbound /\ obs # None /\ asked # None =>
    IF \/ Spelled(action.intent) \in gate.in \/ Len(build_payload(Sent)) > MAX_TLV_VALUE_SIZE THEN Raised(obs)
    ELSE /\ ~Raised(obs)
         /\ obs.task = Spelled(action.intent) /\ obs.confidence = action.confidence
         /\ obs.deadline_ms = action.deadline_ms
         /\ view.symbols = _build_symbols(action)
         /\ \A i \in DOMAIN action.metadata.entries : \E j \in DOMAIN obs.metadata :
              obs.metadata[j] = [k |-> action.metadata.entries[i].k, v |-> str(action.metadata.entries[i].v)]

(* An answer arrives as an answer: a response and no request, with the     *)
(* intent and the confidence of the result, its error when it failed and   *)
(* none when it did not, and its output first.  It is not sent only when   *)
(* the id it answers is no UUID or a text of it is too long for its field. *)
AnswerArrives ==
  reply # None =>
    /\ Raised(wire) <=> \/ request.correlation_id # None /\ ~IsUuid(request.correlation_id)
                        \/ reply.error # None /\ Len(reply.error) > 255
                        \/ \E i \in DOMAIN reply.metadata.entries :
                              LET e == reply.metadata.entries[i] IN Len(e.k) > 255 \/ Len(str(e.v)) >= UINT16_LIMIT
    /\ view # None /\ ~Raised(view) =>
         /\ view.hdr.flags = {FLAG.RESPONSE}
         /\ Property(view, "intent") = Spelled(reply.intent)
         /\ FromF64(Property(view, "confidence")) = reply.confidence
         /\ reply.error = None => Property(view, "error_info") = None
         /\ reply.error \notin {None, << >>} => Property(view, "error_info")[3] = reply.error
         /\ ~IsA(reply.output, "none") =>
              view.symbols[1].value = IF IsA(reply.output, "dict") THEN dumps(reply.output.dict) ELSE str(reply.output)

(* A fast codec's bytes are read as the action they were made of, with its *)
(* confidence cut to thousandths and its id in the codec's own spelling,   *)
(* and by the other codec not at all.  Two things are not kept: a deadline *)
(* that is not a uint32, which no fast codec validates, and an id v2 takes *)
(* that is not 16 bytes.                                                   *)
FastExact ==
  heard # None =>
    LET id == action.correlation_id
    IN  IF heard.codec # frame.codec THEN Raised(heard.got)
        ELSE \/ action.deadline_ms \notin 0 .. UINT32_LIMIT - 1
             \/ id # None /\ ~IsUuid(id)
             \/ heard.got = [action EXCEPT
                  !.confidence = 10 * Thousandths(@),
                  !.correlation_id = IF id = None \/ id.hex = Zeros THEN None
                                     ELSE [hex |-> id.hex, dashes |-> heard.codec = "v1"]]

(* "Structured generation produces valid ModelAction JSON": output that a  *)
(* schema of grammar.py admits parses to an action validate accepts.  It   *)
(* does not hold: the schema of intents asks neither for a target nor for  *)
(* a tool's name, and those of classify and tool leave the confidence and  *)
(* the deadline open.                                                      *)
ConstrainedIsValid ==
  said # None /\ "dict" \in DOMAIN said =>
    \A g \in Grammars : Admits(g, said.dict) => ~Raised(action) /\ validate(action) = {}
=============================================================================
