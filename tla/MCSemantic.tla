---------------------------- MODULE MCSemantic ----------------------------
(* TLC instance of Semantic: every intent, actions with one thing of note, *)
(* and packets an application encodes itself.                              *)
EXTENDS MCBinCodec, Semantic

Text1 == TextDict(<<104>>)
Dict(json, entries) == [json |-> json, entries |-> entries]
Entry(k, v) == [k |-> k, v |-> v]
Py(t, v) == t :> v
Long == [i \in 1 .. 256 |-> 120]               \* too long for a length in one byte
Longer == [i \in 1 .. UINT16_LIMIT |-> 121]     \* and in two

Inputs  == Dict(<<35>>, <<Entry(C, Py("list", <<Py("int", 7), Py("none", None)>>)), Entry(Key.text, Str(Ab)),
                          Entry(Ab, Py("bool", TRUE)), Entry(<<100>>, Py("float", 3))>>)
Params  == Dict(<<36>>, <<Entry(Key.tool_name, Str(Ab)), Entry(Key.timeout_ms, Py("int", 9)),
                          Entry(Key.parameters, Py("dict", Text1))>>)
Nameless == Dict(<<37>>, <<Entry(Key.tool_name, Str(<< >>)), Entry(Key.task, Str(C))>>)
BigTool == Dict(<<38>>, <<Entry(Key.tool_name, Str(C)), Entry(Key.parameters, Py("dict", Dict(Long, <<Entry(C, Str(C))>>)))>>)
Big     == Dict(Long, <<Entry(Ab, Str(C))>>)
Biggest == Dict(Longer, <<Entry(Ab, Str(C))>>)
LongTask == Dict(<<42>> \o Long, <<Entry(Key.task, Str(Long))>>)
LongTool == Dict(<<43>> \o Long, <<Entry(Key.tool_name, Str(Long))>>)
Timeout(n) == Dict(IF n < 0 THEN <<44>> ELSE <<44, 44>>, <<Entry(Key.tool_name, Str(Ab)), Entry(Key.timeout_ms, Py("int", n))>>)
LongMeta(k, v) == Dict(k \o v, <<Entry(k, Str(v))>>)
BigInt  == Dict(<<46>>, <<Entry(Ab, Py("list", <<Py("int", UINT64_LIMIT)>>))>>)
Label   == Dict(<<39>>, <<Entry(Key.label, Str(Ab)), Entry(Key.confidence, Py("float", 1))>>)
Meta    == Dict(<<40>>, <<Entry(Ab, Str(C)), Entry(Key.semantic_intent, Str(<<90>>)), Entry(C, Py("int", 4))>>)
MCDicts == {Text1, Inputs, Params, Nameless, BigTool, Big, Label, Meta, LongTask, LongTool, BigInt}
             \cup {Timeout(-1), Timeout(UINT32_LIMIT), LongMeta(Long, C), LongMeta(C, Longer)}

Hex(n, d)  == [hex |-> [i \in 1 .. n |-> 7], dashes |-> d]
Act(i)     == [ModelAction EXCEPT !.intent = i, !.target = Ab]
MCActions ==
  {Act(i) : i \in Intents} \cup {[Act(i) EXCEPT !.target = << >>] : i \in {"CLASSIFY", "REASON", "CALL_MODEL"}}
  \cup {[Act("REASON") EXCEPT !.correlation_id = id] : id \in {Hex(16, TRUE), Hex(16, FALSE), Hex(4, FALSE), [hex |-> None, dashes |-> FALSE],
                                                              [hex |-> Zeros, dashes |-> TRUE]}}
  \cup {[Act("RANK") EXCEPT !.confidence = c, !.deadline_ms = d] : c \in {0, 4567, 10000, 10001, -20}, d \in {-1, 0, 70000, UINT32_LIMIT}}
  \cup {[Act("PLAN") EXCEPT !.confidence = None], [Act("CALL_TOOL") EXCEPT !.params = Params, !.deadline_ms = None]}
  \cup {[Act(i) EXCEPT !.target = Long] : i \in {"PLAN", "CALL_MODEL"}} \cup {[Act("PLAN") EXCEPT !.target = Longer]}
  \cup {[Act(i) EXCEPT !.params = p] : i \in {"CALL_TOOL", "CALL_MODEL"}, p \in {Timeout(-1), Timeout(UINT32_LIMIT), LongTask, LongTool}}
  \cup {[Act("PLAN") EXCEPT !.metadata = m] : m \in {LongMeta(Long, C), LongMeta(C, Longer)}}
  \cup {[Act("PLAN") EXCEPT !.inputs = BigInt], [Act("PLAN") EXCEPT !.params = Biggest]}
  \cup {[Act("CALL_TOOL") EXCEPT !.params = p, !.stream = TRUE] : p \in {Params, Nameless, BigTool}}
  \cup {[Act("CALL_MODEL") EXCEPT !.params = p, !.inputs = Inputs] : p \in {Nameless, Big}}
  \cup {[Act("CLASSIFY") EXCEPT !.inputs = Text1, !.result = Label, !.confidence = c] : c \in {9000, 20000}}
  \cup {[Act("CANCEL") EXCEPT !.cancel = TRUE, !.metadata = Meta, !.params = Params, !.result = Label]}

(* JSON that says what is not a default. *)
Sparse(a) == Restrict(a, {f \in DOMAIN a : f = "intent" \/ a[f] # ModelAction[f]})
MCOutputs ==
  {[dict |-> Sparse(a)] : a \in MCActions}
  \cup {[dict |-> [intent |-> "SING"]], [dict |-> [target |-> Ab]],
        [text |-> << >>, words |-> {}], [text |-> <<104>>, words |-> {}],
        [text |-> <<104>>, words |-> {"RANK", "PLAN"}], [text |-> <<104>>, words |-> {"CALL_TOOL"}]}

MCGates == {[out |-> {"REASON"}, in |-> {}], [out |-> {}, in |-> {Spelled("REASON"), Ab}]}
MCGrammars == {[kind |-> "intents", intents |-> Intents, name |-> None],
               [kind |-> "intents", intents |-> {"RANK"}, name |-> None],
               [kind |-> "classify", intents |-> {"CLASSIFY"}, name |-> Ab],
               [kind |-> "tool", intents |-> {"CALL_TOOL"}, name |-> None],
               [kind |-> "tool", intents |-> {"CALL_TOOL"}, name |-> Ab]}
MCObservations == {[ModelObservation EXCEPT !.task = Ab, !.inputs = Text1],
                   [ModelObservation EXCEPT !.inputs = Dict(<<41>>, <<Entry(Ab, Str(C))>>),
                                            !.trace_id = Hex(4, FALSE)]}
MCResults ==
  {[ModelResult EXCEPT !.intent = "RETURN_RESULT", !.output = o] : o \in {Py("none", None), Str(Ab), Py("dict", Label), Py("int", 5)}}
  \cup {[ModelResult EXCEPT !.intent = "EMBED", !.error = e, !.tokens_used = 3, !.metadata = Meta,
                               !.confidence = 2000] : e \in {<< >>, C, Long}}
  \cup {[ModelResult EXCEPT !.intent = "RANK", !.metadata = m] : m \in {LongMeta(Long, C), LongMeta(C, Longer)}}
=============================================================================
