------------------------------ MODULE MCCodec ------------------------------
(* TLC instances of Semantic, with the binary codec below it, and of       *)
(* StreamingDecoder, with every stream of up to three segments.  They      *)
(* share no variable, so each is checked on its own: a behaviour moves the *)
(* one that `part` names, and the other stays in one initial state.        *)
EXTENDS MCSemantic, StreamingDecoder

VARIABLE part

Plainly(k) == [k |-> k]
Header(id, valid, len, trailer, decodes) ==
  <<Plainly("magic"),
    [k |-> "header", id |-> id, valid |-> valid, len |-> len, trailer |-> trailer, decodes |-> decodes]>>

(* Garbage, packets without and with a trailer, one that carries another,  *)
(* one whose header was damaged and that carries another, and one that     *)
(* does not decode.                                                        *)
Segments(id) ==
  {<<Plainly("junk")>>, <<Plainly("magic"), Plainly("junk")>>,
   Header(id, TRUE, 1, FALSE, TRUE) \o <<Plainly("data")>>,
   Header(id, TRUE, 1, TRUE, TRUE) \o <<Plainly("magic"), Plainly("crc")>>,
   Header(id, TRUE, 2, FALSE, TRUE) \o Header(10 + id, TRUE, 0, FALSE, TRUE),
   Header(id, FALSE, 2, FALSE, TRUE) \o Header(10 + id, TRUE, 0, FALSE, TRUE),
   Header(id, TRUE, 1, FALSE, FALSE) \o <<Plainly("data")>>}

MCCell == UNION {Range(s) : s \in UNION {Segments(id) : id \in 1 .. 3}}
MCStreams == {a \o b \o c : a \in Segments(1), b \in Segments(2), c \in Segments(3)}

CodecInit == /\ SInit /\ DecoderInit /\ part \in {"packets", "stream"}
             /\ part = "packets" => stream = CHOOSE s \in Streams : TRUE
CodecNext == /\ \/ part = "packets" /\ SNext /\ UNCHANGED decoderVars
                \/ part = "stream" /\ DecoderNext /\ UNCHANGED svars
             /\ UNCHANGED part

CodecSpec == CodecInit /\ [][CodecNext]_<<svars, decoderVars, part>>
=============================================================================
