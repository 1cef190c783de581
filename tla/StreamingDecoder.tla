-------------------------- MODULE StreamingDecoder --------------------------
(***************************************************************************)
(* aicl/bin/streaming.py: packets found in a stream that arrives in chunks.*)
(*                                                                         *)
(* The stream is a sequence of cells.  A header is two of them, the magic  *)
(* and the rest, so that a chunk may end inside it; the rest says whether  *)
(* validate_header accepts it, how many cells of payload follow, whether a *)
(* trailer of one cell does, and whether decode accepts the packet.  Any   *)
(* other cell is only a kind; "magic" may be in a payload or in garbage.   *)
(***************************************************************************)
EXTENDS Integers, SequencesExt

CONSTANTS Cell, Streams,     \* cells, and the streams of them a peer may send
          max_packets_per_feed

ASSUME StreamAssumption == Streams \subseteq Seq(Cell)
ASSUME CellAssumption == \A c \in Cell : c.k = "header" => c.len \in Nat
ASSUME FeedAssumption == max_packets_per_feed \in Nat

VARIABLES stream, pos,       \* the stream and how much of it was fed
          _buf,
          out, fed,          \* history since the last clear: packets returned, cells fed
          last               \* what the last feed returned, and did it raise

decoderVars == <<stream, pos, _buf, out, fed, last>>

HEADER_SIZE == 2
HeaderIsValid(cell) == cell.k = "header" /\ cell.valid
PacketCells(h) == HEADER_SIZE + h.len + IF h.trailer THEN 1 ELSE 0

DecoderInit ==
  /\ stream \in Streams /\ pos = 0
  /\ _buf = << >> /\ out = << >> /\ fed = << >>
  /\ last = [packets |-> << >>, raised |-> FALSE]

(* Mutant: a header that is not valid ends the scan. *)
Pass_stop(b, s) ==
  LET found == {i \in s.scan .. Len(b) : b[i].k = "magic"}
      idx   == Min(found)
      end   == idx + PacketCells(b[idx + 1])
  IN  IF s.ended THEN s
      ELSE IF \/ s.scan + HEADER_SIZE - 1 > Len(b) \/ Len(s.packets) >= max_packets_per_feed
              \/ found = {} \/ idx + HEADER_SIZE - 1 > Len(b)
      THEN [s EXCEPT !.ended = TRUE]
      ELSE IF ~HeaderIsValid(b[idx + 1]) THEN [s EXCEPT !.ended = TRUE]
      ELSE IF Len(b) < end - 1 THEN [s EXCEPT !.trim = idx - 1, !.ended = TRUE]
      ELSE IF ~b[idx + 1].decodes THEN [s EXCEPT !.trim = 0, !.raised = TRUE, !.ended = TRUE]
      ELSE [s EXCEPT !.scan = end, !.packets = Append(@, b[idx + 1].id), !.trim = end - 1]

(* One pass of the loop of feed over the buffer.  The loop ends where the  *)
(* buffer, or the bound, does, at a packet that is not complete, or with   *)
(* the exception decode raised; trim is the number of cells that are       *)
(* deleted if it ends now.                                                 *)
Pass(b, s) ==
  LET found == {i \in s.scan .. Len(b) : b[i].k = "magic"}
      idx   == Min(found)
      end   == idx + PacketCells(b[idx + 1])
  IN  IF s.ended THEN s
      ELSE IF \/ s.scan + HEADER_SIZE - 1 > Len(b) \/ Len(s.packets) >= max_packets_per_feed
              \/ found = {} \/ idx + HEADER_SIZE - 1 > Len(b)
      THEN [s EXCEPT !.ended = TRUE]
      ELSE IF ~HeaderIsValid(b[idx + 1]) THEN [s EXCEPT !.scan = idx + 1]
      ELSE IF Len(b) < end - 1 THEN [s EXCEPT !.trim = idx - 1, !.ended = TRUE]
      ELSE IF ~b[idx + 1].decodes THEN [s EXCEPT !.trim = 0, !.raised = TRUE, !.ended = TRUE]
      ELSE [s EXCEPT !.scan = end, !.packets = Append(@, b[idx + 1].id), !.trim = end - 1]

(* The loop: every pass ends it or moves scan on, so one pass more than    *)
(* there are cells is enough.                                              *)
Start == [scan |-> 1, packets |-> << >>, trim |-> 0, raised |-> FALSE, ended |-> FALSE]
Passes(b) == LET after[n \in 0 .. Len(b) + 1] == IF n = 0 THEN Start ELSE Pass(b, after[n - 1])
             IN  after
Scan(b) == Passes(b)[Len(b) + 1]

(* Mutant: what was scanned and held no packet is dropped. *)
feed_drop(data) ==
  LET b == _buf \o data
      r == Scan(b)
  IN  /\ _buf' = IF r.trim = 0 /\ ~r.raised THEN << >> ELSE SubSeq(b, r.trim + 1, Len(b))
      /\ fed' = fed \o data
      /\ out' = IF r.raised THEN out ELSE out \o r.packets
      /\ last' = [packets |-> IF r.raised THEN << >> ELSE r.packets, raised |-> r.raised]

(* feed.  An exception leaves before the buffer is trimmed, and without    *)
(* the packets that were decoded before it.                                *)
feed(data) ==
  LET b == _buf \o data
      r == Scan(b)
  IN  /\ _buf' = SubSeq(b, r.trim + 1, Len(b))
      /\ fed' = fed \o data
      /\ out' = IF r.raised THEN out ELSE out \o r.packets
      /\ last' = [packets |-> IF r.raised THEN << >> ELSE r.packets, raised |-> r.raised]

(* A chunk of any size, also an empty one. *)
Receive(n) == /\ feed(SubSeq(stream, pos + 1, pos + n))
              /\ pos' = pos + n
              /\ UNCHANGED stream

clear == /\ _buf' = << >> /\ out' = << >> /\ fed' = << >>
         /\ last' = [packets |-> << >>, raised |-> FALSE]
         /\ UNCHANGED <<stream, pos>>

DecoderNext == (\E n \in 0 .. Len(stream) - pos : Receive(n)) \/ clear

DecoderSpec == DecoderInit /\ [][DecoderNext]_decoderVars

----------------------------------------------------------------------------
(* The packets of a sequence of cells, read as a whole: from the first     *)
(* valid header on, up to one that is not complete or does not decode.     *)
Heads(s, from) == {i \in from .. Len(s) - 1 : s[i].k = "magic" /\ HeaderIsValid(s[i + 1])}
PacketsAfter(s, i, rest) ==
  LET h   == s[Min(Heads(s, i)) + 1]
      end == Min(Heads(s, i)) + PacketCells(h) - 1
  IN  IF Heads(s, i) = {} THEN << >>
      ELSE IF end > Len(s) \/ ~h.decodes THEN << >>
      ELSE <<h.id>> \o rest[end + 1]
PacketsFrom(s) == LET from[i \in 1 .. Len(s) + 1] == PacketsAfter(s, i, from) IN from
PacketsOf(s) == PacketsFrom(s)[1]

(* "Feed raw bytes in any chunk size": however the stream is cut, what was *)
(* returned and what the buffer still holds are the packets of all that    *)
(* was fed, each once and in order, also after an exception.               *)
NothingLost == out \o PacketsOf(_buf) = PacketsOf(fed)

(* A complete packet stays in the buffer only when the feed stopped at its *)
(* bound, or when it raised at a packet further on whose header is valid   *)
(* and whose payload or checksum is not: then nothing comes out any more   *)
(* until clear.                                                            *)
HeldBack ==
  /\ PacketsOf(_buf) # << >> => last.raised \/ Len(last.packets) = max_packets_per_feed
  /\ last.raised => \E i \in DOMAIN fed : HeaderIsValid(fed[i]) /\ ~fed[i].decodes
=============================================================================
