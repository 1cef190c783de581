--------------------------- MODULE RuntimeProofs ---------------------------
(* Proofs about Runtime for every set of sessions, capacity and bound, and *)
(* about the InProcChannel pairs that its sessions run over.               *)
EXTENDS Runtime, InProcChannel, SequenceTheorems, NatLemmas

(* The first key of a map that has one is one of its keys. *)
LEMMA FirstMember ==
  ASSUME NEW S, S \subseteq Nat, S # {}
  PROVE  First(S) \in S
<1>1. \E x \in S : \A y \in S : x <= y
  BY LeastNatural
<1> QED
  BY <1>1 DEF First

(* The frames are what TypeOK says, and 0 is no session. *)
LEMMA FrameTypes ==
  /\ \A n \in Nat, r \in Refs : Request(n, r) \in Frames
  /\ \A n \in Nat : Response(n) \in Frames
  /\ Junk \in Frames
  /\ NoSid \notin Sid /\ NoRef \in Refs
  BY SidAssumption DEF Request, Response, Junk, Frames, Refs, NoSid, NoRef

(* A step keeps the types of the variables and what Dispatch established. *)
LEMMA TypeStep == TypeOK /\ DispatchAllowed /\ [Next]_vars => TypeOK' /\ DispatchAllowed'
<1> SUFFICES ASSUME TypeOK, DispatchAllowed, [Next]_vars PROVE TypeOK' /\ DispatchAllowed'
  OBVIOUS
<1>0. MaxCaps \in Nat /\ MaxJunk \in Nat /\ ChannelCap \in Nat
  BY BoundAssumption
<1> USE SidAssumption, <1>0 DEF TypeOK, DispatchAllowed, Open
<1>1. CASE register_capability
  BY <1>1 DEF register_capability, sessions, peers, history
<1>2. ASSUME NEW s \in Sid, create_session(s) PROVE TypeOK' /\ DispatchAllowed'
  BY <1>2 DEF create_session, runtime, peers, history
<1>3. ASSUME NEW s \in Sid, close_session(s) PROVE TypeOK' /\ DispatchAllowed'
  BY <1>3 DEF close_session, runtime, peers, history
<1>4. ASSUME NEW p \in Packets, Dispatch(p) PROVE TypeOK' /\ DispatchAllowed'
  <2>1. Open # {} => First(Open) \in Open
    BY FirstMember
  <2>2. CASE GateAllows(p) /\ p.ref # NoRef /\ Open # {}
    BY <1>4, <2>1, <2>2 DEF Dispatch, GateAllows, sessions, peers, history
  <2>3. CASE ~ (GateAllows(p) /\ p.ref # NoRef /\ Open # {})
    BY <1>4, <2>3 DEF Dispatch, sessions, peers, history
  <2> QED BY <2>2, <2>3
<1>5. CASE DispatchSend
  <2>0. sid \in Sid /\ rpc = "send"
    BY <1>5 DEF DispatchSend
  <2>1. pkt.ref \in Refs /\ seq_sent[sid] + 1 \in Nat
    BY <2>0 DEF Packets
  <2>2. Append(toPeer[sid], Request(seq_sent[sid] + 1, pkt.ref)) \in Seq(Frames)
    BY <2>0, <2>1, FrameTypes, AppendProperties
  <2> QED BY <1>5, <2>0, <2>1, <2>2 DEF DispatchSend, peers
<1>6. CASE DispatchRecv
  <2>1. sid \in Sid /\ seq_received[sid] + 1 \in Nat /\ missed[sid] + 1 \in Nat
    BY <1>6 DEF DispatchRecv
  <2>2. (IF fromPeer[sid] = << >> THEN fromPeer[sid] ELSE Tail(fromPeer[sid])) \in Seq(Frames)
    BY <2>1, HeadTailProperties
  <2>3. ASSUME fromPeer[sid] # << >> PROVE Answer(Head(fromPeer[sid])) \in Answers
    <3>1. Head(fromPeer[sid]) \in Frames
      BY <2>1, <2>3, HeadTailProperties
    <3>2. Head(fromPeer[sid]).n \in Nat
      BY <3>1 DEF Frames
    <3> QED BY <2>1, <3>2 DEF Answer, Answers
  <2> QED BY <1>6, <2>1, <2>2, <2>3 DEF DispatchRecv, peers
<1>7. CASE Tick
  BY <1>7 DEF Tick, sessions, peers, history
<1>8. CASE TickSession
  <2>1. First(ticking) \in ticking /\ First(ticking) \in Sid
    BY <1>8, FirstMember DEF TickSession
  <2>2. \A q \in Seq(Frames) : (IF q = << >> THEN q ELSE Tail(q)) \in Seq(Frames)
    BY HeadTailProperties
  <2> QED BY <1>8, <2>1, <2>2 DEF TickSession, sessions, peers, history
<1>9. ASSUME NEW s \in Sid, PeerTake(s) PROVE TypeOK' /\ DispatchAllowed'
  <2>1. Head(toPeer[s]).n \in Nat /\ Tail(toPeer[s]) \in Seq(Frames)
    <3>1. Head(toPeer[s]) \in Frames /\ Tail(toPeer[s]) \in Seq(Frames)
      BY <1>9, HeadTailProperties DEF PeerTake
    <3> QED BY <3>1 DEF Frames
  <2>2. Append(todo[s], Head(toPeer[s]).n) \in Seq(Nat)
    BY <2>1, AppendProperties
  <2> QED BY <1>9, <2>1, <2>2 DEF PeerTake, runtime, sessions, history
<1>10. ASSUME NEW s \in Sid, PeerAnswer(s) PROVE TypeOK' /\ DispatchAllowed'
  <2>1. Head(todo[s]) \in Nat /\ Tail(todo[s]) \in Seq(Nat)
    BY <1>10, HeadTailProperties DEF PeerAnswer
  <2>2. Append(fromPeer[s], Response(Head(todo[s]))) \in Seq(Frames)
    BY <2>1, FrameTypes, AppendProperties
  <2> QED BY <1>10, <2>1, <2>2 DEF PeerAnswer, runtime, sessions, history
<1>11. ASSUME NEW s \in Sid, PeerJunk(s) PROVE TypeOK' /\ DispatchAllowed'
  <2>1. Append(fromPeer[s], Junk) \in Seq(Frames)
    BY FrameTypes, AppendProperties
  <2>2. fromPeer' \in [Sid -> Seq(Frames)] /\ junk' \in Nat
    BY <1>11, <2>1 DEF PeerJunk
  <2> QED BY <1>11, <2>2 DEF PeerJunk, runtime, sessions, history
<1>12. CASE UNCHANGED vars
  BY <1>12 DEF vars, runtime, sessions, peers, history
<1> QED
  BY <1>1, <1>2, <1>3, <1>4, <1>5, <1>6, <1>7, <1>8, <1>9, <1>10, <1>11, <1>12 DEF Next

----------------------------------------------------------------------------
(* What a session's queues and counters promise, without the types. *)
PipeInv == DispatchesCounted /\ PipelineInOrder /\ AnswersInOrder /\ LagBounded

(* Taking the front of a queue, if there is one, shifts the rest by one. *)
LEMMA FrontTaken ==
  ASSUME NEW S, NEW q \in Seq(S), NEW r, r = IF q = << >> THEN q ELSE Tail(q)
  PROVE  \E d \in {0, 1} : /\ Len(r) = Len(q) - d /\ (q # << >> => d = 1)
                           /\ \A i \in 1 .. Len(r) : i + d \in 1 .. Len(q) /\ r[i] = q[i + d]
<1>1. CASE q = << >>
  BY <1>1
<1>2. CASE q # << >>
  BY <1>2, HeadTailProperties
<1> QED BY <1>1, <1>2

(* A session that a step leaves alone stays in order. *)
LEMMA SessionAlone ==
  ASSUME NEW s, InOrder(s),
         seq_sent'[s] = seq_sent[s], seq_received'[s] = seq_received[s],
         toPeer'[s] = toPeer[s], fromPeer'[s] = fromPeer[s], todo'[s] = todo[s]
  PROVE  InOrder(s)'
  BY DEF InOrder, Responded, Responses

(* An answer stays past when its session is left alone. *)
LEMMA AnswerAlone ==
  ASSUME NEW a, Past(a), Awaited(a.sid)' = Awaited(a.sid),
         seq_sent'[a.sid] = seq_sent[a.sid],
         toPeer'[a.sid] = toPeer[a.sid], fromPeer'[a.sid] = fromPeer[a.sid],
         todo'[a.sid] = todo[a.sid]
  PROVE  Past(a)'
  BY DEF Past, Responded, Responses

(* A step that moves no frame and no counter keeps the pipelines. *)
LEMMA QuietStep ==
  ASSUME PipeInv, TypeOK, \A s \in Sid : Awaited(s)' = Awaited(s),
         UNCHANGED <<seq_sent, seq_received, toPeer, fromPeer, todo, missed, answers>>
  PROVE  PipeInv'
<1>1. \A s \in Sid : InOrder(s)'
  BY SessionAlone DEF PipeInv, PipelineInOrder
<1>2. \A a \in answers : a.sid \in Sid
  BY DEF TypeOK, Answers
<1>3. \A a \in answers : Past(a)'
  BY <1>2, AnswerAlone DEF PipeInv, PipelineInOrder
<1>4. DispatchesCounted'
  BY DEF PipeInv, DispatchesCounted
<1> QED
  BY <1>1, <1>3, <1>4 DEF PipeInv, PipelineInOrder, AnswersInOrder, LagBounded

(* A request takes the next number, at the end of the pipeline. *)
LEMMA SendStep == TypeOK /\ DispatchAllowed /\ PipeInv /\ DispatchSend => PipeInv'
<1> SUFFICES ASSUME TypeOK, DispatchAllowed, PipeInv, DispatchSend PROVE PipeInv'
  OBVIOUS
<1>1. sid \in Sid /\ rpc = "send"
  BY DEF DispatchSend, DispatchAllowed, Open
<1>2. CASE Len(toPeer[sid]) >= ChannelCap
  <2>1. \A s \in Sid : Awaited(s)' = Awaited(s)
    BY <1>1, <1>2 DEF DispatchSend, Awaited
  <2> QED BY <1>2, <2>1, QuietStep DEF DispatchSend, peers
<1>3. CASE ~ (Len(toPeer[sid]) >= ChannelCap)
  <2> DEFINE n == seq_sent[sid] + 1
             f == Request(n, pkt.ref)
  <2>1. /\ toPeer' = [toPeer EXCEPT ![sid] = Append(toPeer[sid], f)]
        /\ seq_sent' = [seq_sent EXCEPT ![sid] = n] /\ rpc' = "recv"
        /\ UNCHANGED <<sid, seq_received, fromPeer, todo, missed, answers>>
    BY <1>3 DEF DispatchSend, peers
  <2>2. f \in Frames /\ f.n = n /\ n \in Nat
    <3>1. pkt.ref \in Refs /\ n \in Nat
      BY <1>1 DEF TypeOK, Packets
    <3> QED BY <3>1, FrameTypes DEF Request
  <2> HIDE DEF n, f
  <2>3. /\ toPeer'[sid] = Append(toPeer[sid], f) /\ seq_sent'[sid] = seq_sent[sid] + 1
        /\ \A s \in Sid \ {sid} : toPeer'[s] = toPeer[s] /\ seq_sent'[s] = seq_sent[s]
    BY <1>1, <2>1 DEF TypeOK, n
  <2>4. /\ Len(toPeer'[sid]) = Len(toPeer[sid]) + 1
        /\ \A i \in 1 .. Len(toPeer[sid]) : toPeer'[sid][i] = toPeer[sid][i]
        /\ toPeer'[sid][Len(toPeer[sid]) + 1] = f
    BY <1>1, <2>2, <2>3, AppendProperties DEF TypeOK
  <2>5. Len(toPeer[sid]) \in Nat /\ Len(todo[sid]) \in Nat /\ seq_sent[sid] \in Nat
    BY <1>1 DEF TypeOK
  <2>6. Responded(sid)' = Responded(sid)
    BY <2>1, <2>3, <2>4, <2>5 DEF Responded
  <2>7. InOrder(sid)'
    <3>1. f.n = Responded(sid) + Len(todo[sid]) + Len(toPeer[sid]) + 1
      BY <2>2, <2>5 DEF Responded, n
    <3>2. InOrder(sid)
      BY <1>1 DEF PipeInv, PipelineInOrder
    <3>3. \A i \in 1 .. Len(toPeer'[sid]) :
            toPeer'[sid][i].n = Responded(sid) + Len(todo[sid]) + i
      <4>1. Responded(sid) \in Int
        BY <2>5 DEF Responded
      <4>2. ASSUME NEW i \in 1 .. Len(toPeer[sid])
            PROVE  toPeer'[sid][i].n = Responded(sid) + Len(todo[sid]) + i
        BY <2>4, <3>2 DEF InOrder
      <4>3. toPeer'[sid][Len(toPeer[sid]) + 1].n = Responded(sid) + Len(todo[sid]) + (Len(toPeer[sid]) + 1)
        <5>1. toPeer'[sid][Len(toPeer[sid]) + 1].n = f.n
          BY <2>4
        <5>2. Responded(sid) + Len(todo[sid]) + Len(toPeer[sid]) + 1
                = Responded(sid) + Len(todo[sid]) + (Len(toPeer[sid]) + 1)
          BY <2>5, <4>1
        <5> QED BY <3>1, <5>1, <5>2
      <4>4. \A i \in 1 .. Len(toPeer'[sid]) :
              i \in 1 .. Len(toPeer[sid]) \/ i = Len(toPeer[sid]) + 1
        BY <2>4, <2>5
      <4> QED BY <4>2, <4>3, <4>4
    <3> QED BY <2>1, <2>6, <3>2, <3>3 DEF InOrder, Responses
  <2>8. \A s \in Sid : InOrder(s)'
    BY <2>1, <2>3, <2>7, SessionAlone DEF PipeInv, PipelineInOrder
  <2>9. ASSUME NEW a \in answers PROVE Past(a)'
    <3>1. a.sid \in Sid /\ a.request \in Nat /\ Past(a)
      BY DEF TypeOK, Answers, PipeInv, PipelineInOrder
    <3>2. CASE a.sid = sid
      <4>1. Awaited(sid) = 0 /\ Awaited(sid)' = 1
        BY <1>1, <2>1 DEF Awaited
      <4> QED BY <2>1, <2>3, <2>5, <2>6, <3>1, <3>2, <4>1 DEF Past, Responses
    <3>3. CASE a.sid # sid
      <4>1. Awaited(a.sid)' = Awaited(a.sid)
        BY <2>1, <3>3 DEF Awaited
      <4> QED BY <2>1, <2>3, <3>1, <3>3, <4>1, AnswerAlone
    <3> QED BY <3>2, <3>3
  <2>10. DispatchesCounted'
    <3> SUFFICES ASSUME NEW s \in Sid
                 PROVE  seq_sent'[s] = seq_received'[s] + missed'[s] + Awaited(s)'
      BY DEF DispatchesCounted
    <3>1. seq_received[s] \in Nat /\ missed[s] \in Nat
          /\ seq_sent[s] = seq_received[s] + missed[s] + Awaited(s)
      BY DEF TypeOK, PipeInv, DispatchesCounted
    <3>2. Awaited(s) = 0 /\ Awaited(s)' = IF s = sid THEN 1 ELSE 0
      BY <1>1, <2>1 DEF Awaited
    <3> QED BY <2>1, <2>3, <3>1, <3>2
  <2> QED
    BY <2>1, <2>8, <2>9, <2>10 DEF PipeInv, PipelineInOrder, AnswersInOrder, LagBounded
<1> QED BY <1>2, <1>3

(* Losing the front of a queue, as tick does, keeps the order of the rest. *)
LEMMA FrontInOrder ==
  ASSUME NEW s \in Sid, TypeOK, InOrder(s),
         fromPeer'[s] = (IF fromPeer[s] = << >> THEN fromPeer[s] ELSE Tail(fromPeer[s])),
         UNCHANGED <<seq_sent, toPeer, todo>>
  PROVE  /\ Responded(s)' = Responded(s)
         /\ seq_received'[s] = seq_received[s] => InOrder(s)'
         /\ fromPeer[s] # << >> /\ Head(fromPeer[s]).kind # "junk"
              => LET h == Head(fromPeer[s]).n
                 IN  /\ h \in seq_received[s] + 1 .. Responded(s) /\ 1 \in Responses(s)
                     /\ fromPeer[s][1].n = h
                     /\ \A i \in Responses(s)' : fromPeer'[s][i].n \in h + 1 .. Responded(s)
         /\ \A i \in Responses(s)' : \E j \in Responses(s) : fromPeer'[s][i] = fromPeer[s][j]
         /\ \A i, j \in Responses(s)' : i < j => fromPeer'[s][i].n < fromPeer'[s][j].n
         /\ \A i \in 1 .. Len(fromPeer'[s]) : fromPeer'[s][i].kind \in {"response", "junk"}
<1>1. PICK d \in {0, 1} :
        /\ Len(fromPeer'[s]) = Len(fromPeer[s]) - d /\ (fromPeer[s] # << >> => d = 1)
        /\ \A i \in 1 .. Len(fromPeer'[s]) : /\ i + d \in 1 .. Len(fromPeer[s])
                                             /\ fromPeer'[s][i] = fromPeer[s][i + d]
  <2>1. fromPeer[s] \in Seq(Frames)
    BY DEF TypeOK
  <2> QED BY <2>1, FrontTaken
<1>2. Len(fromPeer[s]) \in Nat /\ Len(fromPeer'[s]) \in Int
  BY <1>1 DEF TypeOK
<1>3. Responded(s)' = Responded(s)
  BY DEF Responded
<1>4. ASSUME NEW i \in Responses(s)'
      PROVE  i + d \in Responses(s) /\ i \in Nat /\ fromPeer'[s][i] = fromPeer[s][i + d]
  BY <1>1, <1>2 DEF Responses
<1>5. ASSUME NEW i \in Responses(s)', NEW j \in Responses(s)', i < j
      PROVE  fromPeer'[s][i].n < fromPeer'[s][j].n
  <2>1. /\ i + d \in Responses(s) /\ j + d \in Responses(s) /\ i \in Nat /\ j \in Nat
        /\ fromPeer'[s][i] = fromPeer[s][i + d] /\ fromPeer'[s][j] = fromPeer[s][j + d]
    BY <1>4, Zenon
  <2>2. i + d < j + d
    BY <1>5, <2>1
  <2> QED BY <2>1, <2>2 DEF InOrder
<1>6. \A i \in 1 .. Len(fromPeer'[s]) : fromPeer'[s][i].kind \in {"response", "junk"}
  BY <1>1 DEF InOrder
<1>7. ASSUME seq_received'[s] = seq_received[s] PROVE InOrder(s)'
  <2>1. \A i \in Responses(s)' : fromPeer'[s][i].n \in seq_received[s] + 1 .. Responded(s)
    BY <1>4 DEF InOrder
  <2> QED BY <1>3, <1>5, <1>6, <1>7, <2>1 DEF InOrder
<1>8. ASSUME fromPeer[s] # << >>, Head(fromPeer[s]).kind # "junk"
      PROVE  /\ Head(fromPeer[s]).n \in seq_received[s] + 1 .. Responded(s) /\ 1 \in Responses(s)
             /\ fromPeer[s][1].n = Head(fromPeer[s]).n
             /\ \A i \in Responses(s)' : fromPeer'[s][i].n \in Head(fromPeer[s]).n + 1 .. Responded(s)
  <2>1. Head(fromPeer[s]) = fromPeer[s][1] /\ 1 \in 1 .. Len(fromPeer[s])
    BY <1>2, <1>8 DEF TypeOK
  <2>2. 1 \in Responses(s)
    BY <1>8, <2>1 DEF InOrder, Responses
  <2>3. fromPeer[s][1].n \in seq_received[s] + 1 .. Responded(s)
    BY <2>2 DEF InOrder
  <2>4. ASSUME NEW i \in Responses(s)'
        PROVE  fromPeer'[s][i].n \in fromPeer[s][1].n + 1 .. Responded(s)
    <3>1. i + 1 \in Responses(s) /\ fromPeer'[s][i] = fromPeer[s][i + 1] /\ i \in Nat /\ 1 < i + 1
      BY <1>1, <1>4, <1>8 DEF Responses
    <3>2. fromPeer[s][1].n < fromPeer[s][i + 1].n
      BY <2>2, <3>1 DEF InOrder
    <3>3. fromPeer[s][i + 1].n \in seq_received[s] + 1 .. Responded(s)
      BY <3>1 DEF InOrder
    <3>4. seq_received[s] \in Nat /\ Responded(s) \in Int
      BY DEF TypeOK, Responded
    <3>5. fromPeer[s][i + 1].n \in fromPeer[s][1].n + 1 .. Responded(s)
      BY <2>3, <3>2, <3>3, <3>4
    <3> QED BY <3>1, <3>5
  <2> QED BY <2>1, <2>2, <2>3, <2>4
<1> QED BY <1>3, <1>4, <1>5, <1>6, <1>7, <1>8

(* The response dispatch_packet takes is newer than those before it, and   *)
(* as old as the responses that came too late for their own dispatch.      *)
LEMMA RecvStep == TypeOK /\ DispatchAllowed /\ PipeInv /\ DispatchRecv => PipeInv'
<1> SUFFICES ASSUME TypeOK, DispatchAllowed, PipeInv, DispatchRecv PROVE PipeInv'
  OBVIOUS
<1>1. sid \in Sid /\ rpc = "recv" /\ rpc' = "idle"
  BY DEF DispatchRecv, DispatchAllowed, Open
<1>2. /\ fromPeer'[sid] = (IF fromPeer[sid] = << >> THEN fromPeer[sid] ELSE Tail(fromPeer[sid]))
      /\ \A s \in Sid \ {sid} : fromPeer'[s] = fromPeer[s]
      /\ UNCHANGED <<sid, seq_sent, toPeer, todo>>
  BY <1>1 DEF DispatchRecv, TypeOK, peers
<1>3. \A s \in Sid : Awaited(s) = (IF s = sid THEN 1 ELSE 0) /\ Awaited(s)' = 0
  BY <1>1 DEF Awaited
<1>4. InOrder(sid) /\ \A s \in Sid : InOrder(s)
  BY <1>1 DEF PipeInv, PipelineInOrder
<1>5. /\ seq_sent[sid] \in Nat /\ seq_received[sid] \in Nat /\ missed[sid] \in Nat
      /\ seq_sent[sid] = seq_received[sid] + missed[sid] + 1 /\ Responded(sid) \in Int
      /\ Responded(sid) <= seq_sent[sid]
  BY <1>1, <1>3 DEF TypeOK, PipeInv, DispatchesCounted, Responded
<1>6. ASSUME NEW a \in answers PROVE Past(a)' /\ a.sid \in Sid /\ a.request \in Nat /\ a.answered \in Nat
  <2>1. a.sid \in Sid /\ a.request \in Nat /\ a.answered \in Nat /\ Past(a)
    BY DEF TypeOK, Answers, PipeInv, PipelineInOrder
  <2>2. CASE a.sid = sid
    <3>1. Responded(a.sid)' = Responded(a.sid)
          /\ \A i \in Responses(a.sid)' : \E j \in Responses(a.sid) :
               fromPeer'[a.sid][i] = fromPeer[a.sid][j]
      BY <1>2, <1>4, <2>1, <2>2, FrontInOrder
    <3>2. \A i \in Responses(a.sid)' : a.answered < fromPeer'[a.sid][i].n
      BY <2>1, <3>1 DEF Past
    <3>3. Awaited(a.sid)' = 0 /\ Awaited(a.sid) = 1
      BY <1>3, <2>1, <2>2
    <3>4. a.request + 0 <= seq_sent[a.sid]
      BY <1>1, <1>5, <2>1, <2>2, <3>3 DEF Past
    <3> QED BY <1>2, <2>1, <3>1, <3>2, <3>3, <3>4 DEF Past
  <2>3. CASE a.sid # sid
    BY <1>2, <1>3, <2>1, <2>3, AnswerAlone
  <2> QED BY <2>1, <2>2, <2>3
<1>7. CASE fromPeer[sid] # << >> /\ Head(fromPeer[sid]).kind # "junk"
  <2>0. PICK h, b : h = Head(fromPeer[sid]).n /\ b = Answer(Head(fromPeer[sid]))
    OBVIOUS
  <2>1. /\ seq_received' = [seq_received EXCEPT ![sid] = seq_received[sid] + 1]
        /\ answers' = answers \cup {b} /\ missed' = missed
    BY <1>7, <2>0 DEF DispatchRecv
  <2>2. /\ Responded(sid)' = Responded(sid) /\ h \in seq_received[sid] + 1 .. Responded(sid)
        /\ 1 \in Responses(sid) /\ fromPeer[sid][1].n = h
        /\ \A i \in Responses(sid)' : fromPeer'[sid][i].n \in h + 1 .. Responded(sid)
        /\ \A i, j \in Responses(sid)' : i < j => fromPeer'[sid][i].n < fromPeer'[sid][j].n
        /\ \A i \in 1 .. Len(fromPeer'[sid]) : fromPeer'[sid][i].kind \in {"response", "junk"}
    BY <1>1, <1>2, <1>4, <1>7, <2>0, FrontInOrder
  <2>3. b.sid = sid /\ b.request = seq_sent[sid] /\ b.answered = h /\ b.missed = missed[sid]
    BY <2>0 DEF Answer
  <2>4. seq_received'[sid] = seq_received[sid] + 1
        /\ \A s \in Sid \ {sid} : seq_received'[s] = seq_received[s]
    BY <1>1, <2>1 DEF TypeOK
  <2>5. InOrder(sid)'
    <3>1. seq_received'[sid] <= Responded(sid)
      BY <1>5, <2>2, <2>4
    <3>2. \A i \in Responses(sid)' : fromPeer'[sid][i].n \in seq_received'[sid] + 1 .. Responded(sid)
      BY <1>5, <2>2, <2>4
    <3> QED BY <1>2, <1>4, <2>2, <3>1, <3>2 DEF InOrder
  <2>6. \A s \in Sid : InOrder(s)'
    BY <1>2, <1>4, <2>4, <2>5, SessionAlone
  <2>7. Past(b)'
    <3>1. \A i \in Responses(sid)' : h < fromPeer'[sid][i].n
      BY <1>5, <2>2
    <3>2. h <= Responded(sid)
      BY <1>5, <2>2
    <3>3. Awaited(sid)' = 0 /\ b.request + 0 <= seq_sent'[sid]
      BY <1>1, <1>2, <1>3, <1>5, <2>3
    <3> QED BY <1>2, <2>2, <2>3, <3>1, <3>2, <3>3 DEF Past, Responded, Responses, Awaited
  <2>8. DispatchesCounted'
    <3> SUFFICES ASSUME NEW s \in Sid
                 PROVE  seq_sent'[s] = seq_received'[s] + missed'[s] + Awaited(s)'
      BY DEF DispatchesCounted
    <3>1. seq_received[s] \in Nat /\ missed[s] \in Nat
          /\ seq_sent[s] = seq_received[s] + missed[s] + Awaited(s)
      BY DEF TypeOK, PipeInv, DispatchesCounted
    <3> QED BY <1>2, <1>3, <2>1, <2>4, <3>1
  <2>9. AnswersInOrder'
    <3>1. ASSUME NEW a \in answers, a.sid = sid PROVE a.request < b.request /\ a.answered < b.answered
      <4>1. Past(a) /\ a.request \in Nat
        BY <1>6 DEF PipeInv, PipelineInOrder
      <4>2. a.request + 1 <= seq_sent[sid]
        BY <1>1, <1>3, <3>1, <4>1 DEF Past
      <4>3. a.answered < h
        BY <2>2, <3>1, <4>1 DEF Past
      <4> QED BY <1>5, <2>3, <4>1, <4>2, <4>3
    <3>2. ASSUME NEW a \in answers \cup {b}, NEW c \in answers \cup {b},
                 a.sid = c.sid, a.request < c.request
          PROVE  a.answered < c.answered
      <4>1. CASE a \in answers /\ c \in answers
        BY <3>2, <4>1 DEF PipeInv, AnswersInOrder
      <4>2. CASE a \in answers /\ c = b
        BY <2>3, <3>1, <3>2, <4>2
      <4>3. CASE a = b /\ c \in answers
        <5>1. c.request < b.request /\ b.request < c.request
          BY <2>3, <3>1, <3>2, <4>3
        <5>2. c.request \in Nat /\ b.request \in Nat
          BY <1>5, <1>6, <2>3, <4>3
        <5> QED BY <5>1, <5>2
      <4>4. CASE a = b /\ c = b
        BY <1>5, <2>3, <3>2, <4>4
      <4> QED BY <4>1, <4>2, <4>3, <4>4
    <3> QED BY <2>1, <3>2 DEF AnswersInOrder
  <2>10. LagBounded'
    <3>1. b.request - b.answered \in 0 .. b.missed
      BY <1>5, <2>2, <2>3
    <3> QED BY <2>1, <3>1 DEF LagBounded, PipeInv
  <2> QED BY <1>6, <2>1, <2>6, <2>7, <2>8, <2>9, <2>10 DEF PipeInv, PipelineInOrder
<1>8. CASE ~ (fromPeer[sid] # << >> /\ Head(fromPeer[sid]).kind # "junk")
  <2>1. /\ missed' = [missed EXCEPT ![sid] = missed[sid] + 1]
        /\ seq_received' = seq_received /\ answers' = answers
    BY <1>8 DEF DispatchRecv
  <2>2. InOrder(sid)'
    BY <1>1, <1>2, <1>4, <2>1, FrontInOrder
  <2>3. \A s \in Sid : InOrder(s)'
    BY <1>2, <1>4, <2>1, <2>2, SessionAlone
  <2>4. DispatchesCounted'
    <3> SUFFICES ASSUME NEW s \in Sid
                 PROVE  seq_sent'[s] = seq_received'[s] + missed'[s] + Awaited(s)'
      BY DEF DispatchesCounted
    <3>1. seq_received[s] \in Nat /\ missed[s] \in Nat
          /\ seq_sent[s] = seq_received[s] + missed[s] + Awaited(s)
      BY DEF TypeOK, PipeInv, DispatchesCounted
    <3>2. missed'[s] = missed[s] + IF s = sid THEN 1 ELSE 0
      BY <1>1, <2>1, <3>1 DEF TypeOK
    <3> QED BY <1>2, <1>3, <2>1, <3>1, <3>2
  <2> QED
    BY <1>6, <2>1, <2>3, <2>4 DEF PipeInv, PipelineInOrder, AnswersInOrder, LagBounded
<1> QED BY <1>7, <1>8

(* tick drops frames, and that only skips numbers. *)
LEMMA TickStep == TypeOK /\ DispatchAllowed /\ PipeInv /\ TickSession => PipeInv'
<1> SUFFICES ASSUME TypeOK, DispatchAllowed, PipeInv, TickSession PROVE PipeInv'
  OBVIOUS
<1>0. PICK s : s = First(ticking)
  OBVIOUS
<1>1. s \in Sid /\ rpc = "tick" /\ rpc' \in {"idle", "tick"}
  <2>1. ticking # {} /\ ticking \subseteq Nat /\ ticking \subseteq Sid
    BY SidAssumption DEF TickSession, DispatchAllowed, TypeOK, Open
  <2> QED BY <1>0, <2>1, FirstMember DEF TickSession
<1>2. /\ fromPeer'[s] = (IF fromPeer[s] = << >> THEN fromPeer[s] ELSE Tail(fromPeer[s]))
      /\ \A t \in Sid \ {s} : fromPeer'[t] = fromPeer[t]
      /\ UNCHANGED <<sid, seq_sent, seq_received, toPeer, todo, missed, answers>>
  BY <1>0, <1>1 DEF TickSession, TypeOK, sessions, peers, history
<1>3. \A t : Awaited(t) = 0 /\ Awaited(t)' = 0
  BY <1>1 DEF Awaited
<1>4. /\ InOrder(s)' /\ Responded(s)' = Responded(s)
      /\ \A i \in Responses(s)' : \E j \in Responses(s) : fromPeer'[s][i] = fromPeer[s][j]
  <2>1. InOrder(s)
    BY <1>1 DEF PipeInv, PipelineInOrder
  <2> QED BY <1>1, <1>2, <2>1, FrontInOrder
<1>5. \A t \in Sid : InOrder(t)'
  BY <1>2, <1>4, SessionAlone DEF PipeInv, PipelineInOrder
<1>6. ASSUME NEW a \in answers PROVE Past(a)'
  <2>1. a.sid \in Sid /\ Past(a)
    BY DEF TypeOK, Answers, PipeInv, PipelineInOrder
  <2>2. CASE a.sid = s
    BY <1>2, <1>3, <1>4, <2>1, <2>2 DEF Past
  <2>3. CASE a.sid # s
    BY <1>2, <1>3, <2>1, <2>3, AnswerAlone
  <2> QED BY <2>2, <2>3
<1>7. DispatchesCounted'
  BY <1>2, <1>3 DEF PipeInv, DispatchesCounted
<1> QED
  BY <1>2, <1>5, <1>6, <1>7 DEF PipeInv, PipelineInOrder, AnswersInOrder, LagBounded

(* A peer moves the numbers along: a request into todo, a response to it   *)
(* into fromPeer, and junk between them.                                   *)
LEMMA PeerStep ==
  ASSUME TypeOK, PipeInv, NEW s \in Sid,
         InOrder(s) => InOrder(s)',
         \A a \in answers : a.sid = s /\ Past(a) => Past(a)',
         \A t \in Sid \ {s} : /\ toPeer'[t] = toPeer[t] /\ fromPeer'[t] = fromPeer[t]
                              /\ todo'[t] = todo[t],
         UNCHANGED <<runtime, sessions, history>>
  PROVE  PipeInv'
<1>1. /\ UNCHANGED <<rpc, sid, seq_sent, seq_received, missed, answers>>
      /\ \A t : Awaited(t)' = Awaited(t)
  BY DEF runtime, sessions, history, Awaited
<1>2. \A t \in Sid : InOrder(t)'
  BY <1>1, SessionAlone DEF PipeInv, PipelineInOrder
<1>3. ASSUME NEW a \in answers PROVE Past(a)'
  <2>1. a.sid \in Sid /\ Past(a)
    BY DEF TypeOK, Answers, PipeInv, PipelineInOrder
  <2> QED BY <1>1, <2>1, AnswerAlone
<1>4. DispatchesCounted'
  BY <1>1 DEF PipeInv, DispatchesCounted
<1> QED
  BY <1>1, <1>2, <1>3, <1>4 DEF PipeInv, PipelineInOrder, AnswersInOrder, LagBounded

(* Taking a request moves the first number of toPeer to the end of todo. *)
LEMMA TakeStep ==
  ASSUME NEW s \in Sid, TypeOK, PipeInv, PeerTake(s)
  PROVE  PipeInv'
<1> DEFINE f == Head(toPeer[s])
<1>1. /\ toPeer'[s] = Tail(toPeer[s]) /\ todo'[s] = Append(todo[s], f.n)
      /\ UNCHANGED <<runtime, sessions, fromPeer, history>>
      /\ \A t \in Sid \ {s} : toPeer'[t] = toPeer[t] /\ todo'[t] = todo[t]
  BY DEF PeerTake, TypeOK
<1>2. /\ Len(toPeer'[s]) = Len(toPeer[s]) - 1 /\ f = toPeer[s][1] /\ Len(toPeer[s]) >= 1
      /\ \A i \in 1 .. Len(toPeer'[s]) : toPeer'[s][i] = toPeer[s][i + 1]
  BY <1>1, HeadTailProperties DEF PeerTake, TypeOK
<1>3. /\ Len(todo'[s]) = Len(todo[s]) + 1 /\ todo'[s][Len(todo[s]) + 1] = f.n
      /\ \A i \in 1 .. Len(todo[s]) : todo'[s][i] = todo[s][i]
  <2>1. f \in Frames
    BY HeadTailProperties DEF PeerTake, TypeOK
  <2>2. f.n \in Nat /\ todo[s] \in Seq(Nat)
    BY <2>1 DEF Frames, TypeOK
  <2> QED BY <1>1, <2>2, AppendProperties
<1>4. /\ Len(toPeer[s]) \in Nat /\ Len(todo[s]) \in Nat /\ seq_sent[s] \in Nat
      /\ UNCHANGED <<rpc, sid, seq_sent, seq_received, answers>>
  BY <1>1 DEF TypeOK, runtime, sessions, history
<1> HIDE DEF f
<1>5. Responded(s)' = Responded(s) /\ Responded(s) \in Int
  <2>1. /\ Len(toPeer'[s]) = Len(toPeer[s]) - 1 /\ Len(todo'[s]) = Len(todo[s]) + 1
        /\ seq_sent'[s] = seq_sent[s]
    BY <1>2, <1>3, <1>4
  <2>2. PICK a, b, c \in Nat : a = seq_sent[s] /\ b = Len(toPeer[s]) /\ c = Len(todo[s])
    BY <1>4
  <2>3. Responded(s) = a - b - c /\ Responded(s)' = a - (b - 1) - (c + 1)
    BY <2>1, <2>2 DEF Responded
  <2> QED BY <2>3
<1>6. ASSUME InOrder(s) PROVE InOrder(s)'
  <2>1. \A i \in 1 .. Len(toPeer'[s]) : toPeer'[s][i].n = Responded(s) + Len(todo'[s]) + i
    <3> SUFFICES ASSUME NEW i \in 1 .. Len(toPeer'[s])
                 PROVE  toPeer'[s][i].n = Responded(s) + Len(todo'[s]) + i
      OBVIOUS
    <3>1. i + 1 \in 1 .. Len(toPeer[s]) /\ i \in Nat
      BY <1>2, <1>4
    <3>2. toPeer[s][i + 1].n = Responded(s) + Len(todo[s]) + (i + 1)
      BY <1>6, <3>1 DEF InOrder
    <3>3. Responded(s) + Len(todo[s]) + (i + 1) = Responded(s) + Len(todo'[s]) + i
      <4>1. \A a, b, c \in Int : a + b + (c + 1) = a + (b + 1) + c
        OBVIOUS
      <4>2. Responded(s) \in Int /\ Len(todo[s]) \in Int /\ i \in Int
        BY <1>4, <1>5, <3>1
      <4>3. Responded(s) + Len(todo[s]) + (i + 1) = Responded(s) + (Len(todo[s]) + 1) + i
        BY <4>1, <4>2, Zenon
      <4> QED BY <1>3, <4>3
    <3> QED BY <1>2, <3>2, <3>3
  <2>2. \A i \in 1 .. Len(todo'[s]) : todo'[s][i] = Responded(s) + i
    <3>1. f.n = Responded(s) + (Len(todo[s]) + 1)
      <4>1. toPeer[s][1].n = Responded(s) + Len(todo[s]) + 1
        BY <1>2, <1>4, <1>6 DEF InOrder
      <4> QED BY <1>2, <1>4, <1>5, <4>1
    <3>2. \A i \in 1 .. Len(todo[s]) : todo'[s][i] = Responded(s) + i
      BY <1>3, <1>6 DEF InOrder
    <3>3. \A i \in 1 .. Len(todo'[s]) : i \in 1 .. Len(todo[s]) \/ i = Len(todo[s]) + 1
      BY <1>3, <1>4
    <3> QED BY <1>3, <3>1, <3>2, <3>3
  <2> QED BY <1>1, <1>4, <1>5, <1>6, <2>1, <2>2 DEF InOrder, Responses
<1>7. \A a \in answers : a.sid = s /\ Past(a) => Past(a)'
  BY <1>1, <1>4, <1>5 DEF Past, Responses, Awaited
<1> QED BY <1>1, <1>6, <1>7, PeerStep

(* A response carries the first number of todo, one more than any before. *)
LEMMA AnswerStep ==
  ASSUME NEW s \in Sid, TypeOK, PipeInv, PeerAnswer(s)
  PROVE  PipeInv'
<1>0. PICK n, f : n = Head(todo[s]) /\ f = Response(n)
  OBVIOUS
<1>1. /\ fromPeer'[s] = Append(fromPeer[s], f) /\ todo'[s] = Tail(todo[s])
      /\ UNCHANGED <<runtime, sessions, toPeer, history>>
      /\ \A t \in Sid \ {s} : fromPeer'[t] = fromPeer[t] /\ todo'[t] = todo[t]
  BY <1>0 DEF PeerAnswer, TypeOK
<1>2. /\ Len(todo'[s]) = Len(todo[s]) - 1 /\ n = todo[s][1] /\ Len(todo[s]) >= 1 /\ n \in Nat
      /\ \A i \in 1 .. Len(todo'[s]) : todo'[s][i] = todo[s][i + 1]
  BY <1>0, <1>1, HeadTailProperties DEF PeerAnswer, TypeOK
<1>3. f \in Frames /\ f.kind = "response" /\ f.n = n
  BY <1>0, <1>2, FrameTypes DEF Response
<1>4. /\ Len(fromPeer'[s]) = Len(fromPeer[s]) + 1 /\ fromPeer'[s][Len(fromPeer[s]) + 1] = f
      /\ \A i \in 1 .. Len(fromPeer[s]) : fromPeer'[s][i] = fromPeer[s][i]
  BY <1>1, <1>3, AppendProperties DEF TypeOK
<1>5. /\ Len(toPeer[s]) \in Nat /\ Len(todo[s]) \in Nat /\ Len(fromPeer[s]) \in Nat
      /\ seq_sent[s] \in Nat /\ seq_received[s] \in Nat
      /\ UNCHANGED <<rpc, sid, seq_sent, seq_received, answers>>
  BY <1>1 DEF TypeOK, runtime, sessions, history
<1>6. Responded(s)' = Responded(s) + 1 /\ Responded(s) \in Int
  BY <1>1, <1>2, <1>5 DEF Responded
<1>7. Responses(s)' = Responses(s) \cup {Len(fromPeer[s]) + 1}
  BY <1>3, <1>4, <1>5 DEF Responses
<1>8. \A i \in Responses(s) : fromPeer'[s][i] = fromPeer[s][i] /\ i \in 1 .. Len(fromPeer[s])
  BY <1>4 DEF Responses
<1>9. ASSUME InOrder(s) PROVE InOrder(s)' /\ n = Responded(s) + 1
  <2>1. n = Responded(s) + 1
    BY <1>2, <1>5, <1>9 DEF InOrder
  <2>2. \A i \in 1 .. Len(todo'[s]) : todo'[s][i] = Responded(s)' + i
    <3> SUFFICES ASSUME NEW i \in 1 .. Len(todo'[s]) PROVE todo'[s][i] = Responded(s)' + i
      OBVIOUS
    <3>1. i + 1 \in 1 .. Len(todo[s]) /\ i \in Nat
      BY <1>2, <1>5
    <3>2. todo[s][i + 1] = Responded(s) + (i + 1)
      BY <1>9, <3>1 DEF InOrder
    <3>3. Responded(s) + (i + 1) = (Responded(s) + 1) + i
      BY <1>6, <3>1
    <3> QED BY <1>2, <1>6, <3>2, <3>3
  <2>3. \A i \in 1 .. Len(toPeer'[s]) : toPeer'[s][i].n = Responded(s)' + Len(todo'[s]) + i
    <3> SUFFICES ASSUME NEW i \in 1 .. Len(toPeer[s])
                 PROVE  toPeer[s][i].n = Responded(s)' + Len(todo'[s]) + i
      BY <1>1
    <3>1. toPeer[s][i].n = Responded(s) + Len(todo[s]) + i
      BY <1>9 DEF InOrder
    <3> QED BY <1>2, <1>5, <1>6, <3>1
  <2>4. \A i \in Responses(s) : fromPeer[s][i].n \in seq_received[s] + 1 .. Responded(s)
    BY <1>9 DEF InOrder
  <2>5. \A i \in Responses(s)' : fromPeer'[s][i].n \in seq_received[s] + 1 .. Responded(s)'
    <3>1. seq_received[s] <= Responded(s)
      BY <1>9 DEF InOrder
    <3>2. \A i \in Responses(s) : fromPeer'[s][i].n \in seq_received[s] + 1 .. Responded(s) + 1
      BY <1>5, <1>6, <1>8, <2>4
    <3>3. fromPeer'[s][Len(fromPeer[s]) + 1].n \in seq_received[s] + 1 .. Responded(s) + 1
      BY <1>3, <1>4, <1>5, <1>6, <2>1, <3>1
    <3> QED BY <1>6, <1>7, <3>2, <3>3
  <2>6. \A i, j \in Responses(s)' : i < j => fromPeer'[s][i].n < fromPeer'[s][j].n
    <3> SUFFICES ASSUME NEW i \in Responses(s)', NEW j \in Responses(s)', i < j
                 PROVE  fromPeer'[s][i].n < fromPeer'[s][j].n
      OBVIOUS
    <3>1. CASE i \in Responses(s) /\ j \in Responses(s)
      BY <1>8, <1>9, <3>1 DEF InOrder
    <3>2. CASE i \in Responses(s) /\ j = Len(fromPeer[s]) + 1
      <4>1. fromPeer[s][i].n \in seq_received[s] + 1 .. Responded(s)
        BY <2>4, <3>2
      <4>2. fromPeer[s][i].n < Responded(s) + 1
        BY <1>5, <1>6, <4>1
      <4>3. fromPeer'[s][i] = fromPeer[s][i] /\ fromPeer'[s][j].n = Responded(s) + 1
        BY <1>3, <1>4, <1>8, <2>1, <3>2
      <4> QED BY <4>2, <4>3
    <3>3. i # Len(fromPeer[s]) + 1
      BY <1>5, <1>7, <1>8
    <3> QED BY <1>7, <3>1, <3>2, <3>3
  <2>7. \A i \in 1 .. Len(fromPeer'[s]) : fromPeer'[s][i].kind \in {"response", "junk"}
    <3>1. \A i \in 1 .. Len(fromPeer'[s]) : i \in 1 .. Len(fromPeer[s]) \/ i = Len(fromPeer[s]) + 1
      BY <1>4, <1>5
    <3> QED BY <1>3, <1>4, <1>9, <3>1 DEF InOrder
  <2>8. seq_received[s] <= Responded(s)'
    BY <1>5, <1>6, <1>9 DEF InOrder
  <2> QED BY <1>5, <2>1, <2>2, <2>3, <2>5, <2>6, <2>7, <2>8 DEF InOrder
<1>10. ASSUME NEW a \in answers, a.sid = s, Past(a) PROVE Past(a)'
  <2>1. a.answered \in Nat
    BY DEF TypeOK, Answers
  <2>2. n = Responded(s) + 1
    BY <1>9 DEF PipeInv, PipelineInOrder
  <2>3. a.answered <= Responded(s)' /\ a.answered < n
    BY <1>6, <1>10, <2>1, <2>2 DEF Past
  <2>4. \A i \in Responses(s)' : a.answered < fromPeer'[s][i].n
    BY <1>3, <1>4, <1>7, <1>8, <1>10, <2>3 DEF Past
  <2> QED BY <1>5, <1>10, <2>3, <2>4 DEF Past, Awaited
<1> QED BY <1>1, <1>9, <1>10, PeerStep

(* Junk lies between the responses and is none of them. *)
LEMMA JunkStep ==
  ASSUME NEW s \in Sid, TypeOK, PipeInv, PeerJunk(s)
  PROVE  PipeInv'
<1>1. /\ fromPeer'[s] = Append(fromPeer[s], Junk)
      /\ UNCHANGED <<runtime, sessions, toPeer, todo, history>>
      /\ \A t \in Sid \ {s} : fromPeer'[t] = fromPeer[t]
  BY DEF PeerJunk, TypeOK
<1>2. /\ Len(fromPeer'[s]) = Len(fromPeer[s]) + 1 /\ fromPeer'[s][Len(fromPeer[s]) + 1] = Junk
      /\ \A i \in 1 .. Len(fromPeer[s]) : fromPeer'[s][i] = fromPeer[s][i]
  BY <1>1, FrameTypes, AppendProperties DEF TypeOK
<1>3. Len(fromPeer[s]) \in Nat /\ UNCHANGED <<rpc, sid, seq_sent, seq_received, answers>>
  BY <1>1 DEF TypeOK, runtime, sessions, history
<1>4. /\ Responded(s)' = Responded(s) /\ Responses(s)' = Responses(s)
      /\ \A i \in Responses(s) : fromPeer'[s][i] = fromPeer[s][i]
  BY <1>1, <1>2, <1>3 DEF Responded, Responses, Junk
<1>5. ASSUME InOrder(s) PROVE InOrder(s)'
  <2>1. \A i \in 1 .. Len(fromPeer'[s]) : fromPeer'[s][i].kind \in {"response", "junk"}
    BY <1>2, <1>3, <1>5 DEF InOrder, Junk
  <2> QED BY <1>1, <1>3, <1>4, <1>5, <2>1 DEF InOrder
<1>6. \A a \in answers : a.sid = s /\ Past(a) => Past(a)'
  BY <1>3, <1>4 DEF Past, Awaited
<1> QED BY <1>1, <1>5, <1>6, PeerStep

----------------------------------------------------------------------------
(* Every step of the runtime and of the peers keeps the invariant. *)
LEMMA RuntimeStep == RuntimeInv /\ [Next]_vars => RuntimeInv'
<1> SUFFICES ASSUME RuntimeInv, [Next]_vars PROVE PipeInv'
  BY TypeStep DEF RuntimeInv, PipeInv
<1>0. TypeOK /\ DispatchAllowed /\ PipeInv
  BY DEF RuntimeInv, PipeInv
<1>1. CASE register_capability
  BY <1>0, <1>1, QuietStep DEF register_capability, sessions, peers, history, Awaited
<1>2. ASSUME NEW s \in Sid, create_session(s) \/ close_session(s) PROVE PipeInv'
  BY <1>0, <1>2, QuietStep DEF create_session, close_session, runtime, peers, history, Awaited
<1>3. ASSUME NEW p \in Packets, Dispatch(p) PROVE PipeInv'
  <2>1. \A s \in Sid : Awaited(s)' = Awaited(s)
    BY <1>3 DEF Dispatch, Awaited
  <2> QED BY <1>0, <1>3, <2>1, QuietStep DEF Dispatch, sessions, peers, history
<1>4. CASE Tick
  BY <1>0, <1>4, QuietStep DEF Tick, sessions, peers, history, Awaited
<1>5. CASE UNCHANGED vars
  BY <1>0, <1>5, QuietStep DEF vars, runtime, sessions, peers, history, Awaited
<1> QED
  BY <1>0, <1>1, <1>2, <1>3, <1>4, <1>5, SendStep, RecvStep, TickStep, TakeStep, AnswerStep,
     JunkStep DEF Next

(* The invariant of the runtime holds of every behaviour. *)
THEOREM RuntimeCorrect == Spec => []RuntimeInv
<1>1. Init => RuntimeInv
  <2> SUFFICES ASSUME Init PROVE RuntimeInv
    OBVIOUS
  <2>1. TypeOK /\ DispatchAllowed
    <3>1. MaxCaps \in Nat /\ pkt \in Packets
      BY BoundAssumption DEF Init, Packets, Refs
    <3>2. toPeer \in [Sid -> Seq(Frames)] /\ fromPeer \in [Sid -> Seq(Frames)]
          /\ todo \in [Sid -> Seq(Nat)]
      BY DEF Init
    <3> QED BY <3>1, <3>2 DEF Init, TypeOK, DispatchAllowed, Open
  <2>2. DispatchesCounted /\ AnswersInOrder /\ LagBounded
    BY DEF Init, DispatchesCounted, AnswersInOrder, LagBounded, Awaited
  <2>3. PipelineInOrder
    BY DEF Init, PipelineInOrder, InOrder, Responded, Responses
  <2> QED BY <2>1, <2>2, <2>3 DEF RuntimeInv
<1> QED
  BY <1>1, RuntimeStep, PTL DEF Spec

(* The variables of the runtime keep their types. *)
THEOREM RuntimeTypes == Spec => []TypeOK
<1>1. RuntimeInv => TypeOK
  BY DEF RuntimeInv
<1> QED
  BY <1>1, RuntimeCorrect, PTL

(* dispatch_packet, which matches nothing, still returns the responses of  *)
(* a session in the order of its requests.                                 *)
THEOREM ResponsesInOrder == Spec => []AnswersInOrder
<1>1. RuntimeInv => AnswersInOrder
  BY DEF RuntimeInv
<1> QED
  BY <1>1, RuntimeCorrect, PTL

(* The response dispatch_packet returns is at most as many requests old as *)
(* dispatches on its session have gone without one.                        *)
THEOREM LagIsBounded == Spec => []LagBounded
<1>1. RuntimeInv => LagBounded
  BY DEF RuntimeInv
<1> QED
  BY <1>1, RuntimeCorrect, PTL

(* A request is queued only on an open session and for a Ref that          *)
(* resolves.                                                               *)
THEOREM SendsAreAllowed == Spec => SendsAllowed
<1>1. RuntimeInv /\ [Next]_vars
        => [\A s \in Sid : Len(toPeer'[s]) > Len(toPeer[s]) =>
              state[s] = "Init" /\ toPeer'[s][Len(toPeer'[s])].ref \in 1 .. caps]_vars
  <2> SUFFICES ASSUME RuntimeInv, Next, NEW s \in Sid, Len(toPeer'[s]) > Len(toPeer[s])
               PROVE  state[s] = "Init" /\ toPeer'[s][Len(toPeer'[s])].ref \in 1 .. caps
    OBVIOUS
  <2>0. TypeOK /\ DispatchAllowed /\ toPeer[s] \in Seq(Frames) /\ Len(toPeer[s]) \in Nat
    BY DEF RuntimeInv, TypeOK
  <2>1. toPeer' # toPeer
    BY <2>0
  <2>2. ASSUME NEW t \in Sid, PeerTake(t) PROVE FALSE
    <3>1. toPeer'[s] = IF s = t THEN Tail(toPeer[s]) ELSE toPeer[s]
      BY <2>0, <2>2 DEF PeerTake, TypeOK
    <3>2. s = t => Len(Tail(toPeer[s])) = Len(toPeer[s]) - 1
      BY <2>0, <2>2, HeadTailProperties DEF PeerTake
    <3> QED BY <2>0, <3>1, <3>2
  <2>3. DispatchSend
    BY <2>1, <2>2 DEF Next, register_capability, create_session, close_session, Dispatch,
       DispatchRecv, Tick, TickSession, PeerAnswer, PeerJunk
  <2>4. sid \in Open /\ sid \in Sid /\ pkt.ref \in 1 .. caps
    BY <2>0, <2>3 DEF DispatchSend, DispatchAllowed, Open
  <2>5. toPeer'[s] = IF s = sid THEN Append(toPeer[s], Request(seq_sent[sid] + 1, pkt.ref))
                                ELSE toPeer[s]
    BY <2>0, <2>1, <2>3, <2>4 DEF DispatchSend, TypeOK
  <2>6. s = sid
    BY <2>0, <2>5
  <2>7. Request(seq_sent[sid] + 1, pkt.ref) \in Frames
    BY <2>0, <2>4, FrameTypes DEF TypeOK, Packets
  <2>8. toPeer'[s][Len(toPeer'[s])] = Request(seq_sent[sid] + 1, pkt.ref)
    BY <2>0, <2>5, <2>6, <2>7, AppendProperties
  <2> QED BY <2>4, <2>6, <2>8 DEF Open, Request
<1> QED
  BY <1>1, RuntimeCorrect, PTL DEF Spec, SendsAllowed

----------------------------------------------------------------------------
(* One direction of the channel pair under a session. *)

(* A step of either end keeps the channel's inductive invariant. *)
LEMMA ChannelStep == ChannelInv /\ [ChannelNext]_channelVars => ChannelInv'
<1> SUFFICES ASSUME ChannelInv, [ChannelNext]_channelVars PROVE ChannelInv'
  OBVIOUS
<1> USE CapacityAssumption DEF ChannelInv
<1>1. ASSUME NEW m \in Msg, NEW checked \in BOOLEAN, SendCall(m, checked) PROVE ChannelInv'
  BY <1>1
     DEF SendCall, sender, receiver, ChannelTypeOK, LockGuardsQueue, QueueIsBacklog,
         ViewsCurrent, ReceivedInOrder, Critical
<1>2. CASE SendLock
  BY <1>2
     DEF SendLock, sender, receiver, ChannelTypeOK, LockGuardsQueue, QueueIsBacklog,
         ViewsCurrent, ReceivedInOrder, Critical
<1>3. CASE SendRead
  <2>1. ChannelTypeOK' /\ LockGuardsQueue' /\ ReceivedInOrder' /\ QueueIsBacklog'
    BY <1>3
       DEF SendRead, sender, receiver, ChannelTypeOK, LockGuardsQueue, QueueIsBacklog,
           ReceivedInOrder, Critical
  <2>2. ViewsCurrent'
    BY <1>3 DEF SendRead, sender, receiver, ChannelTypeOK, ViewsCurrent
  <2> QED BY <2>1, <2>2
<1>4. CASE SendWrite
  <2>1. sview = queue /\ Len(queue) < Capacity /\ queue' = Append(queue, smsg)
        /\ sent' = Append(sent, smsg) /\ received' = received
    BY <1>4 DEF SendWrite, ViewsCurrent
  <2>2. recv_pc' = recv_pc /\ recv_pc # "write" /\ send_pc' = "unlock" /\ lock' = lock /\ rview' = rview
    BY <1>4 DEF SendWrite, receiver, LockGuardsQueue, Critical
  <2>3. ChannelTypeOK' /\ LockGuardsQueue'
    BY <1>4, <2>1, <2>2 DEF SendWrite, sender, receiver, ChannelTypeOK, LockGuardsQueue, Critical
  <2>4. QueueIsBacklog'
    <3>1. Len(queue') = Len(queue) + 1 /\ Len(sent') = Len(sent) + 1
      BY <2>1 DEF ChannelTypeOK
    <3>2. ASSUME NEW i \in 1 .. Len(queue') PROVE queue'[i] = sent'[Len(received') + i]
      <4>1. CASE i = Len(queue) + 1
        BY <2>1, <3>1, <4>1 DEF ChannelTypeOK, QueueIsBacklog
      <4>2. CASE i \in 1 .. Len(queue)
        <5>1. queue'[i] = queue[i] /\ Len(received) + i \in 1 .. Len(sent)
          BY <2>1, <4>2 DEF ChannelTypeOK, QueueIsBacklog
        <5>2. sent'[Len(received) + i] = sent[Len(received) + i]
          BY <2>1, <5>1 DEF ChannelTypeOK
        <5> QED BY <2>1, <4>2, <5>1, <5>2 DEF QueueIsBacklog
      <4> QED BY <3>1, <3>2, <4>1, <4>2 DEF ChannelTypeOK
    <3>3. /\ Len(received') <= Len(sent') /\ Len(sent') <= Len(received') + Capacity
          /\ Len(queue') = Len(sent') - Len(received')
      BY <2>1, <3>1 DEF ChannelTypeOK, QueueIsBacklog
    <3> QED BY <3>2, <3>3 DEF QueueIsBacklog
  <2>5. ReceivedInOrder' /\ ViewsCurrent'
    BY <2>1, <2>2 DEF ChannelTypeOK, QueueIsBacklog, ReceivedInOrder, ViewsCurrent
  <2> QED BY <2>3, <2>4, <2>5
<1>5. CASE SendUnlock
  BY <1>5
     DEF SendUnlock, sender, receiver, ChannelTypeOK, LockGuardsQueue, QueueIsBacklog,
         ViewsCurrent, ReceivedInOrder, Critical
<1>6. CASE Close
  BY <1>6
     DEF Close, sender, receiver, ChannelTypeOK, LockGuardsQueue, QueueIsBacklog, ViewsCurrent,
         ReceivedInOrder, Critical
<1>7. CASE RecvCall
  BY <1>7
     DEF RecvCall, sender, receiver, ChannelTypeOK, LockGuardsQueue, QueueIsBacklog,
         ViewsCurrent, ReceivedInOrder, Critical
<1>8. CASE RecvLock
  BY <1>8
     DEF RecvLock, sender, receiver, ChannelTypeOK, LockGuardsQueue, QueueIsBacklog,
         ViewsCurrent, ReceivedInOrder, Critical
<1>9. CASE RecvRead
  <2>1. ChannelTypeOK' /\ LockGuardsQueue' /\ ReceivedInOrder' /\ QueueIsBacklog'
    BY <1>9
       DEF RecvRead, sender, receiver, ChannelTypeOK, LockGuardsQueue, QueueIsBacklog,
           ReceivedInOrder, Critical
  <2>2. ViewsCurrent'
    BY <1>9 DEF RecvRead, sender, receiver, ChannelTypeOK, ViewsCurrent
  <2> QED BY <2>1, <2>2
<1>10. CASE RecvWrite
  <2>1. rview = queue /\ queue # << >> /\ queue' = Tail(queue)
        /\ received' = Append(received, Head(queue)) /\ sent' = sent
    BY <1>10 DEF RecvWrite, ViewsCurrent
  <2>2. send_pc' = send_pc /\ send_pc # "write" /\ recv_pc' = "unlock" /\ lock' = lock
    BY <1>10 DEF RecvWrite, sender, LockGuardsQueue, Critical
  <2>3. Len(queue) > 0 /\ Head(queue) = sent[Len(received) + 1] /\ Head(queue) \in Msg
        /\ Len(queue) \in Nat
    BY <2>1 DEF ChannelTypeOK, QueueIsBacklog
  <2>4. ChannelTypeOK' /\ LockGuardsQueue'
    BY <1>10, <2>1, <2>2, <2>3
       DEF RecvWrite, sender, receiver, ChannelTypeOK, LockGuardsQueue, Critical
  <2>5. QueueIsBacklog'
    <3>1. Len(queue') = Len(queue) - 1 /\ Len(received') = Len(received) + 1
      BY <2>1, <2>3 DEF ChannelTypeOK
    <3>2. ASSUME NEW i \in 1 .. Len(queue') PROVE queue'[i] = sent'[Len(received') + i]
      <4>1. queue'[i] = queue[i + 1] /\ i + 1 \in 1 .. Len(queue)
        BY <2>1, <2>3, <3>1 DEF ChannelTypeOK
      <4>2. queue[i + 1] = sent[Len(received) + (i + 1)]
        BY <4>1 DEF QueueIsBacklog
      <4>3. Len(received) + (i + 1) = Len(received') + i
        BY <3>1 DEF ChannelTypeOK
      <4> QED BY <2>1, <4>1, <4>2, <4>3
    <3> QED BY <2>1, <2>3, <3>1, <3>2 DEF ChannelTypeOK, QueueIsBacklog
  <2>6. ReceivedInOrder' /\ ViewsCurrent'
    BY <2>1, <2>2, <2>3 DEF ChannelTypeOK, QueueIsBacklog, ReceivedInOrder, ViewsCurrent
  <2> QED BY <2>4, <2>5, <2>6
<1>11. CASE RecvUnlock
  BY <1>11
     DEF RecvUnlock, sender, receiver, ChannelTypeOK, LockGuardsQueue, QueueIsBacklog,
         ViewsCurrent, ReceivedInOrder, Critical
<1>12. CASE UNCHANGED channelVars
  BY <1>12
     DEF channelVars, sender, receiver, ChannelTypeOK, LockGuardsQueue, QueueIsBacklog,
         ViewsCurrent, ReceivedInOrder
<1> QED
  BY <1>1, <1>2, <1>3, <1>4, <1>5, <1>6, <1>7, <1>8, <1>9, <1>10, <1>11, <1>12
     DEF ChannelNext, SendSteps, RecvSteps

(* The invariant of the channel holds of every behaviour. *)
THEOREM ChannelCorrect == ChannelSpec => []ChannelInv
<1>1. ChannelInit => ChannelInv
  BY CapacityAssumption
     DEF ChannelInit, ChannelInv, ChannelTypeOK, LockGuardsQueue, QueueIsBacklog, ViewsCurrent,
         ReceivedInOrder, Critical
<1> QED
  BY <1>1, ChannelStep, PTL DEF ChannelSpec

(* The spinlock keeps the two threads out of the VecDeque at one time. *)
THEOREM MutualExclusion == ChannelSpec => []LockGuardsQueue
<1>1. ChannelInv => LockGuardsQueue
  BY DEF ChannelInv
<1> QED
  BY <1>1, ChannelCorrect, PTL

(* BufferFull and Empty are answered only when true. *)
THEOREM RefusalsReal == ChannelSpec => RefusalsAreReal
<1>1. ChannelInv /\ [ChannelNext]_channelVars
        => [/\ SendRead /\ send_pc' = "unlock" => Len(sent) - Len(received) >= Capacity
            /\ RecvRead /\ recv_pc' = "unlock" => sent = received]_channelVars
  <2> SUFFICES ASSUME ChannelInv
               PROVE  /\ SendRead /\ send_pc' = "unlock" => Len(sent) - Len(received) >= Capacity
                      /\ RecvRead /\ recv_pc' = "unlock" => sent = received
    OBVIOUS
  <2>1. ASSUME SendRead, send_pc' = "unlock" PROVE Len(sent) - Len(received) >= Capacity
    BY <2>1 DEF SendRead, ChannelInv, QueueIsBacklog, ChannelTypeOK
  <2>2. ASSUME RecvRead, recv_pc' = "unlock" PROVE sent = received
    <3>1. Len(queue) = 0
      BY <2>2 DEF RecvRead
    <3>2. Len(sent) = Len(received)
      BY <3>1 DEF ChannelInv, QueueIsBacklog, ChannelTypeOK
    <3>3. \A i \in 1 .. Len(sent) : sent[i] = received[i]
      BY <3>2 DEF ChannelInv, ReceivedInOrder
    <3> QED BY <3>2, <3>3, SeqEqual DEF ChannelInv, ChannelTypeOK
  <2> QED BY <2>1, <2>2
<1> QED
  BY <1>1, ChannelCorrect, PTL DEF ChannelSpec, RefusalsAreReal

(* One direction of an InProcChannel pair implements the abstract FIFO. *)
THEOREM ImplementsFifo == ChannelSpec => ChannelIsFifo
<1>1. ChannelInit => Fifo!FifoInit
  BY DEF ChannelInit, Fifo!FifoInit
<1>2. ChannelInv /\ [ChannelNext]_channelVars => [Fifo!FifoNext]_(Fifo!fifoVars)
  <2> SUFFICES ASSUME ChannelInv, [ChannelNext]_channelVars PROVE [Fifo!FifoNext]_(Fifo!fifoVars)
    OBVIOUS
  <2>1. CASE SendWrite
    <3>1. Fifo!Enqueue(smsg)
      BY <2>1, CapacityAssumption
         DEF SendWrite, Fifo!Enqueue, ChannelInv, ViewsCurrent, QueueIsBacklog, ChannelTypeOK
    <3> QED BY <3>1 DEF Fifo!FifoNext, ChannelInv, ChannelTypeOK
  <2>2. CASE RecvWrite
    <3>1. Fifo!Dequeue
      BY <2>2 DEF RecvWrite, Fifo!Dequeue, ChannelInv, ViewsCurrent, QueueIsBacklog, ChannelTypeOK
    <3> QED BY <3>1 DEF Fifo!FifoNext
  <2>3. CASE ~SendWrite /\ ~RecvWrite
    BY <2>3
       DEF ChannelNext, SendSteps, RecvSteps, channelVars, Fifo!fifoVars, SendCall, SendLock,
           SendRead, SendUnlock, Close, RecvCall, RecvLock, RecvRead, RecvUnlock
  <2> QED BY <2>1, <2>2, <2>3
<1> QED
  BY <1>1, <1>2, ChannelCorrect, PTL DEF ChannelSpec, ChannelIsFifo, Fifo!FifoSpec
=============================================================================
