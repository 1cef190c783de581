------------------------------ MODULE Runtime ------------------------------
(***************************************************************************)
(* core-rust/src/runtime.rs with session.rs: an AiclRuntime that owns its  *)
(* sessions, each over one end of an InProcChannel pair, and the peers at  *)
(* the other ends, which run concurrently.  The channel's operations are   *)
(* atomic here, which module InProcChannel justifies.                      *)
(*                                                                         *)
(* dispatch_packet sends a request and at once receives one packet: the    *)
(* peers run between its two halves, and between the sessions of tick.     *)
(* The gate is the table of a runtime that only registers: indices 1 to    *)
(* caps resolve.                                                           *)
(*                                                                         *)
(* A request carries its number on the session (message_id in the code); a *)
(* response carries the number of the request it answers, as its           *)
(* correlation_id should.  Junk is a frame that does not decode.           *)
(***************************************************************************)
EXTENDS Integers, Sequences, FiniteSets

CONSTANTS Sid,           \* session identifiers, in the order of the BTreeMap
          MaxCaps,       \* bound: capabilities registered
          ChannelCap,    \* capacity of each direction of a pair
          MaxRequests,   \* bound: requests accepted by one session
          MaxJunk        \* bound: frames a peer pushes that do not decode

ASSUME SidAssumption == Sid \subseteq Nat \ {0}
ASSUME BoundAssumption == {MaxCaps, ChannelCap, MaxRequests, MaxJunk} \subseteq Nat

VARIABLES caps,                     \* gate: capabilities registered
          state,                    \* SessionState, or "none" before creation
          seq_sent, seq_received,   \* the counters of each session
          toPeer, fromPeer,         \* the two queues of each pair
          rpc, pkt, sid, ticking,   \* runtime: control, packet, session, tick's rest
          todo, junk,               \* peers: requests not yet answered, junk pushed
          missed,                   \* history: dispatches that got no answer
          answers                   \* history: what dispatch returned

runtime  == <<caps, rpc, pkt, sid, ticking>>
sessions == <<state, seq_sent, seq_received>>
peers    == <<todo, junk>>
history  == <<missed, answers>>
vars     == <<runtime, sessions, toPeer, fromPeer, peers, history>>

NoSid == 0
NoRef == 0 - 1
Refs == {NoRef} \cup 0 .. MaxCaps
Packets == [ref : Refs, valid : BOOLEAN]

Request(n, r) == [kind |-> "request", n |-> n, ref |-> r]
Response(n)   == [kind |-> "response", n |-> n, ref |-> NoRef]
Junk          == [kind |-> "junk", n |-> 0, ref |-> NoRef]

Init ==
  /\ caps = 0 /\ rpc = "idle" /\ pkt \in [ref : {NoRef}, valid : {TRUE}]
  /\ sid = NoSid /\ ticking = {}
  /\ state = [s \in Sid |-> "none"]
  /\ seq_sent = [s \in Sid |-> 0] /\ seq_received = [s \in Sid |-> 0]
  /\ toPeer = [s \in Sid |-> << >>] /\ fromPeer = [s \in Sid |-> << >>]
  /\ todo = [s \in Sid |-> << >>] /\ junk = 0
  /\ missed = [s \in Sid |-> 0] /\ answers = {}

(* Mutant: closed sessions stay in the map and count as open. *)
OpenOrClosed == {s \in Sid : state[s] # "none"}

(* The sessions in the map that are open: close_session removes a session  *)
(* before it closes it, so these are all.                                  *)
Open == {s \in Sid : state[s] = "Init"}

(* iter_mut() of a BTreeMap starts at the smallest key. *)
First(S) == CHOOSE s \in S : \A t \in S : s <= t

----------------------------------------------------------------------------
register_capability ==
  /\ rpc = "idle" /\ caps < MaxCaps /\ caps' = caps + 1
  /\ UNCHANGED <<rpc, pkt, sid, ticking, sessions, toPeer, fromPeer, peers, history>>

(* The identifier is a random UUID: any that has not been used. *)
create_session(s) ==
  /\ rpc = "idle" /\ state[s] = "none"
  /\ state' = [state EXCEPT ![s] = "Init"]
  /\ UNCHANGED <<runtime, seq_sent, seq_received, toPeer, fromPeer, peers, history>>

close_session(s) ==
  /\ rpc = "idle" /\ state[s] = "Init"
  /\ state' = [state EXCEPT ![s] = "Closed"]
  /\ UNCHANGED <<runtime, seq_sent, seq_received, toPeer, fromPeer, peers, history>>

(* check_and_validate: a Ref that does not resolve, or an invalid operand. *)
GateAllows(p) == /\ p.ref # NoRef => p.ref \in 1 .. caps
                 /\ p.valid

(* dispatch_packet up to the choice of the session: the first open one,    *)
(* whatever the Ref.  Otherwise CapabilityNotFound, the error of           *)
(* validate_packet, or NoHandler, and nothing has changed.                 *)
Dispatch(p) ==
  /\ rpc = "idle" /\ (Open # {} => seq_sent[First(Open)] < MaxRequests)
  /\ IF GateAllows(p) /\ p.ref # NoRef /\ Open # {}
     THEN rpc' = "send" /\ pkt' = p /\ sid' = First(Open)
     ELSE UNCHANGED <<rpc, pkt, sid>>
  /\ UNCHANGED <<caps, ticking, sessions, toPeer, fromPeer, peers, history>>

(* session.send_packet: BufferFull ends the dispatch, and only a frame     *)
(* that the channel took advances seq_sent.                                *)
DispatchSend ==
  /\ rpc = "send"
  /\ LET n == seq_sent[sid] + 1 IN
     IF Len(toPeer[sid]) >= ChannelCap
     THEN rpc' = "idle" /\ UNCHANGED <<seq_sent, toPeer>>
     ELSE /\ toPeer' = [toPeer EXCEPT ![sid] = Append(@, Request(n, pkt.ref))]
          /\ seq_sent' = [seq_sent EXCEPT ![sid] = n]
          /\ rpc' = "recv"
  /\ UNCHANGED <<caps, pkt, sid, ticking, state, seq_received, fromPeer, peers, missed, answers>>

(* What dispatch_packet returns to its caller, and what it knew then. *)
Answer(f) == [sid |-> sid, request |-> seq_sent[sid], answered |-> f.n, missed |-> missed[sid]]

(* Mutant: the youngest frame is taken. *)
DispatchRecvYoungest ==
  /\ rpc = "recv" /\ rpc' = "idle"
  /\ LET q == fromPeer[sid] IN
     IF q # << >> /\ q[Len(q)].kind # "junk"
     THEN /\ fromPeer' = [fromPeer EXCEPT ![sid] = SubSeq(q, 1, Len(q) - 1)]
          /\ seq_received' = [seq_received EXCEPT ![sid] = @ + 1]
          /\ answers' = answers \cup {Answer(q[Len(q)])}
          /\ UNCHANGED missed
     ELSE /\ missed' = [missed EXCEPT ![sid] = @ + 1]
          /\ UNCHANGED <<fromPeer, seq_received, answers>>
  /\ UNCHANGED <<caps, pkt, sid, ticking, state, seq_sent, toPeer, peers>>

(* session.recv_packet: Empty; or the frame is taken, and is lost if it    *)
(* does not decode; or it is returned, whatever request it answers.        *)
DispatchRecv ==
  /\ rpc = "recv" /\ rpc' = "idle"
  /\ fromPeer' = [fromPeer EXCEPT ![sid] = IF @ = << >> THEN @ ELSE Tail(@)]
  /\ IF fromPeer[sid] # << >> /\ Head(fromPeer[sid]).kind # "junk"
     THEN /\ seq_received' = [seq_received EXCEPT ![sid] = @ + 1]
          /\ answers' = answers \cup {Answer(Head(fromPeer[sid]))}
          /\ UNCHANGED missed
     ELSE /\ missed' = [missed EXCEPT ![sid] = @ + 1]
          /\ UNCHANGED <<seq_received, answers>>
  /\ UNCHANGED <<caps, pkt, sid, ticking, state, seq_sent, toPeer, peers>>

(* tick: no session in the map is Closed; one frame of each open session   *)
(* is read from its transport, decoded, and dropped.                       *)
Tick ==
  /\ rpc = "idle" /\ Open # {}
  /\ rpc' = "tick" /\ ticking' = Open
  /\ UNCHANGED <<caps, pkt, sid, sessions, toPeer, fromPeer, peers, history>>

TickSession ==
  /\ rpc = "tick"
  /\ LET s == First(ticking) IN
     /\ fromPeer' = [fromPeer EXCEPT ![s] = IF @ = << >> THEN @ ELSE Tail(@)]
     /\ ticking' = ticking \ {s}
  /\ rpc' = IF ticking' = {} THEN "idle" ELSE "tick"
  /\ UNCHANGED <<caps, pkt, sid, sessions, toPeer, peers, history>>

----------------------------------------------------------------------------
(* The peers, each a user of the other end of a pair: they take requests   *)
(* in order and answer them in order, whenever they like.  A peer's end    *)
(* stays open when the runtime closes its own.                             *)

PeerTake(s) ==
  /\ state[s] # "none" /\ toPeer[s] # << >>
  /\ todo' = [todo EXCEPT ![s] = Append(@, Head(toPeer[s]).n)]
  /\ toPeer' = [toPeer EXCEPT ![s] = Tail(@)]
  /\ UNCHANGED <<runtime, sessions, fromPeer, junk, history>>

PeerAnswer(s) ==
  /\ todo[s] # << >> /\ Len(fromPeer[s]) < ChannelCap
  /\ fromPeer' = [fromPeer EXCEPT ![s] = Append(@, Response(Head(todo[s])))]
  /\ todo' = [todo EXCEPT ![s] = Tail(@)]
  /\ UNCHANGED <<runtime, sessions, toPeer, junk, history>>

PeerJunk(s) ==
  /\ state[s] # "none" /\ junk < MaxJunk /\ Len(fromPeer[s]) < ChannelCap
  /\ fromPeer' = [fromPeer EXCEPT ![s] = Append(@, Junk)]
  /\ junk' = junk + 1
  /\ UNCHANGED <<runtime, sessions, toPeer, todo, history>>

----------------------------------------------------------------------------
Next == \/ register_capability
        \/ \E s \in Sid : create_session(s) \/ close_session(s)
        \/ \E p \in Packets : Dispatch(p)
        \/ DispatchSend \/ DispatchRecv
        \/ Tick \/ TickSession
        \/ \E s \in Sid : PeerTake(s) \/ PeerAnswer(s) \/ PeerJunk(s)

Spec == Init /\ [][Next]_vars

----------------------------------------------------------------------------
Frames == [kind : {"request", "response", "junk"}, n : Nat, ref : Refs]
Answers == [sid : Sid, request : Nat, answered : Nat, missed : Nat]

TypeOK ==
  /\ caps \in 0 .. MaxCaps /\ pkt \in Packets /\ ticking \subseteq Open
  /\ rpc \in {"idle", "send", "recv", "tick"} /\ sid \in Sid \cup {NoSid}
  /\ state \in [Sid -> {"none", "Init", "Closed"}]
  /\ seq_sent \in [Sid -> Nat] /\ seq_received \in [Sid -> Nat] /\ missed \in [Sid -> Nat]
  /\ toPeer \in [Sid -> Seq(Frames)] /\ fromPeer \in [Sid -> Seq(Frames)]
  /\ todo \in [Sid -> Seq(Nat)] /\ junk \in Nat
  /\ answers \subseteq Answers

(* The inductive invariant is TypeOK, the next three and the two promises  *)
(* AnswersInOrder and LagBounded.                                          *)

(* What the gate and the choice of the session established still holds in  *)
(* the later halves of a dispatch, and tick has a session to go on with.   *)
DispatchAllowed ==
  /\ rpc \in {"send", "recv"} => sid \in Open
  /\ rpc = "send" => pkt.ref \in 1 .. caps
  /\ rpc = "tick" <=> ticking # {}

(* A request is out and dispatch_packet has yet to look for its answer. *)
Awaited(s) == IF rpc = "recv" /\ sid = s THEN 1 ELSE 0

(* Every request was answered, went without an answer, or is awaited. *)
DispatchesCounted ==
  \A s \in Sid : seq_sent[s] = seq_received[s] + missed[s] + Awaited(s)

(* The requests a peer has answered: the others are queued or in todo. *)
Responded(s) == seq_sent[s] - Len(toPeer[s]) - Len(todo[s])

Responses(s) == {i \in 1 .. Len(fromPeer[s]) : fromPeer[s][i].kind = "response"}

(* The numbers from the last response returned to the last request sent    *)
(* lie in order along the pair: those in fromPeer with gaps, for tick and  *)
(* junk make dispatch lose some, the ones in todo and toPeer with none.    *)
InOrder(s) ==
  /\ seq_received[s] <= Responded(s)
  /\ \A i \in 1 .. Len(toPeer[s]) : toPeer[s][i].n = Responded(s) + Len(todo[s]) + i
  /\ \A i \in 1 .. Len(todo[s]) : todo[s][i] = Responded(s) + i
  /\ \A i \in 1 .. Len(fromPeer[s]) : fromPeer[s][i].kind \in {"response", "junk"}
  /\ \A i \in Responses(s) : fromPeer[s][i].n \in seq_received[s] + 1 .. Responded(s)
  /\ \A i, j \in Responses(s) : i < j => fromPeer[s][i].n < fromPeer[s][j].n

(* An answer is older than everything that is still under way. *)
Past(a) ==
  /\ a.request + Awaited(a.sid) <= seq_sent[a.sid]
  /\ a.answered <= Responded(a.sid)
  /\ \A i \in Responses(a.sid) : a.answered < fromPeer[a.sid][i].n

PipelineInOrder == /\ \A s \in Sid : InOrder(s)
                   /\ \A a \in answers : Past(a)

(* Dispatches on a session return the responses in the order of the        *)
(* requests, although some are skipped.                                    *)
AnswersInOrder ==
  \A a, b \in answers : a.sid = b.sid /\ a.request < b.request => a.answered < b.answered

(* "Correlation: receiver uses correlation_id == sender.message_id":       *)
(* dispatch_packet returns the response to the packet it was given, not    *)
(* one to another.                                                         *)
AnswersMatch == \A a \in answers : a.answered = a.request

(* What dispatch_packet guarantees without matching: the response returned *)
(* is never to a later request, and at most as many requests old as earlier *)
(* dispatches on the session went without an answer; so it is the right    *)
(* one as long as none did.                                                *)
LagBounded == \A a \in answers : a.request - a.answered \in 0 .. a.missed

RuntimeInv == /\ TypeOK /\ DispatchAllowed /\ DispatchesCounted /\ PipelineInOrder
              /\ AnswersInOrder /\ LagBounded

(* No request goes round the gate or outlives its session: a request is   *)
(* queued only on a session that is open at that moment, and its Ref is    *)
(* one that resolves, although registrations, create_session and           *)
(* close_session run between dispatches and the peers within them.         *)
SendsAllowed ==
  [][\A s \in Sid : Len(toPeer'[s]) > Len(toPeer[s]) =>
       state[s] = "Init" /\ toPeer'[s][Len(toPeer'[s])].ref \in 1 .. caps]_vars
=============================================================================
