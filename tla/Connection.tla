---------------------------- MODULE Connection ----------------------------
(***************************************************************************)
(* core-rust/src/router.rs: a Connection, which queues packets and drains  *)
(* them through a Router to handlers.  Everything takes &mut self, so one  *)
(* thread does it all; what makes the order of calls matter is the state   *)
(* they leave: the cursor, the handlers and the packets still queued when  *)
(* a drain stops at an error.                                              *)
(*                                                                         *)
(* A packet is a record: id, and refs, the indices of its Ref operands in  *)
(* order.  dispatch takes the handler out of the vector for the call and   *)
(* puts it back at the same place, which leaves the vector as it was.      *)
(***************************************************************************)
EXTENDS Integers, Sequences, FiniteSets, Functions

CONSTANTS RefLists,       \* sequences of Refs that a packet may carry
          Caps,           \* capabilities given to add_capability_handler
          max_inflight,   \* 1024 in Connection::new
          CursorModulus,  \* the cursor is modulo this: 2^64
          MaxHandlers,    \* bound: handlers added
          MaxPackets      \* bound: packets accepted

ASSUME BoundAssumption == {max_inflight, MaxHandlers, MaxPackets} \subseteq Nat
ASSUME CursorAssumption == CursorModulus \in Nat \ {0}
ASSUME RefAssumption == RefLists \subseteq Seq(Nat)

VARIABLES strategy,             \* Router: fixed when it is made
          cap_table, cursor,    \*   a handler is known by its index
          incoming,             \* queued packets
          draining, n,          \* in drain, and the count it will return
          accepted, done,       \* history: packets enqueued; packets taken out, and by whom
          calls,                \* history: calls of each handler since one was last added
          result                \* what the last drain returned

router == <<strategy, cap_table, cursor>>
vars   == <<router, incoming, draining, n, accepted, done, calls, result>>

Handlers == DOMAIN cap_table
NoHandler == 0

Init == /\ strategy \in {"RoundRobin", "Direct"}
        /\ cap_table = << >> /\ cursor = 0
        /\ incoming = << >> /\ draining = FALSE /\ n = 0
        /\ accepted = << >> /\ done = << >> /\ calls = << >>
        /\ result = "none"

----------------------------------------------------------------------------
(* add_handler is add_capability_handler for capability 0.  Calls are      *)
(* counted afresh from here on.                                            *)
add_capability_handler(c) ==
  /\ ~draining /\ Len(cap_table) < MaxHandlers
  /\ cap_table' = Append(cap_table, c)
  /\ calls' = [i \in 1 .. Len(cap_table) + 1 |-> 0]
  /\ UNCHANGED <<strategy, cursor, incoming, draining, n, accepted, done, result>>

enqueue(refs) ==
  /\ ~draining /\ Len(accepted) < MaxPackets
  /\ LET p == [id |-> Len(accepted) + 1, refs |-> refs] IN
     IF Len(incoming) >= max_inflight
     THEN UNCHANGED <<incoming, accepted>>
     ELSE incoming' = Append(incoming, p) /\ accepted' = Append(accepted, p)
  /\ UNCHANGED <<router, draining, n, done, calls, result>>

(* The handlers whose capability is the given Ref. *)
Serving(ref) == {i \in Handlers : cap_table[i] = ref}

Least(S) == CHOOSE x \in S : \A y \in S : x <= y

(* Direct: the first Ref that some handler serves, and the first handler   *)
(* that serves it.                                                         *)
PickDirect(p) ==
  LET known == {j \in DOMAIN p.refs : Serving(p.refs[j]) # {}}
  IN  IF known = {} THEN NoHandler ELSE Least(Serving(p.refs[Least(known)]))

(* Mutant: the cursor is reduced by the number of handlers less one. *)
PickSkipsLast(p) ==
  IF Handlers = {} THEN NoHandler
  ELSE IF strategy = "Direct" THEN PickDirect(p)
  ELSE (cursor % (IF Len(cap_table) > 1 THEN Len(cap_table) - 1 ELSE 1)) + 1

(* pick, with handlers numbered from 1. *)
pick(p) ==
  IF Handlers = {} THEN NoHandler
  ELSE IF strategy = "Direct" THEN PickDirect(p)
  ELSE (cursor % Len(cap_table)) + 1

drain ==
  /\ ~draining /\ draining' = TRUE /\ n' = 0 /\ result' = "none"
  /\ UNCHANGED <<router, incoming, accepted, done, calls>>

(* Mutant: a packet whose handler failed is queued again at the end. *)
DrainOneRequeues(ok) ==
  /\ draining /\ incoming # << >>
  /\ LET p == Head(incoming)
         h == pick(p)
     IN  /\ h # NoHandler
         /\ incoming' = IF ok THEN Tail(incoming) ELSE Append(Tail(incoming), p)
         /\ done' = Append(done, [p |-> p, by |-> h, responded |-> ok])
         /\ calls' = [calls EXCEPT ![h] = @ + 1]
         /\ cursor' = IF strategy = "RoundRobin" THEN (cursor + 1) % CursorModulus ELSE cursor
         /\ IF ok THEN n' = n + 1 /\ UNCHANGED <<draining, result>>
                  ELSE draining' = FALSE /\ result' = "HandlerError" /\ UNCHANGED n
  /\ UNCHANGED <<strategy, cap_table, accepted>>

(* One round of drain with a handler, which succeeds or fails.  A failure  *)
(* ends the drain: the packet is gone and the count of responses with it.  *)
DrainOne(ok) ==
  /\ draining /\ incoming # << >>
  /\ LET p == Head(incoming)
         h == pick(p)
     IN  /\ h # NoHandler
         /\ incoming' = Tail(incoming)
         /\ done' = Append(done, [p |-> p, by |-> h, responded |-> ok])
         /\ calls' = [calls EXCEPT ![h] = @ + 1]
         /\ cursor' = IF strategy = "RoundRobin" THEN (cursor + 1) % CursorModulus ELSE cursor
         /\ IF ok THEN n' = n + 1 /\ UNCHANGED <<draining, result>>
                  ELSE draining' = FALSE /\ result' = "HandlerError" /\ UNCHANGED n
  /\ UNCHANGED <<strategy, cap_table, accepted>>

(* One round of drain without a handler: NoHandler ends the drain too. *)
DrainNoHandler ==
  /\ draining /\ incoming # << >> /\ pick(Head(incoming)) = NoHandler
  /\ incoming' = Tail(incoming)
  /\ done' = Append(done, [p |-> Head(incoming), by |-> NoHandler, responded |-> FALSE])
  /\ draining' = FALSE /\ result' = "NoHandler"
  /\ UNCHANGED <<router, n, accepted, calls>>

(* The queue is empty: drain returns its count. *)
DrainEnd ==
  /\ draining /\ incoming = << >>
  /\ draining' = FALSE /\ result' = "Ok"
  /\ UNCHANGED <<router, incoming, n, accepted, done, calls>>

----------------------------------------------------------------------------
Next == \/ \E c \in Caps \cup {0} : add_capability_handler(c)
        \/ \E refs \in RefLists : enqueue(refs)
        \/ drain \/ DrainNoHandler \/ DrainEnd
        \/ \E ok \in BOOLEAN : DrainOne(ok)

Spec == Init /\ [][Next]_vars

----------------------------------------------------------------------------
Packet == [id : Nat, refs : RefLists]

TypeOK ==
  /\ strategy \in {"RoundRobin", "Direct"}
  /\ cap_table \in Seq(Caps \cup {0}) /\ cursor \in Nat /\ calls \in [Handlers -> Nat]
  /\ incoming \in Seq(Packet) /\ accepted \in Seq(Packet)
  /\ done \in Seq([p : Packet, by : Nat, responded : BOOLEAN])
  /\ draining \in BOOLEAN /\ n \in Nat
  /\ result \in {"none", "Ok", "NoHandler", "HandlerError"}

(* The packets taken out, in order. *)
Taken == [i \in 1 .. Len(done) |-> done[i].p]

(* Every accepted packet is taken out once, in the order of arrival, and   *)
(* never handed to a handler again, across drains that stop at an error;   *)
(* and Ok(n) means that the last n packets taken out were all answered.    *)
DrainAccounts ==
  /\ accepted = Taken \o incoming
  /\ result = "Ok" /\ ~draining =>
       n <= Len(done) /\ \A i \in Len(done) - n + 1 .. Len(done) : done[i].responded

(* Each strategy keeps its word while handlers are added and calls fail.   *)
(* "Distribute calls evenly across handlers": counted from the last        *)
(* handler added, no two are more than one call apart, as long as the      *)
(* cursor cannot have wrapped.  Direct: a handler is called only for a     *)
(* packet with a Ref to its own capability.                                *)
StrategyKept ==
  /\ strategy = "RoundRobin" /\ Len(done) < CursorModulus =>
       \A i, j \in DOMAIN calls : calls[i] - calls[j] <= 1
  /\ strategy = "Direct" => \A d \in Range(done) :
       d.by # NoHandler => cap_table[d.by] \in Range(d.p.refs)

----------------------------------------------------------------------------
(* The inductive invariant: the order of the packets, the count of a drain *)
(* while it runs, and how far each strategy has come.                      *)

CountKept == draining \/ result = "Ok" =>
  n <= Len(done) /\ \A i \in Len(done) - n + 1 .. Len(done) : done[i].responded

(* A handler was called only for a Ref of its own, and is still there. *)
DirectServes == strategy = "Direct" =>
  \A i \in 1 .. Len(done) : done[i].by # NoHandler =>
    done[i].by \in Handlers /\ cap_table[done[i].by] \in Range(done[i].p.refs)

(* How many turns after that of handler b + 1 it is the turn of x + 1. *)
Turns(b, x) == IF x >= b THEN x - b ELSE x - b + Len(cap_table)

(* Since handler b + 1 was the first to be called, every handler was       *)
(* called m times, and those before the cursor once more.                  *)
InTurn(b, m) ==
  \A i \in Handlers :
    calls[i] = m + IF Turns(b, i - 1) < Turns(b, cursor % Len(cap_table)) THEN 1 ELSE 0

RoundRobinTurns == Len(done) < CursorModulus =>
  /\ cursor <= Len(done)
  /\ strategy = "RoundRobin" /\ Handlers # {} =>
       \E b \in 0 .. Len(cap_table) - 1, m \in 0 .. Len(done) : InTurn(b, m)

ConnectionInv == /\ TypeOK /\ accepted = Taken \o incoming
                 /\ CountKept /\ DirectServes /\ RoundRobinTurns
=============================================================================
