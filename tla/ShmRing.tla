------------------------------ MODULE ShmRing ------------------------------
(***************************************************************************)
(* aicl/transport/shared_memory_ring.py: a single-producer single-consumer *)
(* ring in shared memory.  There are no shared counters: each slot has a   *)
(* `used` byte, set by the producer and cleared by the consumer, and each  *)
(* side keeps a private cursor that never wraps (a Python int).            *)
(*                                                                         *)
(* The two sides are different processes, so every access to the shared    *)
(* segment is a step of its own.  A message is a record of the two things  *)
(* that are written separately, its length and its bytes: a message put    *)
(* together from two writes is a different record.                         *)
(***************************************************************************)
EXTENDS Integers, Sequences

CONSTANTS Msg,          \* messages handed to push: records [len, body]
          Capacity,     \* number of slots
          MaxPayload,   \* slot_size - _SLOT_DATA_OFFSET
          MaxSent       \* bound: messages accepted in one behaviour

ASSUME CapacityAssumption == Capacity \in Nat \ {0}
ASSUME MsgAssumption == \A m \in Msg : /\ DOMAIN m = {"len", "body"}
                                       /\ m = [len |-> m.len, body |-> m.body]
                                       /\ m.len \in Nat
ASSUME BoundAssumption == MaxPayload \in Nat /\ MaxSent \in Nat

VARIABLES used, length, data,       \* the slots, in the shared segment
          write_idx, ppc, pmsg,     \* producer: cursor, control, message at hand
          pmode, pout,              \*   nowait or blocking call, last outcome
          read_idx, cpc, clen,      \* consumer: cursor, control, length read
          cdata, cmode, cout,       \*   bytes read, kind of call, last outcome
          sent, received            \* history: published, and popped messages

shared   == <<used, length, data>>
producer == <<write_idx, ppc, pmsg, pmode, pout>>
consumer == <<read_idx, cpc, clen, cdata, cmode, cout>>
vars     == <<shared, producer, consumer, sent, received>>

Slots == 0 .. Capacity - 1
Modes == {"nowait", "wait"}
NoData == "none"
Bodies == {NoData} \cup {m.body : m \in Msg}
NoMsg == [len |-> 0, body |-> NoData]

_slot(idx) == idx % Capacity

Init ==
  /\ used = [s \in Slots |-> 0]
  /\ length = [s \in Slots |-> 0]
  /\ data = [s \in Slots |-> NoData]
  /\ write_idx = 0 /\ ppc = "idle" /\ pmsg = NoMsg /\ pmode = "nowait" /\ pout = "none"
  /\ read_idx = 0 /\ cpc = "idle" /\ clen = 0 /\ cdata = NoData
  /\ cmode = "nowait" /\ cout = "none"
  /\ sent = << >> /\ received = << >>

----------------------------------------------------------------------------
(* The producer: push_nowait, and push, which retries it until a deadline. *)

(* Entry of push_nowait or push: a payload larger than the slot raises     *)
(* ValueError before anything is written.                                  *)
PushCall(m, mode) ==
  /\ ppc = "idle" /\ Len(sent) < MaxSent
  /\ IF m.len > MaxPayload
     THEN ppc' = "idle" /\ pout' = "ValueError" /\ UNCHANGED <<pmsg, pmode>>
     ELSE ppc' = "check" /\ pout' = "none" /\ pmsg' = m /\ pmode' = mode
  /\ UNCHANGED <<shared, write_idx, consumer, sent, received>>

(* Mutant: the used byte is not looked at before the slot is written. *)
PushFreeUnchecked ==
  /\ ppc = "check"
  /\ ppc' = "len"
  /\ UNCHANGED <<shared, write_idx, pmsg, pmode, pout, consumer, sent, received>>

(* The slot is free: go on to write it. *)
PushFree ==
  /\ ppc = "check" /\ used[_slot(write_idx)] # 1
  /\ ppc' = "len"
  /\ UNCHANGED <<shared, write_idx, pmsg, pmode, pout, consumer, sent, received>>

(* Mutant: full is decided on the slot after the one to be written. *)
PushFullNextSlot ==
  /\ ppc = "check" /\ used[_slot(write_idx + 1)] = 1
  /\ ppc' = "idle"
  /\ pout' = IF pmode = "nowait" THEN "RingFull" ELSE "TimeoutError"
  /\ UNCHANGED <<shared, write_idx, pmsg, pmode, consumer, sent, received>>

(* Mutant: push retries without looking at its deadline. *)
PushFullNoDeadline ==
  /\ ppc = "check" /\ used[_slot(write_idx)] = 1 /\ pmode = "nowait"
  /\ ppc' = "idle" /\ pout' = "RingFull"
  /\ UNCHANGED <<shared, write_idx, pmsg, pmode, consumer, sent, received>>

(* The slot is in use: push_nowait raises RingFull; push tries again, which *)
(* changes nothing, until its deadline has passed.                          *)
PushFull ==
  /\ ppc = "check" /\ used[_slot(write_idx)] = 1
  /\ ppc' = "idle"
  /\ pout' = IF pmode = "nowait" THEN "RingFull" ELSE "TimeoutError"
  /\ UNCHANGED <<shared, write_idx, pmsg, pmode, consumer, sent, received>>

(* Mutant: the slot is published with its length, before its bytes. *)
PushLenPublishes ==
  /\ ppc = "len"
  /\ length' = [length EXCEPT ![_slot(write_idx)] = pmsg.len]
  /\ used' = [used EXCEPT ![_slot(write_idx)] = 1]
  /\ ppc' = "data"
  /\ UNCHANGED <<data, write_idx, pmsg, pmode, pout, consumer, sent, received>>

PushLen ==
  /\ ppc = "len"
  /\ length' = [length EXCEPT ![_slot(write_idx)] = pmsg.len]
  /\ ppc' = "data"
  /\ UNCHANGED <<used, data, write_idx, pmsg, pmode, pout, consumer, sent, received>>

PushData ==
  /\ ppc = "data"
  /\ data' = [data EXCEPT ![_slot(write_idx)] = pmsg.body]
  /\ ppc' = "publish"
  /\ UNCHANGED <<used, length, write_idx, pmsg, pmode, pout, consumer, sent, received>>

(* Mutant: the cursor moves on but the used byte is not written. *)
PushPublishForgotten ==
  /\ ppc = "publish"
  /\ write_idx' = write_idx + 1
  /\ ppc' = "idle" /\ pout' = "ok"
  /\ sent' = Append(sent, pmsg)
  /\ UNCHANGED <<shared, pmsg, pmode, consumer, received>>

(* used = 1 is the last write to the slot; the cursor is private. *)
PushPublish ==
  /\ ppc = "publish"
  /\ used' = [used EXCEPT ![_slot(write_idx)] = 1]
  /\ write_idx' = write_idx + 1
  /\ ppc' = "idle" /\ pout' = "ok"
  /\ sent' = Append(sent, pmsg)
  /\ UNCHANGED <<length, data, pmsg, pmode, consumer, received>>

----------------------------------------------------------------------------
(* The consumer: pop_nowait, and pop, which retries it until a deadline. *)

PopCall(mode) ==
  /\ cpc = "idle"
  /\ cpc' = "check" /\ cmode' = mode /\ cout' = "none"
  /\ UNCHANGED <<shared, producer, read_idx, clen, cdata, sent, received>>

PopAvailable ==
  /\ cpc = "check" /\ used[_slot(read_idx)] # 0
  /\ cpc' = "len"
  /\ UNCHANGED <<shared, producer, read_idx, clen, cdata, cmode, cout, sent, received>>

PopEmpty ==
  /\ cpc = "check" /\ used[_slot(read_idx)] = 0
  /\ cpc' = "idle"
  /\ cout' = IF cmode = "nowait" THEN "RingEmpty" ELSE "TimeoutError"
  /\ UNCHANGED <<shared, producer, read_idx, clen, cdata, cmode, sent, received>>

PopLen ==
  /\ cpc = "len"
  /\ clen' = length[_slot(read_idx)]
  /\ cpc' = "data"
  /\ UNCHANGED <<shared, producer, read_idx, cdata, cmode, cout, sent, received>>

(* The slice is copied out (bytes(...)) before the slot is released. *)
PopData ==
  /\ cpc = "data"
  /\ cdata' = data[_slot(read_idx)]
  /\ cpc' = "release"
  /\ UNCHANGED <<shared, producer, read_idx, clen, cmode, cout, sent, received>>

PopRelease ==
  /\ cpc = "release"
  /\ used' = [used EXCEPT ![_slot(read_idx)] = 0]
  /\ read_idx' = read_idx + 1
  /\ cpc' = "idle" /\ cout' = "ok"
  /\ received' = Append(received, [len |-> clen, body |-> cdata])
  /\ UNCHANGED <<length, data, producer, clen, cdata, cmode, sent>>

----------------------------------------------------------------------------
Push == PushFree \/ PushFull \/ PushLen \/ PushData \/ PushPublish
Pop  == PopAvailable \/ PopEmpty \/ PopLen \/ PopData \/ PopRelease

Next == \/ \E m \in Msg, mode \in Modes : PushCall(m, mode)
        \/ Push
        \/ \E mode \in Modes : PopCall(mode)
        \/ Pop

Spec == Init /\ [][Next]_vars

(* A call that has begun runs on, for neither side waits on a lock (in     *)
(* push and pop the deadline ends the retries).  Nothing is said of new    *)
(* calls: either side may have stopped using the ring.                     *)
FairSpec == Spec /\ WF_vars(Push) /\ WF_vars(Pop)

----------------------------------------------------------------------------
TypeOK ==
  /\ used \in [Slots -> {0, 1}]
  /\ length \in [Slots -> Nat]
  /\ data \in [Slots -> Bodies]
  /\ write_idx \in Nat /\ read_idx \in Nat
  /\ ppc \in {"idle", "check", "len", "data", "publish"}
  /\ cpc \in {"idle", "check", "len", "data", "release"}
  /\ pmsg \in Msg \cup {NoMsg} /\ (ppc # "idle" => pmsg \in Msg)
  /\ pmode \in Modes /\ cmode \in Modes
  /\ pout \in {"none", "ok", "RingFull", "TimeoutError", "ValueError"}
  /\ cout \in {"none", "ok", "RingEmpty", "TimeoutError"}
  /\ clen \in Nat /\ cdata \in Bodies
  /\ sent \in Seq(Msg) /\ received \in Seq([len : Nat, body : Bodies])

(* The ring implements the abstract FIFO: publishing a slot is Enqueue,    *)
(* releasing it is Dequeue, and every other step is invisible.             *)
Fifo == INSTANCE BoundedFifo

(* push/pop: the sequence popped is what was pushed, in order, with no     *)
(* message lost, repeated or put together from two writes, and never more  *)
(* than Capacity in flight.                                                *)
RingIsFifo == Fifo!FifoSpec

(* "the `used` byte is only ever written 0->1 by the producer and 1->0 by  *)
(* the consumer": while the producer writes a slot its byte is 0, while    *)
(* the consumer reads one it is 1, so the two never touch the same slot.   *)
SlotOwnership ==
  /\ ppc \in {"len", "data", "publish"} => used[_slot(write_idx)] = 0
  /\ cpc \in {"len", "data", "release"} => used[_slot(read_idx)] = 1

(* The indices of the messages published and not yet popped. *)
Pending == read_idx .. write_idx - 1

(* A used byte is set exactly in the slots of the pending messages, so the *)
(* private cursors, which nothing synchronises, never drift apart.         *)
UsedMarksPending ==
  \A s \in Slots : used[s] = 1 <=> \E i \in Pending : _slot(i) = s

(* The private cursors count the published and the popped messages, and    *)
(* the producer is never more than a lap ahead of the consumer.            *)
CursorsInStep ==
  /\ write_idx = Len(sent) /\ read_idx = Len(received)
  /\ read_idx <= write_idx /\ write_idx <= read_idx + Capacity

(* A pending slot holds the length and the bytes of its own message. *)
PendingIntact ==
  \A i \in Pending : /\ length[_slot(i)] = sent[i + 1].len
                     /\ data[_slot(i)] = sent[i + 1].body

(* What the two calls under way have already written or read. *)
CallsInProgress ==
  /\ ppc \in {"data", "publish"} => length[_slot(write_idx)] = pmsg.len
  /\ ppc = "publish" => data[_slot(write_idx)] = pmsg.body
  /\ cpc \in {"data", "release"} => clen = sent[read_idx + 1].len
  /\ cpc = "release" => cdata = sent[read_idx + 1].body

(* Popped messages are the published ones, in order and intact. *)
DeliveredInOrder == \A i \in 1 .. Len(received) : received[i] = sent[i]

(* The inductive invariant behind RingIsFifo. *)
RingInv == /\ TypeOK
           /\ CursorsInStep
           /\ UsedMarksPending
           /\ SlotOwnership
           /\ PendingIntact
           /\ CallsInProgress
           /\ DeliveredInOrder

(* RingFull and TimeoutError("ring buffer full") are raised only when      *)
(* Capacity messages really are in flight; RingEmpty and                   *)
(* TimeoutError("ring buffer empty") only when none is.                    *)
RefusalsAreReal ==
  [][/\ PushFull => Len(sent) - Len(received) = Capacity
     /\ PopEmpty => Len(sent) = Len(received)]_vars

(* Every published message is popped eventually, by a reader that does not *)
(* stop calling pop.                                                       *)
EventuallyDelivered ==
  []<>(cpc # "idle") => \A i \in 1 .. MaxSent : Len(sent) >= i ~> Len(received) >= i

(* Every push and every pop ends, in success, in RingFull or RingEmpty, or *)
(* at its deadline, even if the other process never touches the ring again. *)
CallsEnd == /\ ppc # "idle" ~> ppc = "idle"
            /\ cpc # "idle" ~> cpc = "idle"
=============================================================================
