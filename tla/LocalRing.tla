----------------------------- MODULE LocalRing -----------------------------
(***************************************************************************)
(* core-rust/src/local_path.rs: the lock-free ring under LocalChannel, one *)
(* direction of it.  The producer publishes by advancing `tail`, the       *)
(* consumer frees a slot by advancing `head`; both are unsigned counters   *)
(* that wrap at Modulus (2^64 in the code).                                *)
(*                                                                         *)
(* The threads run on a weakly ordered machine: an Acquire load of the     *)
(* other side's counter may return an old value, only never one older than *)
(* the thread has already seen.  hseen and tseen count the releases and    *)
(* the commits a thread has seen, and a load moves them to any value up to *)
(* the current one.  Release stores order the slot accesses before them.   *)
(*                                                                         *)
(* try_pop releases the slot before its caller reads the frame, so a       *)
(* RingBorrow is read while the producer may write: the copy into a slot   *)
(* takes two steps, and the bytes are Mixed in between.                    *)
(***************************************************************************)
EXTENDS Integers, Sequences

CONSTANTS Frame,         \* frames handed to push: records [len, op, body]
          Capacity,      \* number of slots
          Modulus,       \* counters are modulo this: 2^64
          SlotCapacity,  \* slot_size - SlotHeader::SIZE
          HEADER_SIZE,   \* where the opcode byte of a frame is
          Mixed,         \* the bytes of a slot in the middle of a copy
          Unread,        \* the borrow has not been read yet
          MaxSent        \* bound: frames accepted in one behaviour

ASSUME CapacityAssumption == Capacity \in Nat \ {0}
(* Not checked by the code: LocalRingBuffer::new accepts any capacity.  A  *)
(* capacity that does not divide 2^64 puts two pending frames in one slot  *)
(* when a counter wraps.                                                   *)
ASSUME ModulusAssumption == /\ Modulus \in Nat /\ Capacity < Modulus
                            /\ \E k \in 1 .. Modulus : Modulus = k * Capacity
ASSUME FrameAssumption == \A f \in Frame : f.len \in Nat
ASSUME BoundAssumption == SlotCapacity \in Nat /\ HEADER_SIZE \in Nat /\ MaxSent \in Nat

VARIABLES head, tail,           \* the two counters of RingHeader
          hdr, wire,            \* per slot: SlotHeader, and the wire bytes
          ppc, pidx, pframe,    \* producer: control, reserved index, frame
          hseen, avail, pout,   \*   releases seen, pushes promised, outcome
          cpc, cidx, chdr,      \* consumer: control, index, slot header read
          tseen, due, cout,     \*   commits seen, pops promised, outcome
          bytes,                \*   what was last read through the borrow
          sent, popped          \* history: frames committed, headers popped

ring     == <<head, tail, hdr, wire>>
producer == <<ppc, pidx, pframe, hseen, avail, pout>>
consumer == <<cpc, cidx, chdr, tseen, due, cout, bytes>>
vars     == <<ring, producer, consumer, sent, popped>>

Slots == 0 .. Capacity - 1

wrapping_add(a, b) == (a + b) % Modulus

wrapping_sub(a, b) == (a - b) % Modulus
slot_offset(index) == index % Capacity

(* SlotHeader::new(data.len(), opcode, ..): a frame with no byte after its *)
(* AICL header has opcode 0.                                               *)
SlotHeader(f) == [payload_len |-> f.len,
                  opcode |-> IF f.len > HEADER_SIZE THEN f.op ELSE 0]

NoHeader == [payload_len |-> 0, opcode |-> 0]

Init ==
  /\ head = 0 /\ tail = 0
  /\ hdr = [s \in Slots |-> NoHeader] /\ wire = [s \in Slots |-> Mixed]
  /\ ppc = "idle" /\ pidx = 0 /\ pframe \in Frame
  /\ hseen = 0 /\ avail = 0 /\ pout = "none"
  /\ cpc = "idle" /\ cidx = 0 /\ chdr = NoHeader
  /\ tseen = 0 /\ due = 0 /\ cout = "none" /\ bytes = Unread
  /\ sent = << >> /\ popped = << >>

----------------------------------------------------------------------------
(* Producer: available(), and push() called with a frame. *)

(* Mutant: one slot too many is promised. *)
AvailableOneMore(h) ==
  /\ ppc = "idle" /\ h \in hseen .. Len(popped)
  /\ hseen' = h
  /\ avail' = Capacity + 1 - wrapping_sub(tail, h % Modulus)
  /\ pout' = "none"
  /\ UNCHANGED <<ring, ppc, pidx, pframe, consumer, sent, popped>>

(* free_slots: the producer's own tail, and a load of head. *)
Available(h) ==
  /\ ppc = "idle" /\ h \in hseen .. Len(popped)
  /\ hseen' = h
  /\ avail' = Capacity - wrapping_sub(tail, h % Modulus)
  /\ pout' = "none"
  /\ UNCHANGED <<ring, ppc, pidx, pframe, consumer, sent, popped>>

(* Mutant: reserve() takes a ring for full only beyond its capacity. *)
ReserveOneMore(f, h) ==
  /\ ppc = "idle" /\ Len(sent) < MaxSent /\ h \in hseen .. Len(popped)
  /\ hseen' = h
  /\ wrapping_sub(tail, h % Modulus) <= Capacity
  /\ f.len <= SlotCapacity
  /\ ppc' = "header" /\ pidx' = tail /\ pframe' = f /\ pout' = "none"
  /\ UNCHANGED <<ring, avail, consumer, sent, popped>>

(* reserve() and the size check.  A full ring is reported before the size. *)
Reserve(f, h) ==
  /\ ppc = "idle" /\ Len(sent) < MaxSent /\ h \in hseen .. Len(popped)
  /\ hseen' = h
  /\ \/ /\ wrapping_sub(tail, h % Modulus) >= Capacity
        /\ pout' = "Backpressure" /\ UNCHANGED <<ppc, pidx, pframe>>
     \/ /\ wrapping_sub(tail, h % Modulus) < Capacity
        /\ f.len > SlotCapacity
        /\ pout' = "PayloadTooLarge" /\ UNCHANGED <<ppc, pidx, pframe>>
     \/ /\ wrapping_sub(tail, h % Modulus) < Capacity
        /\ f.len <= SlotCapacity
        /\ ppc' = "header" /\ pidx' = tail /\ pframe' = f /\ pout' = "none"
  /\ UNCHANGED <<ring, avail, consumer, sent, popped>>

PushHeader ==
  /\ ppc = "header"
  /\ hdr' = [hdr EXCEPT ![slot_offset(pidx)] = SlotHeader(pframe)]
  /\ ppc' = "copy"
  /\ UNCHANGED <<head, tail, wire, pidx, pframe, hseen, avail, pout, consumer, sent, popped>>

(* copy_nonoverlapping, begun and then finished. *)
PushCopy ==
  /\ \/ ppc = "copy" /\ ppc' = "copying"
        /\ wire' = [wire EXCEPT ![slot_offset(pidx)] = Mixed]
     \/ ppc = "copying" /\ ppc' = "commit"
        /\ wire' = [wire EXCEPT ![slot_offset(pidx)] = pframe.body]
  /\ UNCHANGED <<head, tail, hdr, pidx, pframe, hseen, avail, pout, consumer, sent, popped>>

Commit ==
  /\ ppc = "commit"
  /\ tail' = wrapping_add(tail, 1)
  /\ ppc' = "idle" /\ pout' = "ok"
  /\ sent' = Append(sent, pframe)
  /\ avail' = IF avail > 0 THEN avail - 1 ELSE 0
  /\ UNCHANGED <<head, hdr, wire, pidx, pframe, hseen, consumer, popped>>

----------------------------------------------------------------------------
(* Consumer: pending(), and try_pop() followed by the use of its borrow. *)

(* pending_slots: a load of tail, and the consumer's own head. *)
PendingCall(t) ==
  /\ cpc \in {"idle", "borrowed"} /\ t \in tseen .. Len(sent)
  /\ tseen' = t
  /\ due' = wrapping_sub(t % Modulus, head)
  /\ cout' = "none"
  /\ UNCHANGED <<ring, producer, cpc, cidx, chdr, bytes, sent, popped>>

(* A new try_pop ends the previous borrow. *)
Acquire(t) ==
  /\ cpc \in {"idle", "borrowed"} /\ t \in tseen .. Len(sent)
  /\ tseen' = t
  /\ IF head = t % Modulus
     THEN cpc' = "idle" /\ cout' = "Empty" /\ UNCHANGED cidx
     ELSE cpc' = "header" /\ cidx' = head /\ cout' = "none"
  /\ bytes' = Unread
  /\ UNCHANGED <<ring, producer, chdr, due, sent, popped>>

PopHeader ==
  /\ cpc = "header"
  /\ chdr' = hdr[slot_offset(cidx)]
  /\ cpc' = "release"
  /\ UNCHANGED <<ring, producer, cidx, tseen, due, cout, bytes, sent, popped>>

(* Mutant: the slot header is read again after head has moved. *)
ReleaseThenHeader ==
  /\ cpc = "release"
  /\ head' = wrapping_add(head, 1)
  /\ cpc' = "borrowed" /\ cout' = "ok"
  /\ chdr' = hdr[slot_offset(head')]
  /\ popped' = Append(popped, chdr')
  /\ due' = IF due > 0 THEN due - 1 ELSE 0
  /\ UNCHANGED <<tail, hdr, wire, producer, cidx, tseen, bytes, sent>>

(* The slot goes back to the producer, and then the borrow is handed out. *)
Release ==
  /\ cpc = "release"
  /\ head' = wrapping_add(head, 1)
  /\ cpc' = "borrowed" /\ cout' = "ok"
  /\ popped' = Append(popped, chdr)
  /\ due' = IF due > 0 THEN due - 1 ELSE 0
  /\ UNCHANGED <<tail, hdr, wire, producer, cidx, chdr, tseen, bytes, sent>>

(* Mutant: the borrow points at the slot that head now names. *)
ReadBorrowAtHead ==
  /\ cpc = "borrowed"
  /\ bytes' = wire[slot_offset(head)]
  /\ UNCHANGED <<ring, producer, cpc, cidx, chdr, tseen, due, cout, sent, popped>>

(* data(): recv copies the bytes once and decodes the copy; the view of    *)
(* try_recv_zero_copy reads them whenever its holder asks.                 *)
ReadBorrow ==
  /\ cpc = "borrowed"
  /\ bytes' = wire[slot_offset(cidx)]
  /\ UNCHANGED <<ring, producer, cpc, cidx, chdr, tseen, due, cout, sent, popped>>

(* The borrow, or the view made from it, is dropped. *)
DropBorrow ==
  /\ cpc = "borrowed" /\ cpc' = "idle" /\ bytes' = Unread
  /\ UNCHANGED <<ring, producer, cidx, chdr, tseen, due, cout, sent, popped>>

----------------------------------------------------------------------------
Next == \/ \E h \in 0 .. Len(popped) : Available(h) \/ \E f \in Frame : Reserve(f, h)
        \/ PushHeader \/ PushCopy \/ Commit
        \/ \E t \in 0 .. Len(sent) : PendingCall(t) \/ Acquire(t)
        \/ PopHeader \/ Release \/ ReadBorrow \/ DropBorrow

Spec == Init /\ [][Next]_vars

----------------------------------------------------------------------------
Headers == [payload_len : Nat, opcode : {0} \cup {f.op : f \in Frame}]
Bytes   == {Mixed} \cup {f.body : f \in Frame}

TypeOK ==
  /\ head \in 0 .. Modulus - 1 /\ tail \in 0 .. Modulus - 1
  /\ hdr \in [Slots -> Headers] /\ wire \in [Slots -> Bytes]
  /\ ppc \in {"idle", "header", "copy", "copying", "commit"}
  /\ pidx \in Nat /\ pframe \in Frame /\ hseen \in Nat /\ avail \in 0 .. Capacity
  /\ pout \in {"none", "ok", "Backpressure", "PayloadTooLarge"}
  /\ cpc \in {"idle", "header", "release", "borrowed"}
  /\ cidx \in Nat /\ chdr \in Headers /\ tseen \in Nat /\ due \in 0 .. Capacity
  /\ cout \in {"none", "ok", "Empty"} /\ bytes \in Bytes \cup {Unread}
  /\ sent \in Seq(Frame) /\ popped \in Seq(Headers)

(* The index, counted from the start, of the frame the consumer borrows. *)
Borrowed == Len(popped) - 1

(* The frames committed and not yet popped. *)
Pending == Len(popped) .. Len(sent) - 1

(* push never writes a slot whose frame has not been popped: every pending *)
(* frame is in its slot, header and bytes, whatever the two threads have   *)
(* seen of each other's counters and however often these have wrapped.     *)
PendingIntact ==
  \A i \in Pending : /\ hdr[slot_offset(i)] = SlotHeader(sent[i + 1])
                     /\ wire[slot_offset(i)] = sent[i + 1].body

(* The counters are the counts modulo 2^64, and the wrapped difference is  *)
(* the true number of pending frames: never more than Capacity.            *)
CountersTrue ==
  /\ tail = Len(sent) % Modulus /\ head = Len(popped) % Modulus
  /\ wrapping_sub(tail, head) = Len(sent) - Len(popped)
  /\ Len(sent) - Len(popped) \in 0 .. Capacity

(* The slot headers handed out by try_pop (RingBorrow::opcode and          *)
(* payload_len) form a FIFO: they are copied before the slot is released.  *)
Fifo == INSTANCE BoundedFifo
          WITH Msg <- {SlotHeader(f) : f \in Frame},
               sent <- [i \in 1 .. Len(sent) |-> SlotHeader(sent[i])],
               received <- popped
HeadersAreFifo == Fifo!FifoSpec

(* What a RingBorrow guarantees: its bytes stay those of the popped frame  *)
(* until the producer starts to copy the frame one lap ahead of it.        *)
Lapped == \/ Len(sent) > Borrowed + Capacity
          \/ Len(sent) = Borrowed + Capacity /\ ppc \in {"copying", "commit"}

BorrowIntactUntilLapped ==
  cpc = "borrowed" /\ ~Lapped
    => /\ wire[slot_offset(cidx)] = sent[Borrowed + 1].body
       /\ bytes \in {Unread, sent[Borrowed + 1].body}

(* available() is a promise: that many pushes cannot meet Backpressure,    *)
(* and pending() likewise for try_pop, although the other thread runs on.  *)
PromisesKept ==
  [][/\ \A h \in 0 .. Len(popped), f \in Frame :
          Reserve(f, h) /\ pout' = "Backpressure" => avail = 0
     /\ \A t \in 0 .. Len(sent) : Acquire(t) /\ cout' = "Empty" => due = 0]_vars

(* How far each thread may be behind what it has seen of the other. *)
SeenInOrder ==
  /\ hseen <= Len(popped) /\ Len(popped) <= tseen /\ tseen <= Len(sent)
  /\ Len(sent) <= hseen + Capacity
  /\ ppc # "idle" => Len(sent) < hseen + Capacity /\ pidx = tail
  /\ cpc \in {"header", "release"} => Len(popped) < tseen /\ cidx = head
  /\ cpc = "borrowed" => Len(popped) > 0 /\ cidx = Borrowed % Modulus
  /\ cpc # "borrowed" => bytes = Unread

(* What the push and the try_pop under way have already written or read. *)
CallsInProgress ==
  /\ ppc \in {"copy", "copying", "commit"} => hdr[slot_offset(pidx)] = SlotHeader(pframe)
  /\ ppc = "commit" => wire[slot_offset(pidx)] = pframe.body
  /\ cpc = "release" => chdr = SlotHeader(sent[Len(popped) + 1])

(* The promises outstanding are covered by what the thread has seen. *)
PromisesCovered == avail <= (hseen + Capacity) - Len(sent) /\ due <= tseen - Len(popped)

PoppedInOrder == \A i \in 1 .. Len(popped) : popped[i] = SlotHeader(sent[i])

(* The inductive invariant of the ring. *)
LocalInv == /\ TypeOK
            /\ tail = Len(sent) % Modulus /\ head = Len(popped) % Modulus
            /\ SeenInOrder
            /\ PendingIntact
            /\ CallsInProgress
            /\ BorrowIntactUntilLapped
            /\ PromisesCovered
            /\ PoppedInOrder
=============================================================================
