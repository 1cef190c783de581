---------------------------- MODULE ShmRingProofs ----------------------------
(***************************************************************************)
(* Proofs about the shared-memory ring of ShmRing, for every capacity,     *)
(* every set of messages and every number of them.                         *)
(***************************************************************************)
EXTENDS ShmRing, NatLemmas

(* A cursor value names a slot of the segment. *)
LEMMA SlotInRange == \A i \in Nat : _slot(i) \in Slots
  BY CapacityAssumption, DivMod DEF _slot, Slots

(* Type correctness of the ring: the slots, the cursors and the two calls. *)
THEOREM TypeCorrect == Spec => []TypeOK
  <1>1. Init => TypeOK
    BY CapacityAssumption DEF Init, TypeOK, Slots, Modes, NoMsg, Bodies
  <1>2. TypeOK /\ [Next]_vars => TypeOK'
    <2> SUFFICES ASSUME TypeOK, [Next]_vars PROVE TypeOK'
      OBVIOUS
    <2> USE SlotInRange DEF TypeOK, shared, producer, consumer
    <2>1. ASSUME NEW m \in Msg, NEW mode \in Modes, PushCall(m, mode)
          PROVE  TypeOK'
      BY <2>1 DEF PushCall
    <2>2. CASE PushFree
      BY <2>2 DEF PushFree
    <2>3. CASE PushFull
      BY <2>3 DEF PushFull
    <2>4. CASE PushLen
      BY <2>4, MsgAssumption DEF PushLen
    <2>5. CASE PushData
      BY <2>5, MsgAssumption DEF PushData, Bodies
    <2>6. CASE PushPublish
      <3>1. sent' \in Seq(Msg)
        BY <2>6 DEF PushPublish
      <3>2. used' \in [Slots -> {0, 1}] /\ write_idx' \in Nat
        BY <2>6 DEF PushPublish
      <3>3. QED
        BY <2>6, <3>1, <3>2 DEF PushPublish
    <2>7. ASSUME NEW mode \in Modes, PopCall(mode)
          PROVE  TypeOK'
      BY <2>7 DEF PopCall
    <2>8. CASE PopAvailable
      BY <2>8 DEF PopAvailable
    <2>9. CASE PopEmpty
      BY <2>9 DEF PopEmpty
    <2>10. CASE PopLen
      BY <2>10 DEF PopLen
    <2>11. CASE PopData
      BY <2>11 DEF PopData
    <2>12. CASE PopRelease
      <3>1. received' \in Seq([len : Nat, body : Bodies])
        BY <2>12 DEF PopRelease
      <3>2. used' \in [Slots -> {0, 1}]
        BY <2>12 DEF PopRelease
      <3>3. read_idx' \in Nat
        BY <2>12 DEF PopRelease
      <3>4. UNCHANGED <<length, data, producer, clen, cdata, cmode, sent>> /\ cpc' = "idle" /\ cout' = "ok"
        BY <2>12 DEF PopRelease
      <3>5. QED
        BY <3>1, <3>2, <3>3, <3>4
    <2>13. CASE UNCHANGED vars
      BY <2>13 DEF vars
    <2>14. QED
      BY <2>1, <2>2, <2>3, <2>4, <2>5, <2>6, <2>7, <2>8, <2>9, <2>10, <2>11,
         <2>12, <2>13 DEF Next, Push, Pop
  <1>3. QED
    BY <1>1, <1>2, PTL DEF Spec

----------------------------------------------------------------------------
(* Two pending messages, or a pending one and the next to be published,    *)
(* never share a slot while the producer is less than a lap ahead.         *)
LEMMA NextSlotIsFree ==
  ASSUME TypeOK, CursorsInStep, write_idx < read_idx + Capacity
  PROVE  \A i \in Pending : _slot(i) # _slot(write_idx)
  <1> TAKE i \in Pending
  <1>1. i \in Nat /\ write_idx \in Nat /\ i < write_idx /\ write_idx - i < Capacity
    BY CapacityAssumption DEF TypeOK, CursorsInStep, Pending
  <1>2. QED
    BY <1>1, CapacityAssumption, SlotsDistinct DEF _slot

LEMMA PendingSlotsDistinct ==
  ASSUME TypeOK, CursorsInStep
  PROVE  \A i \in Pending : i # read_idx => _slot(i) # _slot(read_idx)
  <1> SUFFICES ASSUME NEW i \in Pending, i # read_idx
               PROVE  _slot(i) # _slot(read_idx)
    OBVIOUS
  <1>1. i \in Nat /\ read_idx \in Nat /\ read_idx < i /\ i - read_idx < Capacity
    BY CapacityAssumption DEF TypeOK, CursorsInStep, Pending
  <1>2. QED
    BY <1>1, CapacityAssumption, SlotsDistinct DEF _slot

(* The used byte tells the producer whether it is a whole lap ahead. *)
LEMMA UsedMeansFull ==
  ASSUME TypeOK, CursorsInStep, UsedMarksPending
  PROVE  used[_slot(write_idx)] = 1 <=> write_idx = read_idx + Capacity
  <1>1. CASE write_idx < read_idx + Capacity
    <2>1. ~ \E i \in Pending : _slot(i) = _slot(write_idx)
      BY <1>1, NextSlotIsFree
    <2>2. _slot(write_idx) \in Slots
      BY SlotInRange DEF TypeOK
    <2>3. QED
      BY <1>1, <2>1, <2>2, CapacityAssumption DEF UsedMarksPending, TypeOK
  <1>2. CASE write_idx = read_idx + Capacity
    <2>1. _slot(read_idx) = _slot(write_idx)
      BY <1>2, SlotNextLap, CapacityAssumption DEF TypeOK, _slot
    <2>2. read_idx \in Pending
      BY <1>2, CapacityAssumption DEF TypeOK, Pending
    <2>3. _slot(write_idx) \in Slots
      BY SlotInRange DEF TypeOK
    <2>4. QED
      BY <1>2, <2>1, <2>2, <2>3 DEF UsedMarksPending
  <1>3. write_idx \in Nat /\ read_idx \in Nat
    BY DEF TypeOK
  <1>4. write_idx < read_idx + Capacity \/ write_idx = read_idx + Capacity
    BY <1>3, CapacityAssumption DEF CursorsInStep
  <1>5. QED
    BY <1>1, <1>2, <1>4

(* The used byte tells the consumer whether a message is waiting. *)
LEMMA UsedMeansPending ==
  ASSUME TypeOK, CursorsInStep, UsedMarksPending
  PROVE  used[_slot(read_idx)] = 1 <=> read_idx < write_idx
  <1>1. _slot(read_idx) \in Slots
    BY SlotInRange DEF TypeOK
  <1>2. CASE read_idx < write_idx
    <2>1. read_idx \in Pending
      BY <1>2 DEF TypeOK, Pending
    <2>2. QED
      BY <1>1, <1>2, <2>1 DEF UsedMarksPending
  <1>3. CASE read_idx = write_idx
    <2>1. Pending = {}
      BY <1>3 DEF TypeOK, Pending
    <2>2. QED
      BY <1>1, <1>3, <2>1 DEF UsedMarksPending, TypeOK
  <1>4. QED
    BY <1>2, <1>3 DEF CursorsInStep, TypeOK

----------------------------------------------------------------------------
(* Each step preserves RingInv, one lemma for each half of the ring. *)

LEMMA ProducerPreserves ==
  ASSUME RingInv, TypeOK', Push \/ \E m \in Msg, mode \in Modes : PushCall(m, mode)
  PROVE  RingInv'
  <1> USE DEF RingInv, shared, producer, consumer
  <1>1. write_idx \in Nat /\ read_idx \in Nat /\ Capacity \in Nat \ {0}
    BY CapacityAssumption DEF TypeOK
  <1>2. _slot(write_idx) \in Slots
    BY <1>1, SlotInRange
  <1>3. \A i \in Pending : i \in Nat /\ _slot(i) \in Slots
    BY <1>1, SlotInRange DEF Pending
  <1>4. ASSUME NEW m \in Msg, NEW mode \in Modes, PushCall(m, mode)
        PROVE  RingInv'
    BY <1>4 DEF PushCall, CursorsInStep, UsedMarksPending, SlotOwnership,
                PendingIntact, CallsInProgress, DeliveredInOrder, Pending
  <1>5. CASE PushFree
    <2>1. used[_slot(write_idx)] = 0
      BY <1>2, <1>5 DEF PushFree, TypeOK
    <2>2. QED
      BY <1>5, <2>1 DEF PushFree, CursorsInStep, UsedMarksPending, SlotOwnership,
                PendingIntact, CallsInProgress, DeliveredInOrder, Pending
  <1>6. CASE PushFull
    BY <1>6 DEF PushFull, CursorsInStep, UsedMarksPending, SlotOwnership,
                PendingIntact, CallsInProgress, DeliveredInOrder, Pending
  <1>7. CASE PushLen \/ PushData
    <2>1. used[_slot(write_idx)] = 0
      BY <1>7 DEF PushLen, PushData, SlotOwnership
    <2>2. \A i \in Pending : _slot(i) # _slot(write_idx)
      BY <1>2, <1>3, <2>1 DEF UsedMarksPending
    <2>3. PendingIntact'
      BY <1>2, <1>3, <1>7, <2>2 DEF PushLen, PushData, PendingIntact, Pending, TypeOK
    <2>4. CallsInProgress'
      BY <1>2, <1>7 DEF PushLen, PushData, CallsInProgress, TypeOK
    <2>5. QED
      BY <1>7, <2>3, <2>4 DEF PushLen, PushData, CursorsInStep, UsedMarksPending,
                SlotOwnership, DeliveredInOrder, Pending
  <1>8. CASE PushPublish
    <2>1. used[_slot(write_idx)] = 0
      BY <1>8 DEF PushPublish, SlotOwnership
    <2>2. \A i \in Pending : _slot(i) # _slot(write_idx)
      BY <1>2, <1>3, <2>1 DEF UsedMarksPending
    <2>3. write_idx < read_idx + Capacity
      <3>1. write_idx # read_idx + Capacity
        BY <2>1, UsedMeansFull
      <3>2. QED
        BY <1>1, <3>1 DEF CursorsInStep
    <2>4. /\ write_idx' = write_idx + 1 /\ read_idx' = read_idx
          /\ sent' = Append(sent, pmsg) /\ received' = received
          /\ length' = length /\ data' = data
          /\ sent \in Seq(Msg) /\ pmsg \in Msg
      BY <1>8 DEF PushPublish, TypeOK
    <2>5. Len(sent') = Len(sent) + 1 /\ \A i \in 1 .. Len(sent) : sent'[i] = sent[i]
      BY <2>4
    <2>6. sent'[write_idx + 1] = pmsg
      BY <2>4 DEF CursorsInStep
    <2>7. Pending' = Pending \cup {write_idx}
      BY <1>1, <2>4 DEF Pending, CursorsInStep
    <2>8. CursorsInStep'
      BY <1>1, <2>3, <2>4, <2>5 DEF CursorsInStep
    <2>9. UsedMarksPending'
      BY <1>2, <1>8, <2>7 DEF PushPublish, UsedMarksPending, TypeOK
    <2>10. SlotOwnership'
      BY <1>2, <1>8 DEF PushPublish, SlotOwnership, TypeOK
    <2>11. PendingIntact'
      <3>1. length[_slot(write_idx)] = pmsg.len /\ data[_slot(write_idx)] = pmsg.body
        BY <1>8 DEF PushPublish, CallsInProgress
      <3>2. \A i \in Pending : sent'[i + 1] = sent[i + 1]
        BY <1>1, <2>5 DEF Pending, CursorsInStep
      <3>3. QED
        BY <2>4, <2>6, <2>7, <3>1, <3>2 DEF PendingIntact
    <2>12. CallsInProgress'
      <3>1. cpc \in {"data", "release"} => sent'[read_idx + 1] = sent[read_idx + 1]
        <4>1. cpc \in {"data", "release"} => read_idx < write_idx
          BY UsedMeansPending DEF SlotOwnership
        <4>2. QED
          BY <1>1, <2>5, <4>1 DEF CursorsInStep
      <3>2. QED
        BY <1>8, <3>1 DEF PushPublish, CallsInProgress
    <2>13. DeliveredInOrder'
      BY <1>1, <2>4, <2>5 DEF DeliveredInOrder, CursorsInStep
    <2>14. QED
      BY <2>8, <2>9, <2>10, <2>11, <2>12, <2>13
  <1>9. QED
    BY <1>4, <1>5, <1>6, <1>7, <1>8 DEF Push

LEMMA ConsumerPreserves ==
  ASSUME RingInv, TypeOK', Pop \/ \E mode \in Modes : PopCall(mode)
  PROVE  RingInv'
  <1> USE DEF RingInv, shared, producer, consumer
  <1>1. write_idx \in Nat /\ read_idx \in Nat /\ Capacity \in Nat \ {0}
    BY CapacityAssumption DEF TypeOK
  <1>2. _slot(read_idx) \in Slots
    BY <1>1, SlotInRange
  <1>3. ASSUME NEW mode \in Modes, PopCall(mode)
        PROVE  RingInv'
    BY <1>3 DEF PopCall, CursorsInStep, UsedMarksPending, SlotOwnership,
                PendingIntact, CallsInProgress, DeliveredInOrder, Pending
  <1>4. CASE PopAvailable
    <2>1. used[_slot(read_idx)] = 1
      BY <1>2, <1>4 DEF PopAvailable, TypeOK
    <2>2. QED
      BY <1>4, <2>1 DEF PopAvailable, CursorsInStep, UsedMarksPending, SlotOwnership,
                PendingIntact, CallsInProgress, DeliveredInOrder, Pending
  <1>5. CASE PopEmpty
    BY <1>5 DEF PopEmpty, CursorsInStep, UsedMarksPending, SlotOwnership,
                PendingIntact, CallsInProgress, DeliveredInOrder, Pending
  <1>6. cpc \in {"len", "data", "release"} => read_idx \in Pending
    BY <1>1, UsedMeansPending DEF SlotOwnership, Pending
  <1>7. CASE PopLen \/ PopData
    <2>1. CallsInProgress'
      BY <1>6, <1>7 DEF PopLen, PopData, CallsInProgress, PendingIntact
    <2>2. QED
      BY <1>7, <2>1 DEF PopLen, PopData, CursorsInStep, UsedMarksPending, SlotOwnership,
                PendingIntact, DeliveredInOrder, Pending
  <1>8. CASE PopRelease
    <2>1. /\ read_idx' = read_idx + 1 /\ write_idx' = write_idx
          /\ received' = Append(received, [len |-> clen, body |-> cdata])
          /\ sent' = sent /\ length' = length /\ data' = data
          /\ received \in Seq([len : Nat, body : Bodies])
          /\ sent \in Seq(Msg)
          /\ [len |-> clen, body |-> cdata] \in [len : Nat, body : Bodies]
      BY <1>8 DEF PopRelease, TypeOK
    <2>2. read_idx \in Pending /\ read_idx < write_idx
      BY <1>1, <1>6, <1>8 DEF PopRelease, Pending
    <2>3. Pending' = Pending \ {read_idx}
      BY <1>1, <2>1 DEF Pending
    <2>4. \A i \in Pending' : _slot(i) # _slot(read_idx)
      BY <2>3, PendingSlotsDistinct
    <2>5. Len(received') = Len(received) + 1 /\ \A i \in 1 .. Len(received) : received'[i] = received[i]
      BY <2>1
    <2>6. CursorsInStep'
      BY <1>1, <2>1, <2>2, <2>5 DEF CursorsInStep
    <2>7. UsedMarksPending'
      BY <1>2, <1>8, <2>3, <2>4 DEF PopRelease, UsedMarksPending, TypeOK
    <2>8. SlotOwnership'
      <3>1. ppc \in {"len", "data", "publish"} => _slot(write_idx) # _slot(read_idx)
        BY <1>2, <1>8 DEF PopRelease, SlotOwnership
      <3>2. _slot(write_idx) \in Slots
        BY <1>1, SlotInRange
      <3>3. QED
        BY <1>2, <1>8, <3>1, <3>2 DEF PopRelease, SlotOwnership, TypeOK
    <2>9. PendingIntact'
      BY <2>1, <2>3 DEF PendingIntact
    <2>10. CallsInProgress'
      BY <1>8 DEF PopRelease, CallsInProgress
    <2>11. DeliveredInOrder'
      <3>1. sent[read_idx + 1] \in Msg
        BY <1>1, <2>1, <2>2 DEF CursorsInStep
      <3>2. received'[Len(received) + 1] = [len |-> clen, body |-> cdata]
        BY <2>1
      <3>3. received'[Len(received) + 1] = sent[Len(received) + 1]
        BY <1>8, <3>1, <3>2, MsgAssumption DEF PopRelease, CallsInProgress, CursorsInStep
      <3>4. QED
        BY <2>1, <2>5, <3>3 DEF DeliveredInOrder, CursorsInStep
    <2>12. QED
      BY <2>6, <2>7, <2>8, <2>9, <2>10, <2>11
  <1>9. QED
    BY <1>3, <1>4, <1>5, <1>7, <1>8 DEF Pop

(* The inductive invariant of the ring: cursors in step, used bytes that   *)
(* mark exactly the pending slots, pending slots intact, popped messages   *)
(* equal to the published ones in order.                                   *)
THEOREM RingCorrect == Spec => []RingInv
  <1>1. Init => RingInv
    <2> SUFFICES ASSUME Init PROVE RingInv
      OBVIOUS
    <2>1. TypeOK
      BY CapacityAssumption DEF Init, TypeOK, Slots, Modes, NoMsg, Bodies
    <2>2. Pending = {}
      BY DEF Init, Pending
    <2>3. CursorsInStep /\ DeliveredInOrder
      BY CapacityAssumption DEF Init, CursorsInStep, DeliveredInOrder
    <2>4. UsedMarksPending /\ PendingIntact
      BY <2>2 DEF Init, UsedMarksPending, PendingIntact
    <2>5. SlotOwnership /\ CallsInProgress
      BY DEF Init, SlotOwnership, CallsInProgress
    <2>6. QED
      BY <2>1, <2>3, <2>4, <2>5 DEF RingInv
  <1>2. RingInv /\ TypeOK' /\ [Next]_vars => RingInv'
    <2>1. CASE Next
      BY <2>1, ProducerPreserves, ConsumerPreserves DEF Next
    <2>2. CASE UNCHANGED vars
      BY <2>2 DEF vars, shared, producer, consumer, RingInv, TypeOK, CursorsInStep,
         UsedMarksPending, SlotOwnership, PendingIntact, CallsInProgress,
         DeliveredInOrder, Pending
    <2>3. QED
      BY <2>1, <2>2
  <1>3. QED
    BY <1>1, <1>2, TypeCorrect, PTL DEF Spec

(* While the producer writes a slot its used byte is 0, while the consumer *)
(* reads one it is 1: the two processes never touch the same slot.         *)
THEOREM NoSlotRace == Spec => []SlotOwnership
  BY RingCorrect, PTL DEF RingInv

(* The used bytes are exactly those of the pending messages. *)
THEOREM UsedBytesExact == Spec => []UsedMarksPending
  BY RingCorrect, PTL DEF RingInv

(* RingFull is raised only with Capacity messages in flight, RingEmpty only *)
(* with none.                                                               *)
THEOREM RefusalsReal == Spec => RefusalsAreReal
  <1>1. RingInv /\ PushFull => Len(sent) - Len(received) = Capacity
    <2> SUFFICES ASSUME RingInv, PushFull PROVE Len(sent) - Len(received) = Capacity
      OBVIOUS
    <2>1. write_idx = read_idx + Capacity
      BY UsedMeansFull DEF RingInv, PushFull
    <2>2. write_idx \in Nat /\ read_idx \in Nat
      BY DEF RingInv, TypeOK
    <2>3. QED
      BY <2>1, <2>2, CapacityAssumption DEF RingInv, CursorsInStep
  <1>2. RingInv /\ PopEmpty => Len(sent) = Len(received)
    <2> SUFFICES ASSUME RingInv, PopEmpty PROVE Len(sent) = Len(received)
      OBVIOUS
    <2>1. ~ (read_idx < write_idx)
      BY UsedMeansPending DEF RingInv, PopEmpty
    <2>2. write_idx \in Nat /\ read_idx \in Nat
      BY DEF RingInv, TypeOK
    <2>3. QED
      BY <2>1, <2>2 DEF RingInv, CursorsInStep
  <1>3. QED
    BY <1>1, <1>2, RingCorrect, PTL DEF RefusalsAreReal, Spec

(* The ring implements the bounded FIFO of BoundedFifo: nothing is lost,   *)
(* repeated, reordered or torn, whatever the interleaving of the two       *)
(* processes.                                                              *)
THEOREM ImplementsFifo == Spec => RingIsFifo
  <1>1. Init => Fifo!FifoInit
    BY DEF Init, Fifo!FifoInit
  <1>2. RingInv /\ RingInv' /\ [Next]_vars => [Fifo!FifoNext]_(Fifo!fifoVars)
    <2> SUFFICES ASSUME RingInv, RingInv', [Next]_vars
                 PROVE  [Fifo!FifoNext]_(Fifo!fifoVars)
      OBVIOUS
    <2> USE DEF shared, producer, consumer, Fifo!fifoVars
    <2>1. CASE PushPublish
      <3>1. used[_slot(write_idx)] = 0 /\ pmsg \in Msg
        BY <2>1 DEF PushPublish, RingInv, SlotOwnership, TypeOK
      <3>2. write_idx # read_idx + Capacity
        BY <3>1, UsedMeansFull DEF RingInv
      <3>3. write_idx \in Nat /\ read_idx \in Nat
        BY DEF RingInv, TypeOK
      <3>4. Len(sent) - Len(received) < Capacity
        BY <3>2, <3>3, CapacityAssumption DEF RingInv, CursorsInStep
      <3>5. Fifo!Enqueue(pmsg)
        BY <2>1, <3>4 DEF PushPublish, Fifo!Enqueue
      <3>6. QED
        BY <3>1, <3>5 DEF Fifo!FifoNext
    <2>2. CASE PopRelease
      <3>1. read_idx < write_idx
        BY <2>2, UsedMeansPending DEF PopRelease, RingInv, SlotOwnership
      <3>2. write_idx \in Nat /\ read_idx \in Nat /\ sent \in Seq(Msg)
        BY DEF RingInv, TypeOK
      <3>3. sent[read_idx + 1] \in Msg
        BY <3>1, <3>2 DEF RingInv, CursorsInStep
      <3>4. [len |-> clen, body |-> cdata] = sent[Len(received) + 1]
        BY <2>2, <3>3, MsgAssumption DEF PopRelease, RingInv, CallsInProgress, CursorsInStep
      <3>5. Fifo!Dequeue
        BY <2>2, <3>1, <3>4 DEF PopRelease, Fifo!Dequeue, RingInv, CursorsInStep
      <3>6. QED
        BY <3>5 DEF Fifo!FifoNext
    <2>3. CASE UNCHANGED <<sent, received>>
      BY <2>3
    <2>4. ASSUME ~PushPublish, ~PopRelease PROVE UNCHANGED <<sent, received>>
      BY <2>4 DEF Next, vars, Push, Pop, PushCall, PushFree, PushFull, PushLen, PushData,
         PopCall, PopAvailable, PopEmpty, PopLen, PopData
    <2>5. QED
      BY <2>1, <2>2, <2>3, <2>4
  <1>3. QED
    BY <1>1, <1>2, RingCorrect, PTL DEF Spec, RingIsFifo, Fifo!FifoSpec
=============================================================================
