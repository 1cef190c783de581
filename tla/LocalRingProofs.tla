--------------------------- MODULE LocalRingProofs ---------------------------
(***************************************************************************)
(* Proofs about the lock-free ring of LocalRing, for every capacity that   *)
(* divides the modulus of the counters, every set of frames and every      *)
(* number of them, under stale loads of the other side's counter.          *)
(***************************************************************************)
EXTENDS LocalRing, NatLemmas

(* A slot header computed from a frame is a slot header. *)
LEMMA SlotHeaderType == \A f \in Frame : SlotHeader(f) \in Headers
  BY FrameAssumption, BoundAssumption DEF SlotHeader, Headers

(* The slot of a wrapped counter is the slot of the count it stands for. *)
LEMMA SlotOfCounter ==
  ASSUME NEW a \in Nat
  PROVE  /\ slot_offset(a % Modulus) = slot_offset(a)
         /\ slot_offset(a) \in Slots
         /\ a % Modulus \in 0 .. Modulus - 1
  <1>1. Capacity \in Nat \ {0} /\ Modulus \in Nat \ {0}
    BY CapacityAssumption, ModulusAssumption
  <1>2. PICK k \in 1 .. Modulus : Modulus = k * Capacity
    BY ModulusAssumption
  <1>3. k \in Nat \ {0}
    BY <1>1, <1>2
  <1>4. (a % Modulus) % Capacity = a % Capacity
    BY <1>1, <1>2, <1>3, SlotOfWrapped
  <1>5. a % Capacity \in 0 .. Capacity - 1 /\ a % Modulus \in 0 .. Modulus - 1
    BY <1>1, DivMod
  <1>6. QED
    BY <1>4, <1>5 DEF slot_offset, Slots

(* Two counts less than a lap apart use different slots. *)
LEMMA SlotsApart ==
  ASSUME NEW a \in Nat, NEW b \in Nat, a < b, b - a < Capacity
  PROVE  slot_offset(a) # slot_offset(b)
  BY CapacityAssumption, SlotsDistinct DEF slot_offset

(* The wrapped difference of two counts at most a lap apart is exact. *)
LEMMA CounterDifference ==
  ASSUME NEW a \in Nat, NEW b \in Nat, b <= a, a - b <= Capacity
  PROVE  /\ wrapping_sub(a % Modulus, b % Modulus) = a - b
         /\ a % Modulus = b % Modulus <=> a = b
  <1>1. Modulus \in Nat \ {0} /\ a - b < Modulus
    BY CapacityAssumption, ModulusAssumption
  <1>2. wrapping_sub(a % Modulus, b % Modulus) = a - b
    BY <1>1, WrappedSub DEF wrapping_sub
  <1>3. a % Modulus = b % Modulus <=> a = b
    BY <1>1, WrappedEqual
  <1>4. QED
    BY <1>2, <1>3

LEMMA CounterStep ==
  ASSUME NEW a \in Nat
  PROVE  wrapping_add(a % Modulus, 1) = (a + 1) % Modulus
  <1>1. Modulus \in Nat \ {0}
    BY CapacityAssumption, ModulusAssumption
  <1>2. QED
    BY <1>1, WrappedAdd DEF wrapping_add

(* The numbers the proofs below reason about. *)
LEMMA Counts ==
  ASSUME LocalInv
  PROVE  /\ Len(sent) \in Nat /\ Len(popped) \in Nat /\ hseen \in Nat /\ tseen \in Nat
         /\ Capacity \in Nat \ {0} /\ Modulus \in Nat \ {0}
         /\ hseen <= Len(popped) /\ Len(popped) <= tseen /\ tseen <= Len(sent)
         /\ Len(sent) <= hseen + Capacity
         /\ slot_offset(tail) = slot_offset(Len(sent)) /\ slot_offset(tail) \in Slots
         /\ slot_offset(head) = slot_offset(Len(popped)) /\ slot_offset(head) \in Slots
  <1>1. /\ Len(sent) \in Nat /\ Len(popped) \in Nat /\ hseen \in Nat /\ tseen \in Nat
        /\ sent \in Seq(Frame) /\ popped \in Seq(Headers)
    BY DEF LocalInv, TypeOK
  <1>2. Capacity \in Nat \ {0} /\ Modulus \in Nat \ {0}
    BY CapacityAssumption, ModulusAssumption
  <1>3. QED
    BY <1>1, <1>2, SlotOfCounter DEF LocalInv, SeenInOrder

----------------------------------------------------------------------------
(* Each step preserves LocalInv. *)

LEMMA AvailablePreserves ==
  ASSUME LocalInv, NEW h \in 0 .. Len(popped), Available(h)
  PROVE  LocalInv'
  <1> USE DEF ring, consumer
  <1>1. h \in Nat /\ hseen <= h /\ h <= Len(popped)
    BY Counts DEF Available
  <1>2. h <= Len(sent) /\ Len(sent) - h <= Capacity
    BY <1>1, Counts
  <1>3. avail' = Capacity - (Len(sent) - h) /\ hseen' = h
    BY <1>1, <1>2, Counts, CounterDifference DEF Available, LocalInv
  <1>4. avail' \in 0 .. Capacity /\ avail' <= (h + Capacity) - Len(sent)
    BY <1>1, <1>2, <1>3, Counts
  <1>5. TypeOK'
    BY <1>1, <1>3, <1>4 DEF LocalInv, TypeOK, Available
  <1>6. SeenInOrder'
    BY <1>1, <1>2, <1>3, Counts DEF LocalInv, SeenInOrder, Available, Borrowed
  <1>7. PromisesCovered'
    BY <1>3, <1>4 DEF LocalInv, PromisesCovered, Available
  <1>8. QED
    BY <1>5, <1>6, <1>7 DEF LocalInv, Available, PendingIntact, CallsInProgress,
       BorrowIntactUntilLapped, PoppedInOrder, Pending, Borrowed, Lapped

LEMMA ReservePreserves ==
  ASSUME LocalInv, NEW f \in Frame, NEW h \in 0 .. Len(popped), Reserve(f, h)
  PROVE  LocalInv'
  <1> USE DEF ring, consumer
  <1>1. h \in Nat /\ hseen <= h /\ h <= Len(popped)
    BY Counts DEF Reserve
  <1>2. h <= Len(sent) /\ Len(sent) - h <= Capacity
    BY <1>1, Counts
  <1>3. wrapping_sub(tail, h % Modulus) = Len(sent) - h /\ hseen' = h
    BY <1>1, <1>2, Counts, CounterDifference DEF Reserve, LocalInv
  <1>4. ppc' # "idle" => Len(sent) < h + Capacity /\ pidx' = tail /\ ppc' = "header"
    BY <1>1, <1>2, <1>3, Counts DEF Reserve
  <1>5. TypeOK'
    <2>1. tail \in Nat
      BY Counts DEF LocalInv, TypeOK
    <2>2. QED
      BY <1>1, <1>3, <2>1 DEF LocalInv, TypeOK, Reserve
  <1>6. SeenInOrder'
    BY <1>1, <1>2, <1>3, <1>4, Counts DEF LocalInv, SeenInOrder, Reserve, Borrowed
  <1>7. PromisesCovered'
    <2>1. avail \in Nat
      BY CapacityAssumption DEF LocalInv, TypeOK
    <2>2. QED
      BY <1>1, <1>3, <2>1, Counts DEF LocalInv, PromisesCovered, Reserve
  <1>8. BorrowIntactUntilLapped'
    <2>1. Lapped' <=> Lapped
      BY DEF Reserve, Lapped, Borrowed
    <2>2. QED
      BY <2>1 DEF LocalInv, BorrowIntactUntilLapped, Reserve, Borrowed
  <1>9. CallsInProgress'
    BY <1>4 DEF LocalInv, CallsInProgress, Reserve
  <1>10. QED
    BY <1>5, <1>6, <1>7, <1>8, <1>9 DEF LocalInv, Reserve, PendingIntact, PoppedInOrder, Pending

(* While a push is under way its slot is the one of the next count, less   *)
(* than a lap from every pending frame.                                    *)
LEMMA PushSlot ==
  ASSUME LocalInv, ppc # "idle"
  PROVE  /\ slot_offset(pidx) = slot_offset(Len(sent)) /\ slot_offset(pidx) \in Slots
         /\ Len(sent) < Len(popped) + Capacity
         /\ \A i \in Pending : /\ i \in Nat /\ slot_offset(i) \in Slots
                               /\ slot_offset(i) # slot_offset(pidx)
  <1>1. slot_offset(pidx) = slot_offset(Len(sent)) /\ slot_offset(pidx) \in Slots
    BY Counts DEF LocalInv, SeenInOrder
  <1>2. Len(sent) < Len(popped) + Capacity
    BY Counts DEF LocalInv, SeenInOrder
  <1>3. ASSUME NEW i \in Pending
        PROVE  i \in Nat /\ slot_offset(i) \in Slots /\ slot_offset(i) # slot_offset(pidx)
    <2>1. i \in Nat /\ i < Len(sent) /\ Len(sent) - i < Capacity
      BY <1>2, Counts DEF Pending
    <2>2. slot_offset(i) # slot_offset(Len(sent)) /\ slot_offset(i) \in Slots
      BY <2>1, Counts, SlotsApart, SlotOfCounter
    <2>3. QED
      BY <1>1, <2>1, <2>2
  <1>4. QED
    BY <1>1, <1>2, <1>3

LEMMA PushHeaderPreserves ==
  ASSUME LocalInv, PushHeader
  PROVE  LocalInv'
  <1> USE DEF ring, consumer
  <1>1. ppc # "idle"
    BY DEF PushHeader
  <1>2. TypeOK'
    BY <1>1, PushSlot, SlotHeaderType DEF LocalInv, TypeOK, PushHeader
  <1>3. PendingIntact'
    BY <1>1, PushSlot DEF LocalInv, TypeOK, PushHeader, PendingIntact, Pending
  <1>4. CallsInProgress'
    BY <1>1, PushSlot DEF LocalInv, TypeOK, PushHeader, CallsInProgress
  <1>5. SeenInOrder' /\ PromisesCovered' /\ PoppedInOrder'
    BY DEF LocalInv, PushHeader, SeenInOrder, PromisesCovered, PoppedInOrder, Borrowed
  <1>6. BorrowIntactUntilLapped'
    BY DEF LocalInv, PushHeader, BorrowIntactUntilLapped, Borrowed, Lapped
  <1>7. QED
    BY <1>2, <1>3, <1>4, <1>5, <1>6 DEF LocalInv, PushHeader

(* A copy touches a borrowed slot only one lap later. *)
LEMMA PushCopyPreserves ==
  ASSUME LocalInv, PushCopy
  PROVE  LocalInv'
  <1> USE DEF ring, consumer
  <1>1. ppc # "idle" /\ ppc' \in {"copying", "commit"}
    BY DEF PushCopy
  <1>2. \A s \in Slots : s # slot_offset(pidx) => wire'[s] = wire[s]
    BY DEF PushCopy, LocalInv, TypeOK
  <1>3. TypeOK'
    <2>1. pframe.body \in Bytes /\ Mixed \in Bytes
      BY DEF LocalInv, TypeOK, Bytes
    <2>2. wire' \in [Slots -> Bytes]
      BY <1>1, <2>1, PushSlot DEF PushCopy, LocalInv, TypeOK
    <2>3. QED
      BY <1>1, <2>2 DEF LocalInv, TypeOK, PushCopy
  <1>4. PendingIntact'
    BY <1>1, <1>2, PushSlot DEF LocalInv, PushCopy, PendingIntact, Pending
  <1>5. CallsInProgress'
    BY <1>1, PushSlot DEF LocalInv, TypeOK, PushCopy, CallsInProgress
  <1>6. SeenInOrder' /\ PromisesCovered' /\ PoppedInOrder'
    BY <1>1 DEF LocalInv, PushCopy, SeenInOrder, PromisesCovered, PoppedInOrder, Borrowed
  <1>7. BorrowIntactUntilLapped'
    <2> SUFFICES ASSUME cpc = "borrowed", ~Lapped'
                 PROVE  /\ wire'[slot_offset(cidx)] = sent[Borrowed + 1].body
                        /\ bytes \in {Unread, sent[Borrowed + 1].body}
      BY DEF PushCopy, BorrowIntactUntilLapped, Borrowed
    <2>1. Len(popped) > 0 /\ cidx = Borrowed % Modulus
      BY DEF LocalInv, SeenInOrder
    <2>2. Borrowed \in Nat /\ Borrowed < Len(sent)
      BY <2>1, Counts DEF Borrowed
    <2>3. Len(sent) < Borrowed + Capacity
      BY <1>1, <2>2, Counts DEF Lapped, Borrowed, PushCopy
    <2>4. Len(sent) - Borrowed < Capacity
      BY <2>2, <2>3, Counts
    <2>5. slot_offset(cidx) # slot_offset(pidx) /\ slot_offset(cidx) \in Slots
      BY <1>1, <2>1, <2>2, <2>4, Counts, PushSlot, SlotsApart, SlotOfCounter
    <2>6. ~Lapped
      BY <2>2, <2>3, Counts DEF Lapped
    <2>7. QED
      BY <1>2, <2>5, <2>6 DEF LocalInv, BorrowIntactUntilLapped
  <1>8. QED
    BY <1>3, <1>4, <1>5, <1>6, <1>7 DEF LocalInv, PushCopy


LEMMA CommitPreserves ==
  ASSUME LocalInv, Commit
  PROVE  LocalInv'
  <1> USE DEF ring, consumer
  <1>1. ppc # "idle" /\ ppc = "commit"
    BY DEF Commit
  <1>2. /\ sent \in Seq(Frame) /\ pframe \in Frame /\ sent' = Append(sent, pframe)
        /\ popped' = popped /\ wire' = wire /\ hdr' = hdr
    BY DEF Commit, LocalInv, TypeOK
  <1>3. /\ sent' \in Seq(Frame) /\ Len(sent') = Len(sent) + 1
        /\ sent'[Len(sent) + 1] = pframe
        /\ \A i \in 1 .. Len(sent) : sent'[i] = sent[i]
    BY <1>2
  <1>4. Len(sent) < hseen + Capacity /\ pidx = tail
    BY <1>1 DEF LocalInv, SeenInOrder
  <1>5. tail' = Len(sent') % Modulus /\ tail' \in 0 .. Modulus - 1
    <2>1. tail' = (Len(sent) + 1) % Modulus
      BY Counts, CounterStep DEF Commit, LocalInv
    <2>2. Len(sent) + 1 \in Nat
      BY Counts
    <2>3. QED
      BY <1>3, <2>1, <2>2, SlotOfCounter
  <1>6. /\ avail' \in 0 .. Capacity
        /\ avail' <= (hseen + Capacity) - Len(sent')
    <2>1. avail \in 0 .. Capacity /\ avail <= (hseen + Capacity) - Len(sent)
      BY DEF LocalInv, TypeOK, PromisesCovered
    <2>2. avail' = IF avail > 0 THEN avail - 1 ELSE 0
      BY DEF Commit
    <2>3. QED
      BY <1>3, <1>4, <2>1, <2>2, Counts
  <1>7. TypeOK'
    BY <1>3, <1>5, <1>6 DEF LocalInv, TypeOK, Commit
  <1>8. SeenInOrder'
    BY <1>3, <1>4, Counts DEF LocalInv, SeenInOrder, Commit, Borrowed
  <1>9. PendingIntact'
    <2>1. Pending' = Pending \cup {Len(sent)}
      BY <1>2, <1>3, Counts DEF Pending
    <2>2. \A i \in Pending : sent'[i + 1] = sent[i + 1]
      BY <1>3, Counts DEF Pending
    <2>3. /\ hdr[slot_offset(Len(sent))] = SlotHeader(pframe)
          /\ wire[slot_offset(Len(sent))] = pframe.body
      BY <1>1, <1>4, PushSlot DEF LocalInv, CallsInProgress
    <2>4. QED
      BY <1>2, <1>3, <2>1, <2>2, <2>3 DEF LocalInv, PendingIntact
  <1>10. CallsInProgress'
    <2>1. cpc = "release" => sent'[Len(popped) + 1] = sent[Len(popped) + 1]
      BY <1>3, Counts DEF LocalInv, SeenInOrder
    <2>2. QED
      BY <2>1 DEF LocalInv, CallsInProgress, Commit
  <1>11. BorrowIntactUntilLapped'
    <2> SUFFICES ASSUME cpc = "borrowed", ~Lapped'
                 PROVE  /\ wire[slot_offset(cidx)] = sent'[Borrowed + 1].body
                        /\ bytes \in {Unread, sent'[Borrowed + 1].body}
      BY DEF Commit, BorrowIntactUntilLapped, Borrowed
    <2>1. Borrowed \in Nat /\ Borrowed + 1 \in 1 .. Len(sent)
      BY Counts DEF Borrowed, LocalInv, SeenInOrder
    <2>2. Len(sent) < Borrowed + Capacity
      BY <1>2, <1>3, <2>1, Counts DEF Lapped, Borrowed
    <2>3. ~Lapped
      BY <2>1, <2>2, Counts DEF Lapped
    <2>4. QED
      BY <1>3, <2>1, <2>3 DEF LocalInv, BorrowIntactUntilLapped
  <1>12. PromisesCovered'
    BY <1>6 DEF LocalInv, PromisesCovered, Commit
  <1>13. PoppedInOrder'
    BY <1>2, <1>3, Counts DEF LocalInv, PoppedInOrder
  <1>14. QED
    BY <1>5, <1>7, <1>8, <1>9, <1>10, <1>11, <1>12, <1>13 DEF LocalInv, Commit

LEMMA PendingCallPreserves ==
  ASSUME LocalInv, NEW t \in 0 .. Len(sent), PendingCall(t)
  PROVE  LocalInv'
  <1> USE DEF ring, producer
  <1>1. t \in Nat /\ tseen <= t /\ t <= Len(sent) /\ tseen' = t
    BY Counts DEF PendingCall
  <1>2. Len(popped) <= t /\ t - Len(popped) <= Capacity
    BY <1>1, Counts
  <1>3. due' = t - Len(popped) /\ due' \in 0 .. Capacity
    BY <1>1, <1>2, Counts, CounterDifference DEF PendingCall, LocalInv
  <1>4. TypeOK'
    BY <1>1, <1>3 DEF LocalInv, TypeOK, PendingCall
  <1>5. SeenInOrder'
    BY <1>1, <1>2, Counts DEF LocalInv, SeenInOrder, PendingCall, Borrowed
  <1>6. PromisesCovered'
    BY <1>1, <1>3, Counts DEF LocalInv, PromisesCovered, PendingCall
  <1>7. BorrowIntactUntilLapped'
    BY DEF LocalInv, PendingCall, BorrowIntactUntilLapped, Borrowed, Lapped
  <1>8. QED
    BY <1>4, <1>5, <1>6, <1>7 DEF LocalInv, PendingCall, PendingIntact, CallsInProgress,
       PoppedInOrder, Pending

LEMMA AcquirePreserves ==
  ASSUME LocalInv, NEW t \in 0 .. Len(sent), Acquire(t)
  PROVE  LocalInv'
  <1> USE DEF ring, producer
  <1>1. t \in Nat /\ tseen <= t /\ t <= Len(sent) /\ tseen' = t
    BY Counts DEF Acquire
  <1>2. Len(popped) <= t /\ t - Len(popped) <= Capacity
    BY <1>1, Counts
  <1>3. head = t % Modulus <=> Len(popped) = t
    BY <1>1, <1>2, Counts, CounterDifference DEF LocalInv
  <1>4. /\ cpc' = "header" => Len(popped) < t /\ cidx' = head
        /\ cpc' \in {"idle", "header"} /\ bytes' = Unread
    BY <1>1, <1>2, <1>3, Counts DEF Acquire
  <1>5. TypeOK'
    <2>1. head \in Nat
      BY Counts DEF LocalInv, TypeOK
    <2>2. QED
      BY <1>1, <2>1 DEF LocalInv, TypeOK, Acquire
  <1>6. SeenInOrder'
    BY <1>1, <1>2, <1>4, Counts DEF LocalInv, SeenInOrder, Acquire, Borrowed
  <1>7. PromisesCovered'
    <2>1. due \in Nat
      BY CapacityAssumption DEF LocalInv, TypeOK
    <2>2. QED
      BY <1>1, <2>1, Counts DEF LocalInv, PromisesCovered, Acquire
  <1>8. QED
    BY <1>4, <1>5, <1>6, <1>7 DEF LocalInv, Acquire, PendingIntact, CallsInProgress,
       BorrowIntactUntilLapped, PoppedInOrder, Pending

(* The frame being popped is pending until it is released. *)
LEMMA PopSlot ==
  ASSUME LocalInv, cpc \in {"header", "release"}
  PROVE  /\ slot_offset(cidx) = slot_offset(Len(popped)) /\ slot_offset(cidx) \in Slots
         /\ Len(popped) \in Pending /\ Len(popped) < tseen
  BY Counts DEF LocalInv, SeenInOrder, Pending

LEMMA PopHeaderPreserves ==
  ASSUME LocalInv, PopHeader
  PROVE  LocalInv'
  <1> USE DEF ring, producer
  <1>1. cpc \in {"header", "release"}
    BY DEF PopHeader
  <1>2. chdr' = SlotHeader(sent[Len(popped) + 1]) /\ chdr' \in Headers
    BY <1>1, PopSlot DEF PopHeader, LocalInv, PendingIntact, TypeOK
  <1>3. TypeOK'
    BY <1>2 DEF LocalInv, TypeOK, PopHeader
  <1>4. CallsInProgress'
    BY <1>2 DEF LocalInv, CallsInProgress, PopHeader
  <1>5. SeenInOrder'
    BY DEF LocalInv, SeenInOrder, PopHeader, Borrowed
  <1>6. QED
    BY <1>3, <1>4, <1>5 DEF LocalInv, PopHeader, PendingIntact, PromisesCovered,
       BorrowIntactUntilLapped, PoppedInOrder, Pending

LEMMA ReleasePreserves ==
  ASSUME LocalInv, Release
  PROVE  LocalInv'
  <1> USE DEF ring, producer
  <1>1. cpc \in {"header", "release"} /\ cpc = "release"
    BY DEF Release
  <1>2. /\ popped \in Seq(Headers) /\ chdr \in Headers /\ popped' = Append(popped, chdr)
        /\ sent' = sent /\ wire' = wire /\ hdr' = hdr /\ bytes' = bytes /\ cidx' = cidx
        /\ cpc' = "borrowed" /\ bytes = Unread
    BY <1>1 DEF Release, LocalInv, TypeOK, SeenInOrder
  <1>3. /\ popped' \in Seq(Headers) /\ Len(popped') = Len(popped) + 1
        /\ popped'[Len(popped) + 1] = chdr
        /\ \A i \in 1 .. Len(popped) : popped'[i] = popped[i]
    BY <1>2
  <1>4. head' = Len(popped') % Modulus /\ head' \in 0 .. Modulus - 1
    <2>1. head' = (Len(popped) + 1) % Modulus
      BY Counts, CounterStep DEF Release, LocalInv
    <2>2. Len(popped) + 1 \in Nat
      BY Counts
    <2>3. QED
      BY <1>3, <2>1, <2>2, SlotOfCounter
  <1>5. due' \in 0 .. Capacity /\ due' <= tseen - Len(popped')
    <2>1. due \in 0 .. Capacity /\ due <= tseen - Len(popped)
      BY DEF LocalInv, TypeOK, PromisesCovered
    <2>2. due' = IF due > 0 THEN due - 1 ELSE 0
      BY DEF Release
    <2>3. QED
      BY <1>1, <1>3, <2>1, <2>2, Counts, PopSlot
  <1>6. TypeOK'
    BY <1>3, <1>4, <1>5 DEF LocalInv, TypeOK, Release
  <1>7. Borrowed' = Len(popped)
    BY <1>3, Counts DEF Borrowed
  <1>8. SeenInOrder'
    <2>1. cidx = Len(popped) % Modulus
      BY <1>1 DEF LocalInv, SeenInOrder
    <2>2. QED
      BY <1>1, <1>2, <1>3, <1>7, <2>1, Counts, PopSlot DEF LocalInv, SeenInOrder, Release
  <1>9. PendingIntact'
    <2>1. Pending' \subseteq Pending
      BY <1>2, <1>3, Counts DEF Pending
    <2>2. QED
      BY <1>2, <2>1 DEF LocalInv, PendingIntact
  <1>10. CallsInProgress'
    BY <1>2 DEF LocalInv, CallsInProgress, Release
  <1>11. BorrowIntactUntilLapped'
    <2>1. wire[slot_offset(cidx)] = sent[Len(popped) + 1].body
      BY <1>1, PopSlot DEF LocalInv, PendingIntact
    <2>2. QED
      BY <1>2, <1>7, <2>1 DEF BorrowIntactUntilLapped
  <1>12. PromisesCovered'
    BY <1>5 DEF LocalInv, PromisesCovered, Release
  <1>13. PoppedInOrder'
    <2>1. chdr = SlotHeader(sent[Len(popped) + 1])
      BY <1>1 DEF LocalInv, CallsInProgress
    <2>2. QED
      BY <1>2, <1>3, <2>1, Counts DEF LocalInv, PoppedInOrder
  <1>14. QED
    BY <1>4, <1>6, <1>8, <1>9, <1>10, <1>11, <1>12, <1>13 DEF LocalInv, Release

LEMMA BorrowPreserves ==
  ASSUME LocalInv, ReadBorrow \/ DropBorrow
  PROVE  LocalInv'
  <1> USE DEF ring, producer
  <1>1. CASE ReadBorrow
    <2>1. cpc = "borrowed" /\ bytes' = wire[slot_offset(cidx)]
      BY <1>1 DEF ReadBorrow
    <2>2. slot_offset(cidx) \in Slots
      BY <2>1, Counts, SlotOfCounter DEF LocalInv, SeenInOrder, Borrowed
    <2>3. TypeOK'
      BY <1>1, <2>1, <2>2 DEF LocalInv, TypeOK, ReadBorrow
    <2>4. SeenInOrder'
      BY <1>1 DEF LocalInv, SeenInOrder, ReadBorrow, Borrowed
    <2>5. BorrowIntactUntilLapped'
      BY <1>1, <2>1 DEF LocalInv, BorrowIntactUntilLapped, ReadBorrow, Borrowed, Lapped
    <2>6. QED
      BY <1>1, <2>3, <2>4, <2>5 DEF LocalInv, ReadBorrow, PendingIntact, CallsInProgress,
         PromisesCovered, PoppedInOrder, Pending
  <1>2. CASE DropBorrow
    <2>1. TypeOK' /\ SeenInOrder'
      BY <1>2 DEF LocalInv, TypeOK, SeenInOrder, DropBorrow, Borrowed
    <2>2. QED
      BY <1>2, <2>1 DEF LocalInv, DropBorrow, PendingIntact, CallsInProgress,
         PromisesCovered, PoppedInOrder, Pending, BorrowIntactUntilLapped
  <1>3. QED
    BY <1>1, <1>2


----------------------------------------------------------------------------
(* The inductive invariant of the lock-free ring, from which the theorems  *)
(* below follow.                                                           *)
THEOREM RingCorrect == Spec => []LocalInv
  <1>1. Init => LocalInv
    <2> SUFFICES ASSUME Init PROVE LocalInv
      OBVIOUS
    <2>1. Capacity \in Nat \ {0} /\ Modulus \in Nat \ {0} /\ 0 % Modulus = 0
      <3>1. Modulus \in Nat \ {0} /\ Capacity \in Nat \ {0}
        BY CapacityAssumption, ModulusAssumption
      <3>2. 0 \in 0 .. Modulus - 1
        BY <3>1
      <3>3. QED
        BY <3>1, <3>2, SmallMod
    <2>2. NoHeader \in Headers /\ Mixed \in Bytes
      BY DEF NoHeader, Headers, Bytes
    <2>3. sent = << >> /\ popped = << >> /\ Len(sent) = 0 /\ Len(popped) = 0
      BY DEF Init
    <2>4. TypeOK
      BY <2>1, <2>2 DEF Init, TypeOK
    <2>5. Pending = {}
      BY <2>3 DEF Pending
    <2>6. SeenInOrder /\ PromisesCovered /\ CallsInProgress /\ BorrowIntactUntilLapped
      BY <2>1, <2>3 DEF Init, SeenInOrder, PromisesCovered, CallsInProgress,
         BorrowIntactUntilLapped
    <2>7. PendingIntact /\ PoppedInOrder
      BY <2>3, <2>5 DEF PendingIntact, PoppedInOrder
    <2>8. QED
      BY <2>1, <2>3, <2>4, <2>6, <2>7 DEF Init, LocalInv
  <1>2. LocalInv /\ [Next]_vars => LocalInv'
    <2> SUFFICES ASSUME LocalInv, [Next]_vars PROVE LocalInv'
      OBVIOUS
    <2>1. CASE Next
      BY <2>1, AvailablePreserves, ReservePreserves, PushHeaderPreserves,
         PushCopyPreserves, CommitPreserves, PendingCallPreserves, AcquirePreserves,
         PopHeaderPreserves, ReleasePreserves, BorrowPreserves DEF Next
    <2>2. CASE UNCHANGED vars
      BY <2>2 DEF vars, ring, producer, consumer, LocalInv, TypeOK, SeenInOrder,
         PendingIntact, CallsInProgress, BorrowIntactUntilLapped, PromisesCovered,
         PoppedInOrder, Pending, Borrowed, Lapped
    <2>3. QED
      BY <2>1, <2>2
  <1>3. QED
    BY <1>1, <1>2, PTL DEF Spec

(* Type correctness, which needs the whole invariant: the difference of    *)
(* the wrapped counters is within the capacity only because of it.         *)
THEOREM TypeCorrect == Spec => []TypeOK
  BY RingCorrect, PTL DEF LocalInv

(* push never overwrites a frame that has not been popped. *)
THEOREM NoOverrun == Spec => []PendingIntact
  BY RingCorrect, PTL DEF LocalInv

(* What a RingBorrow may rely on: its bytes until it is lapped. *)
THEOREM BorrowGuarantee == Spec => []BorrowIntactUntilLapped
  BY RingCorrect, PTL DEF LocalInv

(* Wrapped counters tell the true number of pending frames. *)
THEOREM CountersAgree == Spec => []CountersTrue
  <1>1. LocalInv => CountersTrue
    <2> SUFFICES ASSUME LocalInv PROVE CountersTrue
      OBVIOUS
    <2>1. Len(popped) <= Len(sent) /\ Len(sent) - Len(popped) <= Capacity
      BY Counts
    <2>2. wrapping_sub(Len(sent) % Modulus, Len(popped) % Modulus) = Len(sent) - Len(popped)
      BY <2>1, Counts, CounterDifference
    <2>3. Len(sent) - Len(popped) \in 0 .. Capacity
      BY <2>1, Counts
    <2>4. QED
      BY <2>2, <2>3 DEF LocalInv, CountersTrue
  <1>2. QED
    BY <1>1, RingCorrect, PTL

(* available() and pending() promise pushes and pops that cannot fail. *)
THEOREM PromisesHold == Spec => PromisesKept
  <1>1. ASSUME LocalInv, NEW f \in Frame, NEW h \in 0 .. Len(popped),
               Reserve(f, h), pout' = "Backpressure"
        PROVE  avail = 0
    <2>1. h \in Nat /\ hseen <= h /\ h <= Len(sent) /\ Len(sent) - h <= Capacity
      BY <1>1, Counts DEF Reserve
    <2>2. wrapping_sub(tail, h % Modulus) = Len(sent) - h
      BY <1>1, <2>1, Counts, CounterDifference DEF LocalInv
    <2>3. Len(sent) - h >= Capacity
      BY <1>1, <2>2 DEF Reserve
    <2>4. avail \in Nat /\ avail <= (hseen + Capacity) - Len(sent)
      BY <1>1, CapacityAssumption DEF LocalInv, TypeOK, PromisesCovered
    <2>5. QED
      BY <1>1, <2>1, <2>3, <2>4, Counts
  <1>2. ASSUME LocalInv, NEW t \in 0 .. Len(sent), Acquire(t), cout' = "Empty"
        PROVE  due = 0
    <2>1. t \in Nat /\ tseen <= t /\ Len(popped) <= t /\ t - Len(popped) <= Capacity
      BY <1>2, Counts DEF Acquire
    <2>2. head = t % Modulus
      BY <1>2 DEF Acquire
    <2>3. t = Len(popped)
      BY <1>2, <2>1, <2>2, Counts, CounterDifference DEF LocalInv
    <2>4. due \in Nat /\ due <= tseen - Len(popped)
      BY <1>2, CapacityAssumption DEF LocalInv, TypeOK, PromisesCovered
    <2>5. QED
      BY <1>2, <2>1, <2>3, <2>4, Counts
  <1>3. LocalInv => [/\ \A h \in 0 .. Len(popped), f \in Frame :
                          Reserve(f, h) /\ pout' = "Backpressure" => avail = 0
                     /\ \A t \in 0 .. Len(sent) :
                          Acquire(t) /\ cout' = "Empty" => due = 0]_vars
    BY <1>1, <1>2
  <1>4. QED
    BY <1>3, RingCorrect, PTL DEF PromisesKept

(* The slot headers handed out by try_pop are those pushed, in order:      *)
(* opcode() and payload_len() of a RingBorrow implement the bounded FIFO.  *)
THEOREM HeadersFifo == Spec => HeadersAreFifo
  <1> DEFINE hs == [i \in 1 .. Len(sent) |-> SlotHeader(sent[i])]
  <1>1. Init => Fifo!FifoInit
    BY DEF Init, Fifo!FifoInit
  <1>2. LocalInv /\ [Next]_vars => [Fifo!FifoNext]_(Fifo!fifoVars)
    <2> SUFFICES ASSUME LocalInv, [Next]_vars
                 PROVE  [Fifo!FifoNext]_(Fifo!fifoVars)
      OBVIOUS
    <2> USE DEF Fifo!fifoVars, ring, producer, consumer
    <2>0. /\ hs \in Seq(Headers) /\ Len(hs) = Len(sent)
          /\ \A i \in 1 .. Len(sent) : hs[i] = SlotHeader(sent[i])
      <3>1. \A i \in 1 .. Len(sent) : SlotHeader(sent[i]) \in Headers
        BY SlotHeaderType DEF LocalInv, TypeOK
      <3>2. QED
        BY <3>1, Counts
    <2>1. CASE Commit
      <3>1. sent \in Seq(Frame) /\ pframe \in Frame /\ sent' = Append(sent, pframe)
        BY <2>1 DEF Commit, LocalInv, TypeOK
      <3>2. hs' = Append(hs, SlotHeader(pframe))
        <4>1. /\ Len(sent') = Len(sent) + 1 /\ sent'[Len(sent) + 1] = pframe
              /\ \A i \in 1 .. Len(sent) : sent'[i] = sent[i]
          BY <3>1
        <4>2. Append(hs, SlotHeader(pframe)) =
                [i \in 1 .. Len(hs) + 1 |-> IF i = Len(hs) + 1 THEN SlotHeader(pframe) ELSE hs[i]]
          BY <2>0, <3>1
        <4>3. QED
          BY <2>0, <4>1, <4>2, Counts
      <3>3. Len(hs) - Len(popped) < Capacity
        BY <2>0, <2>1, Counts DEF Commit, LocalInv, SeenInOrder
      <3>4. Fifo!Enqueue(SlotHeader(pframe))
        BY <2>1, <3>2, <3>3 DEF Commit, Fifo!Enqueue
      <3>5. QED
        BY <3>1, <3>4 DEF Fifo!FifoNext
    <2>2. CASE Release
      <3>1. Len(popped) < Len(sent)
        BY <2>2, Counts, PopSlot DEF Release
      <3>2. chdr = hs[Len(popped) + 1]
        BY <2>0, <2>2, <3>1, Counts DEF Release, LocalInv, CallsInProgress
      <3>3. Fifo!Dequeue
        BY <2>0, <2>2, <3>1, <3>2 DEF Release, Fifo!Dequeue
      <3>4. QED
        BY <3>3 DEF Fifo!FifoNext
    <2>3. ASSUME ~Commit, ~Release PROVE UNCHANGED <<sent, popped>>
      BY <2>3 DEF Next, vars, Available, Reserve, PushHeader, PushCopy, PendingCall,
         Acquire, PopHeader, ReadBorrow, DropBorrow
    <2>4. QED
      BY <2>1, <2>2, <2>3
  <1>3. QED
    BY <1>1, <1>2, RingCorrect, PTL DEF Spec, HeadersAreFifo, Fifo!FifoSpec
=============================================================================
