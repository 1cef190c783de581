-------------------------- MODULE ShmSegmentProofs --------------------------
(* Proofs about ShmSegment for every capacity and every number of segments *)
(* and messages.  What is said of a message comes first, then each step.   *)
EXTENDS ShmSegment, NatLemmas

(* A cursor names a slot. *)
LEMMA CursorSlot == \A i \in Nat : i % Capacity \in Slot
  BY SegmentAssumption, DivMod DEF Slot

(* A step that pushes nothing, and takes no segment back, keeps what is    *)
(* said of the messages.                                                   *)
LEMMA QuietMessages ==
  ASSUME Numbered, UNCHANGED <<sent, early>>, ready \subseteq ready'
  PROVE  Numbered'
  BY DEF Numbered

(* A segment whose slots and histories are left alone holds what it held. *)
LEMMA HoldsFrame ==
  ASSUME NEW g, slots'[g] = slots[g], sent'[g] = sent[g], got'[g] = got[g], HoldsPending(g)
  PROVE  HoldsPending(g)'
  BY DEF HoldsPending

(* The initial states. *)
LEMMA InitialSegments == Init => SegmentInv
  <1> SUFFICES ASSUME Init PROVE SegmentInv
    OBVIOUS
  <1> USE SegmentAssumption
  <1>1. slots \in [Segment -> [Slot -> {0, Stale}]] /\ magic \in [Segment -> BOOLEAN]
    <2>1. PICK left \in [Slot -> {0, Stale}], m \in BOOLEAN :
            IF name = 0 THEN /\ magic = [g \in Segment |-> FALSE]
                             /\ slots = [g \in Segment |-> Empty]
                        ELSE /\ magic = [g \in Segment |-> g = 1 /\ m]
                             /\ slots = [g \in Segment |-> IF g = 1 THEN left ELSE Empty]
      BY DEF Init
    <2>2. Empty \in [Slot -> {0, Stale}]
      BY DEF Empty
    <2>3. CASE name = 0
      BY <2>1, <2>2, <2>3
    <2>4. CASE name # 0
      BY <2>1, <2>2, <2>4
    <2> QED BY <2>3, <2>4
  <1>2. TypeOK
    <2>1. slots \in [Segment -> [Slot -> Message]]
      BY <1>1 DEF Message, Stale
    <2>2. name \in 0 .. made /\ made \in 0 .. MaxSegments
      BY DEF Init
    <2> QED BY <1>1, <2>1, <2>2 DEF Init, TypeOK
  <1>3. OwnersKnown /\ Numbered
    BY DEF Init, OwnersKnown, Numbered, Creating
  <1>4. Blank
    <2>1. ASSUME NEW g \in made + 1 .. MaxSegments
          PROVE  g \in Segment /\ slots[g] = Empty /\ ~magic[g]
      <3>1. g \in Segment /\ (name # 0 => g # 1)
        BY DEF Init, Segment
      <3> QED BY <3>1 DEF Init
    <2> QED BY <2>1 DEF Blank, Init
  <1>5. Sound = {}
    BY DEF Init, Sound, Creating
  <1> QED BY <1>2, <1>3, <1>4, <1>5 DEF SegmentInv
----------------------------------------------------------------------------
(* The owner. *)

(* A new segment is blank, and the owner's cursor starts with it. *)
LEMMA CreateMakePreserves ==
  ASSUME SegmentInv, CreateMake
  PROVE  SegmentInv'
  <1> USE SegmentAssumption DEF SegmentInv
  <1>1. /\ made' = made + 1 /\ name' = made + 1 /\ oseg' = made + 1 /\ opc' = "header" /\ opc = "make"
        /\ UNCHANGED <<magic, slots, upc, useg, uout, pusher, sent, got, early, ready, users>>
        /\ cleared' = 0 /\ Restart("owner")
    BY DEF CreateMake, user, history
  <1>2. made \in Nat /\ made + 1 \in 1 .. MaxSegments /\ MaxSegments \in Nat
    BY <1>1 DEF TypeOK, OwnersKnown
  <1>3. TypeOK'
    <2>1. widx' \in Nat /\ ridx' \in Nat
      BY <1>1 DEF TypeOK, Restart
    <2>2. ready \subseteq 1 .. made + 1 /\ useg \in 0 .. made + 1
      BY <1>2 DEF TypeOK
    <2> QED BY <1>1, <1>2, <2>1, <2>2 DEF TypeOK
  <1>4. OwnersKnown'
    <2>1. made + 1 # 0 /\ made + 1 \notin ready
      BY <1>2 DEF TypeOK
    <2> QED BY <1>1, <2>1 DEF OwnersKnown, Creating
  <1>5. Numbered'
    BY <1>1, <1>3, QuietMessages
  <1>6. Blank'
    <2>1. \A g \in made + 2 .. MaxSegments : g \in made + 1 .. MaxSegments
      BY <1>2
    <2>2. (made + 1) + 1 = made + 2
      BY <1>2
    <2> QED BY <1>1, <2>1, <2>2 DEF Blank
  <1>7. ASSUME NEW g \in Sound' PROVE HoldsPending(g)' /\ CursorsExact(g)'
    <2>1. g \in Segment /\ (g \in ready \/ g = made + 1)
      BY <1>1 DEF Sound, Segment
    <2>2. CASE g = made + 1
      <3>1. slots[g] = Empty /\ sent[g] = << >> /\ got[g] = << >> /\ users[g] = 0
        BY <1>2, <2>2 DEF Blank
      <3>2. Len(sent[g]) = 0 /\ Len(got[g]) = 0 /\ \A s \in Slot : slots[g][s] = 0
        BY <3>1 DEF Empty
      <3>3. HoldsPending(g)
        BY <3>2 DEF HoldsPending
      <3>4. ~(useg = g)
        BY <1>2, <2>2 DEF TypeOK
      <3>5. CursorsExact(g)'
        BY <1>1, <3>2, <3>4 DEF CursorsExact, Cursor, Moved, Restart, TypeOK
      <3> QED BY <1>1, <3>3, <3>5, HoldsFrame
    <2>3. CASE g \in ready
      <3>1. g \in Sound /\ g # made + 1
        BY <1>1, <1>2, <2>3 DEF Sound, Segment, TypeOK
      <3>2. HoldsPending(g)'
        BY <1>1, <3>1, HoldsFrame
      <3>3. CursorsExact(g)
        BY <3>1
      <3>4. CursorsExact(g)'
        BY <1>1, <3>1, <3>3 DEF CursorsExact, Cursor, Moved, Restart, TypeOK
      <3> QED BY <3>2, <3>4
    <2> QED BY <2>1, <2>2, <2>3
  <1> QED BY <1>3, <1>4, <1>5, <1>6, <1>7

(* Clearing a used byte does no harm in a segment used as meant: nothing   *)
(* has been pushed into it, since it is not ready.                         *)
LEMMA CreateClearPreserves ==
  ASSUME SegmentInv, CreateClear
  PROVE  SegmentInv'
  <1> USE SegmentAssumption DEF SegmentInv
  <1>1. /\ opc = "clear" /\ cleared < Capacity /\ cleared' = cleared + 1
        /\ slots' = [slots EXCEPT ![oseg][cleared] = 0]
        /\ UNCHANGED <<name, made, magic, opc, oseg, upc, useg, uout, widx, ridx, pusher, sent,
                       got, early, ready, users>>
    BY DEF CreateClear, user, history, cursors
  <1>2. /\ oseg \in Segment /\ oseg \in 1 .. made /\ oseg \notin ready /\ cleared \in Slot
    BY <1>1 DEF TypeOK, OwnersKnown, Creating, Segment, Slot
  <1>3. TypeOK'
    <2>1. slots' \in [Segment -> [Slot -> Message]]
      BY <1>1, <1>2 DEF TypeOK, Message, Stale
    <2>2. cleared' \in 0 .. Capacity
      BY <1>1 DEF TypeOK
    <2> QED BY <1>1, <2>1, <2>2 DEF TypeOK
  <1>4. OwnersKnown' /\ Numbered'
    BY <1>1 DEF OwnersKnown, Creating, Numbered
  <1>5. \A g \in Segment : g # oseg => slots'[g] = slots[g]
    BY <1>1, <1>2 DEF TypeOK
  <1>6. Blank'
    <2>1. \A g \in made + 1 .. MaxSegments : g \in Segment /\ g # oseg
      BY <1>2 DEF TypeOK, Segment
    <2> QED BY <1>1, <1>5, <2>1 DEF Blank
  <1>8. ASSUME NEW g \in Sound' PROVE HoldsPending(g)' /\ CursorsExact(g)'
    <2>1. g \in Sound /\ g \in Segment
      BY <1>1 DEF Sound
    <2>2. CursorsExact(g)'
      <3>1. CursorsExact(g)
        BY <2>1
      <3> QED BY <1>1, <3>1 DEF CursorsExact, Cursor, Moved
    <2>3. slots'[g] = slots[g]
      <3>1. CASE g = oseg
        <4>1. early[g] = {} /\ 1 .. Len(sent[g]) \subseteq early[g]
          BY <1>2, <2>1, <3>1 DEF Sound, Numbered
        <4>2. Len(sent[g]) \in Nat /\ Len(got[g]) \in Nat
          BY <2>1 DEF TypeOK
        <4>3. Len(sent[g]) = 0
          BY <4>1, <4>2
        <4>4. Len(got[g]) .. Len(sent[g]) - 1 = {}
          BY <4>2, <4>3
        <4>5. \A s \in Slot : slots[g][s] = 0
          BY <2>1, <4>4 DEF HoldsPending
        <4>6. slots[g] \in [Slot -> Message] /\ slots'[g] = [slots[g] EXCEPT ![cleared] = 0]
          BY <1>1, <2>1, <3>1 DEF TypeOK
        <4> QED BY <1>2, <4>5, <4>6
      <3> QED BY <1>5, <2>1, <3>1
    <2> QED BY <1>1, <2>1, <2>2, <2>3, HoldsFrame
  <1> QED BY <1>3, <1>4, <1>6, <1>8

(* The steps of the owner that move no message. *)
LEMMA OwnerStepPreserves ==
  ASSUME SegmentInv,
         CreateCall \/ CreateUnlink \/ CreateHeader \/ CreateReturn \/ OwnerClose \/ OwnerDies
  PROVE  SegmentInv'
  <1> USE SegmentAssumption DEF SegmentInv
  <1>1. /\ UNCHANGED <<made, slots, cleared, upc, useg, uout, widx, ridx, pusher, sent, got, early,
                       users>>
        /\ name' \in {name, 0}
    BY DEF CreateCall, CreateUnlink, CreateHeader, CreateReturn, OwnerClose, OwnerDies,
           segments, user, cursors, history
  <1>2. \/ opc = "none" /\ opc' \in {"make", "unlink"} /\ made < MaxSegments
           /\ oseg' \in {oseg, name} /\ UNCHANGED <<ready, magic>>
        \/ opc = "unlink" /\ opc' = "make" /\ UNCHANGED <<oseg, ready, magic>>
        \/ opc = "header" /\ opc' = "clear" /\ UNCHANGED <<oseg, ready>>
           /\ magic' = [magic EXCEPT ![oseg] = TRUE]
        \/ opc = "clear" /\ opc' = "ready" /\ ready' = ready \cup {oseg} /\ UNCHANGED <<oseg,
                                                                                        magic>>
        \/ opc' = "none" /\ UNCHANGED <<oseg, ready, magic>>
    BY DEF CreateCall, CreateUnlink, CreateHeader, CreateReturn, OwnerClose, OwnerDies,
           segments, user, cursors, history
  <1>3. opc \in Creating => oseg \in 1 .. made /\ oseg \in Segment
    BY DEF TypeOK, OwnersKnown, Segment
  <1>4. TypeOK'
    <2>1. name' \in 0 .. made /\ oseg' \in 0 .. made
      BY <1>1, <1>2 DEF TypeOK
    <2>2. magic' \in [Segment -> BOOLEAN]
      BY <1>2, <1>3 DEF TypeOK, Creating
    <2>3. ready' \subseteq 1 .. made
      BY <1>2, <1>3 DEF TypeOK, Creating
    <2>4. opc' \in {"none", "unlink", "make", "header", "clear", "ready"}
      BY <1>2
    <2> QED BY <1>1, <2>1, <2>2, <2>3, <2>4 DEF TypeOK
  <1>5. OwnersKnown'
    BY <1>1, <1>2 DEF OwnersKnown, Creating
  <1>6. Numbered'
    <2>1. ready \subseteq ready'
      BY <1>2
    <2> QED BY <1>1, <1>4, <2>1, QuietMessages
  <1>7. Blank'
    <2>1. \A g \in made + 1 .. MaxSegments : magic'[g] = magic[g]
      BY <1>2, <1>3 DEF TypeOK, Creating, Segment
    <2> QED BY <1>1, <2>1 DEF Blank
  <1>8. ASSUME NEW g \in Sound' PROVE HoldsPending(g)' /\ CursorsExact(g)'
    <2>1. g \in Sound
      BY <1>1, <1>2 DEF Sound, Creating
    <2>2. CursorsExact(g)
      BY <2>1
    <2>3. CursorsExact(g)'
      BY <1>1, <1>2, <2>2 DEF CursorsExact, Cursor, Moved, Creating
    <2> QED BY <1>1, <2>1, <2>3, HoldsFrame
  <1> QED BY <1>4, <1>5, <1>6, <1>7, <1>8

----------------------------------------------------------------------------
(* The user. *)

(* The steps of attach before the header is read, and leaving. *)
LEMMA UserStepPreserves ==
  ASSUME SegmentInv, AttachCall \/ AttachMissing \/ AttachOpen \/ AttachTimeout \/ UserLeaves
  PROVE  SegmentInv'
  <1> USE SegmentAssumption DEF SegmentInv
  <1>1. /\ UNCHANGED <<name, made, magic, slots, opc, oseg, cleared, widx, ridx, pusher>>
        /\ UNCHANGED <<sent, got, early, ready, users>>
        /\ \/ upc' \in {"none", "try", "slept"} /\ useg' = useg
           \/ upc' = "opened" /\ useg' = name /\ name # 0
    BY DEF AttachCall, AttachMissing, AttachOpen, AttachTimeout, UserLeaves,
           segments, owner, cursors, history
  <1>2. TypeOK' /\ OwnersKnown' /\ Blank'
    BY <1>1 DEF TypeOK, OwnersKnown, Blank
  <1>3. Numbered'
    BY <1>1, <1>2, QuietMessages
  <1>4. ASSUME NEW g \in Sound' PROVE HoldsPending(g)' /\ CursorsExact(g)'
    <2>1. g \in Sound
      BY <1>1 DEF Sound
    <2>2. CursorsExact(g)
      BY <2>1
    <2>3. CursorsExact(g)'
      BY <1>1, <2>2 DEF CursorsExact, Cursor, Moved
    <2> QED BY <1>1, <2>1, <2>3, HoldsFrame
  <1> QED BY <1>2, <1>3, <1>4

(* The first user of a segment starts at its first message; with a second  *)
(* one nothing is promised.                                                *)
LEMMA AttachCheckPreserves ==
  ASSUME SegmentInv, AttachCheck
  PROVE  SegmentInv'
  <1> USE SegmentAssumption DEF SegmentInv
  <1>1. /\ UNCHANGED <<name, made, magic, slots, opc, oseg, cleared, useg, pusher>>
        /\ UNCHANGED <<sent, got, early, ready>> /\ upc = "opened"
    BY DEF AttachCheck, segments, owner, history
  <1>2. \/ /\ upc' = "attached" /\ Restart("user")
           /\ users' = [users EXCEPT ![useg] = IF @ = 0 THEN 1 ELSE 2]
        \/ upc' = "none" /\ UNCHANGED <<widx, ridx, users>>
    BY DEF AttachCheck, cursors
  <1>3. useg \in 1 .. made /\ useg \in Segment
    BY <1>1 DEF TypeOK, OwnersKnown, Segment
  <1>4. TypeOK' /\ OwnersKnown'
    <2>1. widx' \in Nat /\ ridx' \in Nat
      BY <1>2 DEF TypeOK, Restart
    <2>2. users' \in [Segment -> Nat] /\ upc' \in {"none", "attached"}
      <3>1. CASE users' = users
        BY <1>2, <3>1 DEF TypeOK
      <3>2. CASE users' = [users EXCEPT ![useg] = IF @ = 0 THEN 1 ELSE 2]
        BY <1>2, <1>3, <3>2 DEF TypeOK
      <3> QED BY <1>2, <3>1, <3>2
    <2> QED BY <1>1, <1>3, <2>1, <2>2 DEF TypeOK, OwnersKnown
  <1>5. Numbered'
    BY <1>1, <1>4, QuietMessages
  <1>6. Blank'
    <2>1. \A g \in made + 1 .. MaxSegments : users'[g] = users[g]
      BY <1>2, <1>3 DEF TypeOK, Segment
    <2> QED BY <1>1, <2>1 DEF Blank
  <1>7. ASSUME NEW g \in Sound' PROVE HoldsPending(g)' /\ CursorsExact(g)'
    <2>1. g \in Segment /\ users'[g] <= 1
      BY DEF Sound
    <2>2. users[g] \in Nat /\ (g = useg /\ upc' = "attached" => users[g] = 0 /\ users'[g] = 1)
          /\ (g # useg \/ upc' = "none" => users'[g] = users[g])
      BY <1>2, <1>3, <2>1 DEF TypeOK
    <2>3. g \in Sound
      BY <1>1, <1>2, <2>1, <2>2 DEF Sound
    <2>4. CursorsExact(g)
      BY <2>3
    <2>5. Cursor("owner")' = Cursor("owner") /\ (upc' = "attached" => Cursor("user")' = 0)
      BY <1>1, <1>2 DEF Cursor, Restart, TypeOK
    <2>6. \A x \in {"owner", "user"} : Moved(x, g)' = Moved(x, g)
      BY <1>1 DEF Moved
    <2>7. CursorsExact(g)'
      BY <1>1, <1>2, <2>2, <2>4, <2>5, <2>6 DEF CursorsExact
    <2> QED BY <1>1, <2>3, <2>7, HoldsFrame
  <1> QED BY <1>4, <1>5, <1>6, <1>7

----------------------------------------------------------------------------
(* push and pop. *)

(* In a slot that is free there is room for the next message, and what is  *)
(* pending stays where it is.                                              *)
LEMMA PushHolds ==
  ASSUME NEW g \in Segment, TypeOK, HoldsPending(g), widx = Len(sent[g]), slots[g][widx % Capacity] = 0,
         slots'[g] = [slots[g] EXCEPT ![widx % Capacity] = widx + 1],
         sent'[g] = Append(sent[g], widx + 1), got'[g] = got[g]
  PROVE  HoldsPending(g)'
  <1> USE SegmentAssumption
  <1>1. /\ sent[g] \in Seq(Nat) /\ got[g] \in Seq(Nat) /\ slots[g] \in [Slot -> Message]
    BY DEF TypeOK
  <1>2. PICK n \in Nat : n = Len(got[g]) /\ n = Len(got'[g])
    BY <1>1
  <1>3. /\ widx \in Nat /\ n <= widx /\ widx <= n + Capacity
        /\ \A k \in n .. widx - 1 : slots[g][k % Capacity] = k + 1
    BY <1>2 DEF TypeOK, HoldsPending
  <1>4. Len(sent'[g]) = widx + 1
    BY <1>1
  <1>5. widx < n + Capacity
    <2> SUFFICES ASSUME widx = n + Capacity PROVE FALSE
      BY <1>3
    <2>1. widx % Capacity = n % Capacity
      BY SlotNextLap
    <2>2. n \in n .. widx - 1
      OBVIOUS
    <2>3. slots[g][n % Capacity] = n + 1
      BY <1>3, <2>2
    <2> QED BY <2>1, <2>3
  <1>6. ASSUME NEW k \in n .. widx - 1
        PROVE  k % Capacity \in Slot /\ k % Capacity # widx % Capacity /\ slots'[g][k % Capacity] = k + 1
    <2>1. k \in Nat /\ k < widx /\ widx - k < Capacity
      BY <1>3, <1>5
    <2>2. k % Capacity # widx % Capacity
      <3>1. Capacity \in Nat \ {0} /\ widx \in Nat
        BY <1>3
      <3> QED BY <2>1, <3>1, SlotsDistinct
    <2>3. k % Capacity \in Slot
      BY <2>1, CursorSlot
    <2>4. slots[g][k % Capacity] = k + 1
      BY <1>3
    <2> QED BY <1>1, <2>2, <2>3, <2>4
  <1>7. widx % Capacity \in Slot /\ slots'[g][widx % Capacity] = widx + 1
    BY <1>1, <1>3, CursorSlot
  <1>8. \A k \in n .. widx : slots'[g][k % Capacity] = k + 1
    <2> SUFFICES ASSUME NEW k \in n .. widx PROVE slots'[g][k % Capacity] = k + 1
      OBVIOUS
    <2>1. k = widx \/ k \in n .. widx - 1
      BY <1>3
    <2> QED BY <1>6, <1>7, <2>1
  <1>9. ASSUME NEW s \in Slot, slots'[g][s] # 0
        PROVE  \E k \in n .. widx : s = k % Capacity
    <2>1. CASE s = widx % Capacity
      <3>1. widx \in n .. widx
        BY <1>3
      <3> QED BY <2>1, <3>1
    <2>2. CASE s # widx % Capacity
      <3>1. slots[g][s] # 0
        BY <1>1, <1>9, <2>2
      <3>2. PICK k \in n .. widx - 1 : s = k % Capacity
        BY <1>2, <3>1 DEF HoldsPending
      <3>3. k \in n .. widx
        BY <1>3
      <3> QED BY <3>2, <3>3
    <2> QED BY <2>1, <2>2
  <1>10. (widx + 1) - 1 = widx /\ n <= widx + 1 /\ widx + 1 <= n + Capacity
    BY <1>3, <1>5
  <1>11. \A i \in 1 .. n : got[g][i] = i
    BY <1>2 DEF HoldsPending
  <1>12. Len(got'[g]) = n /\ Len(sent'[g]) = widx + 1 /\ Len(sent'[g]) - 1 = widx /\ got'[g] = got[g]
    BY <1>2, <1>4, <1>10
  <1>13. Len(got'[g]) .. Len(sent'[g]) - 1 = n .. widx
    BY <1>12
  <1> HIDE SegmentAssumption
  <1>14. /\ \A k \in Len(got'[g]) .. Len(sent'[g]) - 1 : slots'[g][k % Capacity] = k + 1
         /\ \A s \in Slot : slots'[g][s] # 0 =>
              \E k \in Len(got'[g]) .. Len(sent'[g]) - 1 : s = k % Capacity
    BY <1>8, <1>9, <1>13
  <1>15. /\ Len(got'[g]) <= Len(sent'[g]) /\ Len(sent'[g]) <= Len(got'[g]) + Capacity
         /\ \A i \in 1 .. Len(got'[g]) : got'[g][i] = i
    BY <1>10, <1>11, <1>12
  <1> QED BY <1>14, <1>15, Zenon DEF HoldsPending

(* The message taken out is the oldest, and the others stay.               *)
LEMMA PopHolds ==
  ASSUME NEW g \in Segment, TypeOK, HoldsPending(g), ridx = Len(got[g]), slots[g][ridx % Capacity] # 0,
         slots'[g] = [slots[g] EXCEPT ![ridx % Capacity] = 0],
         got'[g] = Append(got[g], slots[g][ridx % Capacity]), sent'[g] = sent[g]
  PROVE  HoldsPending(g)'
  <1>1. /\ sent[g] \in Seq(Nat) /\ got[g] \in Seq(Nat) /\ slots[g] \in [Slot -> Message]
        /\ Capacity \in Nat \ {0}
    BY SegmentAssumption DEF TypeOK
  <1>2. PICK n \in Nat : n = Len(sent[g]) /\ n = Len(sent'[g])
    BY <1>1
  <1>3. /\ ridx \in Nat /\ ridx <= n /\ n <= ridx + Capacity
        /\ \A k \in ridx .. n - 1 : slots[g][k % Capacity] = k + 1
        /\ \A s \in Slot : slots[g][s] # 0 => \E k \in ridx .. n - 1 : s = k % Capacity
        /\ \A i \in 1 .. ridx : got[g][i] = i
    BY <1>2 DEF TypeOK, HoldsPending
  <1>4. ridx % Capacity \in Slot
    BY <1>3, CursorSlot
  <1>5. ridx < n
    <2>1. PICK k \in ridx .. n - 1 : ridx % Capacity = k % Capacity
      BY <1>3, <1>4
    <2> QED BY <1>3, <2>1
  <1>6. slots[g][ridx % Capacity] = ridx + 1
    <2>1. ridx \in ridx .. n - 1
      BY <1>3, <1>5
    <2> QED BY <1>3, <2>1
  <1>7. Len(got'[g]) = ridx + 1 /\ \A i \in 1 .. ridx + 1 : got'[g][i] = i
    <2>1. got'[g] = Append(got[g], ridx + 1)
      BY <1>6
    <2> QED BY <1>1, <1>3, <2>1
  <1>8. ASSUME NEW k \in ridx + 1 .. n - 1
        PROVE  slots'[g][k % Capacity] = k + 1
    <2>1. k \in Nat /\ ridx < k /\ k - ridx < Capacity /\ k \in ridx .. n - 1
      BY <1>1, <1>3
    <2>2. ridx % Capacity # k % Capacity
      BY <1>1, <1>3, <2>1, SlotsDistinct
    <2>3. k % Capacity \in Slot
      BY <2>1, CursorSlot
    <2>4. slots[g][k % Capacity] = k + 1
      BY <1>3, <2>1
    <2> QED BY <1>1, <2>2, <2>3, <2>4
  <1>9. ASSUME NEW s \in Slot, slots'[g][s] # 0
        PROVE  \E k \in ridx + 1 .. n - 1 : s = k % Capacity
    <2>1. s # ridx % Capacity /\ slots[g][s] # 0
      BY <1>1, <1>4, <1>9
    <2>2. PICK k \in ridx .. n - 1 : s = k % Capacity
      BY <1>3, <2>1
    <2>3. k # ridx
      BY <2>1, <2>2
    <2>4. k \in ridx + 1 .. n - 1
      BY <1>3, <2>3
    <2> QED BY <2>2, <2>4
  <1>10. /\ Len(got'[g]) .. Len(sent'[g]) - 1 = ridx + 1 .. n - 1
         /\ Len(got'[g]) <= Len(sent'[g]) /\ Len(sent'[g]) <= Len(got'[g]) + Capacity
    BY <1>1, <1>2, <1>3, <1>5, <1>7
  <1>11. /\ \A k \in Len(got'[g]) .. Len(sent'[g]) - 1 : slots'[g][k % Capacity] = k + 1
         /\ \A s \in Slot : slots'[g][s] # 0 =>
              \E k \in Len(got'[g]) .. Len(sent'[g]) - 1 : s = k % Capacity
    BY <1>8, <1>9, <1>10
  <1>12. \A i \in 1 .. Len(got'[g]) : got'[g][i] = i
    BY <1>7
  <1> QED BY <1>10, <1>11, <1>12, Zenon DEF HoldsPending

(* A push changes one segment, that of the pushing side. *)
LEMMA PushPreserves ==
  ASSUME SegmentInv, Push
  PROVE  SegmentInv'
  <1> USE SegmentAssumption DEF SegmentInv
  <1>1. PICK g : g = Of(pusher)
    OBVIOUS
  <1>2. /\ Mapped(pusher) /\ Len(sent[g]) < MaxSent /\ slots[g][widx % Capacity] = 0
        /\ slots' = [slots EXCEPT ![g][widx % Capacity] = Len(sent[g]) + 1]
        /\ sent' = [sent EXCEPT ![g] = Append(sent[g], Len(sent[g]) + 1)]
        /\ early' = IF g \in ready THEN early ELSE [early EXCEPT ![g] = @ \cup {Len(sent[g]) + 1}]
        /\ widx' = widx + 1
        /\ UNCHANGED <<name, made, magic, opc, oseg, cleared, upc, useg, uout, ridx, pusher, got,
                       ready, users>>
    BY <1>1 DEF Push, owner, user
  <1>3. \/ pusher = "owner" /\ opc = "ready" /\ oseg = g /\ g \in ready
        \/ pusher = "user" /\ upc = "attached" /\ useg = g
    BY <1>1, <1>2 DEF Mapped, Of, OwnersKnown, TypeOK
  <1>4. g \in 1 .. made /\ g \in Segment
    BY <1>3 DEF TypeOK, OwnersKnown, Segment
  <1>5. PICK m \in Nat \ {0} : m = Len(sent[g]) + 1 /\ m <= MaxSent
    BY <1>2, <1>4 DEF TypeOK
  <1>6. PICK s \in Slot : s = widx % Capacity
    BY CursorSlot DEF TypeOK
  <1>7. /\ slots[g][s] = 0
        /\ slots' = [slots EXCEPT ![g] = [slots[g] EXCEPT ![s] = m]]
        /\ sent' = [sent EXCEPT ![g] = Append(sent[g], m)]
        /\ early' = IF g \in ready THEN early ELSE [early EXCEPT ![g] = @ \cup {m}]
    BY <1>2, <1>5, <1>6
  <1>8. /\ slots[g] \in [Slot -> Message] /\ slots'[g] = [slots[g] EXCEPT ![s] = m]
        /\ sent[g] \in Seq(Nat) /\ sent'[g] = Append(sent[g], m)
        /\ \A h \in Segment \ {g} : slots'[h] = slots[h] /\ sent'[h] = sent[h] /\ early'[h] = early[h]
    BY <1>4, <1>7 DEF TypeOK
  <1>9. /\ g \in ready => early'[g] = early[g]
        /\ g \notin ready => early'[g] = early[g] \cup {m}
    BY <1>4, <1>7 DEF TypeOK
  <1>10. /\ Len(sent'[g]) = m
         /\ \A i \in 1 .. m - 1 : sent'[g][i] = sent[g][i]
         /\ sent'[g][m] = m
    BY <1>5, <1>8
  <1>11. TypeOK'
    <2>1. slots' \in [Segment -> [Slot -> Message]]
      <3>1. m \in Message
        BY <1>5 DEF Message, Stale
      <3> QED BY <1>4, <1>7, <3>1 DEF TypeOK
    <2>2. sent' \in [Segment -> Seq(Nat)]
      BY <1>4, <1>7 DEF TypeOK
    <2>3. early' \in [Segment -> SUBSET Nat]
      BY <1>4, <1>7 DEF TypeOK
    <2>4. widx' \in Nat
      BY <1>2 DEF TypeOK
    <2> QED BY <1>2, <2>1, <2>2, <2>3, <2>4 DEF TypeOK
  <1>12. OwnersKnown'
    BY <1>2 DEF OwnersKnown
  <1>13. Numbered'
    <2> SUFFICES ASSUME NEW h \in Segment
                 PROVE  /\ Len(sent'[h]) <= MaxSent /\ \A i \in 1 .. Len(sent'[h]) : sent'[h][i] = i
                        /\ h \notin ready' => 1 .. Len(sent'[h]) \subseteq early'[h]
      BY DEF Numbered
    <2>1. CASE h # g
      BY <1>2, <1>8, <2>1 DEF Numbered
    <2>2. CASE h = g
      <3>1. \A i \in 1 .. m : i = m \/ i \in 1 .. m - 1
        BY <1>5
      <3>2. \A i \in 1 .. m - 1 : sent[g][i] = i
        BY <1>4, <1>5 DEF Numbered
      <3>3. \A i \in 1 .. m : sent'[g][i] = i
        BY <1>10, <3>1, <3>2
      <3>4. g \notin ready => 1 .. m - 1 \subseteq early[g]
        BY <1>4, <1>5 DEF Numbered
      <3>5. g \notin ready => 1 .. m \subseteq early'[g]
        BY <1>9, <3>1, <3>4
      <3> QED BY <1>2, <1>5, <1>10, <2>2, <3>3, <3>5
    <2> QED BY <2>1, <2>2
  <1>14. Blank'
    <2>1. \A h \in made + 1 .. MaxSegments : h \in Segment \ {g}
      BY <1>4 DEF TypeOK, Segment
    <2> QED BY <1>2, <1>8, <2>1 DEF Blank
  <1>16. ASSUME NEW h \in Sound' PROVE HoldsPending(h)' /\ CursorsExact(h)'
    <2>1. h \in Segment /\ (h = g => g \in ready)
      BY <1>2, <1>9 DEF Sound
    <2>2. h \in Sound
      BY <1>2, <1>8, <1>9, <2>1 DEF Sound
    <2>3. HoldsPending(h) /\ CursorsExact(h)
      BY <2>2
    <2>4. CASE h # g
      <3>1. HoldsPending(h)'
        BY <1>2, <1>8, <2>1, <2>3, <2>4, HoldsFrame
      <3>2. CursorsExact(h)'
        BY <1>2, <1>3, <1>8, <2>1, <2>3, <2>4 DEF CursorsExact, Cursor, Moved, TypeOK, Creating
      <3> QED BY <3>1, <3>2
    <2>5. CASE h = g
      <3>1. widx = Len(sent[g])
        BY <1>3, <2>3, <2>5 DEF CursorsExact, Cursor, Moved, Creating
      <3>2. HoldsPending(g)'
        BY <1>2, <1>4, <1>5, <1>6, <1>8, <2>3, <2>5, <3>1, PushHolds
      <3>3. widx' = Len(sent'[g])
        BY <1>2, <1>5, <1>10, <3>1
      <3>4. Len(got'[g]) = Len(got[g])
        BY <1>2
      <3>5. CursorsExact(g)'
        BY <1>2, <1>3, <2>3, <2>5, <3>3, <3>4 DEF CursorsExact, Cursor, Moved, TypeOK, Creating
      <3> QED BY <2>5, <3>2, <3>5
    <2> QED BY <2>4, <2>5
  <1> QED BY <1>11, <1>12, <1>13, <1>14, <1>16

(* A pop moves a message of one segment from its slot to the history. *)
LEMMA PopPreserves ==
  ASSUME SegmentInv, Pop
  PROVE  SegmentInv'
  <1> USE SegmentAssumption DEF SegmentInv
  <1>1. PICK g : g = Of(popper)
    OBVIOUS
  <1>2. /\ Mapped(popper) /\ slots[g][ridx % Capacity] # 0
        /\ slots' = [slots EXCEPT ![g][ridx % Capacity] = 0]
        /\ got' = [got EXCEPT ![g] = Append(got[g], slots[g][ridx % Capacity])]
        /\ ridx' = ridx + 1
        /\ UNCHANGED <<name, made, magic, opc, oseg, cleared, upc, useg, uout, widx, pusher, sent,
                       early, ready, users>>
    BY <1>1 DEF Pop, owner, user
  <1>3. \/ pusher = "user" /\ opc = "ready" /\ oseg = g /\ g \in ready
        \/ pusher = "owner" /\ upc = "attached" /\ useg = g
    BY <1>1, <1>2 DEF Mapped, Of, OwnersKnown, TypeOK, popper
  <1>4. g \in 1 .. made /\ g \in Segment
    BY <1>3 DEF TypeOK, OwnersKnown, Segment
  <1>5. PICK s \in Slot : s = ridx % Capacity
    BY CursorSlot DEF TypeOK
  <1>6. PICK m \in Message : m = slots[g][s] /\ m \in Nat
    BY <1>4 DEF TypeOK, Message
  <1>7. /\ slots' = [slots EXCEPT ![g] = [slots[g] EXCEPT ![s] = 0]]
        /\ got' = [got EXCEPT ![g] = Append(got[g], m)]
    BY <1>2, <1>5, <1>6
  <1>8. /\ slots[g] \in [Slot -> Message] /\ slots'[g] = [slots[g] EXCEPT ![s] = 0]
        /\ got[g] \in Seq(Nat) /\ got'[g] = Append(got[g], m)
        /\ \A h \in Segment \ {g} : slots'[h] = slots[h] /\ got'[h] = got[h]
    BY <1>4, <1>7 DEF TypeOK
  <1>9. /\ Len(got'[g]) = Len(got[g]) + 1 /\ Len(got[g]) \in Nat
        /\ \A i \in 1 .. Len(got[g]) : got'[g][i] = got[g][i]
        /\ got'[g][Len(got[g]) + 1] = m
    BY <1>6, <1>8
  <1>10. TypeOK'
    <2>1. slots' \in [Segment -> [Slot -> Message]]
      <3>1. 0 \in Message
        BY DEF Message, Stale
      <3> QED BY <1>4, <1>7, <3>1 DEF TypeOK
    <2>2. got' \in [Segment -> Seq(Nat)]
      BY <1>4, <1>6, <1>7 DEF TypeOK
    <2>3. ridx' \in Nat
      BY <1>2 DEF TypeOK
    <2> QED BY <1>2, <2>1, <2>2, <2>3 DEF TypeOK
  <1>11. OwnersKnown' /\ Numbered'
    BY <1>2 DEF OwnersKnown, Numbered
  <1>12. Blank'
    <2>1. \A h \in made + 1 .. MaxSegments : h \in Segment \ {g}
      BY <1>4 DEF TypeOK, Segment
    <2> QED BY <1>2, <1>8, <2>1 DEF Blank
  <1>14. ASSUME NEW h \in Sound' PROVE HoldsPending(h)' /\ CursorsExact(h)'
    <2>1. h \in Sound /\ h \in Segment
      BY <1>2 DEF Sound
    <2>2. HoldsPending(h) /\ CursorsExact(h)
      BY <2>1
    <2>3. CASE h # g
      <3>1. HoldsPending(h)'
        BY <1>2, <1>8, <2>1, <2>2, <2>3, HoldsFrame
      <3>2. CursorsExact(h)'
        BY <1>2, <1>3, <1>8, <2>1, <2>2, <2>3 DEF CursorsExact, Cursor, Moved, TypeOK, Creating
      <3> QED BY <3>1, <3>2
    <2>4. CASE h = g
      <3>1. ridx = Len(got[g])
        BY <1>3, <2>2, <2>4 DEF CursorsExact, Cursor, Moved, Creating
      <3>2. HoldsPending(g)'
        BY <1>2, <1>4, <1>5, <1>6, <1>8, <2>2, <2>4, <3>1, PopHolds
      <3>3. ridx' = Len(got'[g])
        BY <1>2, <1>9, <3>1
      <3>4. Len(sent'[g]) = Len(sent[g])
        BY <1>2
      <3>5. CursorsExact(g)'
        BY <1>2, <1>3, <2>2, <2>4, <3>3, <3>4 DEF CursorsExact, Cursor, Moved, TypeOK, Creating
      <3> QED BY <2>4, <3>2, <3>5
    <2> QED BY <2>3, <2>4
  <1> QED BY <1>10, <1>11, <1>12, <1>14

----------------------------------------------------------------------------
(* The inductive invariant of the segments. *)
THEOREM SegmentCorrect == Spec => []SegmentInv
  <1>1. Init => SegmentInv
    BY InitialSegments
  <1>2. SegmentInv /\ [Next]_vars => SegmentInv'
    <2> SUFFICES ASSUME SegmentInv, [Next]_vars PROVE SegmentInv'
      OBVIOUS
    <2>1. CASE CreateCall \/ CreateUnlink \/ CreateHeader \/ CreateReturn \/ OwnerClose \/ OwnerDies
      BY <2>1, OwnerStepPreserves
    <2>2. CASE CreateMake
      BY <2>2, CreateMakePreserves
    <2>3. CASE CreateClear
      BY <2>3, CreateClearPreserves
    <2>4. CASE AttachCall \/ AttachMissing \/ AttachOpen \/ AttachTimeout \/ UserLeaves
      BY <2>4, UserStepPreserves
    <2>5. CASE AttachCheck
      BY <2>5, AttachCheckPreserves
    <2>6. CASE Push
      BY <2>6, PushPreserves
    <2>7. CASE Pop
      BY <2>7, PopPreserves
    <2>8. CASE UNCHANGED vars
      BY <2>8 DEF SegmentInv, TypeOK, OwnersKnown, Numbered, Blank, Sound, HoldsPending, CursorsExact, Cursor, Moved,
                  vars, segments, owner, user, cursors, history
    <2> QED BY <2>1, <2>2, <2>3, <2>4, <2>5, <2>6, <2>7, <2>8 DEF Next, Attach
  <1> QED BY <1>1, <1>2, PTL DEF Spec

(* A segment that was created in full before it was used, and that one     *)
(* user attached to once, is a bounded FIFO whoever dies.                  *)
THEOREM SegmentFifo == Spec => []SegmentIsFifo
  <1>1. SegmentInv => SegmentIsFifo
    <2> SUFFICES ASSUME SegmentInv, NEW g \in ready, users[g] <= 1, early[g] = {}
                 PROVE  /\ Len(got[g]) <= Len(sent[g]) /\ Len(sent[g]) <= Len(got[g]) + Capacity
                        /\ \A i \in DOMAIN got[g] : got[g][i] = sent[g][i]
      BY DEF SegmentIsFifo
    <2>1. g \in Segment
      BY SegmentAssumption DEF SegmentInv, TypeOK, Segment
    <2>2. HoldsPending(g)
      BY <2>1 DEF SegmentInv, Sound
    <2>3. /\ sent[g] \in Seq(Nat) /\ got[g] \in Seq(Nat)
          /\ \A i \in 1 .. Len(sent[g]) : sent[g][i] = i
      BY <2>1 DEF SegmentInv, TypeOK, Numbered
    <2>4. /\ Len(got[g]) <= Len(sent[g]) /\ Len(sent[g]) <= Len(got[g]) + Capacity
          /\ \A i \in 1 .. Len(got[g]) : got[g][i] = i
      BY <2>2 DEF HoldsPending
    <2>5. \A i \in DOMAIN got[g] : got[g][i] = sent[g][i]
      <3>1. DOMAIN got[g] = 1 .. Len(got[g]) /\ \A i \in 1 .. Len(got[g]) : i \in 1 .. Len(sent[g])
        BY <2>3, <2>4
      <3> QED BY <2>3, <2>4, <3>1
    <2> QED BY <2>4, <2>5
  <1> QED BY <1>1, SegmentCorrect, PTL

=============================================================================
