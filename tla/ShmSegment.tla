----------------------------- MODULE ShmSegment -----------------------------
(***************************************************************************)
(* aicl/transport/shared_memory_ring.py: the life of the shared segment    *)
(* under a ring.  One process, the owner, creates it and the other, the    *)
(* user, attaches to it by name; either may be the one that pushes.  Both  *)
(* may die and start again.                                                *)
(*                                                                         *)
(* A segment outlives its name: unlink takes the name away, and processes  *)
(* that have it mapped keep it.  A slot holds the number of the message in *)
(* it, 0 when its used byte is 0; a push or pop is one step here, since    *)
(* ShmRing shows that the steps of the two do not interfere.               *)
(***************************************************************************)
EXTENDS Integers, Sequences, FiniteSets

CONSTANTS Capacity,    \* number of slots
          MaxSegments, \* bound: segments made
          MaxSent      \* bound: messages pushed into one segment

ASSUME SegmentAssumption == /\ Capacity \in Nat \ {0} /\ MaxSegments \in Nat \ {0}
                            /\ MaxSent \in Nat

VARIABLES name, made,            \* the segment of that name, 0 if none; segments made
          magic, slots,          \* each segment: its header is written; its slots
          opc, oseg, cleared,    \* owner: control, its segment, slots cleared by create
          upc, useg, uout,       \* user: control, its segment, outcome of attach
          widx, ridx,            \* the private cursors of the pushing and popping side
          pusher,                \* which of the two pushes
          sent, got,             \* history of each segment: pushed and popped messages
          ready, early, users    \* history: created in full; pushed before; times attached

segments == <<name, made, magic, slots>>
owner    == <<opc, oseg, cleared>>
user     == <<upc, useg, uout>>
cursors  == <<widx, ridx>>
history  == <<sent, got, early>>
vars     == <<segments, owner, user, cursors, pusher, history, ready, users>>

Segment == 1 .. MaxSegments
Slot    == 0 .. Capacity - 1
Stale   == MaxSent + 1     \* a message left by a process that died
Empty   == [s \in Slot |-> 0]

(* The ring may be the first of its name, or find one left behind.         *)
Init == /\ pusher \in {"owner", "user"}
        /\ name \in {0, 1} /\ made = name
        /\ \E left \in [Slot -> {0, Stale}], m \in BOOLEAN :
             IF name = 0 THEN /\ magic = [g \in Segment |-> FALSE]
                              /\ slots = [g \in Segment |-> Empty]
                         ELSE /\ magic = [g \in Segment |-> g = 1 /\ m]
                              /\ slots = [g \in Segment |-> IF g = 1 THEN left ELSE Empty]
        /\ opc = "none" /\ oseg = 0 /\ cleared = 0
        /\ upc = "none" /\ useg = 0 /\ uout = "none"
        /\ widx = 0 /\ ridx = 0
        /\ sent = [g \in Segment |-> << >>] /\ got = sent
        /\ ready = {} /\ early = [g \in Segment |-> {}] /\ users = [g \in Segment |-> 0]

(* A new object starts with its cursors at 0; each side uses one of them. *)
Restart(side) == IF pusher = side THEN widx' = 0 /\ UNCHANGED ridx
                                  ELSE ridx' = 0 /\ UNCHANGED widx

----------------------------------------------------------------------------
(* The owner: create, and close or death. *)

(* create opens a segment of that name, if there is one. *)
CreateCall ==
  /\ opc = "none" /\ made < MaxSegments
  /\ IF name = 0 THEN opc' = "make" /\ UNCHANGED oseg
                 ELSE opc' = "unlink" /\ oseg' = name
  /\ UNCHANGED <<segments, cleared, user, cursors, pusher, history, ready, users>>

(* Mutant: a segment found is used again in place of a new one. *)
CreateReuses ==
  /\ opc = "unlink" /\ opc' = "clear" /\ cleared' = 0
  /\ Restart("owner")
  /\ UNCHANGED <<segments, oseg, user, pusher, history, ready, users>>

CreateUnlink ==
  /\ opc = "unlink" /\ opc' = "make"
  /\ name' = 0
  /\ UNCHANGED <<made, magic, slots, oseg, cleared, user, cursors, pusher, history, ready, users>>

(* A new segment is all zeros. *)
CreateMake ==
  /\ opc = "make" /\ opc' = "header"
  /\ made' = made + 1 /\ name' = made' /\ oseg' = made'
  /\ cleared' = 0 /\ Restart("owner")
  /\ UNCHANGED <<magic, slots, user, pusher, history, ready, users>>

(* The header is one pack_into: it is written, and read by attach, in one  *)
(* step.                                                                   *)
CreateHeader ==
  /\ opc = "header" /\ opc' = "clear"
  /\ magic' = [magic EXCEPT ![oseg] = TRUE]
  /\ UNCHANGED <<name, made, slots, oseg, cleared, user, cursors, pusher, history, ready, users>>

(* The used bytes are cleared after the header, one by one. *)
CreateClear ==
  /\ opc = "clear" /\ cleared < Capacity
  /\ slots' = [slots EXCEPT ![oseg][cleared] = 0]
  /\ cleared' = cleared + 1
  /\ UNCHANGED <<name, made, magic, opc, oseg, user, cursors, pusher, history, ready, users>>

CreateReturn ==
  /\ opc = "clear" /\ cleared = Capacity
  /\ opc' = "ready" /\ ready' = ready \cup {oseg}
  /\ UNCHANGED <<segments, oseg, cleared, user, cursors, pusher, history, users>>

(* close of the owner unlinks the name. *)
OwnerClose ==
  /\ opc = "ready" /\ opc' = "none"
  /\ name' = 0
  /\ UNCHANGED <<made, magic, slots, oseg, cleared, user, cursors, pusher, history, ready, users>>

(* The owner's process dies, in create or later: the name stays. *)
OwnerDies ==
  /\ opc # "none" /\ opc' = "none"
  /\ UNCHANGED <<segments, oseg, cleared, user, cursors, pusher, history, ready, users>>

----------------------------------------------------------------------------
(* The user: attach, and close or death, which leave the name alone. *)

AttachCall ==
  /\ upc = "none" /\ upc' = "try" /\ uout' = "none"
  /\ UNCHANGED <<segments, owner, useg, cursors, pusher, history, ready, users>>

(* FileNotFoundError: sleep and try again; trying in vain changes nothing. *)
AttachMissing ==
  /\ upc = "try" /\ name = 0 /\ upc' = "slept"
  /\ UNCHANGED <<segments, owner, useg, uout, cursors, pusher, history, ready, users>>

AttachOpen ==
  /\ upc \in {"try", "slept"} /\ name # 0
  /\ upc' = "opened" /\ useg' = name
  /\ UNCHANGED <<segments, owner, uout, cursors, pusher, history, ready, users>>

(* Mutant: attach tries for ever. *)
AttachTimeoutNever ==
  /\ upc = "slept" /\ name # 0
  /\ upc' = "none" /\ uout' = "TimeoutError"
  /\ UNCHANGED <<segments, owner, useg, cursors, pusher, history, ready, users>>

(* The deadline has passed during the sleep, whatever appeared meanwhile. *)
AttachTimeout ==
  /\ upc = "slept"
  /\ upc' = "none" /\ uout' = "TimeoutError"
  /\ UNCHANGED <<segments, owner, useg, cursors, pusher, history, ready, users>>

(* The header is read once: a segment without it is a ValueError, which is *)
(* not retried.                                                            *)
AttachCheck ==
  /\ upc = "opened"
  /\ IF magic[useg]
     THEN /\ upc' = "attached" /\ uout' = "ok" /\ Restart("user")
          /\ users' = [users EXCEPT ![useg] = IF @ = 0 THEN 1 ELSE 2]
     ELSE upc' = "none" /\ uout' = "ValueError" /\ UNCHANGED <<cursors, users>>
  /\ UNCHANGED <<segments, owner, useg, pusher, history, ready>>

UserLeaves ==
  /\ upc # "none" /\ upc' = "none"
  /\ UNCHANGED <<segments, owner, useg, uout, cursors, pusher, history, ready, users>>

----------------------------------------------------------------------------
(* push_nowait and pop_nowait by the side that may. *)

Mapped(side) == IF side = "owner" THEN opc = "ready" ELSE upc = "attached"
Of(side)     == IF side = "owner" THEN oseg ELSE useg
popper       == IF pusher = "owner" THEN "user" ELSE "owner"

Push ==
  /\ Mapped(pusher) /\ Len(sent[Of(pusher)]) < MaxSent
  /\ LET g == Of(pusher)
         m == Len(sent[g]) + 1
     IN  /\ slots[g][widx % Capacity] = 0
         /\ slots' = [slots EXCEPT ![g][widx % Capacity] = m]
         /\ sent' = [sent EXCEPT ![g] = Append(@, m)]
         /\ early' = IF g \in ready THEN early ELSE [early EXCEPT ![g] = @ \cup {m}]
  /\ widx' = widx + 1
  /\ UNCHANGED <<name, made, magic, owner, user, ridx, pusher, got, ready, users>>

Pop ==
  /\ Mapped(popper)
  /\ LET g == Of(popper)
     IN  /\ slots[g][ridx % Capacity] # 0
         /\ got' = [got EXCEPT ![g] = Append(@, slots[g][ridx % Capacity])]
         /\ slots' = [slots EXCEPT ![g][ridx % Capacity] = 0]
  /\ ridx' = ridx + 1
  /\ UNCHANGED <<name, made, magic, owner, user, widx, pusher, sent, early, ready, users>>

----------------------------------------------------------------------------
Attach == AttachMissing \/ AttachOpen \/ AttachTimeout \/ AttachCheck

Next == \/ CreateCall \/ CreateUnlink \/ CreateMake \/ CreateHeader
        \/ CreateClear \/ CreateReturn \/ OwnerClose \/ OwnerDies
        \/ AttachCall \/ Attach \/ UserLeaves
        \/ Push \/ Pop

Spec == Init /\ [][Next]_vars

(* The user's process runs, and its clock reaches the deadline of attach. *)
FairSpec == Spec /\ WF_vars(Attach)

----------------------------------------------------------------------------
(* A segment that create had finished before a message was pushed into it, *)
(* and that one user attached to, once, is a bounded FIFO from its first   *)
(* message to its last, whoever dies, and whatever older segments of its   *)
(* name are still mapped.                                                  *)
SegmentIsFifo ==
  \A g \in ready : users[g] <= 1 /\ early[g] = {} =>
    /\ Len(got[g]) <= Len(sent[g]) /\ Len(sent[g]) <= Len(got[g]) + Capacity
    /\ \A i \in DOMAIN got[g] : got[g][i] = sent[g][i]

(* "the `used` byte is only ever written 0->1 by the producer and 1->0 by  *)
(* the consumer": a slot is marked by the push of a message into it, and   *)
(* unmarked by the pop that returns that message.                          *)
UsedByteOwners ==
  [][\A g \in Segment, s \in Slot :
       /\ slots[g][s] = 0 /\ slots'[g][s] # 0 => sent'[g] = Append(sent[g], slots'[g][s])
       /\ slots[g][s] # 0 /\ slots'[g][s] = 0 => got'[g] = Append(got[g], slots[g][s])]_vars

----------------------------------------------------------------------------
(* The inductive invariant: which segments are there and what each holds.  *)

Message == 0 .. Stale     \* 0: the slot is not used

TypeOK ==
  /\ name \in 0 .. made /\ made \in 0 .. MaxSegments
  /\ magic \in [Segment -> BOOLEAN] /\ slots \in [Segment -> [Slot -> Message]]
  /\ opc \in {"none", "unlink", "make", "header", "clear", "ready"}
  /\ oseg \in 0 .. made /\ cleared \in 0 .. Capacity
  /\ upc \in {"none", "try", "slept", "opened", "attached"} /\ useg \in 0 .. made
  /\ widx \in Nat /\ ridx \in Nat /\ pusher \in {"owner", "user"}
  /\ sent \in [Segment -> Seq(Nat)] /\ got \in [Segment -> Seq(Nat)]
  /\ ready \subseteq 1 .. made /\ users \in [Segment -> Nat]
  /\ early \in [Segment -> SUBSET Nat]

(* create works on a segment of its own, that is not finished. *)
Creating == {"header", "clear"}
OwnersKnown ==
  /\ opc \in {"unlink", "make"} => made < MaxSegments
  /\ opc \in Creating => oseg # 0 /\ oseg \notin ready
  /\ opc = "ready" => oseg \in ready
  /\ upc \in {"opened", "attached"} => useg # 0

(* Messages are numbered from 1, and what is pushed before create returns  *)
(* is marked as early.                                                     *)
Numbered == \A g \in Segment :
  /\ Len(sent[g]) <= MaxSent /\ \A i \in 1 .. Len(sent[g]) : sent[g][i] = i
  /\ g \notin ready => 1 .. Len(sent[g]) \subseteq early[g]

(* Segments not yet made are blank. *)
Blank == \A g \in made + 1 .. MaxSegments :
  /\ slots[g] = Empty /\ sent[g] = << >> /\ got[g] = << >> /\ users[g] = 0 /\ ~magic[g]

(* The messages of g that are in its slots, and where. *)
HoldsPending(g) ==
  /\ Len(got[g]) <= Len(sent[g]) /\ Len(sent[g]) <= Len(got[g]) + Capacity
  /\ \A i \in 1 .. Len(got[g]) : got[g][i] = i
  /\ \A k \in Len(got[g]) .. Len(sent[g]) - 1 : slots[g][k % Capacity] = k + 1
  /\ \A s \in Slot : slots[g][s] # 0 =>
       \E k \in Len(got[g]) .. Len(sent[g]) - 1 : s = k % Capacity

(* A side's cursor is the number of messages it moved, while it has g. *)
Moved(side, g) == IF side = pusher THEN Len(sent[g]) ELSE Len(got[g])
Cursor(side)   == IF side = pusher THEN widx ELSE ridx
CursorsExact(g) ==
  /\ opc \in Creating \cup {"ready"} /\ oseg = g => Cursor("owner") = Moved("owner", g)
  /\ upc = "attached" /\ useg = g => users[g] # 0 /\ Cursor("user") = Moved("user", g)
  /\ users[g] = 0 => Moved("user", g) = 0

(* The segments that create made, to the end or up to now, and that one    *)
(* user has used as they are meant to be.                                  *)
Sound == {g \in Segment : /\ g \in ready \/ (opc \in Creating /\ oseg = g)
                          /\ users[g] <= 1 /\ early[g] = {}}

SegmentInv ==
  /\ TypeOK /\ OwnersKnown /\ Numbered /\ Blank
  /\ \A g \in Sound : HoldsPending(g) /\ CursorsExact(g)

(* attach ends: in a ring, a ValueError or a TimeoutError. *)
AttachEnds == upc \in {"try", "slept", "opened"} ~> upc \in {"none", "attached"}
=============================================================================
