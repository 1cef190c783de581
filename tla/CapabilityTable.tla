-------------------------- MODULE CapabilityTable --------------------------
(***************************************************************************)
(* core-rust/src/capability.rs: the table that gives a capability a 16-bit *)
(* index, which packets then carry as a Ref operand.  Index 0 is never     *)
(* given out.  `slots` is the Vec with None beyond its length, as get sees *)
(* it; `next` is the watermark used when no slot is free.                  *)
(*                                                                         *)
(* `held` is a history: the index and capability of every registration     *)
(* that has not been undone, as the callers of register know it; `evicted` *)
(* counts live entries that a registration overwrote.                      *)
(***************************************************************************)
EXTENDS Naturals

CONSTANTS Cap,              \* capability records
          None,             \* an empty slot
          Capacities,       \* arguments of CapabilityTable::new
          MAX_CAPABILITY    \* u16::MAX

ASSUME CapAssumption == None \notin Cap
ASSUME SizeAssumption == Capacities \subseteq Nat /\ MAX_CAPABILITY \in Nat \ {0}

VARIABLES capacity,           \* what new() was given
          slots, len, next,   \* the table
          out,                \* outcome of the last operation
          held, evicted       \* history

tableVars == <<capacity, slots, len, next, out, held, evicted>>

Index == 0 .. MAX_CAPABILITY     \* u16

(* new(): at least slot 0, and never more than MAX_CAPABILITY slots. *)
InitialLen == LET cap == IF capacity < MAX_CAPABILITY THEN capacity ELSE MAX_CAPABILITY
              IN  IF cap > 1 THEN cap ELSE 1

TableInit == /\ capacity \in Capacities
             /\ slots = [i \in Index |-> None]
             /\ len = InitialLen /\ next = 1
             /\ out = "none" /\ held = {} /\ evicted = 0

get(idx) == slots[idx]

Free == {i \in 1 .. len - 1 : slots[i] = None}

----------------------------------------------------------------------------

(* register: the lowest free slot. *)
RegisterFree(c) ==
  \E i \in Free :
    /\ \A j \in Free : i <= j
    /\ slots' = [slots EXCEPT ![i] = c]
    /\ held' = held \cup {<<i, c>>}
    /\ out' = "ok"
    /\ UNCHANGED <<capacity, len, next, evicted>>

(* Mutant: the table is taken for full one slot too early. *)
RegisterOverflowEarly ==
  /\ len >= MAX_CAPABILITY /\ \A i \in 1 .. len - 2 : slots[i] # None
  /\ out' = "CapabilityOverflow"
  /\ UNCHANGED <<capacity, slots, len, next, held, evicted>>

(* register: no free slot, and the table has its full size. *)
RegisterOverflow ==
  /\ Free = {} /\ len >= MAX_CAPABILITY
  /\ out' = "CapabilityOverflow"
  /\ UNCHANGED <<capacity, slots, len, next, held, evicted>>

(* Mutant: the limit is compared one too late. *)
RegisterBumpLate(c) ==
  /\ Free = {} /\ len <= MAX_CAPABILITY
  /\ LET grows == next >= len
         at == IF grows THEN len ELSE next
     IN  /\ slots' = [slots EXCEPT ![at] = c]
         /\ len' = IF grows THEN len + 1 ELSE len
         /\ evicted' = IF grows THEN evicted ELSE evicted + 1
  /\ next' = (next + 1) % (MAX_CAPABILITY + 1)
  /\ held' = held \cup {<<next, c>>}
  /\ out' = "ok" /\ UNCHANGED capacity

(* register: no free slot, the watermark is taken.  Below the length it    *)
(* names a slot in use, which is overwritten; at the length the table      *)
(* grows.  The index returned is the watermark either way.                 *)
RegisterBump(c) ==
  /\ Free = {} /\ len < MAX_CAPABILITY
  /\ LET grows == next >= len
         at == IF grows THEN len ELSE next
     IN  /\ slots' = [slots EXCEPT ![at] = c]
         /\ len' = IF grows THEN len + 1 ELSE len
         /\ evicted' = IF grows THEN evicted ELSE evicted + 1
  /\ next' = (next + 1) % (MAX_CAPABILITY + 1)
  /\ held' = held \cup {<<next, c>>}
  /\ out' = "ok" /\ UNCHANGED capacity

(* unregister: index 0, an index out of range and an empty slot are        *)
(* refused; the registrations known under the index are over.              *)
Unregister(idx) ==
  IF idx = 0 \/ idx >= len \/ slots[idx] = None
  THEN out' = "CapabilityInvalid" /\ UNCHANGED <<capacity, slots, len, next, held, evicted>>
  ELSE /\ slots' = [slots EXCEPT ![idx] = None]
       /\ held' = {h \in held : h[1] # idx}
       /\ out' = "ok"
       /\ UNCHANGED <<capacity, len, next, evicted>>

TableNext == \/ \E c \in Cap : RegisterFree(c) \/ RegisterBump(c)
             \/ RegisterOverflow
             \/ \E i \in Index : Unregister(i)

TableSpec == TableInit /\ [][TableNext]_tableVars

----------------------------------------------------------------------------
TableTypeOK ==
  /\ capacity \in Nat
  /\ slots \in [Index -> Cap \cup {None}]
  /\ len \in 1 .. MAX_CAPABILITY /\ next \in 1 .. MAX_CAPABILITY
  /\ out \in {"none", "ok", "CapabilityOverflow", "CapabilityInvalid"}
  /\ held \subseteq (Index \X Cap) /\ evicted \in Nat

(* "Returns its 16-bit index": until it is unregistered, the index that    *)
(* register returned for a capability resolves to that capability.         *)
IndexIsStable == \A h \in held : get(h[1]) = h[2]

(* It does so in a table created at its full size, as the gate creates     *)
(* its own, and in one created empty, which grows with its watermark,      *)
(* however often slots are freed and taken again.  In a table created with *)
(* any other number of slots the watermark overwrites entries in use.      *)
StableIfFullOrEmpty == InitialLen \in {1, MAX_CAPABILITY} => IndexIsStable

(* Slot 0 is the null slot: no registration is known under it.  Nothing is *)
(* stored there or beyond the length of the table.                         *)
NullSlotEmpty == /\ slots[0] = None /\ \A i \in Index : i >= len => slots[i] = None
                 /\ \A h \in held : h[1] \in 1 .. len - 1

(* The watermark never passes the length of the table, so an index handed  *)
(* out by a growing table is the one the capability is stored at.          *)
WatermarkInTable == InitialLen <= len /\ next <= len /\ (len > InitialLen => next = len)

(* What the watermark costs: each slot of the initial table is overwritten *)
(* while in use at most once, and none of the slots it grew by ever is.    *)
EvictedOnce == evicted <= InitialLen - 1

(* The inductive invariant behind EvictedOnce: the watermark counts them. *)
TableInv == TableTypeOK /\ NullSlotEmpty /\ WatermarkInTable /\ EvictedOnce /\ evicted <= next - 1

(* CapabilityOverflow is answered only when all MAX_CAPABILITY - 1 indices *)
(* are in use.                                                             *)
OverflowIsReal ==
  [][out' = "CapabilityOverflow" => \A i \in 1 .. MAX_CAPABILITY - 1 : slots[i] # None]_tableVars
=============================================================================
