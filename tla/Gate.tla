-------------------------------- MODULE Gate --------------------------------
(***************************************************************************)
(* core-rust/src/gate.rs with safety.rs: AiclGate, which lets a packet     *)
(* pass when its Ref operands resolve in the capability table and its      *)
(* operands keep the SafetyPolicy.                                         *)
(*                                                                         *)
(* An operand is a record: t is its kind; n the length of a Str or Bytes;  *)
(* idx the index of a Ref; items the operands of a List; entries those of  *)
(* a Map, each with the length k of its key and its value v.  The gate     *)
(* never unregisters, so indices 1 to caps resolve.                        *)
(***************************************************************************)
EXTENDS Naturals, Sequences, Functions

CONSTANTS Operand,             \* operands, those within Lists and Maps included
          Shown,               \* packets shown to the gate: sequences of operands
          max_operand_count, max_string_length,
          max_bytes_length, max_nesting_depth,   \* the SafetyPolicy
          MaxCaps              \* bound: capabilities registered

(* The operands of a List or a Map, and the lengths of a Map's keys. *)
Children(op) == CASE op.t = "List" -> Range(op.items)
                  [] op.t = "Map"  -> {e.v : e \in Range(op.entries)}
                  [] OTHER         -> {}
Keys(op) == IF op.t = "Map" THEN {e.k : e \in Range(op.entries)} ELSE {}

ASSUME OperandAssumption == /\ \A op \in Operand : Children(op) \subseteq Operand
                            /\ Shown \subseteq Seq(Operand)
ASSUME PolicyAssumption == max_nesting_depth \in Nat /\ max_operand_count \in Nat

VARIABLES caps,            \* capabilities registered
          audit_enabled,   \* set when the gate is built
          pkt, decision    \* the last packet shown and what was answered

gateVars == <<caps, audit_enabled, pkt, decision>>

(* The registered capabilities: get(idx) is Some. *)
Resolves(idx) == idx \in 1 .. caps

----------------------------------------------------------------------------
(* check: the Ref operands of the packet itself. *)
check(p) ==
  IF \E op \in Range(p) : op.t = "Ref" /\ ~Resolves(op.idx) THEN "Deny"
  ELSE IF audit_enabled THEN "Audit" ELSE "Allow"

check_string(n) == n <= max_string_length
check_bytes(n)  == n <= max_bytes_length

(* Mutant: one level too many is let through. *)
ValidAtLate(depth, deeper) ==
  [op \in Operand |->
     /\ depth <= max_nesting_depth + 1
     /\ CASE op.t = "Str"   -> check_string(op.n)
          [] op.t = "Bytes" -> check_bytes(op.n)
          [] op.t = "List"  -> \A item \in Range(op.items) : deeper[item]
          [] op.t = "Map"   -> \A e \in Range(op.entries) : check_string(e.k) /\ deeper[e.v]
          [] OTHER          -> TRUE]

(* What validate_operand says of the operands at a depth, when deeper is   *)
(* what it says of those one level further down.                           *)
ValidAt(depth, deeper) ==
  [op \in Operand |->
     /\ depth <= max_nesting_depth
     /\ CASE op.t = "Str"   -> check_string(op.n)
          [] op.t = "Bytes" -> check_bytes(op.n)
          [] op.t = "List"  -> \A item \in Range(op.items) : deeper[item]
          [] op.t = "Map"   -> \A e \in Range(op.entries) : check_string(e.k) /\ deeper[e.v]
          [] OTHER          -> TRUE]

(* The recursion of validate_operand: every level asks the next, and the   *)
(* last is refused as too deep.                                            *)
validate_operand(op, depth) ==
  LET valid[d \in 0 .. max_nesting_depth + 1] == ValidAt(d, valid[d + 1])
  IN  valid[depth][op]

(* validate_packet, reduced to whether it is Ok, and the first error.      *)
validate_packet(p) ==
  IF Len(p) > max_operand_count THEN "OperandCount"
  ELSE IF \A op \in Range(p) : validate_operand(op, 0) THEN "Ok" ELSE "PayloadTooLarge"

check_and_validate(p) ==
  IF check(p) = "Deny" THEN "CapabilityNotFound"
  ELSE IF validate_packet(p) = "Ok" THEN check(p) ELSE validate_packet(p)

----------------------------------------------------------------------------
GateInit == /\ caps = 0 /\ audit_enabled \in BOOLEAN
            /\ pkt = << >> /\ decision = "none"

register_capability ==
  /\ caps < MaxCaps /\ caps' = caps + 1
  /\ UNCHANGED <<audit_enabled, pkt, decision>>

Show(p) == /\ pkt' = p /\ decision' = check_and_validate(p)
           /\ UNCHANGED <<caps, audit_enabled>>

GateNext == register_capability \/ \E p \in Shown : Show(p)

GateSpec == GateInit /\ [][GateNext]_gateVars

----------------------------------------------------------------------------
Passed == decision \in {"Allow", "Audit"}

(* The operands nested k levels below those of a packet. *)
Level(p) == LET level[k \in 0 .. max_nesting_depth + 1] ==
                  IF k = 0 THEN Range(p) ELSE UNION {Children(op) : op \in level[k - 1]}
            IN  level
Operands(p) == UNION {Level(p)[k] : k \in 0 .. max_nesting_depth + 1}

(* "Checks operand count, string lengths, bytes lengths, and nesting       *)
(* depth": a packet that passed keeps every bound in every operand, at     *)
(* every level and in every key, and one whose Refs resolve is refused     *)
(* only when it breaks one.                                                *)
PolicyExact ==
  decision # "none" /\ decision # "CapabilityNotFound" =>
    (Passed <=> /\ Len(pkt) <= max_operand_count
                /\ Level(pkt)[max_nesting_depth + 1] = {}
                /\ \A op \in Operands(pkt) :
                     /\ op.t = "Str" => op.n <= max_string_length
                     /\ op.t = "Bytes" => op.n <= max_bytes_length
                     /\ \A k \in Keys(op) : k <= max_string_length)
=============================================================================
