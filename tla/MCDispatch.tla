----------------------------- MODULE MCDispatch -----------------------------
(* TLC instances of the three components a packet passes in the Rust core: *)
(* CapabilityTable, Gate and Connection.  They share no variable, so each  *)
(* is checked on its own: a behaviour moves the one that `part` names, and *)
(* the others stay in one initial state.                                   *)
(*                                                                         *)
(* The table has a u16 whose largest value is 5.  The gate is shown        *)
(* operands nested up to one level deeper than the policy allows, with     *)
(* lengths at each bound and one beyond it.  The connection gets packets   *)
(* with no Ref, one, or two of which the first may be unknown to it.       *)
EXTENDS CapabilityTable, Gate, Connection

VARIABLE part

Leaves == {[t |-> "Str", n |-> 1], [t |-> "Str", n |-> 2], [t |-> "Bytes", n |-> 3],
           [t |-> "Bytes", n |-> 4], [t |-> "Ref", idx |-> 1], [t |-> "Ref", idx |-> 2],
           [t |-> "Null"]}
Wrap(S) == {[t |-> "List", items |-> << >>]}
             \cup {[t |-> "List", items |-> <<op>>] : op \in S}
             \cup {[t |-> "Map", entries |-> <<[k |-> k, v |-> op]>>] : k \in 1 .. 2, op \in S}
Flat   == Leaves \cup Wrap(Leaves)
Deep   == Wrap(Wrap(Leaves))

MCOperand == Flat \cup Deep

MCShown == {<< >>} \cup {<<a>> : a \in Flat \cup Deep}
              \cup {<<a, b>> : a \in Flat, b \in {[t |-> "Ref", idx |-> 2], [t |-> "Str", n |-> 2], [t |-> "Null"]}}
              \cup {<<[t |-> "Null"], [t |-> "Null"], a>> : a \in Leaves}

MCRefLists == {<< >>, <<1>>, <<3, 2>>}

DispatchInit == /\ TableInit /\ GateInit /\ Init
                /\ part \in {"table", "gate", "connection"}
                /\ part # "table" => capacity = CHOOSE c \in Capacities : TRUE
                /\ part # "gate" => ~audit_enabled
                /\ part # "connection" => strategy = "Direct"

DispatchNext ==
  /\ \/ part = "table" /\ TableNext /\ UNCHANGED <<gateVars, vars>>
     \/ part = "gate" /\ GateNext /\ UNCHANGED <<tableVars, vars>>
     \/ part = "connection" /\ Next /\ UNCHANGED <<tableVars, gateVars>>
  /\ UNCHANGED part

DispatchSpec == DispatchInit /\ [][DispatchNext]_<<tableVars, gateVars, vars, part>>
=============================================================================
