-------------------------- MODULE DispatchProofs ---------------------------
(* Proofs about the way of a packet through the Rust core, for every value *)
(* of the constants: the capability table, the gate that looks indices up  *)
(* and keeps the safety policy, and the connection that drains packets to  *)
(* their handlers.                                                         *)
EXTENDS CapabilityTable, Gate, Connection, SequenceTheorems, NatLemmas

----------------------------------------------------------------------------
(* The capability table. *)

LEMMA InitialLenInRange == ASSUME capacity \in Nat PROVE InitialLen \in 1 .. MAX_CAPABILITY
BY SizeAssumption DEF InitialLen

(* The size a table was created with does not change. *)
LEMMA SizeKept ==
  ASSUME [TableNext]_tableVars
  PROVE  capacity' = capacity /\ InitialLen' = InitialLen
<1>1. capacity' = capacity
  BY DEF TableNext, RegisterFree, RegisterBump, RegisterOverflow, Unregister, tableVars
<1> QED BY <1>1 DEF InitialLen

(* A step of the table keeps its inductive invariant. *)
LEMMA TableStep == TableInv /\ [TableNext]_tableVars => TableInv'
<1> SUFFICES ASSUME TableInv, [TableNext]_tableVars PROVE TableInv'
  OBVIOUS
<1>a. InitialLen \in 1 .. MAX_CAPABILITY
  BY InitialLenInRange DEF TableInv, TableTypeOK
<1>b. capacity' = capacity /\ InitialLen' = InitialLen
  BY SizeKept
<1> USE CapAssumption, SizeAssumption, <1>a, <1>b
<1>1. ASSUME NEW c \in Cap, RegisterFree(c) PROVE TableInv'
  <2>1. PICK i \in Free : /\ slots' = [slots EXCEPT ![i] = c]
                          /\ held' = held \cup {<<i, c>>}
                          /\ out' = "ok" /\ UNCHANGED <<len, next, evicted>>
    BY <1>1 DEF RegisterFree
  <2>2. i \in 1 .. len - 1 /\ i \in Index
    BY <2>1 DEF Free, TableInv, TableTypeOK, Index
  <2>3. TableTypeOK'
    BY <2>1, <2>2 DEF TableInv, TableTypeOK, Index
  <2>4. NullSlotEmpty'
    BY <2>1, <2>2 DEF TableInv, TableTypeOK, NullSlotEmpty, Index
  <2> QED
    BY <2>1, <2>3, <2>4 DEF TableInv, WatermarkInTable, EvictedOnce
<1>2. ASSUME NEW c \in Cap, RegisterBump(c) PROVE TableInv'
  <2> USE <1>2 DEF RegisterBump
  <2>1. len < MAX_CAPABILITY /\ len \in Nat /\ next \in Nat /\ next >= 1 /\ next <= len
        /\ evicted \in Nat
    BY DEF TableInv, TableTypeOK, WatermarkInTable
  <2>2. next' = next + 1
    BY <2>1
  <2>3. CASE next >= len
    <3>1. next = len /\ len' = len + 1 /\ evicted' = evicted /\ slots' = [slots EXCEPT ![len] = c]
      BY <2>1, <2>3
    <3>2. TableTypeOK'
      BY <2>1, <2>2, <3>1 DEF TableInv, TableTypeOK, Index
    <3>3. NullSlotEmpty'
      <4>1. len \in Index
        BY <2>1 DEF Index
      <4>2. slots'[0] = None
        BY <2>1, <3>1, <4>1 DEF TableInv, TableTypeOK, NullSlotEmpty, Index
      <4>3. \A i \in Index : i >= len' => slots'[i] = None
        BY <2>1, <3>1, <4>1 DEF TableInv, TableTypeOK, NullSlotEmpty, Index
      <4>4. \A h \in held' : h[1] \in 1 .. len' - 1
        BY <2>1, <3>1 DEF TableInv, TableTypeOK, NullSlotEmpty
      <4> QED BY <4>2, <4>3, <4>4 DEF NullSlotEmpty
    <3>4. WatermarkInTable' /\ EvictedOnce' /\ evicted' <= next' - 1
      BY <2>1, <2>2, <3>1 DEF TableInv, WatermarkInTable, EvictedOnce
    <3> QED BY <3>2, <3>3, <3>4 DEF TableInv
  <2>4. CASE next < len
    <3>0. ~(next >= len)
      BY <2>1, <2>4
    <3>1. len' = len /\ evicted' = evicted + 1 /\ slots' = [slots EXCEPT ![next] = c]
      BY <3>0
    <3>2. len = InitialLen
      BY <2>1, <2>4 DEF TableInv, TableTypeOK, WatermarkInTable
    <3>3. TableTypeOK'
      BY <2>1, <2>2, <2>4, <3>1 DEF TableInv, TableTypeOK, Index
    <3>4. NullSlotEmpty'
      BY <2>1, <2>4, <3>1 DEF TableInv, TableTypeOK, NullSlotEmpty, Index
    <3>5. WatermarkInTable' /\ EvictedOnce' /\ evicted' <= next' - 1
      BY <2>1, <2>2, <2>4, <3>1, <3>2 DEF TableInv, WatermarkInTable, EvictedOnce
    <3> QED BY <3>3, <3>4, <3>5 DEF TableInv
  <2> QED BY <2>1, <2>3, <2>4
<1>3. CASE RegisterOverflow
  BY <1>3 DEF RegisterOverflow, TableInv, TableTypeOK, NullSlotEmpty, WatermarkInTable, EvictedOnce
<1>4. ASSUME NEW i \in Index, Unregister(i) PROVE TableInv'
  <2>1. TableTypeOK'
    BY <1>4 DEF Unregister, TableInv, TableTypeOK, Index
  <2>2. NullSlotEmpty'
    BY <1>4 DEF Unregister, TableInv, TableTypeOK, NullSlotEmpty, Index
  <2> QED
    BY <1>4, <2>1, <2>2 DEF Unregister, TableInv, WatermarkInTable, EvictedOnce
<1>5. CASE UNCHANGED tableVars
  BY <1>5 DEF tableVars, TableInv, TableTypeOK, NullSlotEmpty, WatermarkInTable, EvictedOnce
<1> QED
  BY <1>1, <1>2, <1>3, <1>4, <1>5 DEF TableNext

(* The table's invariant holds of every table: the watermark stays within  *)
(* the table, nothing is stored in slot 0 or past the end, and register    *)
(* overwrites at most InitialLen - 1 live entries, ever.                   *)
THEOREM TableCorrect == TableSpec => []TableInv
<1>1. TableInit => TableInv
  BY CapAssumption, SizeAssumption, InitialLenInRange
     DEF TableInit, TableInv, TableTypeOK, NullSlotEmpty, WatermarkInTable, EvictedOnce, Index
<1> QED
  BY <1>1, TableStep, PTL DEF TableSpec

(* A table of any size evicts each of its initial slots at most once. *)
THEOREM EvictionBounded == TableSpec => []EvictedOnce
<1>1. TableInv => EvictedOnce
  BY DEF TableInv
<1> QED
  BY <1>1, TableCorrect, PTL

(* The index of a growing table is the place where the entry is stored. *)
THEOREM WatermarkBounded == TableSpec => []WatermarkInTable
<1>1. TableInv => WatermarkInTable
  BY DEF TableInv
<1> QED
  BY <1>1, TableCorrect, PTL

(* A table created at its full size, as that of AiclGate is, never takes   *)
(* the watermark path, and one created empty takes it only at its end,     *)
(* where the watermark stands: register overwrites no entry in use, and an *)
(* index resolves to its capability until it is unregistered.              *)
THEOREM FullOrEmptyIsStable == TableSpec => []StableIfFullOrEmpty
<1> DEFINE Steady == InitialLen \in {1, MAX_CAPABILITY} => evicted = 0 /\ IndexIsStable
<1> USE CapAssumption, SizeAssumption
<1>1. TableInit => Steady
  BY DEF TableInit, IndexIsStable
<1>2. TableInv /\ Steady /\ [TableNext]_tableVars => Steady'
  <2> SUFFICES ASSUME TableInv, evicted = 0, IndexIsStable, InitialLen \in {1, MAX_CAPABILITY},
                      [TableNext]_tableVars
               PROVE  evicted' = 0 /\ IndexIsStable'
    BY SizeKept
  <2>1. ASSUME NEW c \in Cap, NEW i \in Index, slots[i] = None,
               slots' = [slots EXCEPT ![i] = c], held' = held \cup {<<i, c>>}
        PROVE  IndexIsStable'
    <3>1. \A h \in held : h[1] \in Index /\ h[2] \in Cap /\ h[1] # i
      BY <2>1 DEF TableInv, TableTypeOK, IndexIsStable, get
    <3> QED BY <2>1, <3>1 DEF TableInv, TableTypeOK, IndexIsStable, get
  <2>2. ASSUME NEW c \in Cap, RegisterFree(c) PROVE evicted' = 0 /\ IndexIsStable'
    <3>1. PICK i \in Free : /\ slots' = [slots EXCEPT ![i] = c] /\ held' = held \cup {<<i, c>>}
                            /\ evicted' = evicted
      BY <2>2 DEF RegisterFree
    <3>2. i \in Index /\ slots[i] = None
      BY DEF Free, TableInv, TableTypeOK, Index
    <3> QED BY <2>1, <3>1, <3>2
  <2>3. ASSUME NEW c \in Cap, RegisterBump(c) PROVE evicted' = 0 /\ IndexIsStable'
    <3>1. next = len /\ len \in Index
      BY <2>3 DEF RegisterBump, TableInv, TableTypeOK, WatermarkInTable, Index
    <3>2. slots[len] = None
      BY <3>1 DEF TableInv, TableTypeOK, NullSlotEmpty
    <3>3. /\ slots' = [slots EXCEPT ![len] = c] /\ held' = held \cup {<<len, c>>}
          /\ evicted' = evicted
      BY <2>3, <3>1 DEF RegisterBump, Index
    <3> QED BY <2>1, <3>1, <3>2, <3>3
  <2>4. CASE RegisterOverflow
    BY <2>4 DEF RegisterOverflow, IndexIsStable, get
  <2>5. ASSUME NEW i \in Index, Unregister(i) PROVE evicted' = 0 /\ IndexIsStable'
    BY <2>5 DEF Unregister, IndexIsStable, get, TableInv, TableTypeOK
  <2>6. CASE UNCHANGED tableVars
    BY <2>6 DEF tableVars, IndexIsStable, get
  <2> QED BY <2>2, <2>3, <2>4, <2>5, <2>6 DEF TableNext
<1>3. Steady => StableIfFullOrEmpty
  BY DEF StableIfFullOrEmpty
<1> QED
  BY <1>1, <1>2, <1>3, TableCorrect, PTL DEF TableSpec

(* register refuses a capability only when every index is taken. *)
THEOREM OverflowReal == TableSpec => OverflowIsReal
<1>1. TableInv /\ [TableNext]_tableVars
        => [out' = "CapabilityOverflow" => \A i \in 1 .. MAX_CAPABILITY - 1 : slots[i] # None]_tableVars
  <2> SUFFICES ASSUME TableInv, TableNext, out' = "CapabilityOverflow"
               PROVE  \A i \in 1 .. MAX_CAPABILITY - 1 : slots[i] # None
    OBVIOUS
  <2>1. RegisterOverflow
    BY DEF TableNext, RegisterFree, RegisterBump, Unregister
  <2> QED
    BY <2>1, SizeAssumption DEF RegisterOverflow, Free, TableInv, TableTypeOK
<1> QED
  BY <1>1, TableCorrect, PTL DEF TableSpec, OverflowIsReal

----------------------------------------------------------------------------
(* The gate. *)

(* The levels below a packet are what their recursion says: the recursive  *)
(* function exists, by building it one level after the other.              *)
LEMMA LevelDef ==
  ASSUME NEW p
  PROVE  Level(p) = [k \in 0 .. max_nesting_depth + 1 |->
                       IF k = 0 THEN Range(p) ELSE UNION {Children(op) : op \in Level(p)[k - 1]}]
<1> DEFINE Below(S) == UNION {Children(op) : op \in S}
           Is(f, lv) == f = [k \in 0 .. lv |-> IF k = 0 THEN Range(p) ELSE Below(f[k - 1])]
           Missing == {lv \in Nat : ~ \E f : Is(f, lv)}
<1>1. Missing = {}
  <2> SUFFICES ASSUME Missing # {} PROVE FALSE
    OBVIOUS
  <2>1. PICK lv \in Missing : \A m \in Missing : lv <= m
    BY LeastNatural
  <2> HIDE DEF Below
  <2>2. lv # 0
    <3>1. Is([k \in 0 .. 0 |-> Range(p)], 0)
      OBVIOUS
    <3> QED BY <3>1
  <2>3. lv - 1 \in Nat /\ lv - 1 \notin Missing
    <3>1. lv \in Nat
      OBVIOUS
    <3> HIDE DEF Missing
    <3>2. lv - 1 \in Nat /\ ~(lv <= lv - 1)
      BY <2>2, <3>1
    <3> QED BY <2>1, <3>2
  <2>4. PICK f : Is(f, lv - 1)
    BY <2>3
  <2> DEFINE g == [k \in 0 .. lv |-> IF k = lv THEN Below(f[lv - 1]) ELSE f[k]]
  <2>5. ASSUME NEW k \in 0 .. lv PROVE g[k] = IF k = 0 THEN Range(p) ELSE Below(g[k - 1])
    <3>1. CASE k = lv
      BY <2>2, <2>3, <3>1
    <3>2. CASE k # lv
      <4>1. k \in 0 .. lv - 1
        BY <3>2
      <4>2. f[k] = IF k = 0 THEN Range(p) ELSE Below(f[k - 1])
        BY <2>4, <4>1
      <4>3. g[k] = f[k] /\ (k # 0 => g[k - 1] = f[k - 1])
        BY <3>2, <4>1
      <4> QED BY <4>2, <4>3
    <3> QED BY <3>1, <3>2
  <2>6. Is(g, lv)
    BY <2>5, Zenon
  <2> QED BY <2>1, <2>6
<1>2. max_nesting_depth + 1 \in Nat
  BY PolicyAssumption
<1>3. \E f : Is(f, max_nesting_depth + 1)
  BY <1>1, <1>2
<1>4. Level(p) = CHOOSE f : Is(f, max_nesting_depth + 1)
  BY DEF Level
<1> QED BY <1>3, <1>4, Zenon

(* One level below the last allowed, nothing is valid. *)
LEMMA TooDeep ==
  ASSUME NEW deeper
  PROVE  ValidAt(max_nesting_depth + 1, deeper) = [op \in Operand |-> FALSE]
<1>1. ~(max_nesting_depth + 1 <= max_nesting_depth)
  BY PolicyAssumption
<1> QED BY <1>1, Zenon DEF ValidAt

(* The recursion of validate_operand, as one function of the depth. *)
Valid == CHOOSE f : f = [d \in 0 .. max_nesting_depth + 1 |-> ValidAt(d, f[d + 1])]

LEMMA ValidDef ==
  /\ Valid = [d \in 0 .. max_nesting_depth + 1 |-> ValidAt(d, Valid[d + 1])]
  /\ \A op, depth : validate_operand(op, depth) = Valid[depth][op]
<1> DEFINE D == max_nesting_depth
           Is(f, lv) == f = [d \in D + 1 - lv .. D + 1 |-> ValidAt(d, f[d + 1])]
           Missing == {lv \in 0 .. D + 1 : ~ \E f : Is(f, lv)}
           Nothing == [op \in Operand |-> FALSE]
<1>0. D \in Nat
  BY PolicyAssumption
<1>1. \A x : ValidAt(D + 1, x) = Nothing
  BY TooDeep
<1> HIDE DEF D
<1>2. Missing = {}
  <2> SUFFICES ASSUME Missing # {} PROVE FALSE
    OBVIOUS
  <2>0. Missing \subseteq Nat
    BY <1>0
  <2>1. PICK lv \in Missing : \A m \in Missing : lv <= m
    BY <2>0, LeastNatural
  <2>2. lv # 0
    <3> DEFINE e == [d \in D + 1 .. D + 1 |-> Nothing]
    <3>1. D + 1 - 0 = D + 1 /\ \A d \in D + 1 .. D + 1 : d = D + 1
      BY <1>0
    <3>2. \A d \in D + 1 .. D + 1 : Nothing = ValidAt(d, e[d + 1])
      BY <1>1, <3>1, Zenon
    <3>3. e = [d \in D + 1 .. D + 1 |-> ValidAt(d, e[d + 1])]
      BY <3>2, Zenon
    <3> QED BY <3>1, <3>3
  <2>3. lv - 1 \in 0 .. D /\ lv - 1 \notin Missing
    <3>1. lv \in 0 .. D + 1
      OBVIOUS
    <3> HIDE DEF Missing
    <3>2. lv - 1 \in 0 .. D /\ ~(lv <= lv - 1)
      BY <1>0, <2>2, <3>1
    <3> QED BY <2>1, <3>2
  <2>4. PICK f : Is(f, lv - 1)
    <3>1. lv - 1 \in 0 .. D + 1
      BY <1>0, <2>3
    <3> QED BY <2>3, <3>1
  <2> DEFINE a == D + 1 - lv
             g == [d \in a .. D + 1 |-> IF d = a THEN ValidAt(a, f[a + 1]) ELSE f[d]]
  <2>5. a \in 0 .. D /\ D + 1 - (lv - 1) = a + 1
    BY <1>0, <2>3
  <2>6. f = [d \in a + 1 .. D + 1 |-> ValidAt(d, f[d + 1])]
    BY <2>4, <2>5
  <2>7. ASSUME NEW d \in a .. D + 1 PROVE g[d] = ValidAt(d, g[d + 1])
    <3> HIDE DEF a
    <3>1. CASE d = a
      <4>1. g[d] = ValidAt(a, f[a + 1])
        BY <3>1
      <4>2. a + 1 \in a .. D + 1 /\ a + 1 # a
        BY <1>0, <2>5
      <4>3. g[a + 1] = f[a + 1]
        BY <4>2
      <4> QED BY <3>1, <4>1, <4>3
    <3>2. CASE d = D + 1
      <4>1. d # a /\ d \in a + 1 .. D + 1
        BY <1>0, <2>5, <3>2
      <4>2. g[d] = f[d] /\ f[d] = ValidAt(d, f[d + 1])
        BY <2>6, <4>1
      <4> QED BY <1>1, <3>2, <4>2
    <3>3. CASE d # a /\ d # D + 1
      <4>1. d \in a + 1 .. D + 1 /\ d + 1 \in a .. D + 1 /\ d + 1 # a
        BY <1>0, <2>5, <3>3
      <4>2. g[d] = f[d] /\ f[d] = ValidAt(d, f[d + 1])
        BY <2>6, <3>3, <4>1
      <4>3. g[d + 1] = f[d + 1]
        BY <4>1
      <4> QED BY <4>2, <4>3
    <3> QED BY <3>1, <3>2, <3>3
  <2>8. g = [d \in a .. D + 1 |-> ValidAt(d, g[d + 1])]
    BY <2>7, Zenon
  <2>9. Is(g, lv)
    BY <2>8
  <2> QED BY <2>1, <2>9
<1>3. PICK f : Is(f, D + 1)
  <2>1. D + 1 \in 0 .. D + 1
    BY <1>0
  <2> QED BY <1>2, <2>1
<1>4. f = [d \in 0 .. D + 1 |-> ValidAt(d, f[d + 1])]
  <2>1. D + 1 - (D + 1) = 0
    BY <1>0
  <2> QED BY <1>3, <2>1
<1>5. Valid = [d \in 0 .. max_nesting_depth + 1 |-> ValidAt(d, Valid[d + 1])]
  BY <1>4, Zenon DEF Valid, D
<1>6. \A op, depth : validate_operand(op, depth) = Valid[depth][op]
  BY DEF validate_operand, Valid
<1> QED BY <1>5, <1>6

----------------------------------------------------------------------------
(* What the policy asks of an operand by itself. *)
Own(op) == /\ op.t = "Str" => op.n <= max_string_length
           /\ op.t = "Bytes" => op.n <= max_bytes_length
           /\ \A k \in Keys(op) : k <= max_string_length

(* Within the depth allowed, an operand is valid when it keeps the policy  *)
(* itself and its children are valid one level down.                       *)
LEMMA ValidStep ==
  ASSUME NEW d \in 0 .. max_nesting_depth, NEW op \in Operand
  PROVE  Valid[d][op] <=> Own(op) /\ \A c \in Children(op) : Valid[d + 1][c]
<1> DEFINE deeper == Valid[d + 1]
<1>1. d \in 0 .. max_nesting_depth + 1 /\ d <= max_nesting_depth
  BY PolicyAssumption
<1>2. Valid[d] = ValidAt(d, deeper)
  BY <1>1, ValidDef
<1> HIDE DEF deeper
<1>3. Valid[d][op] <=>
        CASE op.t = "Str"   -> check_string(op.n)
          [] op.t = "Bytes" -> check_bytes(op.n)
          [] op.t = "List"  -> \A item \in Range(op.items) : deeper[item]
          [] op.t = "Map"   -> \A e \in Range(op.entries) : check_string(e.k) /\ deeper[e.v]
          [] OTHER          -> TRUE
  BY <1>1, <1>2 DEF ValidAt
<1>4. (\A e \in Range(op.entries) : check_string(e.k) /\ deeper[e.v])
        <=> /\ \A k \in {e.k : e \in Range(op.entries)} : k <= max_string_length
            /\ \A c \in {e.v : e \in Range(op.entries)} : deeper[c]
  BY Zenon DEF check_string
<1>5. CASE op.t = "Str"
  BY <1>3, <1>5 DEF Own, Children, Keys, check_string
<1>6. CASE op.t = "Bytes"
  BY <1>3, <1>6 DEF Own, Children, Keys, check_bytes
<1>7. CASE op.t = "List"
  BY <1>3, <1>7 DEF Own, Children, Keys, deeper
<1>8. CASE op.t = "Map"
  BY <1>3, <1>4, <1>8 DEF Own, Children, Keys, deeper
<1>9. CASE op.t \notin {"Str", "Bytes", "List", "Map"}
  BY <1>3, <1>9 DEF Own, Children, Keys
<1> QED BY <1>5, <1>6, <1>7, <1>8, <1>9

(* Every level below a packet holds operands. *)
LEMMA LevelsHoldOperands ==
  ASSUME NEW p, Range(p) \subseteq Operand
  PROVE  \A k \in 0 .. max_nesting_depth + 1 : Level(p)[k] \subseteq Operand
<1> DEFINE Wrong == {k \in 0 .. max_nesting_depth + 1 : ~(Level(p)[k] \subseteq Operand)}
<1> SUFFICES ASSUME Wrong # {} PROVE FALSE
  OBVIOUS
<1>1. Wrong \subseteq Nat
  BY PolicyAssumption
<1>2. PICK k \in Wrong : \A m \in Wrong : k <= m
  BY <1>1, LeastNatural
<1>3. k # 0
  BY LevelDef, PolicyAssumption
<1>4. k - 1 \in 0 .. max_nesting_depth + 1 /\ ~(k <= k - 1)
  BY <1>3, PolicyAssumption
<1>5. Level(p)[k - 1] \subseteq Operand
  BY <1>2, <1>4
<1>6. Level(p)[k] = UNION {Children(op) : op \in Level(p)[k - 1]}
  BY <1>3, LevelDef
<1> QED BY <1>5, <1>6, OperandAssumption

(* Level by level: the packet is valid exactly when the operands above     *)
(* level k keep the policy and those at level k are valid there.           *)
LEMMA ValidByLevel ==
  ASSUME NEW p, Range(p) \subseteq Operand
  PROVE  \A k \in 0 .. max_nesting_depth + 1 :
           (\A op \in Range(p) : Valid[0][op])
             <=> /\ \A j \in 0 .. k - 1 : \A op \in Level(p)[j] : Own(op)
                 /\ \A op \in Level(p)[k] : Valid[k][op]
<1> DEFINE L == Level(p)
           Above(k) == \A j \in 0 .. k - 1 : \A op \in L[j] : Own(op)
           At(k) == \A op \in L[k] : Valid[k][op]
           All == \A op \in Range(p) : Valid[0][op]
           Wrong == {k \in 0 .. max_nesting_depth + 1 : ~(All <=> Above(k) /\ At(k))}
<1> SUFFICES ASSUME Wrong # {} PROVE FALSE
  OBVIOUS
<1>1. Wrong \subseteq Nat
  BY PolicyAssumption
<1>2. PICK k \in Wrong : \A m \in Wrong : k <= m
  BY <1>1, LeastNatural
<1>3. k \in 0 .. max_nesting_depth + 1 /\ ~(All <=> Above(k) /\ At(k))
  OBVIOUS
<1>4. k # 0
  <2> SUFFICES ASSUME k = 0 PROVE FALSE
    OBVIOUS
  <2>1. L[0] = Range(p)
    BY LevelDef, PolicyAssumption
  <2>2. At(0) <=> All
    BY <2>1
  <2>3. Above(0)
    OBVIOUS
  <2> QED BY <1>3, <2>2, <2>3
<1> DEFINE i == k - 1
<1>5. i \in 0 .. max_nesting_depth /\ i \in 0 .. max_nesting_depth + 1 /\ ~(k <= i) /\ i + 1 = k
  BY <1>4, PolicyAssumption
<1> HIDE DEF L
<1>6. All <=> Above(i) /\ At(i)
  <2>1. i \notin Wrong
    BY <1>2, <1>5
  <2> QED BY <2>1, <1>5
<1>7. L[k] = UNION {Children(op) : op \in L[i]}
  BY <1>4, LevelDef DEF L
<1>8. L[i] \subseteq Operand
  BY <1>5, LevelsHoldOperands DEF L
<1>9. \A op \in L[i] : Valid[i][op] <=> Own(op) /\ \A c \in Children(op) : Valid[k][c]
  BY <1>5, <1>8, ValidStep
<1>10. At(i) <=> (\A op \in L[i] : Own(op)) /\ At(k)
  BY <1>7, <1>9, Zenon
<1>11. Above(k) <=> Above(i) /\ \A op \in L[i] : Own(op)
  <2>1. 0 .. k - 1 = (0 .. i - 1) \cup {i}
    BY <1>5
  <2> HIDE DEF i
  <2> QED BY <2>1, Zenon
<1> QED BY <1>3, <1>6, <1>10, <1>11

(* The walk of validate_packet finds exactly the packets that keep the     *)
(* policy at every level.                                                  *)
LEMMA WalkExact ==
  ASSUME NEW p \in Shown
  PROVE  validate_packet(p) = "Ok" <=>
           /\ Len(p) <= max_operand_count
           /\ Level(p)[max_nesting_depth + 1] = {}
           /\ \A op \in Operands(p) : Own(op)
<1> DEFINE L == Level(p)
           D == max_nesting_depth
           All == \A op \in Range(p) : Valid[0][op]
<1>1. p \in Seq(Operand) /\ Len(p) \in Nat
  BY OperandAssumption
<1>2. Range(p) \subseteq Operand
  BY <1>1 DEF Range
<1>3. validate_packet(p) = "Ok" <=> Len(p) <= max_operand_count /\ All
  <2>1. All <=> \A op \in Range(p) : validate_operand(op, 0)
    BY ValidDef, Zenon
  <2>2. Len(p) > max_operand_count <=> ~(Len(p) <= max_operand_count)
    BY <1>1, PolicyAssumption
  <2> HIDE DEF All
  <2> QED BY <2>1, <2>2 DEF validate_packet
<1>4. D + 1 \in 0 .. D + 1 /\ D + 1 - 1 = D /\ D \in Nat
  BY PolicyAssumption
<1>5. All <=> /\ \A j \in 0 .. D : \A op \in L[j] : Own(op)
              /\ \A op \in L[D + 1] : Valid[D + 1][op]
  BY <1>2, <1>4, ValidByLevel
<1>6. L[D + 1] \subseteq Operand
  BY <1>2, <1>4, LevelsHoldOperands
<1>7. \A op \in L[D + 1] : ~Valid[D + 1][op]
  <2>1. Valid[D + 1] = [op \in Operand |-> FALSE]
    BY <1>4, ValidDef, TooDeep
  <2> HIDE DEF L
  <2> QED BY <1>6, <2>1
<1> HIDE DEF L
<1>8. (\A op \in L[D + 1] : Valid[D + 1][op]) <=> L[D + 1] = {}
  BY <1>7
<1>9. 0 .. D + 1 = (0 .. D) \cup {D + 1}
  BY <1>4
<1>10. Operands(p) = UNION {L[k] : k \in 0 .. D + 1}
  BY DEF Operands, L
<1>11. L[D + 1] = {} =>
         ((\A op \in Operands(p) : Own(op)) <=> \A j \in 0 .. D : \A op \in L[j] : Own(op))
  <2> HIDE DEF D
  <2> QED BY <1>9, <1>10, Zenon
<1> HIDE DEF All, D
<1>12. All <=> L[D + 1] = {} /\ \A op \in Operands(p) : Own(op)
  BY <1>5, <1>8, <1>11
<1> QED BY <1>3, <1>12 DEF L, D

(* PolicyExact holds of every packet, for every policy and however deeply  *)
(* operands nest: AiclGate::check_and_validate lets through exactly the    *)
(* packets whose operands keep every bound at every level, of those whose  *)
(* Refs resolve.                                                           *)
THEOREM PolicyIsExact == GateSpec => []PolicyExact
<1>1. GateInit => PolicyExact
  BY DEF GateInit, PolicyExact
<1>2. PolicyExact /\ [GateNext]_gateVars => PolicyExact'
  <2> SUFFICES ASSUME PolicyExact, [GateNext]_gateVars PROVE PolicyExact'
    OBVIOUS
  <2>1. CASE pkt' = pkt /\ decision' = decision
    BY <2>1 DEF PolicyExact, Passed
  <2>2. ASSUME NEW p \in Shown, Show(p) PROVE PolicyExact'
    <3>1. pkt' = p /\ decision' = check_and_validate(p)
      BY <2>2 DEF Show
    <3>2. check(p) \in {"Deny", "Audit", "Allow"} /\ validate_packet(p) \in {"Ok", "OperandCount", "PayloadTooLarge"}
      BY DEF check, validate_packet
    <3>3. decision' # "CapabilityNotFound" => (decision' \in {"Allow", "Audit"} <=> validate_packet(p) = "Ok")
      BY <3>1, <3>2 DEF check_and_validate
    <3>4. (\A op \in Operands(p) : Own(op)) <=>
            \A op \in Operands(p) :
              /\ op.t = "Str" => op.n <= max_string_length
              /\ op.t = "Bytes" => op.n <= max_bytes_length
              /\ \A k \in Keys(op) : k <= max_string_length
      BY DEF Own
    <3> QED BY <3>1, <3>3, <3>4, WalkExact DEF PolicyExact, Passed
  <2>3. CASE register_capability
    BY <2>1, <2>3 DEF register_capability
  <2>4. CASE UNCHANGED gateVars
    BY <2>1, <2>4 DEF gateVars
  <2> QED BY <2>2, <2>3, <2>4 DEF GateNext
<1> QED BY <1>1, <1>2, PTL DEF GateSpec

----------------------------------------------------------------------------
(* The connection. *)

(* The least element of a set of naturals is one of them. *)
LEMMA LeastMember ==
  ASSUME NEW S, S \subseteq Nat, S # {}
  PROVE  Least(S) \in S
<1>1. \E x \in S : \A y \in S : x <= y
  BY LeastNatural
<1> QED
  BY <1>1 DEF Least

(* The cursor of round robin goes round. *)
LEMMA NextTurn ==
  ASSUME NEW M \in Nat \ {0}, NEW a \in Nat
  PROVE  (a + 1) % M = IF (a % M) + 1 = M THEN 0 ELSE (a % M) + 1
<1>1. a % M \in 0 .. M - 1
  BY DivMod
<1>2. (a + 1) % M = ((a % M) + 1) % M
  BY WrappedAdd
<1>3. CASE (a % M) + 1 = M
  <2>1. (0 + M) % M = 0 % M /\ 0 % M = 0
    BY SlotNextLap, SmallMod
  <2> QED BY <1>2, <1>3, <2>1
<1>4. CASE (a % M) + 1 # M
  <2>1. (a % M) + 1 \in 0 .. M - 1
    BY <1>1, <1>4
  <2> QED BY <1>2, <1>4, <2>1, SmallMod
<1> QED BY <1>3, <1>4

(* Moving the head of a queue to the end of the sequence before it, and    *)
(* appending to the queue, are the same for the two taken as one.          *)
LEMMA HeadMoves ==
  ASSUME NEW S, NEW t \in Seq(S), NEW q \in Seq(S), q # << >>
  PROVE  Append(t, Head(q)) \o Tail(q) = t \o q
<1>1. Head(q) \in S /\ Tail(q) \in Seq(S) /\ Append(t, Head(q)) \in Seq(S)
  BY HeadTailProperties, AppendProperties
<1>2. Append(t, Head(q)) = t \o <<Head(q)>> /\ <<Head(q)>> \in Seq(S)
  BY <1>1, AppendIsConcat
<1>3. <<Head(q)>> \o Tail(q) = q
  <2>1. Len(q) \in Nat \ {0} /\ Head(q) = q[1]
    BY EmptySeq
  <2>2. /\ <<Head(q)>> \o Tail(q) \in Seq(S)
        /\ Len(<<Head(q)>> \o Tail(q)) = Len(q)
    BY <1>1, <1>2, <2>1, ConcatProperties, HeadTailProperties
  <2>3. ASSUME NEW i \in 1 .. Len(q) PROVE (<<Head(q)>> \o Tail(q))[i] = q[i]
    <3>1. Len(<<Head(q)>>) = 1 /\ Len(Tail(q)) = Len(q) - 1
      BY HeadTailProperties
    <3>2. (<<Head(q)>> \o Tail(q))[i] = IF i <= 1 THEN <<Head(q)>>[i] ELSE Tail(q)[i - 1]
      BY <1>1, <1>2, <2>1, <3>1, ConcatProperties
    <3>3. CASE i = 1
      BY <2>1, <3>2, <3>3
    <3>4. CASE i # 1
      <4>1. i - 1 \in 1 .. Len(Tail(q)) /\ ~ (i <= 1)
        BY <2>1, <3>1, <3>4
      <4>2. Tail(q)[i - 1] = q[(i - 1) + 1] /\ (i - 1) + 1 = i
        BY <4>1, HeadTailProperties
      <4> QED BY <3>2, <4>1, <4>2
    <3> QED BY <3>3, <3>4
  <2> QED BY <2>2, <2>3, SeqEqual
<1> QED
  BY <1>1, <1>2, <1>3, ConcatAssociative

(* So is a packet appended to the queue.                                   *)
LEMMA AppendMoves ==
  ASSUME NEW S, NEW t \in Seq(S), NEW q \in Seq(S), NEW p \in S
  PROVE  Append(t \o q, p) = t \o Append(q, p)
<1>1. t \o q \in Seq(S) /\ <<p>> \in Seq(S)
  BY ConcatProperties
<1>2. Append(t \o q, p) = (t \o q) \o <<p>> /\ Append(q, p) = q \o <<p>>
  BY <1>1, AppendIsConcat
<1>3. (t \o q) \o <<p>> = t \o (q \o <<p>>)
  BY <1>1, ConcatAssociative
<1> QED
  BY <1>2, <1>3

----------------------------------------------------------------------------
(* pick finds a handler that is there: for Direct one that serves a Ref of *)
(* the packet, for round robin the one the cursor is at.                   *)
LEMMA PickServes ==
  ASSUME TypeOK, NEW p \in Packet, pick(p) # NoHandler
  PROVE  /\ pick(p) \in Handlers /\ Handlers # {}
         /\ strategy = "Direct" => cap_table[pick(p)] \in Range(p.refs)
         /\ strategy = "RoundRobin" => pick(p) = (cursor % Len(cap_table)) + 1
<1>1. Handlers = 1 .. Len(cap_table) /\ Handlers # {} /\ Len(cap_table) \in Nat \ {0}
  <2>1. Handlers # {}
    BY DEF pick
  <2>2. Handlers = 1 .. Len(cap_table) /\ Len(cap_table) \in Nat
    BY DEF TypeOK, Handlers
  <2> QED BY <2>1, <2>2
<1>2. CASE strategy = "Direct"
  <2> DEFINE known == {j \in DOMAIN p.refs : Serving(p.refs[j]) # {}}
             ref == p.refs[Least(known)]
  <2>1. pick(p) = PickDirect(p)
    BY <1>1, <1>2 DEF pick
  <2>2. known # {} /\ pick(p) = Least(Serving(ref))
    BY <2>1 DEF PickDirect
  <2>3. p.refs \in Seq(Nat)
    BY RefAssumption DEF Packet
  <2>4. known \subseteq Nat
    BY <2>3
  <2>5. Least(known) \in DOMAIN p.refs /\ Serving(ref) # {}
    <3>1. Least(known) \in known
      BY <2>2, <2>4, LeastMember
    <3> QED BY <3>1
  <2> HIDE DEF ref, known
  <2>6. Serving(ref) \subseteq Nat
    BY <1>1 DEF Serving
  <2>7. Least(Serving(ref)) \in Serving(ref)
    BY <2>5, <2>6, LeastMember
  <2>8. pick(p) \in Handlers /\ cap_table[pick(p)] = ref
    BY <2>2, <2>7 DEF Serving
  <2>9. ref \in Range(p.refs)
    BY <2>5 DEF ref, Range
  <2> QED BY <1>1, <1>2, <2>8, <2>9
<1>3. CASE strategy # "Direct"
  <2>1. pick(p) = (cursor % Len(cap_table)) + 1
    BY <1>1, <1>3 DEF pick
  <2>2. cursor % Len(cap_table) \in 0 .. Len(cap_table) - 1
    BY <1>1, DivMod DEF TypeOK
  <2> QED BY <1>1, <1>3, <2>1, <2>2
<1> QED BY <1>2, <1>3

(* What one round of drain does to the history, with or without handler. *)
LEMMA RoundTaken ==
  ASSUME TypeOK, incoming # << >>, NEW by \in Nat, NEW ok \in BOOLEAN,
         incoming' = Tail(incoming),
         done' = Append(done, [p |-> Head(incoming), by |-> by, responded |-> ok])
  PROVE  /\ Head(incoming) \in Packet /\ incoming' \in Seq(Packet)
         /\ done' \in Seq([p : Packet, by : Nat, responded : BOOLEAN])
         /\ Len(done') = Len(done) + 1 /\ Len(done) \in Nat
         /\ \A i \in 1 .. Len(done) : done'[i] = done[i]
         /\ done'[Len(done) + 1] = [p |-> Head(incoming), by |-> by, responded |-> ok]
         /\ Taken' \o incoming' = Taken \o incoming
<1>1. Head(incoming) \in Packet /\ incoming' \in Seq(Packet)
  BY HeadTailProperties DEF TypeOK
<1> DEFINE D == [p : Packet, by : Nat, responded : BOOLEAN]
           d == [p |-> Head(incoming), by |-> by, responded |-> ok]
<1>2. d \in D /\ done \in Seq(D)
  BY <1>1 DEF TypeOK
<1> HIDE DEF D
<1>3. /\ done' \in Seq(D) /\ Len(done') = Len(done) + 1 /\ Len(done) \in Nat
      /\ \A i \in 1 .. Len(done) : done'[i] = done[i]
      /\ done'[Len(done) + 1] = d
  BY <1>2, AppendProperties
<1>4. \A i \in 1 .. Len(done) : done[i].p \in Packet
  <2>1. \A i \in 1 .. Len(done) : done[i] \in D
    BY <1>2, ElementOfSeq
  <2> QED BY <2>1 DEF D
<1>5. Taken \in Seq(Packet) /\ Len(Taken) = Len(done)
  BY <1>3, <1>4 DEF Taken
<1>6. Taken' = Append(Taken, Head(incoming))
  <2>1. Taken' \in Seq(Packet) /\ Len(Taken') = Len(done) + 1
    <3>1. \A i \in 1 .. Len(done') : done'[i].p \in Packet
      <4>1. \A i \in 1 .. Len(done') : done'[i] \in D
        BY <1>3, ElementOfSeq
      <4> QED BY <4>1 DEF D
    <3> QED BY <1>3, <3>1 DEF Taken
  <2>2. /\ Append(Taken, Head(incoming)) \in Seq(Packet)
        /\ Len(Append(Taken, Head(incoming))) = Len(done) + 1
        /\ \A i \in 1 .. Len(done) : Append(Taken, Head(incoming))[i] = Taken[i]
        /\ Append(Taken, Head(incoming))[Len(done) + 1] = Head(incoming)
    BY <1>1, <1>5, AppendProperties
  <2>3. ASSUME NEW i \in 1 .. Len(done) + 1
        PROVE  Taken'[i] = Append(Taken, Head(incoming))[i]
    <3>1. Taken'[i] = done'[i].p
      BY <1>3 DEF Taken
    <3>2. CASE i \in 1 .. Len(done)
      <4>1. Taken[i] = done[i].p
        BY <3>2 DEF Taken
      <4> QED BY <1>3, <2>2, <3>1, <3>2, <4>1
    <3>3. CASE i = Len(done) + 1
      BY <1>3, <2>2, <3>1, <3>3
    <3>4. i \in 1 .. Len(done) \/ i = Len(done) + 1
      BY <1>3
    <3> QED BY <3>2, <3>3, <3>4
  <2> QED BY <2>1, <2>2, <2>3, SeqEqual
<1>7. Taken' \o incoming' = Taken \o incoming
  BY <1>5, <1>6, HeadMoves DEF TypeOK
<1> QED BY <1>1, <1>3, <1>7 DEF D

(* Every step keeps the types, the order and the count of a drain. *)
LEMMA OrderStep ==
  TypeOK /\ accepted = Taken \o incoming /\ CountKept /\ [Next]_vars
    => TypeOK' /\ accepted' = Taken' \o incoming' /\ CountKept'
<1> SUFFICES ASSUME TypeOK, accepted = Taken \o incoming, CountKept, [Next]_vars
             PROVE  TypeOK' /\ accepted' = Taken' \o incoming' /\ CountKept'
  OBVIOUS
<1>0. Handlers = 1 .. Len(cap_table) /\ Len(cap_table) \in Nat /\ Len(done) \in Nat
  BY DEF TypeOK, Handlers
<1>1. ASSUME NEW c \in Caps \cup {0}, add_capability_handler(c)
      PROVE  TypeOK' /\ accepted' = Taken' \o incoming' /\ CountKept'
  <2>1. cap_table' \in Seq(Caps \cup {0}) /\ Handlers' = 1 .. Len(cap_table) + 1
    BY <1>1, AppendProperties, LenProperties DEF add_capability_handler, TypeOK, Handlers
  <2>2. calls' \in [Handlers' -> Nat]
    BY <1>1, <2>1 DEF add_capability_handler
  <2> QED BY <1>1, <2>1, <2>2 DEF add_capability_handler, TypeOK, Taken, CountKept
<1>2. ASSUME NEW refs \in RefLists, enqueue(refs)
      PROVE  TypeOK' /\ accepted' = Taken' \o incoming' /\ CountKept'
  <2>1. PICK p : p = [id |-> Len(accepted) + 1, refs |-> refs]
    OBVIOUS
  <2>2. p \in Packet
    BY <2>1 DEF Packet, TypeOK
  <2>3. UNCHANGED <<router, draining, n, done, calls, result>> /\ Taken' = Taken /\ Handlers' = Handlers
    BY <1>2 DEF enqueue, Taken, router, Handlers
  <2>4. Taken \in Seq(Packet)
    BY <1>0 DEF Taken, TypeOK
  <2>5. CASE Len(incoming) >= max_inflight
    <3>1. UNCHANGED <<incoming, accepted>>
      BY <1>2, <2>5 DEF enqueue
    <3> QED BY <2>3, <3>1 DEF TypeOK, router, CountKept
  <2>6. CASE ~ (Len(incoming) >= max_inflight)
    <3>1. incoming' = Append(incoming, p) /\ accepted' = Append(accepted, p)
      BY <1>2, <2>1, <2>6 DEF enqueue
    <3>2. incoming' \in Seq(Packet) /\ accepted' \in Seq(Packet)
      BY <2>2, <3>1, AppendProperties DEF TypeOK
    <3>3. accepted' = Taken \o incoming'
      BY <2>2, <2>4, <3>1, AppendMoves DEF TypeOK
    <3> QED BY <2>3, <3>2, <3>3 DEF TypeOK, router, CountKept
  <2> QED BY <2>5, <2>6
<1>3. CASE drain
  BY <1>0, <1>3 DEF drain, router, TypeOK, Taken, CountKept, Handlers
<1>4. CASE DrainNoHandler
  <2>1. /\ Head(incoming) \in Packet /\ incoming' \in Seq(Packet)
        /\ done' \in Seq([p : Packet, by : Nat, responded : BOOLEAN])
        /\ Taken' \o incoming' = Taken \o incoming
    <3>1. /\ incoming # << >> /\ incoming' = Tail(incoming) /\ NoHandler \in Nat
          /\ done' = Append(done, [p |-> Head(incoming), by |-> NoHandler, responded |-> FALSE])
      BY <1>4 DEF DrainNoHandler, NoHandler
    <3> QED BY <3>1, RoundTaken
  <2> QED BY <1>4, <2>1 DEF DrainNoHandler, router, TypeOK, CountKept, Handlers
<1>5. CASE DrainEnd
  BY <1>0, <1>5 DEF DrainEnd, router, TypeOK, Taken, CountKept, Handlers
<1>6. ASSUME NEW ok \in BOOLEAN, DrainOne(ok)
      PROVE  TypeOK' /\ accepted' = Taken' \o incoming' /\ CountKept'
  <2>1. PICK h : h = pick(Head(incoming))
    OBVIOUS
  <2>2. /\ incoming # << >> /\ incoming' = Tail(incoming) /\ h # NoHandler /\ draining
        /\ done' = Append(done, [p |-> Head(incoming), by |-> h, responded |-> ok])
        /\ calls' = [calls EXCEPT ![h] = calls[h] + 1]
        /\ cursor' = IF strategy = "RoundRobin" THEN (cursor + 1) % CursorModulus ELSE cursor
        /\ UNCHANGED <<strategy, cap_table, accepted>>
    BY <1>6, <2>1 DEF DrainOne
  <2>3. h \in Handlers /\ h \in Nat
    <3>1. Head(incoming) \in Packet
      BY <2>2, HeadTailProperties DEF TypeOK
    <3> QED BY <1>0, <2>1, <2>2, <3>1, PickServes
  <2>4. /\ incoming' \in Seq(Packet)
        /\ done' \in Seq([p : Packet, by : Nat, responded : BOOLEAN])
        /\ Len(done') = Len(done) + 1 /\ Taken' \o incoming' = Taken \o incoming
        /\ \A i \in 1 .. Len(done) : done'[i] = done[i]
        /\ done'[Len(done) + 1] = [p |-> Head(incoming), by |-> h, responded |-> ok]
    BY <2>2, <2>3, RoundTaken
  <2>5. cursor' \in Nat /\ calls' \in [Handlers' -> Nat]
    <3>1. (cursor + 1) % CursorModulus \in Nat
      BY CursorAssumption, DivMod DEF TypeOK
    <3> QED BY <2>2, <2>3, <3>1 DEF TypeOK, Handlers
  <2>6. CASE ok
    <3>1. n' = n + 1 /\ draining' = draining /\ result' = result
      BY <1>6, <2>6 DEF DrainOne
    <3>2. n <= Len(done) /\ \A i \in Len(done) - n + 1 .. Len(done) : done[i].responded
      BY <2>2 DEF CountKept
    <3>3. n' <= Len(done') /\ \A i \in Len(done') - n' + 1 .. Len(done') : done'[i].responded
      <4>1. n \in Nat /\ done'[Len(done) + 1].responded
        BY <2>4, <2>6 DEF TypeOK
      <4>2. \A i \in Len(done') - n' + 1 .. Len(done') :
              \/ i \in Len(done) - n + 1 .. Len(done) /\ i \in 1 .. Len(done)
              \/ i = Len(done) + 1
        BY <1>0, <2>4, <3>1, <3>2, <4>1
      <4>3. n' <= Len(done')
        BY <1>0, <2>4, <3>1, <3>2, <4>1
      <4>4. ASSUME NEW i \in Len(done') - n' + 1 .. Len(done') PROVE done'[i].responded
        <5>1. CASE i = Len(done) + 1
          BY <4>1, <5>1
        <5>2. CASE i \in Len(done) - n + 1 .. Len(done) /\ i \in 1 .. Len(done)
          BY <2>4, <3>2, <5>2, Zenon
        <5> QED BY <4>2, <5>1, <5>2
      <4> QED BY <4>3, <4>4
    <3>4. n' \in Nat /\ accepted' = Taken' \o incoming'
      <4>1. n \in Nat
        BY DEF TypeOK
      <4>2. accepted' = Taken' \o incoming'
        BY <2>2, <2>4, Zenon
      <4> QED BY <3>1, <4>1, <4>2
    <3>5. CountKept'
      BY <3>3 DEF CountKept
    <3> QED BY <2>2, <2>4, <2>5, <3>1, <3>4, <3>5 DEF TypeOK
  <2>7. CASE ~ ok
    <3>1. n' = n /\ draining' = FALSE /\ result' = "HandlerError"
      BY <1>6, <2>7 DEF DrainOne
    <3> QED BY <2>2, <2>4, <2>5, <3>1 DEF TypeOK, CountKept
  <2> QED BY <2>6, <2>7
<1>7. CASE UNCHANGED vars
  BY <1>7 DEF vars, router, TypeOK, Taken, CountKept, Handlers
<1> QED
  BY <1>1, <1>2, <1>3, <1>4, <1>5, <1>6, <1>7 DEF Next

----------------------------------------------------------------------------
(* Turns depend on the number of handlers only. *)
LEMMA TurnsSame ==
  ASSUME cap_table' = cap_table
  PROVE  /\ Handlers' = Handlers
         /\ \A b, x : Turns(b, x)' = Turns(b, x)
  BY DEF Turns, Handlers

(* Every step keeps what each strategy promises. *)
LEMMA StrategyStep ==
  ConnectionInv /\ [Next]_vars => DirectServes' /\ RoundRobinTurns'
<1> SUFFICES ASSUME ConnectionInv, [Next]_vars PROVE DirectServes' /\ RoundRobinTurns'
  OBVIOUS
<1>0. /\ Handlers = 1 .. Len(cap_table) /\ Len(cap_table) \in Nat /\ Len(done) \in Nat
      /\ TypeOK /\ DirectServes /\ RoundRobinTurns
  BY DEF ConnectionInv, TypeOK, Handlers
<1>1. ASSUME NEW c \in Caps \cup {0}, add_capability_handler(c)
      PROVE  DirectServes' /\ RoundRobinTurns'
  <2>1. PICK H : H = Len(cap_table) + 1
    OBVIOUS
  <2>2. /\ H \in Nat \ {0} /\ Len(cap_table') = H /\ Handlers' = 1 .. H
        /\ \A i \in Handlers : i \in Handlers' /\ cap_table'[i] = cap_table[i]
    BY <1>0, <1>1, <2>1, AppendProperties, LenProperties DEF add_capability_handler, TypeOK, Handlers
  <2>3. UNCHANGED <<strategy, cursor, done>> /\ calls' = [i \in 1 .. H |-> 0]
    BY <1>1, <2>1 DEF add_capability_handler
  <2>4. DirectServes'
    BY <1>0, <2>2, <2>3 DEF DirectServes
  <2>5. PICK b \in 0 .. H - 1 : b = cursor % H
    BY <1>0, <2>2, DivMod DEF TypeOK
  <2>6. InTurn(b, 0)'
    <3> SUFFICES ASSUME NEW i \in 1 .. H
                 PROVE  calls'[i] = 0 + IF Turns(b, i - 1)' < Turns(b, b)' THEN 1 ELSE 0
      BY <2>2, <2>3, <2>5 DEF InTurn, Turns
    <3>1. Turns(b, b)' = 0 /\ ~ (Turns(b, i - 1)' < Turns(b, b)')
      BY <2>2 DEF Turns
    <3>2. calls'[i] = 0
      BY <2>3
    <3> QED BY <3>1, <3>2
  <2>7. Len(done') < CursorModulus => cursor' <= Len(done')
    BY <1>0, <2>3 DEF RoundRobinTurns
  <2> QED BY <1>0, <2>2, <2>3, <2>4, <2>6, <2>7 DEF RoundRobinTurns
<1>2. ASSUME UNCHANGED <<router, done, calls>> PROVE DirectServes' /\ RoundRobinTurns'
  BY <1>0, <1>2 DEF router, DirectServes, RoundRobinTurns, InTurn, Turns, Handlers
<1>3. CASE DrainNoHandler
  <2>1. /\ UNCHANGED <<strategy, cap_table, cursor, calls>> /\ Handlers' = Handlers
        /\ incoming # << >> /\ incoming' = Tail(incoming) /\ NoHandler \in Nat
        /\ done' = Append(done, [p |-> Head(incoming), by |-> NoHandler, responded |-> FALSE])
    BY <1>3 DEF DrainNoHandler, router, Handlers, NoHandler
  <2>2. /\ Len(done') = Len(done) + 1
        /\ \A i \in 1 .. Len(done) : done'[i] = done[i]
        /\ done'[Len(done) + 1] = [p |-> Head(incoming), by |-> NoHandler, responded |-> FALSE]
    BY <1>0, <2>1, RoundTaken
  <2>3. DirectServes'
    <3>1. done'[Len(done) + 1].by = NoHandler
      BY <2>2
    <3>2. \A i \in 1 .. Len(done') : i \in 1 .. Len(done) \/ i = Len(done) + 1
      BY <1>0, <2>2
    <3> QED BY <1>0, <2>1, <2>2, <3>1, <3>2 DEF DirectServes
  <2>4. RoundRobinTurns'
    <3> SUFFICES ASSUME Len(done') < CursorModulus
                 PROVE  /\ cursor' <= Len(done')
                        /\ strategy' = "RoundRobin" /\ Handlers' # {} =>
                             \E b \in 0 .. Len(cap_table') - 1, m \in 0 .. Len(done') : InTurn(b, m)'
      BY DEF RoundRobinTurns
    <3>1. Len(done) < CursorModulus
      BY <1>0, <2>2, CursorAssumption
    <3>2. cursor' <= Len(done')
      BY <1>0, <2>1, <2>2, <3>1 DEF RoundRobinTurns, TypeOK
    <3>3. \A b, m : InTurn(b, m) => InTurn(b, m)'
      BY <2>1 DEF InTurn, Turns
    <3>4. 0 .. Len(done) \subseteq 0 .. Len(done')
      BY <1>0, <2>2
    <3> QED BY <1>0, <2>1, <3>1, <3>2, <3>3, <3>4 DEF RoundRobinTurns
  <2> QED BY <2>3, <2>4
<1>4. ASSUME NEW ok \in BOOLEAN, DrainOne(ok) PROVE DirectServes' /\ RoundRobinTurns'
  <2>1. PICK h : h = pick(Head(incoming))
    OBVIOUS
  <2>2. /\ incoming # << >> /\ incoming' = Tail(incoming) /\ h # NoHandler
        /\ done' = Append(done, [p |-> Head(incoming), by |-> h, responded |-> ok])
        /\ calls' = [calls EXCEPT ![h] = calls[h] + 1]
        /\ cursor' = IF strategy = "RoundRobin" THEN (cursor + 1) % CursorModulus ELSE cursor
        /\ UNCHANGED <<strategy, cap_table>>
    BY <1>4, <2>1 DEF DrainOne
  <2>3. /\ h \in Handlers /\ h \in Nat /\ Handlers # {}
        /\ strategy = "Direct" => cap_table[h] \in Range(Head(incoming).refs)
        /\ strategy = "RoundRobin" => h = (cursor % Len(cap_table)) + 1
    <3>1. Head(incoming) \in Packet
      BY <1>0, <2>2, HeadTailProperties DEF TypeOK
    <3>2. pick(Head(incoming)) # NoHandler
      BY <2>1, <2>2
    <3> QED BY <1>0, <2>1, <3>1, <3>2, PickServes
  <2>4. /\ Len(done') = Len(done) + 1
        /\ \A i \in 1 .. Len(done) : done'[i] = done[i]
        /\ done'[Len(done) + 1] = [p |-> Head(incoming), by |-> h, responded |-> ok]
    BY <1>0, <2>2, <2>3, RoundTaken
  <2>5. DirectServes'
    <3>1. done'[Len(done) + 1].by = h /\ done'[Len(done) + 1].p = Head(incoming)
      BY <2>4
    <3>2. \A i \in 1 .. Len(done') : i \in 1 .. Len(done) \/ i = Len(done) + 1
      BY <1>0, <2>4
    <3>3. Handlers' = Handlers
      BY <2>2 DEF Handlers
    <3> QED BY <1>0, <2>2, <2>3, <2>4, <3>1, <3>2, <3>3 DEF DirectServes
  <2>6. ASSUME Len(done') < CursorModulus
        PROVE  /\ Len(done) < CursorModulus /\ cursor <= Len(done) /\ cursor' <= Len(done')
               /\ strategy = "RoundRobin" => cursor' = cursor + 1
    <3>1. Len(done) < CursorModulus
      BY <1>0, <2>4, <2>6, CursorAssumption
    <3>2. cursor <= Len(done) /\ cursor \in Nat
      BY <1>0, <3>1 DEF RoundRobinTurns, TypeOK
    <3>3. (cursor + 1) % CursorModulus = cursor + 1
      <4>1. cursor + 1 \in 0 .. CursorModulus - 1
        BY <1>0, <2>4, <2>6, <3>2, CursorAssumption
      <4> QED BY <4>1, SmallMod, CursorAssumption
    <3> QED BY <1>0, <2>2, <2>4, <3>1, <3>2, <3>3
  <2>7. ASSUME Len(done') < CursorModulus, strategy = "RoundRobin"
        PROVE  \E b \in 0 .. Len(cap_table) - 1, m \in 0 .. Len(done') : InTurn(b, m)'
    <3>1. PICK b \in 0 .. Len(cap_table) - 1, m \in 0 .. Len(done) : InTurn(b, m)
      BY <1>0, <2>3, <2>6, <2>7 DEF RoundRobinTurns
    <3>2. PICK H, k, k2, m2 :
            /\ H = Len(cap_table) /\ k = cursor % H /\ k2 = (IF k + 1 = H THEN 0 ELSE k + 1)
            /\ m2 = (IF Turns(b, k) = H - 1 THEN m + 1 ELSE m)
      OBVIOUS
    <3>3. H \in Nat \ {0} /\ k \in 0 .. H - 1 /\ cursor' % H = k2 /\ h = k + 1
      <4>1. H \in Nat \ {0}
        BY <1>0, <2>3, <3>2
      <4>2. k \in 0 .. H - 1 /\ (cursor + 1) % H = k2
        BY <1>0, <3>2, <4>1, DivMod, NextTurn DEF TypeOK
      <4> QED BY <2>3, <2>6, <2>7, <3>2, <4>1, <4>2
    <3>4. m2 \in 0 .. Len(done') /\ m \in Nat
      BY <1>0, <2>4, <3>2
    <3>5. InTurn(b, m2)'
      <4> SUFFICES ASSUME NEW i \in Handlers
                   PROVE  calls'[i] = m2 + IF Turns(b, i - 1) < Turns(b, k2) THEN 1 ELSE 0
        BY <2>2, <3>2, <3>3, TurnsSame DEF InTurn
      <4>1. PICK x \in 0 .. H - 1 : x = i - 1 /\ i = x + 1
        BY <1>0, <3>2, <3>3
      <4>2. PICK c \in Nat : c = calls[i] /\ c = m + (IF Turns(b, x) < Turns(b, k) THEN 1 ELSE 0)
        BY <1>0, <3>1, <3>2, <4>1 DEF InTurn, TypeOK
      <4>3. PICK c2 : c2 = calls'[i] /\ c2 = (IF x = k THEN c + 1 ELSE c)
        <5>1. i = h <=> x = k
          BY <3>3, <4>1
        <5>2. calls \in [Handlers -> Nat] /\ calls'[i] = IF i = h THEN calls[i] + 1 ELSE calls[i]
          BY <1>0, <2>2, <2>3 DEF TypeOK
        <5> QED BY <4>2, <5>1, <5>2
      <4>4. b \in 0 .. H - 1 /\ H = Len(cap_table)
        BY <3>1, <3>2
      (* The turn goes from k to k2; when that is b, everyone had one more call. *)
      <4>5. c2 = m2 + (IF Turns(b, x) < Turns(b, k2) THEN 1 ELSE 0)
        <5>1. /\ H \in Nat \ {0} /\ k \in 0 .. H - 1 /\ m \in Nat
              /\ k2 = (IF k + 1 = H THEN 0 ELSE k + 1)
              /\ m2 = (IF Turns(b, k) = H - 1 THEN m + 1 ELSE m)
          BY <3>2, <3>3, <3>4
        <5>2. /\ c = m + (IF Turns(b, x) < Turns(b, k) THEN 1 ELSE 0)
              /\ c2 = (IF x = k THEN c + 1 ELSE c)
          BY <4>2, <4>3
        <5> QED BY <4>4, <5>1, <5>2, SMT DEF Turns
      <4> QED BY <4>1, <4>3, <4>5
    <3> QED BY <3>1, <3>4, <3>5
  <2>8. RoundRobinTurns'
    BY <2>2, <2>6, <2>7 DEF RoundRobinTurns
  <2> QED BY <2>5, <2>8
<1> QED
  BY <1>1, <1>2, <1>3, <1>4 DEF Next, enqueue, drain, DrainEnd, vars

(* The invariant of the connection holds of every behaviour. *)
THEOREM ConnectionCorrect == Spec => []ConnectionInv
<1>1. Init => ConnectionInv
  <2> SUFFICES ASSUME Init PROVE ConnectionInv
    OBVIOUS
  <2>1. Handlers = {} /\ Handlers = 1 .. 0
    BY DEF Init, Handlers
  <2>2. CountKept /\ DirectServes /\ RoundRobinTurns
    BY <2>1 DEF Init, CountKept, DirectServes, RoundRobinTurns
  <2>4. calls \in [Handlers -> Nat] /\ cap_table \in Seq(Caps \cup {0})
    BY <2>1 DEF Init
  <2>5. incoming \in Seq(Packet) /\ accepted \in Seq(Packet)
        /\ done \in Seq([p : Packet, by : Nat, responded : BOOLEAN])
    BY DEF Init
  <2>6. TypeOK
    BY <2>4, <2>5 DEF Init, TypeOK
  <2>3. accepted = Taken \o incoming
    BY DEF Init, Taken
  <2> QED BY <2>2, <2>3, <2>6 DEF ConnectionInv
<1>2. ConnectionInv /\ [Next]_vars => ConnectionInv'
  BY OrderStep, StrategyStep DEF ConnectionInv
<1> QED
  BY <1>1, <1>2, PTL DEF Spec

(* The variables of the connection keep their types. *)
THEOREM ConnectionTypes == Spec => []TypeOK
<1>1. ConnectionInv => TypeOK
  BY DEF ConnectionInv
<1> QED
  BY <1>1, ConnectionCorrect, PTL

(* drain hands every packet over once, in order, and counts its responses. *)
THEOREM DrainIsAccountable == Spec => []DrainAccounts
<1>1. ConnectionInv => DrainAccounts
  BY DEF ConnectionInv, DrainAccounts, CountKept
<1> QED
  BY <1>1, ConnectionCorrect, PTL

(* Round robin is even, and Direct calls a handler only for its own Refs. *)
THEOREM StrategiesKept == Spec => []StrategyKept
<1>1. ConnectionInv => StrategyKept
  <2> SUFFICES ASSUME ConnectionInv PROVE StrategyKept
    OBVIOUS
  <2>0. TypeOK /\ DirectServes /\ RoundRobinTurns /\ DOMAIN calls = Handlers
    BY DEF ConnectionInv, TypeOK
  <2>1. ASSUME strategy = "RoundRobin", Len(done) < CursorModulus,
               NEW i \in DOMAIN calls, NEW j \in DOMAIN calls
        PROVE  calls[i] - calls[j] <= 1
    <3>1. PICK b \in 0 .. Len(cap_table) - 1, m \in 0 .. Len(done) : InTurn(b, m)
      BY <2>0, <2>1 DEF RoundRobinTurns
    <3>2. m \in Nat /\ calls[i] \in m .. m + 1 /\ calls[j] \in m .. m + 1
      BY <2>0, <2>1, <3>1 DEF InTurn
    <3> QED BY <3>2
  <2>2. ASSUME strategy = "Direct", NEW d \in Range(done), d.by # NoHandler
        PROVE  cap_table[d.by] \in Range(d.p.refs)
    <3>1. PICK i \in 1 .. Len(done) : d = done[i]
      BY <2>0, <2>2 DEF TypeOK, Range
    <3> QED BY <2>0, <2>2, <3>1 DEF DirectServes
  <2> QED BY <2>1, <2>2 DEF StrategyKept
<1> QED
  BY <1>1, ConnectionCorrect, PTL
=============================================================================
