---------------------------- MODULE CodecProofs ----------------------------
(***************************************************************************)
(* Proofs about the codec and what is built on it: StreamingDecoder,       *)
(* BinCodec and Semantic.                                                  *)
(***************************************************************************)
EXTENDS StreamingDecoder, Semantic, SequenceTheorems, NatLemmas

(* The least element of a set of positions. *)
LEMMA MinOfPositions ==
  ASSUME NEW S, S \subseteq Nat, S # {}
  PROVE  Min(S) \in S /\ \A x \in S : Min(S) <= x
<1>1. \E x \in S : \A y \in S : x <= y
  BY LeastNatural
<1> QED BY <1>1 DEF Min

(* The passes of the loop are what their recursion says. *)
LEMMA PassesDef ==
  ASSUME NEW b \in Seq(Cell)
  PROVE  Passes(b) = [n \in 0 .. Len(b) + 1 |-> IF n = 0 THEN Start ELSE Pass(b, Passes(b)[n - 1])]
<1> DEFINE Is(f, m) == f = [n \in 0 .. m |-> IF n = 0 THEN Start ELSE Pass(b, f[n - 1])]
           Missing == {m \in Nat : ~ \E f : Is(f, m)}
<1>1. Missing = {}
  <2> SUFFICES ASSUME Missing # {} PROVE FALSE
    OBVIOUS
  <2>1. PICK m \in Missing : \A x \in Missing : m <= x
    BY LeastNatural
  <2>2. m # 0
    <3>1. Is([n \in 0 .. 0 |-> Start], 0)
      OBVIOUS
    <3> QED BY <3>1
  <2>3. m - 1 \in Nat /\ m - 1 \notin Missing
    <3>1. m \in Nat
      OBVIOUS
    <3> HIDE DEF Missing
    <3>2. m - 1 \in Nat /\ ~(m <= m - 1)
      BY <2>2, <3>1
    <3> QED BY <2>1, <3>2
  <2>4. PICK f : Is(f, m - 1)
    BY <2>3
  <2> DEFINE g == [n \in 0 .. m |-> IF n = m THEN Pass(b, f[m - 1]) ELSE f[n]]
  <2>5. ASSUME NEW n \in 0 .. m PROVE g[n] = IF n = 0 THEN Start ELSE Pass(b, g[n - 1])
    <3>1. CASE n = m
      BY <2>2, <2>3, <3>1
    <3>2. CASE n # m
      <4>1. n \in 0 .. m - 1
        BY <3>2
      <4>2. f[n] = IF n = 0 THEN Start ELSE Pass(b, f[n - 1])
        BY <2>4, <4>1
      <4>3. g[n] = f[n] /\ (n # 0 => g[n - 1] = f[n - 1])
        BY <3>2, <4>1
      <4> QED BY <4>2, <4>3
    <3> QED BY <3>1, <3>2
  <2>6. Is(g, m)
    BY <2>5, Zenon
  <2> QED BY <2>1, <2>6
<1>2. Len(b) + 1 \in Nat
  OBVIOUS
<1>3. \E f : Is(f, Len(b) + 1)
  BY <1>1, <1>2
<1>4. Passes(b) = CHOOSE f : Is(f, Len(b) + 1)
  BY DEF Passes
<1> QED BY <1>3, <1>4, Zenon

----------------------------------------------------------------------------
Id == {c.id : c \in Cell}

LEMMA PacketsAssociate == \A x, y, z \in Seq(Id) : (x \o y) \o z = x \o (y \o z)
BY ConcatAssociative

(* The first head from a position on, and the packet that begins there. *)
LEMMA FirstHead ==
  ASSUME NEW s \in Seq(Cell), NEW i \in Nat \ {0}, Heads(s, i) # {}
  PROVE  LET m == Min(Heads(s, i))
         IN  /\ m \in Heads(s, i) /\ m \in i .. Len(s) - 1 /\ \A x \in Heads(s, i) : m <= x
             /\ s[m + 1] \in Cell /\ s[m + 1].k = "header"
             /\ PacketCells(s[m + 1]) \in Nat /\ PacketCells(s[m + 1]) >= 2
<1> DEFINE m == Min(Heads(s, i))
<1>1. Heads(s, i) \subseteq Nat
  BY DEF Heads
<1>2. m \in Heads(s, i) /\ \A x \in Heads(s, i) : m <= x
  BY <1>1, MinOfPositions
<1> HIDE DEF m
<1>3. m \in i .. Len(s) - 1 /\ s[m + 1].k = "header"
  BY <1>2 DEF Heads, HeaderIsValid
<1>4. s[m + 1] \in Cell
  BY <1>3
<1>5. s[m + 1].len \in Nat
  BY <1>3, <1>4, CellAssumption
<1>6. PacketCells(s[m + 1]) \in Nat /\ PacketCells(s[m + 1]) >= 2
  BY <1>5 DEF PacketCells, HEADER_SIZE
<1> QED BY <1>2, <1>3, <1>4, <1>6 DEF m

(* What is read from a position on depends only on what is read further    *)
(* on.                                                                     *)
LEMMA AfterAgrees ==
  ASSUME NEW s \in Seq(Cell), NEW i \in Nat \ {0}, NEW f, NEW g,
         \A j \in i + 1 .. Len(s) + 1 : f[j] = g[j]
  PROVE  PacketsAfter(s, i, f) = PacketsAfter(s, i, g)
<1> DEFINE h   == s[Min(Heads(s, i)) + 1]
           end == Min(Heads(s, i)) + PacketCells(h) - 1
<1>1. CASE Heads(s, i) = {}
  BY <1>1 DEF PacketsAfter
<1>2. CASE Heads(s, i) # {} /\ ~(end > Len(s))
  <2>1. Min(Heads(s, i)) \in i .. Len(s) - 1 /\ PacketCells(h) \in Nat /\ PacketCells(h) >= 2
    BY <1>2, FirstHead
  <2>2. end + 1 \in i + 1 .. Len(s) + 1
    BY <1>2, <2>1
  <2>3. f[end + 1] = g[end + 1]
    BY <2>2
  <2> QED BY <1>2, <2>3 DEF PacketsAfter
<1>3. CASE Heads(s, i) # {} /\ end > Len(s)
  BY <1>3 DEF PacketsAfter
<1> QED BY <1>1, <1>2, <1>3

(* The packets from each position on are what their recursion says. *)
LEMMA FromDef ==
  ASSUME NEW s \in Seq(Cell)
  PROVE  PacketsFrom(s) = [i \in 1 .. Len(s) + 1 |-> PacketsAfter(s, i, PacketsFrom(s))]
<1> DEFINE Rounds == Len(s) + 1
           Is(f, n) == f = [i \in Rounds - n .. Rounds |-> PacketsAfter(s, i, f)]
           Missing == {n \in 0 .. Rounds - 1 : ~ \E f : Is(f, n)}
<1>0. Rounds \in Nat \ {0}
  OBVIOUS
<1>1. \A i \in 1 .. Rounds : \A f, g : (\A j \in i + 1 .. Rounds : f[j] = g[j]) => PacketsAfter(s, i, f) = PacketsAfter(s, i, g)
  BY AfterAgrees
<1> HIDE DEF Rounds
<1>2. Missing = {}
  <2> SUFFICES ASSUME Missing # {} PROVE FALSE
    OBVIOUS
  <2>0. Missing \subseteq Nat
    BY <1>0
  <2>1. PICK n \in Missing : \A m \in Missing : n <= m
    BY <2>0, LeastNatural
  <2>2. n # 0
    <3> DEFINE e == [i \in Rounds .. Rounds |-> PacketsAfter(s, Rounds, << >>)]
    <3>1. Rounds - 0 = Rounds /\ Rounds \in 1 .. Rounds /\ (\A i \in Rounds .. Rounds : i = Rounds) /\ Rounds + 1 .. Rounds = {}
      BY <1>0
    <3>2. PacketsAfter(s, Rounds, << >>) = PacketsAfter(s, Rounds, e)
      <4> HIDE DEF e
      <4> QED BY <1>1, <3>1, Zenon
    <3>3. e = [i \in Rounds .. Rounds |-> PacketsAfter(s, i, e)]
      <4>1. \A i \in Rounds .. Rounds : PacketsAfter(s, Rounds, << >>) = PacketsAfter(s, i, e)
        BY <3>1, <3>2, Zenon
      <4> QED BY <4>1, Zenon
    <3> QED BY <3>1, <3>3
  <2>3. n - 1 \in 0 .. Rounds - 1 /\ n \in 1 .. Rounds - 1 /\ n - 1 \notin Missing
    <3>1. n \in 0 .. Rounds - 1
      OBVIOUS
    <3> HIDE DEF Missing
    <3>2. n - 1 \in 0 .. Rounds - 1 /\ n \in 1 .. Rounds - 1 /\ ~(n <= n - 1)
      BY <1>0, <2>2, <3>1
    <3> QED BY <2>1, <3>2
  <2>4. PICK f : Is(f, n - 1)
    BY <2>3
  <2> DEFINE a == Rounds - n
             g == [i \in a .. Rounds |-> IF i = a THEN PacketsAfter(s, a, f) ELSE f[i]]
  <2>5. a \in 1 .. Rounds - 1 /\ Rounds - (n - 1) = a + 1
    BY <1>0, <2>3
  <2>6. f = [i \in a + 1 .. Rounds |-> PacketsAfter(s, i, f)]
    BY <2>4, <2>5
  <2>7. \A j \in a + 1 .. Rounds : g[j] = f[j]
    <3>1. \A j \in a + 1 .. Rounds : j \in a .. Rounds /\ j # a
      BY <1>0, <2>5
    <3> HIDE DEF a
    <3> QED BY <3>1
  <2>8. ASSUME NEW i \in a .. Rounds PROVE g[i] = PacketsAfter(s, i, g)
    <3>1. g[i] = PacketsAfter(s, i, f)
      <4>1. i = a \/ i \in a + 1 .. Rounds
        BY <1>0, <2>5
      <4> HIDE DEF a
      <4>2. CASE i = a
        BY <4>2
      <4>3. CASE i \in a + 1 .. Rounds /\ i # a
        BY <2>6, <4>3
      <4> QED BY <4>1, <4>2, <4>3
    <3>2. i \in 1 .. Rounds /\ \A j \in i + 1 .. Rounds : j \in a + 1 .. Rounds
      BY <1>0, <2>5
    <3>3. \A j \in i + 1 .. Rounds : f[j] = g[j]
      <4> HIDE DEF a, g
      <4> QED BY <2>7, <3>2
    <3>4. PacketsAfter(s, i, f) = PacketsAfter(s, i, g)
      <4> HIDE DEF a, g
      <4> QED BY <1>1, <3>2, <3>3
    <3> QED BY <3>1, <3>4
  <2>9. g = [i \in a .. Rounds |-> PacketsAfter(s, i, g)]
    BY <2>8, Zenon
  <2>10. Is(g, n)
    BY <2>9
  <2> QED BY <2>1, <2>10
<1>3. PICK f : Is(f, Rounds - 1)
  <2>1. Rounds - 1 \in 0 .. Rounds - 1
    BY <1>0
  <2> QED BY <1>2, <2>1
<1>4. f = [i \in 1 .. Rounds |-> PacketsAfter(s, i, f)]
  <2>1. Rounds - (Rounds - 1) = 1
    BY <1>0
  <2> QED BY <1>3, <2>1
<1> QED BY <1>4, Zenon DEF PacketsFrom, Rounds

(* Reading finds packets only. *)
LEMMA FromType ==
  ASSUME NEW s \in Seq(Cell)
  PROVE  \A i \in 1 .. Len(s) + 1 : PacketsFrom(s)[i] \in Seq(Id)
<1> DEFINE Rounds == Len(s) + 1
           P == PacketsFrom(s)
           Wrong == {n \in 0 .. Rounds - 1 : P[Rounds - n] \notin Seq(Id)}
<1>0. Rounds \in Nat \ {0}
  OBVIOUS
<1>1. Wrong = {}
  <2> SUFFICES ASSUME Wrong # {} PROVE FALSE
    OBVIOUS
  <2>0. Wrong \subseteq Nat
    BY <1>0
  <2>1. PICK n \in Wrong : \A m \in Wrong : n <= m
    BY <2>0, LeastNatural
  <2> DEFINE i   == Rounds - n
             h   == s[Min(Heads(s, i)) + 1]
             end == Min(Heads(s, i)) + PacketCells(h) - 1
  <2>2. i \in 1 .. Rounds /\ n \in 0 .. Rounds - 1 /\ P[i] \notin Seq(Id)
    BY <1>0
  <2>3. P[i] = PacketsAfter(s, i, P)
    BY <2>2, FromDef
  <2>4. Heads(s, i) # {} /\ ~(end > Len(s))
    BY <2>2, <2>3 DEF PacketsAfter
  <2>5. Min(Heads(s, i)) \in i .. Len(s) - 1 /\ PacketCells(h) \in Nat /\ PacketCells(h) >= 2 /\ h \in Cell
    BY <2>2, <2>4, FirstHead
  <2> HIDE DEF h
  <2>6. end + 1 \in i + 1 .. Rounds
    BY <2>2, <2>4, <2>5
  <2> HIDE DEF end
  <2>7. Rounds - (end + 1) \in 0 .. Rounds - 1 /\ ~(n <= Rounds - (end + 1)) /\ Rounds - (Rounds - (end + 1)) = end + 1
    BY <1>0, <2>2, <2>6
  <2>8. P[end + 1] \in Seq(Id)
    BY <2>1, <2>7
  <2>9. h.id \in Id
    BY <2>5 DEF Id
  <2>10. P[i] = << >> \/ P[i] = <<h.id>> \o P[end + 1]
    BY <2>3 DEF PacketsAfter, h, end
  <2>11. <<h.id>> \o P[end + 1] \in Seq(Id)
    BY <2>8, <2>9
  <2>12. << >> \in Seq(Id)
    OBVIOUS
  <2> HIDE DEF P, i
  <2> QED BY <2>2, <2>10, <2>11, <2>12
<1>2. ASSUME NEW i \in 1 .. Rounds PROVE P[i] \in Seq(Id)
  <2>1. Rounds - i \in 0 .. Rounds - 1 /\ Rounds - (Rounds - i) = i
    BY <1>0
  <2> QED BY <1>1, <2>1
<1> QED BY <1>2

(* From two positions with no head between them the same is read. *)
LEMMA SameHeads ==
  ASSUME NEW s \in Seq(Cell), NEW i \in 1 .. Len(s) + 1, NEW j \in i .. Len(s) + 1,
         \A x \in i .. j - 1 : x \notin Heads(s, 1)
  PROVE  Heads(s, i) = Heads(s, j) /\ PacketsFrom(s)[i] = PacketsFrom(s)[j]
<1>1. Heads(s, i) = Heads(s, j)
  <2>1. ASSUME NEW x \in Heads(s, i) PROVE x \in Heads(s, j)
    <3>1. x \in i .. Len(s) - 1 /\ x \in Heads(s, 1)
      BY <2>1 DEF Heads
    <3>2. x \in j .. Len(s) - 1
      BY <3>1
    <3> QED BY <3>1, <3>2 DEF Heads
  <2>2. ASSUME NEW x \in Heads(s, j) PROVE x \in Heads(s, i)
    BY <2>2 DEF Heads
  <2> QED BY <2>1, <2>2
<1>2. PacketsAfter(s, i, PacketsFrom(s)) = PacketsAfter(s, j, PacketsFrom(s))
  BY <1>1 DEF PacketsAfter
<1>3. j \in 1 .. Len(s) + 1
  OBVIOUS
<1>4. PacketsFrom(s)[i] = PacketsAfter(s, i, PacketsFrom(s)) /\ PacketsFrom(s)[j] = PacketsAfter(s, j, PacketsFrom(s))
  BY <1>3, FromDef
<1> QED BY <1>1, <1>2, <1>4

(* What is read of a suffix is what is read of the whole from there on. *)
LEMMA SuffixReadsSame ==
  ASSUME NEW s \in Seq(Cell), NEW c \in 0 .. Len(s)
  PROVE  \A i \in 1 .. Len(s) - c + 1 :
           PacketsFrom(SubSeq(s, c + 1, Len(s)))[i] = PacketsFrom(s)[c + i]
<1> DEFINE t == SubSeq(s, c + 1, Len(s))
           Rounds == Len(s) - c + 1
           P == PacketsFrom(s)
           Q == PacketsFrom(t)
           Wrong == {n \in 0 .. Rounds - 1 : Q[Rounds - n] # P[c + (Rounds - n)]}
<1>0. Rounds \in Nat \ {0} /\ Len(s) \in Nat /\ c \in Nat
  OBVIOUS
<1>1. t \in Seq(Cell) /\ Len(t) = Rounds - 1 /\ \A x \in 1 .. Rounds - 1 : t[x] = s[c + x]
  <2>1. \A x \in c + 1 .. Len(s) : s[x] \in Cell
    OBVIOUS
  <2>2. t \in Seq(Cell) /\ Len(t) = (IF c + 1 <= Len(s) THEN Len(s) - (c + 1) + 1 ELSE 0)
        /\ \A x \in 1 .. Len(s) - (c + 1) + 1 : t[x] = s[c + 1 + x - 1]
    BY <2>1, SubSeqProperties
  <2>3. Len(t) = Rounds - 1
    BY <2>2
  <2>4. ASSUME NEW x \in 1 .. Rounds - 1 PROVE t[x] = s[c + x]
    <3>1. x \in 1 .. Len(s) - (c + 1) + 1 /\ c + 1 + x - 1 = c + x
      OBVIOUS
    <3> QED BY <2>2, <3>1
  <2> QED BY <2>2, <2>3, <2>4
<1> HIDE DEF t
<1>2. Wrong = {}
  <2> SUFFICES ASSUME Wrong # {} PROVE FALSE
    OBVIOUS
  <2>0. Wrong \subseteq Nat
    BY <1>0
  <2>1. PICK n \in Wrong : \A m \in Wrong : n <= m
    BY <2>0, LeastNatural
  <2> DEFINE i == Rounds - n
  <2>2. i \in 1 .. Rounds /\ n \in 0 .. Rounds - 1 /\ Q[i] # P[c + i]
    BY <1>0
  <2> DEFINE k == c + i
  <2>3. k \in 1 .. Len(s) + 1 /\ k \in Nat \ {0} /\ i \in Nat \ {0} /\ i \in 1 .. Len(t) + 1
    BY <1>0, <1>1, <2>2
  <2>4. Q[i] = PacketsAfter(t, i, Q) /\ P[k] = PacketsAfter(s, k, P)
    BY <1>1, <2>3, FromDef
  <2>5. \A x \in i .. Rounds - 2 : x \in Heads(t, i) <=> c + x \in Heads(s, k)
    <3>1. ASSUME NEW x \in i .. Rounds - 2 PROVE x \in Heads(t, i) <=> c + x \in Heads(s, k)
      <4>1. x \in 1 .. Rounds - 1 /\ x + 1 \in 1 .. Rounds - 1 /\ c + x \in k .. Len(s) - 1 /\ (c + x) + 1 = c + (x + 1)
            /\ x \in i .. Len(t) - 1
        BY <1>0, <1>1, <2>2, <3>1
      <4>2. t[x] = s[c + x] /\ t[x + 1] = s[(c + x) + 1]
        BY <1>1, <4>1
      <4> QED BY <4>1, <4>2 DEF Heads
    <3> QED BY <3>1
  <2>6. Heads(t, i) \subseteq i .. Rounds - 2 /\ Heads(s, k) \subseteq k .. Len(s) - 1
    <3>1. Heads(t, i) \subseteq i .. Len(t) - 1 /\ Heads(s, k) \subseteq k .. Len(s) - 1
      BY DEF Heads
    <3>2. Len(t) - 1 = Rounds - 2
      BY <1>0, <1>1
    <3> HIDE DEF Rounds, i, k
    <3> QED BY <3>1, <3>2
  <2>7. CASE Heads(s, k) = {}
    <3>1. Heads(t, i) = {}
      BY <2>5, <2>6, <2>7
    <3> QED BY <2>2, <2>4, <2>7, <3>1 DEF PacketsAfter
  <2>8. CASE Heads(s, k) # {}
    <3> DEFINE mt == Min(Heads(t, i))
               ms == Min(Heads(s, k))
    <3>1. ms \in Heads(s, k) /\ ms \in k .. Len(s) - 1 /\ (\A x \in Heads(s, k) : ms <= x)
          /\ PacketCells(s[ms + 1]) \in Nat /\ PacketCells(s[ms + 1]) >= 2
      BY <2>3, <2>8, FirstHead
    <3> HIDE DEF ms, mt
    <3>2. ms - c \in i .. Rounds - 2 /\ c + (ms - c) = ms
      BY <1>0, <2>2, <3>1
    <3>3. ms - c \in Heads(t, i)
      BY <2>5, <3>1, <3>2
    <3>4. mt \in Heads(t, i) /\ mt \in i .. Rounds - 2 /\ mt <= ms - c
      BY <1>1, <2>3, <2>6, <3>3, FirstHead DEF mt
    <3>5. ms <= c + mt
      BY <2>5, <3>1, <3>4
    <3>6. ms = c + mt /\ mt \in 1 .. Rounds - 2
      BY <1>0, <2>2, <3>1, <3>4, <3>5
    <3>7. t[mt + 1] = s[ms + 1]
      <4>1. mt + 1 \in 1 .. Rounds - 1 /\ c + (mt + 1) = ms + 1
        BY <1>0, <3>6
      <4> QED BY <1>1, <4>1
    <3> DEFINE h == s[ms + 1]
               Size == PacketCells(h)
    <3>8. Size \in Nat /\ Size >= 2
      BY <3>1
    <3> HIDE DEF Size, h
    <3>9. (mt + Size - 1 > Len(t) <=> ms + Size - 1 > Len(s))
      BY <1>0, <1>1, <3>6, <3>8
    <3>10. CASE ms + Size - 1 > Len(s) \/ ~h.decodes
      <4>1. Q[i] = << >>
        <5>1. mt + Size - 1 > Len(t) \/ ~h.decodes
          BY <3>9, <3>10
        <5> QED BY <2>4, <3>4, <3>7, <5>1 DEF PacketsAfter, mt, h, Size
      <4>2. P[k] = << >>
        BY <2>4, <2>8, <3>10 DEF PacketsAfter, ms, h, Size
      <4> QED BY <2>2, <4>1, <4>2
    <3>11. CASE ~(ms + Size - 1 > Len(s) \/ ~h.decodes)
      <4>1. Q[i] = <<h.id>> \o Q[mt + Size - 1 + 1]
        <5>1. ~(mt + Size - 1 > Len(t) \/ ~h.decodes)
          BY <3>9, <3>11
        <5> QED BY <2>4, <3>4, <3>7, <5>1 DEF PacketsAfter, mt, h, Size
      <4>2. P[k] = <<h.id>> \o P[ms + Size - 1 + 1]
        BY <2>4, <2>8, <3>11 DEF PacketsAfter, ms, h, Size
      <4> DEFINE e == mt + Size
      <4>3. mt + Size - 1 + 1 = e /\ ms + Size - 1 + 1 = c + e /\ e \in i + 1 .. Rounds
        <5>1. mt \in Nat /\ ms = c + mt /\ mt >= i /\ Size \in Nat /\ Size >= 2 /\ i \in Nat
          BY <2>3, <3>4, <3>6, <3>8
        <5>2. ms + Size - 1 <= Len(s)
          BY <1>0, <3>11, <5>1
        <5>3. Len(s) = Rounds - 1 + c
          BY <1>0
        <5> HIDE DEF Rounds, i
        <5> QED BY <1>0, <5>1, <5>2, <5>3
      <4> HIDE DEF e
      <4>4. Rounds - e \in 0 .. Rounds - 1 /\ ~(n <= Rounds - e) /\ Rounds - (Rounds - e) = e
        BY <1>0, <2>2, <4>3
      <4>5. Q[e] = P[c + e]
        BY <2>1, <4>4
      <4> QED BY <2>2, <4>1, <4>2, <4>3, <4>5
    <3> QED BY <3>10, <3>11
  <2> QED BY <2>7, <2>8
<1>3. ASSUME NEW i \in 1 .. Rounds PROVE Q[i] = P[c + i]
  <2>1. Rounds - i \in 0 .. Rounds - 1 /\ Rounds - (Rounds - i) = i
    BY <1>0
  <2> QED BY <1>2, <2>1
<1> QED BY <1>3 DEF t

(* What is read from a head on. *)
LEMMA HeadRead ==
  ASSUME NEW s \in Seq(Cell), NEW m \in Heads(s, 1)
  PROVE  LET h == s[m + 1]
             end == m + PacketCells(h) - 1
         IN  /\ m \in 1 .. Len(s) - 1 /\ h \in Cell /\ PacketCells(h) \in Nat /\ PacketCells(h) >= 2
             /\ PacketsFrom(s)[m] = IF end > Len(s) \/ ~h.decodes THEN << >>
                                    ELSE <<h.id>> \o PacketsFrom(s)[end + 1]
<1>1. m \in 1 .. Len(s) - 1 /\ m \in Heads(s, m)
  BY DEF Heads
<1>2. Min(Heads(s, m)) \in Heads(s, m) /\ Min(Heads(s, m)) \in m .. Len(s) - 1 /\ Min(Heads(s, m)) <= m
  BY <1>1, FirstHead
<1>3. Min(Heads(s, m)) = m
  BY <1>1, <1>2
<1>4. s[m + 1] \in Cell /\ PacketCells(s[m + 1]) \in Nat /\ PacketCells(s[m + 1]) >= 2
  BY <1>1, <1>3, FirstHead
<1>5. m \in 1 .. Len(s) + 1 /\ Heads(s, m) # {}
  BY <1>1
<1>6. PacketsFrom(s)[m] = PacketsAfter(s, m, PacketsFrom(s))
  BY <1>5, FromDef
<1> QED BY <1>1, <1>3, <1>4, <1>5, <1>6 DEF PacketsAfter

(* More cells at the end leave the cells and the complete heads as they    *)
(* are.                                                                    *)
LEMMA LongerStream ==
  ASSUME NEW b \in Seq(Cell), NEW d \in Seq(Cell)
  PROVE  /\ b \o d \in Seq(Cell) /\ Len(b \o d) = Len(b) + Len(d)
         /\ \A x \in 1 .. Len(b) : (b \o d)[x] = b[x]
         /\ \A x \in 1 .. Len(b) - 1 : x \in Heads(b \o d, 1) <=> x \in Heads(b, 1)
         /\ Heads(b, 1) \subseteq 1 .. Len(b) - 1
<1> DEFINE w == b \o d
<1>1. w \in Seq(Cell) /\ Len(w) = Len(b) + Len(d) /\ Len(b) \in Nat /\ Len(d) \in Nat
  OBVIOUS
<1>2. \A x \in 1 .. Len(b) : w[x] = b[x]
  OBVIOUS
<1> HIDE DEF w
<1>3. ASSUME NEW x \in 1 .. Len(b) - 1 PROVE x \in Heads(w, 1) <=> x \in Heads(b, 1)
  <2>1. x \in 1 .. Len(w) - 1 /\ x \in 1 .. Len(b) /\ x + 1 \in 1 .. Len(b)
    BY <1>1
  <2>2. w[x] = b[x] /\ w[x + 1] = b[x + 1]
    BY <1>2, <2>1
  <2> QED BY <2>1, <2>2 DEF Heads
<1>4. Heads(b, 1) \subseteq 1 .. Len(b) - 1
  BY DEF Heads
<1> QED BY <1>1, <1>2, <1>3, <1>4 DEF w

----------------------------------------------------------------------------
(* The invariant of the loop of feed over the buffer b, after n passes:    *)
(* whatever cells d may follow b, the packets decoded so far and those     *)
(* read after the first trim cells are the packets of all of it; between   *)
(* trim and scan no packet begins; and the loop ends with a complete       *)
(* packet left only at the bound or at one that does not decode.           *)
LoopState(b) == [scan : 1 .. Len(b) + 1, packets : Seq(Id), trim : 0 .. Len(b),
                 raised : BOOLEAN, ended : BOOLEAN]
Searching(b, d, s, n) ==
  /\ ~s.raised /\ s.trim < s.scan /\ n < s.scan
  /\ \A x \in s.trim + 1 .. s.scan - 1 : x \notin Heads(b \o d, 1)
ReadSoFar(b, d, s) == PacketsOf(b \o d) = s.packets \o PacketsFrom(b \o d)[s.trim + 1]
Undecodable(b) == \E i \in DOMAIN b : HeaderIsValid(b[i]) /\ ~b[i].decodes
NoneLeft(b, s) == Len(s.packets) = max_packets_per_feed \/ PacketsFrom(b)[s.trim + 1] = << >>
LoopInv(b, d, s, n) ==
  /\ s \in LoopState(b)
  /\ Len(s.packets) <= max_packets_per_feed
  /\ ~s.ended => Searching(b, d, s, n)
  /\ ~s.raised => ReadSoFar(b, d, s)
  /\ s.raised => s.ended /\ s.trim = 0 /\ Undecodable(b)
  /\ s.ended /\ ~s.raised => NoneLeft(b, s)

(* A pass keeps the invariant of the loop. *)
LEMMA PassKeeps ==
  ASSUME NEW b \in Seq(Cell), NEW d \in Seq(Cell), NEW s, NEW n \in Nat, LoopInv(b, d, s, n)
  PROVE  LoopInv(b, d, Pass(b, s), n + 1)
<1> DEFINE w     == b \o d
           found == {i \in s.scan .. Len(b) : b[i].k = "magic"}
           idx   == Min(found)
           h     == b[idx + 1]
           end   == idx + PacketCells(h)
           Stops == \/ s.scan + HEADER_SIZE - 1 > Len(b) \/ Len(s.packets) >= max_packets_per_feed
                    \/ found = {} \/ idx + HEADER_SIZE - 1 > Len(b)
<1>1. s \in LoopState(b) /\ Len(s.packets) <= max_packets_per_feed
  BY DEF LoopInv
<1>2. s.scan \in 1 .. Len(b) + 1 /\ s.packets \in Seq(Id) /\ s.trim \in 0 .. Len(b)
      /\ s.raised \in BOOLEAN /\ s.ended \in BOOLEAN
  BY <1>1 DEF LoopState
<1>3. Len(b) \in Nat /\ Len(s.packets) \in Nat /\ max_packets_per_feed \in Nat
  BY <1>2, FeedAssumption
<1>4. CASE s.ended
  <2>1. Pass(b, s) = s
    BY <1>4 DEF Pass
  <2> QED BY <1>4, <2>1 DEF LoopInv
<1>5. CASE ~s.ended
  <2>1. ~s.raised /\ s.trim < s.scan /\ n < s.scan /\ ReadSoFar(b, d, s)
        /\ \A x \in s.trim + 1 .. s.scan - 1 : x \notin Heads(w, 1)
    BY <1>5 DEF LoopInv, Searching
  <2>2. w \in Seq(Cell) /\ Len(w) \in Nat /\ Len(b) <= Len(w) /\ (\A x \in 1 .. Len(b) : w[x] = b[x])
        /\ (\A x \in 1 .. Len(b) - 1 : x \in Heads(w, 1) <=> x \in Heads(b, 1))
        /\ Heads(b, 1) \subseteq 1 .. Len(b) - 1
    BY <1>3, LongerStream
  <2>3. found \subseteq s.scan .. Len(b) /\ found \subseteq Nat
    BY <1>2
  <2>4. found # {} => idx \in found /\ \A x \in found : idx <= x
    BY <2>3, MinOfPositions
  <2> HIDE DEF w, idx
  <2>5. CASE Stops
    <3>1. Pass(b, s) = [s EXCEPT !.ended = TRUE]
      BY <1>5, <2>5 DEF Pass, idx
    <3> DEFINE r == Pass(b, s)
    <3>2. r \in LoopState(b) /\ r.packets = s.packets /\ r.trim = s.trim /\ r.raised = s.raised /\ r.ended
      BY <1>1, <3>1 DEF LoopState
    <3>3. NoneLeft(b, s)
      <4> SUFFICES ASSUME Len(s.packets) # max_packets_per_feed PROVE PacketsFrom(b)[s.trim + 1] = << >>
        BY DEF NoneLeft
      <4>1. s.scan + 1 > Len(b) \/ found = {} \/ idx + 1 > Len(b)
        BY <1>1, <1>2, <1>3, <2>3, <2>4, <2>5 DEF HEADER_SIZE
      <4>2. Heads(b, s.trim + 1) = {}
        <5> SUFFICES ASSUME NEW x \in Heads(b, s.trim + 1) PROVE FALSE
          OBVIOUS
        <5>1. x \in s.trim + 1 .. Len(b) - 1 /\ b[x].k = "magic" /\ x \in Heads(b, 1)
          BY <1>2 DEF Heads
        <5>2. x \in 1 .. Len(b) - 1 /\ x \in Heads(w, 1)
          BY <1>2, <2>2, <5>1
        <5>3. x \in s.scan .. Len(b)
          BY <1>2, <2>1, <5>1, <5>2
        <5>4. x \in found
          BY <5>1, <5>3
        <5>5. idx <= x /\ idx \in Nat
          BY <2>3, <2>4, <5>4
        <5> QED BY <1>2, <1>3, <4>1, <5>1, <5>3, <5>4, <5>5
      <4>3. s.trim + 1 \in 1 .. Len(b) + 1
        BY <1>2
      <4>4. PacketsFrom(b)[s.trim + 1] = PacketsAfter(b, s.trim + 1, PacketsFrom(b))
        BY <4>3, FromDef
      <4> QED BY <4>2, <4>4 DEF PacketsAfter
    <3> HIDE DEF r
    <3>4. Len(r.packets) <= max_packets_per_feed /\ ReadSoFar(b, d, r) /\ NoneLeft(b, r) /\ ~r.raised
      BY <1>1, <2>1, <3>2, <3>3 DEF ReadSoFar, NoneLeft
    <3>5. LoopInv(b, d, r, n + 1)
      BY <3>2, <3>4 DEF LoopInv
    <3> QED BY <3>5 DEF r
  <2>6. CASE ~Stops
    <3>1. found # {} /\ idx \in s.scan .. Len(b) /\ b[idx].k = "magic" /\ idx + 1 <= Len(b)
          /\ Len(s.packets) < max_packets_per_feed
      BY <1>2, <1>3, <2>3, <2>4, <2>6 DEF HEADER_SIZE
    <3>2. idx \in 1 .. Len(b) - 1 /\ idx \in Nat /\ idx > s.trim /\ idx >= n + 1 /\ idx + 1 > n + 1 /\ h \in Cell
      <4>1. idx \in 1 .. Len(b) - 1 /\ idx \in Nat /\ idx + 1 \in 1 .. Len(b)
        BY <1>2, <1>3, <3>1
      <4>2. idx > s.trim /\ idx >= n + 1 /\ idx + 1 > n + 1
        BY <1>2, <1>3, <2>1, <3>1
      <4>3. h \in Cell
        BY <4>1
      <4> QED BY <4>1, <4>2, <4>3
    <3>3. ASSUME NEW x \in s.trim + 1 .. idx - 1 PROVE x \notin Heads(w, 1)
      <4>1. CASE x < s.scan
        <5>1. x \in s.trim + 1 .. s.scan - 1
          BY <1>2, <3>2, <4>1
        <5> QED BY <2>1, <5>1
      <4>2. CASE x >= s.scan
        <5>1. x \in s.scan .. Len(b) /\ x \in 1 .. Len(b) /\ ~(idx <= x)
          BY <1>2, <3>2, <4>2
        <5>2. b[x].k # "magic"
          BY <2>4, <3>1, <5>1
        <5>3. w[x].k # "magic"
          BY <2>2, <5>1, <5>2
        <5> QED BY <5>3 DEF Heads
      <4> QED BY <1>2, <3>2, <4>1, <4>2
    <3>4. idx \in Heads(w, 1) <=> HeaderIsValid(h)
      <4>1. idx \in Heads(b, 1) <=> HeaderIsValid(h)
        BY <3>1, <3>2 DEF Heads
      <4> QED BY <2>2, <3>2, <4>1
    <3>5. PacketsFrom(w)[s.trim + 1] = PacketsFrom(w)[idx]
      <4>1. s.trim + 1 \in 1 .. Len(w) + 1 /\ idx \in s.trim + 1 .. Len(w) + 1
        BY <1>2, <1>3, <2>2, <3>2
      <4> QED BY <2>2, <3>3, <4>1, SameHeads
    <3> DEFINE r == Pass(b, s)
    <3>6. CASE ~HeaderIsValid(h)
      <4>1. r = [s EXCEPT !.scan = idx + 1]
        BY <1>5, <2>6, <3>6 DEF Pass, idx
      <4>2. idx + 1 \in 1 .. Len(b) + 1
        BY <1>3, <3>2
      <4>3. r \in LoopState(b) /\ r.packets = s.packets /\ r.trim = s.trim /\ r.raised = s.raised /\ ~r.ended
            /\ r.scan = idx + 1
        BY <1>1, <1>5, <4>1, <4>2 DEF LoopState
      <4> HIDE DEF r
      <4>4. ASSUME NEW x \in r.trim + 1 .. r.scan - 1 PROVE x \notin Heads(w, 1)
        <5>1. x \in s.trim + 1 .. idx - 1 \/ x = idx
          BY <1>2, <3>2, <4>3
        <5> QED BY <3>3, <3>4, <3>6, <5>1
      <4>5. r.trim < r.scan /\ n + 1 < r.scan
        BY <1>2, <3>2, <4>3
      <4>6. Searching(b, d, r, n + 1)
        BY <2>1, <4>3, <4>4, <4>5 DEF Searching, w
      <4>7. ReadSoFar(b, d, r) /\ Len(r.packets) <= max_packets_per_feed
        BY <1>1, <2>1, <4>3 DEF ReadSoFar
      <4>8. LoopInv(b, d, r, n + 1)
        BY <2>1, <4>3, <4>6, <4>7 DEF LoopInv
      <4> QED BY <4>8 DEF r
    <3>7. CASE HeaderIsValid(h) /\ Len(b) < end - 1
      <4>1. r = [s EXCEPT !.trim = idx - 1, !.ended = TRUE]
        BY <1>5, <2>6, <3>7 DEF Pass, idx
      <4>2. idx - 1 \in 0 .. Len(b) /\ (idx - 1) + 1 = idx
        BY <1>3, <3>2
      <4>3. r \in LoopState(b) /\ r.packets = s.packets /\ r.trim = idx - 1 /\ r.raised = s.raised /\ r.ended
        BY <1>1, <4>1, <4>2 DEF LoopState
      <4> HIDE DEF r
      <4>4. ReadSoFar(b, d, r)
        BY <2>1, <3>5, <4>2, <4>3 DEF ReadSoFar, w
      <4>5. idx \in Heads(b, 1)
        BY <2>2, <3>2, <3>4, <3>7
      <4>6. PacketCells(h) \in Nat /\ (idx + PacketCells(h) - 1 > Len(b) => PacketsFrom(b)[idx] = << >>)
        BY <4>5, HeadRead
      <4>7. idx + PacketCells(h) - 1 > Len(b)
        BY <1>3, <3>2, <3>7, <4>6
      <4>8. NoneLeft(b, r)
        BY <4>2, <4>3, <4>6, <4>7 DEF NoneLeft
      <4>9. LoopInv(b, d, r, n + 1)
        BY <1>1, <2>1, <4>3, <4>4, <4>8 DEF LoopInv
      <4> QED BY <4>9 DEF r
    <3>8. CASE HeaderIsValid(h) /\ ~(Len(b) < end - 1) /\ ~h.decodes
      <4>1. r = [s EXCEPT !.trim = 0, !.raised = TRUE, !.ended = TRUE]
        BY <1>5, <2>6, <3>8 DEF Pass, idx
      <4>2. r \in LoopState(b) /\ r.packets = s.packets /\ r.trim = 0 /\ r.raised /\ r.ended
        <5>1. 0 \in 0 .. Len(b)
          BY <1>3
        <5>2. r.packets = s.packets /\ r.trim = 0 /\ r.raised /\ r.ended
          BY <1>1, <4>1 DEF LoopState
        <5>3. r \in LoopState(b)
          BY <1>1, <4>1, <5>1 DEF LoopState
        <5> QED BY <5>2, <5>3
      <4> HIDE DEF r
      <4>3. Undecodable(b)
        <5>1. idx + 1 \in DOMAIN b
          BY <1>3, <3>2
        <5> QED BY <3>8, <5>1 DEF Undecodable
      <4>4. LoopInv(b, d, r, n + 1)
        BY <1>1, <4>2, <4>3 DEF LoopInv
      <4> QED BY <4>4 DEF r
    <3>9. CASE HeaderIsValid(h) /\ ~(Len(b) < end - 1) /\ h.decodes
      <4>1. r = [s EXCEPT !.scan = end, !.packets = Append(@, h.id), !.trim = end - 1]
        BY <1>5, <2>6, <3>9 DEF Pass, idx
      <4>2. idx \in Heads(w, 1) /\ w[idx + 1] = h
        <5>1. idx + 1 \in 1 .. Len(b)
          BY <1>3, <3>2
        <5> QED BY <2>2, <3>4, <3>9, <5>1
      <4>3. PacketCells(h) \in Nat /\ PacketCells(h) >= 2
            /\ PacketsFrom(w)[idx] = IF idx + PacketCells(h) - 1 > Len(w) \/ ~h.decodes THEN << >>
                                     ELSE <<h.id>> \o PacketsFrom(w)[(idx + PacketCells(h) - 1) + 1]
        BY <2>2, <4>2, HeadRead
      <4>4. end \in 1 .. Len(b) + 1 /\ end - 1 \in 0 .. Len(b) /\ end > idx + 1
        BY <1>3, <3>2, <3>9, <4>3
      <4>5. ~(idx + PacketCells(h) - 1 > Len(w)) /\ (idx + PacketCells(h) - 1) + 1 = end /\ (end - 1) + 1 = end
        BY <1>3, <2>2, <3>2, <4>3, <4>4
      <4> HIDE DEF end
      <4>6. PacketsFrom(w)[idx] = <<h.id>> \o PacketsFrom(w)[end]
        BY <3>9, <4>3, <4>5
      <4>7. h.id \in Id
        BY <3>2 DEF Id
      <4>8. Append(s.packets, h.id) \in Seq(Id) /\ Len(Append(s.packets, h.id)) = Len(s.packets) + 1
            /\ Append(s.packets, h.id) = s.packets \o <<h.id>> /\ <<h.id>> \in Seq(Id)
        <5>1. Append(s.packets, h.id) = s.packets \o <<h.id>>
          BY <1>2, <4>7, AppendIsConcat
        <5> QED BY <1>2, <4>7, <5>1
      <4>9. r \in LoopState(b) /\ r.packets = Append(s.packets, h.id) /\ r.trim = end - 1 /\ r.raised = s.raised
            /\ r.ended = s.ended /\ r.scan = end
        BY <1>1, <4>1, <4>4, <4>8 DEF LoopState
      <4> HIDE DEF r
      <4>10. PacketsFrom(w)[end] \in Seq(Id)
        <5>1. end \in 1 .. Len(w) + 1
          BY <1>3, <2>2, <4>4
        <5> QED BY <2>2, <5>1, FromType
      <4>11. ReadSoFar(b, d, r)
        <5>1. PacketsOf(w) = s.packets \o (<<h.id>> \o PacketsFrom(w)[end])
          BY <2>1, <3>5, <4>6 DEF ReadSoFar, w
        <5>2. (s.packets \o <<h.id>>) \o PacketsFrom(w)[end] = s.packets \o (<<h.id>> \o PacketsFrom(w)[end])
          <6>1. s.packets \in Seq(Id) /\ <<h.id>> \in Seq(Id)
            BY <1>2, <4>8
          <6> HIDE DEF h, w
          <6> QED BY <4>10, <6>1, PacketsAssociate, Zenon
        <5>3. r.trim + 1 = end /\ r.packets = s.packets \o <<h.id>>
          BY <4>5, <4>8, <4>9
        <5> QED BY <5>1, <5>2, <5>3 DEF ReadSoFar, w
      <4>12. Searching(b, d, r, n + 1)
        <5>1. r.trim < r.scan /\ n + 1 < r.scan /\ r.trim + 1 .. r.scan - 1 = {}
          BY <1>3, <3>2, <4>4, <4>9
        <5> QED BY <2>1, <4>9, <5>1 DEF Searching
      <4>13. Len(r.packets) <= max_packets_per_feed
        BY <1>3, <3>1, <4>8, <4>9
      <4>14. LoopInv(b, d, r, n + 1)
        BY <1>5, <2>1, <4>9, <4>11, <4>12, <4>13 DEF LoopInv
      <4> QED BY <4>14 DEF r
    <3> QED BY <3>6, <3>7, <3>8, <3>9
  <2> QED BY <2>5, <2>6
<1> QED BY <1>2, <1>4, <1>5

(* The invariant holds after every pass, and the loop has ended by the     *)
(* last.                                                                   *)
LEMMA LoopEnds ==
  ASSUME NEW b \in Seq(Cell), NEW d \in Seq(Cell)
  PROVE  Scan(b).ended /\ LoopInv(b, d, Scan(b), Len(b) + 1)
<1> DEFINE A == Passes(b)
           Rounds == Len(b) + 1
           Wrong == {n \in 0 .. Rounds : ~LoopInv(b, d, A[n], n)}
<1>0. Len(b) \in Nat /\ Rounds \in Nat
  OBVIOUS
<1>1. LoopInv(b, d, Start, 0)
  <2>1. Start \in LoopState(b)
    BY <1>0 DEF Start, LoopState
  <2>2. ~Start.ended /\ ~Start.raised /\ Start.trim = 0 /\ Start.scan = 1 /\ Start.packets = << >>
    BY DEF Start
  <2> HIDE DEF Start
  <2>3. Searching(b, d, Start, 0)
    BY <2>2 DEF Searching
  <2>4. ReadSoFar(b, d, Start)
    <3>1. b \o d \in Seq(Cell) /\ 1 \in 1 .. Len(b \o d) + 1
      OBVIOUS
    <3>2. PacketsFrom(b \o d)[1] \in Seq(Id)
      BY <3>1, FromType
    <3>3. << >> \o PacketsFrom(b \o d)[1] = PacketsFrom(b \o d)[1]
      BY <3>2, ConcatEmptySeq
    <3>4. Start.trim + 1 = 1
      BY <2>2
    <3> QED BY <2>2, <3>3, <3>4 DEF ReadSoFar, PacketsOf
  <2>5. Len(Start.packets) <= max_packets_per_feed
    BY <2>2, FeedAssumption
  <2> QED BY <2>1, <2>2, <2>3, <2>4, <2>5 DEF LoopInv
<1>2. Wrong = {}
  <2> SUFFICES ASSUME Wrong # {} PROVE FALSE
    OBVIOUS
  <2>0. Wrong \subseteq Nat
    BY <1>0
  <2>1. PICK n \in Wrong : \A m \in Wrong : n <= m
    BY <2>0, LeastNatural
  <2>2. n \in 0 .. Rounds /\ ~LoopInv(b, d, A[n], n)
    OBVIOUS
  <2>3. n # 0
    <3>1. 0 \in 0 .. Rounds
      BY <1>0
    <3>2. A[0] = Start
      BY <3>1, PassesDef
    <3> QED BY <1>1, <2>2, <3>2
  <2>4. n - 1 \in Nat /\ n - 1 \in 0 .. Rounds /\ ~(n <= n - 1) /\ (n - 1) + 1 = n
    BY <1>0, <2>2, <2>3
  <2>5. LoopInv(b, d, A[n - 1], n - 1)
    BY <2>1, <2>4
  <2>6. A[n] = Pass(b, A[n - 1])
    BY <2>2, <2>3, PassesDef
  <2> QED BY <2>2, <2>4, <2>5, <2>6, PassKeeps
<1>3. LoopInv(b, d, A[Rounds], Rounds)
  <2>1. Rounds \in 0 .. Rounds
    BY <1>0
  <2> QED BY <1>2, <2>1
<1>4. A[Rounds].ended
  <2>1. A[Rounds].scan \in 1 .. Len(b) + 1
    BY <1>3 DEF LoopInv, LoopState
  <2>2. ~A[Rounds].ended => Rounds < A[Rounds].scan
    BY <1>3 DEF LoopInv, Searching
  <2> HIDE DEF A
  <2> QED BY <1>0, <2>1, <2>2
<1> QED BY <1>3, <1>4 DEF Scan

(* One feed: whatever follows, the packets of the buffer are those that    *)
(* are returned and those of what is kept.                                 *)
LEMMA FeedReads ==
  ASSUME NEW b \in Seq(Cell), NEW d \in Seq(Cell)
  PROVE  LET r == Scan(b)
             keep == SubSeq(b, r.trim + 1, Len(b))
         IN  /\ r.packets \in Seq(Id) /\ r.raised \in BOOLEAN /\ keep \in Seq(Cell)
             /\ r.raised => keep = b
             /\ ~r.raised => PacketsOf(b \o d) = r.packets \o PacketsOf(keep \o d)
<1> DEFINE r == Scan(b)
           keep == SubSeq(b, r.trim + 1, Len(b))
           w == b \o d
<1>1. LoopInv(b, d, r, Len(b) + 1)
  BY LoopEnds
<1> HIDE DEF r
<1>2. r.packets \in Seq(Id) /\ r.raised \in BOOLEAN /\ r.trim \in 0 .. Len(b)
  BY <1>1 DEF LoopInv, LoopState
<1>3. keep \in Seq(Cell) /\ Len(keep) = Len(b) - r.trim /\ \A x \in 1 .. Len(b) - r.trim : keep[x] = b[r.trim + x]
  <2>1. \A x \in r.trim + 1 .. Len(b) : b[x] \in Cell
    BY <1>2
  <2>2. r.trim + 1 \in Int /\ Len(b) \in Int
    BY <1>2
  <2>3. keep \in Seq(Cell) /\ Len(keep) = (IF r.trim + 1 <= Len(b) THEN Len(b) - (r.trim + 1) + 1 ELSE 0)
        /\ \A x \in 1 .. Len(b) - (r.trim + 1) + 1 : keep[x] = b[(r.trim + 1) + x - 1]
    BY <2>1, <2>2, SubSeqProperties
  <2> HIDE DEF keep
  <2>4. Len(keep) = Len(b) - r.trim
    BY <1>2, <2>3
  <2>5. ASSUME NEW x \in 1 .. Len(b) - r.trim PROVE keep[x] = b[r.trim + x]
    <3>1. x \in 1 .. Len(b) - (r.trim + 1) + 1 /\ (r.trim + 1) + x - 1 = r.trim + x
      BY <1>2
    <3> QED BY <2>3, <3>1
  <2> QED BY <2>3, <2>4, <2>5
<1>4. r.raised => keep = b
  <2> SUFFICES ASSUME r.raised PROVE keep = b
    OBVIOUS
  <2>1. r.trim = 0
    BY <1>1 DEF LoopInv
  <2>2. r.trim + 1 = 1
    BY <2>1
  <2>3. keep = SubSeq(b, 1, Len(b))
    BY <2>2
  <2> QED BY <2>3, SubSeqFull
<1>5. ASSUME ~r.raised PROVE PacketsOf(w) = r.packets \o PacketsOf(keep \o d)
  <2>1. PacketsOf(w) = r.packets \o PacketsFrom(w)[r.trim + 1]
    BY <1>1, <1>5 DEF LoopInv, ReadSoFar
  <2> HIDE DEF keep, w
  <2> DEFINE t == SubSeq(w, r.trim + 1, Len(w))
  <2>2. w \in Seq(Cell) /\ Len(w) = Len(b) + Len(d) /\ Len(b) \in Nat /\ Len(d) \in Nat
    BY DEF w
  <2>3. t = keep \o d
    <3>1. t \in Seq(Cell) /\ Len(t) = Len(w) - r.trim /\ \A x \in 1 .. Len(w) - r.trim : t[x] = w[r.trim + x]
      <4>1. \A x \in r.trim + 1 .. Len(w) : w[x] \in Cell
        BY <1>2, <2>2
      <4>2. r.trim + 1 \in Int /\ Len(w) \in Int
        BY <1>2, <2>2
      <4>3. t \in Seq(Cell) /\ Len(t) = (IF r.trim + 1 <= Len(w) THEN Len(w) - (r.trim + 1) + 1 ELSE 0)
            /\ \A x \in 1 .. Len(w) - (r.trim + 1) + 1 : t[x] = w[(r.trim + 1) + x - 1]
        BY <4>1, <4>2, SubSeqProperties
      <4> HIDE DEF t
      <4>4. Len(t) = Len(w) - r.trim
        BY <1>2, <2>2, <4>3
      <4>5. ASSUME NEW x \in 1 .. Len(w) - r.trim PROVE t[x] = w[r.trim + x]
        <5>1. x \in 1 .. Len(w) - (r.trim + 1) + 1 /\ (r.trim + 1) + x - 1 = r.trim + x
          BY <1>2, <2>2
        <5> QED BY <4>3, <5>1
      <4> QED BY <4>3, <4>4, <4>5
    <3> HIDE DEF t
    <3>2. keep \o d \in Seq(Cell) /\ Len(keep \o d) = Len(w) - r.trim
      <4>1. keep \in Seq(Cell) /\ Len(keep) = Len(b) - r.trim
        BY <1>3
      <4>2. keep \o d \in Seq(Cell) /\ Len(keep \o d) = Len(keep) + Len(d)
        BY <4>1, ConcatProperties
      <4>3. Len(keep) + Len(d) = Len(w) - r.trim
        BY <1>2, <2>2, <4>1
      <4> QED BY <4>2, <4>3
    <3>3. ASSUME NEW x \in 1 .. Len(t) PROVE t[x] = (keep \o d)[x]
      <4>1. x \in 1 .. Len(w) - r.trim /\ r.trim + x \in 1 .. Len(b) + Len(d) /\ x \in 1 .. Len(keep) + Len(d)
        BY <1>2, <1>3, <2>2, <3>1
      <4>2. w[r.trim + x] = IF r.trim + x <= Len(b) THEN b[r.trim + x] ELSE d[(r.trim + x) - Len(b)]
        BY <4>1, ConcatProperties DEF w
      <4>3. (keep \o d)[x] = IF x <= Len(keep) THEN keep[x] ELSE d[x - Len(keep)]
        BY <1>3, <4>1, ConcatProperties
      <4>4. CASE r.trim + x <= Len(b)
        <5>1. x <= Len(keep) /\ x \in 1 .. Len(b) - r.trim
          BY <1>2, <1>3, <2>2, <4>1, <4>4
        <5> QED BY <1>3, <3>1, <4>1, <4>2, <4>3, <4>4, <5>1
      <4>5. CASE ~(r.trim + x <= Len(b))
        <5>1. ~(x <= Len(keep)) /\ (r.trim + x) - Len(b) = x - Len(keep)
          BY <1>2, <1>3, <2>2, <4>1, <4>5
        <5> QED BY <3>1, <4>1, <4>2, <4>3, <4>5, <5>1
      <4> QED BY <4>4, <4>5
    <3>4. Len(t) = Len(keep \o d)
      BY <3>1, <3>2
    <3> QED BY <3>1, <3>2, <3>3, <3>4, SeqEqual
  <2>4. r.trim \in 0 .. Len(w) /\ 1 \in 1 .. Len(w) - r.trim + 1
    BY <1>2, <2>2
  <2>5. PacketsFrom(t)[1] = PacketsFrom(w)[r.trim + 1]
    BY <2>2, <2>4, SuffixReadsSame
  <2> QED BY <2>1, <2>3, <2>5 DEF PacketsOf
<1> QED BY <1>2, <1>3, <1>4, <1>5 DEF r

(* What a feed holds back: a complete packet only at its bound, or when it *)
(* raised at a header in the buffer whose packet does not decode; and what *)
(* it keeps was in the buffer.                                             *)
LEMMA FeedHolds ==
  ASSUME NEW b \in Seq(Cell)
  PROVE  LET r == Scan(b)
             keep == SubSeq(b, r.trim + 1, Len(b))
         IN  /\ r.raised => Undecodable(b)
             /\ ~r.raised /\ PacketsOf(keep) # << >> => Len(r.packets) = max_packets_per_feed
             /\ \A i \in DOMAIN keep : \E j \in DOMAIN b : b[j] = keep[i]
<1> DEFINE r == Scan(b)
           keep == SubSeq(b, r.trim + 1, Len(b))
<1>0. << >> \in Seq(Cell)
  OBVIOUS
<1>1. r.ended /\ LoopInv(b, << >>, r, Len(b) + 1)
  BY <1>0, LoopEnds
<1> HIDE DEF r
<1>2. r.trim \in 0 .. Len(b) /\ Len(b) \in Nat
  BY <1>1 DEF LoopInv, LoopState
<1>3. r.raised => Undecodable(b)
  BY <1>1 DEF LoopInv
<1>4. ASSUME ~r.raised, PacketsOf(keep) # << >> PROVE Len(r.packets) = max_packets_per_feed
  <2>1. NoneLeft(b, r)
    BY <1>1, <1>4 DEF LoopInv
  <2>2. 1 \in 1 .. Len(b) - r.trim + 1
    BY <1>2
  <2>3. PacketsFrom(keep)[1] = PacketsFrom(b)[r.trim + 1]
    BY <1>2, <2>2, SuffixReadsSame
  <2> QED BY <1>4, <2>1, <2>3 DEF NoneLeft, PacketsOf
<1>5. ASSUME NEW i \in DOMAIN keep PROVE \E j \in DOMAIN b : b[j] = keep[i]
  <2>1. \A x \in r.trim + 1 .. Len(b) : b[x] \in Cell
    BY <1>2
  <2>2. r.trim + 1 \in Int /\ Len(b) \in Int
    BY <1>2
  <2>3. keep \in Seq(Cell) /\ Len(keep) = (IF r.trim + 1 <= Len(b) THEN Len(b) - (r.trim + 1) + 1 ELSE 0)
        /\ \A x \in 1 .. Len(b) - (r.trim + 1) + 1 : keep[x] = b[(r.trim + 1) + x - 1]
    BY <2>1, <2>2, SubSeqProperties
  <2> HIDE DEF keep
  <2>4. DOMAIN keep = 1 .. Len(keep)
    BY <2>3
  <2>5. i \in 1 .. Len(b) - (r.trim + 1) + 1 /\ (r.trim + 1) + i - 1 \in 1 .. Len(b)
    BY <1>2, <2>3, <2>4
  <2>6. DOMAIN b = 1 .. Len(b)
    OBVIOUS
  <2>7. keep[i] = b[(r.trim + 1) + i - 1]
    BY <2>3, <2>5
  <2> QED BY <2>5, <2>6, <2>7
<1> QED BY <1>3, <1>4, <1>5 DEF r

----------------------------------------------------------------------------
(* The inductive invariant.  NothingLost alone is not inductive: what the  *)
(* buffer holds may end inside a packet, so it is stated for every         *)
(* continuation d of the stream.  An undecodable header of the buffer is   *)
(* one of what was fed because the buffer holds nothing else.              *)
DecoderTypes ==
  /\ stream \in Seq(Cell) /\ pos \in 0 .. Len(stream)
  /\ _buf \in Seq(Cell) /\ fed \in Seq(Cell) /\ out \in Seq(Id)
Reads(f, o, b) == \A d \in Seq(Cell) : PacketsOf(f \o d) = o \o PacketsOf(b \o d)
Within(b, f) == \A i \in DOMAIN b : \E j \in DOMAIN f : f[j] = b[i]
DecoderInv == DecoderTypes /\ Reads(fed, out, _buf) /\ Within(_buf, fed) /\ HeldBack

(* The packets of a sequence of cells are a sequence of identifiers. *)
LEMMA PacketsType == ASSUME NEW s \in Seq(Cell) PROVE PacketsOf(s) \in Seq(Id)
<1>1. 1 \in 1 .. Len(s) + 1
  OBVIOUS
<1> QED BY <1>1, FromType DEF PacketsOf

(* An empty buffer after nothing was fed satisfies the invariant. *)
LEMMA EmptyReads == Reads(<< >>, << >>, << >>) /\ Within(<< >>, << >>) /\ PacketsOf(<< >>) = << >>
<1>1. ASSUME NEW d \in Seq(Cell) PROVE PacketsOf(<< >> \o d) = << >> \o PacketsOf(<< >> \o d)
  <2>1. << >> \o d = d
    BY ConcatEmptySeq
  <2>2. PacketsOf(d) \in Seq(Id)
    BY PacketsType
  <2> QED BY <2>1, <2>2, ConcatEmptySeq
<1>2. Within(<< >>, << >>)
  BY DEF Within
<1>3. PacketsOf(<< >>) = << >>
  <2>1. << >> \in Seq(Cell) /\ Len(<< >>) = 0 /\ 1 \in 1 .. Len(<< >>) + 1
    OBVIOUS
  <2>2. Heads(<< >>, 1) = {}
    BY <2>1 DEF Heads
  <2>3. PacketsFrom(<< >>) = [i \in 1 .. Len(<< >>) + 1 |-> PacketsAfter(<< >>, i, PacketsFrom(<< >>))]
    BY <2>1, FromDef, Zenon
  <2>4. PacketsFrom(<< >>)[1] = PacketsAfter(<< >>, 1, PacketsFrom(<< >>))
    <3> DEFINE Rounds == Len(<< >>) + 1
               P == PacketsFrom(<< >>)
    <3>1. 1 \in 1 .. Rounds /\ P = [i \in 1 .. Rounds |-> PacketsAfter(<< >>, i, P)]
      BY <2>1, <2>3
    <3> HIDE DEF Rounds, P
    <3>2. P[1] = PacketsAfter(<< >>, 1, P)
      BY <3>1, Zenon
    <3> QED BY <3>2 DEF P
  <2> QED BY <2>2, <2>4 DEF PacketsAfter, PacketsOf
<1> QED BY <1>1, <1>2, <1>3 DEF Reads

LEMMA DecoderInitInv == DecoderInit => DecoderInv
<1> SUFFICES ASSUME DecoderInit PROVE DecoderInv
  OBVIOUS
<1>1. stream \in Seq(Cell) /\ pos = 0 /\ _buf = << >> /\ out = << >> /\ fed = << >>
  BY StreamAssumption DEF DecoderInit
<1>2. ~last.raised
  BY DEF DecoderInit
<1>3. DecoderTypes
  <2>1. 0 \in 0 .. Len(stream)
    BY <1>1
  <2> QED BY <1>1, <2>1 DEF DecoderTypes
<1>4. HeldBack
  BY <1>1, <1>2, EmptyReads DEF HeldBack
<1> QED BY <1>1, <1>3, <1>4, EmptyReads DEF DecoderInv

(* Associativity for cells. *)
LEMMA CellsAssociate == \A x, y, z \in Seq(Cell) : (x \o y) \o z = x \o (y \o z)
BY ConcatAssociative

LEMMA ReceiveKeeps ==
  ASSUME DecoderInv, NEW n \in 0 .. Len(stream) - pos, Receive(n)
  PROVE  DecoderInv'
<1> DEFINE data == SubSeq(stream, pos + 1, pos + n)
           b == _buf \o data
           r == Scan(b)
           keep == SubSeq(b, r.trim + 1, Len(b))
<1>1. DecoderTypes /\ Reads(fed, out, _buf) /\ Within(_buf, fed)
  BY DEF DecoderInv
<1>2. stream \in Seq(Cell) /\ pos \in 0 .. Len(stream) /\ Len(stream) \in Nat
      /\ _buf \in Seq(Cell) /\ fed \in Seq(Cell) /\ out \in Seq(Id)
  BY <1>1 DEF DecoderTypes
<1>3. /\ stream' = stream /\ pos' = pos + n /\ _buf' = keep /\ fed' = fed \o data
      /\ out' = IF r.raised THEN out ELSE out \o r.packets
      /\ last' = [packets |-> IF r.raised THEN << >> ELSE r.packets, raised |-> r.raised]
  BY DEF Receive, feed
<1>4. data \in Seq(Cell)
  <2>1. \A x \in pos + 1 .. pos + n : stream[x] \in Cell
    BY <1>2
  <2>2. pos + 1 \in Int /\ pos + n \in Int
    BY <1>2
  <2> QED BY <2>1, <2>2, SubSeqProperties
<1> HIDE DEF data
<1>5. b \in Seq(Cell) /\ fed \o data \in Seq(Cell)
  BY <1>2, <1>4
<1>6. /\ r.packets \in Seq(Id) /\ r.raised \in BOOLEAN /\ keep \in Seq(Cell)
      /\ r.raised => keep = b
      /\ \A d \in Seq(Cell) : ~r.raised => PacketsOf(b \o d) = r.packets \o PacketsOf(keep \o d)
  <2> HIDE DEF b
  <2>0. << >> \in Seq(Cell)
    OBVIOUS
  <2>1. r.packets \in Seq(Id) /\ r.raised \in BOOLEAN /\ keep \in Seq(Cell) /\ (r.raised => keep = b)
    BY <1>5, <2>0, FeedReads
  <2>2. ASSUME NEW d \in Seq(Cell), ~r.raised PROVE PacketsOf(b \o d) = r.packets \o PacketsOf(keep \o d)
    BY <1>5, <2>2, FeedReads
  <2> QED BY <2>1, <2>2
<1>7. /\ r.raised => Undecodable(b)
      /\ ~r.raised /\ PacketsOf(keep) # << >> => Len(r.packets) = max_packets_per_feed
      /\ Within(keep, b)
  <2> HIDE DEF b
  <2> QED BY <1>5, FeedHolds DEF Within
<1> HIDE DEF r, keep
<1>8. DecoderTypes'
  <2>1. pos + n \in 0 .. Len(stream)
    BY <1>2
  <2>2. out' \in Seq(Id)
    BY <1>2, <1>3, <1>6
  <2> HIDE DEF b
  <2> QED BY <1>2, <1>3, <1>5, <1>6, <2>1, <2>2 DEF DecoderTypes
<1>9. Reads(fed', out', _buf')
  <2> SUFFICES ASSUME NEW d \in Seq(Cell) PROVE PacketsOf(fed' \o d) = out' \o PacketsOf(_buf' \o d)
    BY DEF Reads
  <2>1. data \o d \in Seq(Cell)
    BY <1>4
  <2>2. PacketsOf(fed \o (data \o d)) = out \o PacketsOf(_buf \o (data \o d))
    BY <1>1, <2>1 DEF Reads
  <2>3. (fed \o data) \o d = fed \o (data \o d) /\ b \o d = _buf \o (data \o d)
    <3>1. fed \in Seq(Cell) /\ data \in Seq(Cell) /\ _buf \in Seq(Cell)
      BY <1>2, <1>4
    <3>2. (fed \o data) \o d = fed \o (data \o d)
      BY <3>1, CellsAssociate, Zenon
    <3>3. (_buf \o data) \o d = _buf \o (data \o d)
      BY <3>1, CellsAssociate, Zenon
    <3> QED BY <3>2, <3>3
  <2>4. PacketsOf(fed' \o d) = out \o PacketsOf(b \o d)
    BY <1>3, <2>2, <2>3
  <2> HIDE DEF b
  <2>5. CASE r.raised
    BY <1>3, <1>6, <2>4, <2>5
  <2>6. CASE ~r.raised
    <3>1. PacketsOf(b \o d) = r.packets \o PacketsOf(keep \o d)
      BY <1>6, <2>6
    <3>2. keep \o d \in Seq(Cell)
      BY <1>6
    <3>3. PacketsOf(keep \o d) \in Seq(Id)
      BY <3>2, PacketsType
    <3>4. (out \o r.packets) \o PacketsOf(keep \o d) = out \o (r.packets \o PacketsOf(keep \o d))
      BY <1>2, <1>6, <3>3, PacketsAssociate, Zenon
    <3>5. out' = out \o r.packets /\ _buf' = keep
      BY <1>3, <2>6
    <3> QED BY <2>4, <3>1, <3>4, <3>5
  <2> QED BY <2>5, <2>6
<1>10. Within(b, fed')
  <2> SUFFICES ASSUME NEW i \in DOMAIN b PROVE \E j \in DOMAIN fed' : fed'[j] = b[i]
    BY DEF Within
  <2>1. i \in 1 .. Len(_buf) + Len(data) /\ Len(_buf) \in Nat /\ Len(data) \in Nat /\ Len(fed) \in Nat
        /\ DOMAIN fed = 1 .. Len(fed) /\ DOMAIN _buf = 1 .. Len(_buf)
    BY <1>2, <1>4
  <2>2. b[i] = IF i <= Len(_buf) THEN _buf[i] ELSE data[i - Len(_buf)]
    BY <1>2, <1>4, <2>1, ConcatProperties
  <2>3. DOMAIN (fed \o data) = 1 .. Len(fed) + Len(data)
        /\ \A x \in 1 .. Len(fed) + Len(data) :
             (fed \o data)[x] = IF x <= Len(fed) THEN fed[x] ELSE data[x - Len(fed)]
    BY <1>2, <1>4, ConcatProperties
  <2> HIDE DEF b
  <2>4. CASE i <= Len(_buf)
    <3>1. i \in DOMAIN _buf
      BY <2>1, <2>4
    <3>2. PICK j \in DOMAIN fed : fed[j] = _buf[i]
      BY <1>1, <3>1 DEF Within
    <3>3. j \in 1 .. Len(fed) + Len(data) /\ j <= Len(fed)
      BY <2>1, <3>2
    <3> QED BY <1>3, <2>2, <2>3, <2>4, <3>2, <3>3
  <2>5. CASE ~(i <= Len(_buf))
    <3> DEFINE j == Len(fed) + (i - Len(_buf))
    <3>1. j \in 1 .. Len(fed) + Len(data) /\ ~(j <= Len(fed)) /\ j - Len(fed) = i - Len(_buf)
      BY <2>1, <2>5
    <3> HIDE DEF j
    <3> QED BY <1>3, <2>2, <2>3, <2>5, <3>1
  <2> QED BY <2>4, <2>5
<1> HIDE DEF b
<1>11. Within(_buf', fed')
  <2> SUFFICES ASSUME NEW i \in DOMAIN keep PROVE \E j \in DOMAIN fed' : fed'[j] = keep[i]
    BY <1>3 DEF Within
  <2>1. PICK x \in DOMAIN b : b[x] = keep[i]
    BY <1>7 DEF Within
  <2>2. PICK j \in DOMAIN fed' : fed'[j] = b[x]
    BY <1>10 DEF Within
  <2> QED BY <2>1, <2>2
<1>12. HeldBack'
  <2>1. last'.raised = r.raised /\ (~r.raised => last'.packets = r.packets)
    BY <1>3
  <2>2. PacketsOf(keep) # << >> => last'.raised \/ Len(last'.packets) = max_packets_per_feed
    BY <1>7, <2>1
  <2>3. ASSUME last'.raised PROVE \E i \in DOMAIN fed' : HeaderIsValid(fed'[i]) /\ ~(fed'[i]).decodes
    <3>1. PICK x \in DOMAIN b : HeaderIsValid(b[x]) /\ ~b[x].decodes
      BY <1>7, <2>1, <2>3 DEF Undecodable
    <3>2. PICK j \in DOMAIN fed' : fed'[j] = b[x]
      BY <1>10 DEF Within
    <3> QED BY <3>1, <3>2
  <2> QED BY <1>3, <2>2, <2>3 DEF HeldBack
<1> QED BY <1>8, <1>9, <1>11, <1>12 DEF DecoderInv

LEMMA DecoderStep == DecoderInv /\ [DecoderNext]_decoderVars => DecoderInv'
<1> SUFFICES ASSUME DecoderInv, [DecoderNext]_decoderVars PROVE DecoderInv'
  OBVIOUS
<1>1. CASE \E n \in 0 .. Len(stream) - pos : Receive(n)
  BY <1>1, ReceiveKeeps
<1>2. CASE clear
  <2>1. _buf' = << >> /\ out' = << >> /\ fed' = << >> /\ stream' = stream /\ pos' = pos /\ ~last'.raised
    BY <1>2 DEF clear
  <2>2. DecoderTypes'
    BY <2>1 DEF DecoderInv, DecoderTypes
  <2>3. HeldBack'
    BY <2>1, EmptyReads DEF HeldBack
  <2>4. Reads(fed', out', _buf') /\ Within(_buf', fed')
    BY <2>1, EmptyReads
  <2> QED BY <2>2, <2>3, <2>4 DEF DecoderInv
<1>3. CASE UNCHANGED decoderVars
  BY <1>3 DEF decoderVars, DecoderInv, DecoderTypes, Reads, Within, HeldBack
<1> QED BY <1>1, <1>2, <1>3 DEF DecoderNext

(* The packets of what was fed are those that were returned and those the  *)
(* buffer holds: the continuation is empty.                                *)
LEMMA InvLosesNothing == DecoderInv => NothingLost
<1> SUFFICES ASSUME DecoderInv PROVE NothingLost
  OBVIOUS
<1>1. << >> \in Seq(Cell) /\ _buf \in Seq(Cell) /\ fed \in Seq(Cell)
  BY DEF DecoderInv, DecoderTypes
<1>2. fed \o << >> = fed /\ _buf \o << >> = _buf
  BY <1>1, ConcatEmptySeq
<1>3. PacketsOf(fed \o << >>) = out \o PacketsOf(_buf \o << >>)
  BY <1>1 DEF DecoderInv, Reads
<1> QED BY <1>2, <1>3 DEF NothingLost

(* feed and clear keep the invariant, for every stream, however it is cut, *)
(* and every bound on the packets of a feed.                               *)
THEOREM DecoderInvariant == DecoderSpec => []DecoderInv
<1> QED BY DecoderInitInv, DecoderStep, PTL DEF DecoderSpec

(* "Feed raw bytes in any chunk size": no packet is lost, doubled or       *)
(* reordered by the buffer of feed, also after an exception.               *)
THEOREM NothingIsLost == DecoderSpec => []NothingLost
<1> QED BY DecoderInvariant, InvLosesNothing, PTL

(* A complete packet stays in the buffer only at the bound of a feed or    *)
(* behind an exception, which only an undecodable packet raises.           *)
THEOREM HeldBackForAReason == DecoderSpec => []HeldBack
<1>1. DecoderInv => HeldBack
  BY DEF DecoderInv
<1> QED BY <1>1, DecoderInvariant, PTL

----------------------------------------------------------------------------
(* What an encoder makes: a header whose CRC is that of its fields, none   *)
(* of which is None, and a body that is the payload and, with a checksum,  *)
(* the four bytes of the CRC over header and payload.                      *)
HeaderOk(h) ==
  /\ h = [f \in HeaderFields \cup {"crc"} |-> h[f]]
  /\ h.crc = compute_crc32([f \in HeaderFields |-> h[f]])
  /\ h.magic = "AICL" /\ None \notin {h.magic, h.version, h.message_id, h.correlation_id}
  /\ h.deadline_ms \in Int /\ h.payload_length \in Nat
Trailer(h, payload, c) == IF c THEN CrcBytes(<<h, payload>>) ELSE << >>
Good(w, c) ==
  \E h, payload :
    /\ w = [hdr |-> h, body |-> payload \o Trailer(h, payload, c)]
    /\ HeaderOk(h) /\ payload \in Seq(0 .. 255) /\ Len(payload) = h.payload_length

(* A header that pack_header did not refuse. *)
LEMMA PackedHeader ==
  ASSUME NEW v, NEW fl, NEW m, NEW c, NEW d \in Int, NEW len \in Nat, m # None, c # None,
         ~Raised(pack_header(v, fl, m, c, d, len))
  PROVE  LET h == pack_header(v, fl, m, c, d, len) IN HeaderOk(h) /\ h.payload_length = len
<1> DEFINE p == [magic |-> "AICL", version |-> v, flags |-> fl, message_id |-> m,
                 correlation_id |-> c, deadline_ms |-> d, payload_length |-> len]
           h == pack_header(v, fl, m, c, d, len)
<1>1. h = [f \in HeaderFields \cup {"crc"} |-> IF f = "crc" THEN compute_crc32(p) ELSE p[f]] /\ v \in SUPPORTED_VERSIONS
  BY DEF pack_header, Raised, Raise
<1>2. DOMAIN p = HeaderFields /\ "crc" \notin HeaderFields
  BY DEF HeaderFields
<1>3. p = [f \in HeaderFields |-> p[f]]
  BY <1>2
<1>4. /\ p.magic = "AICL" /\ p.version = v /\ p.message_id = m /\ p.correlation_id = c
      /\ p.deadline_ms = d /\ p.payload_length = len
  OBVIOUS
<1>5. None # "AICL" /\ None # v
  BY <1>1, NoneAssumption DEF SUPPORTED_VERSIONS
<1> HIDE DEF p, h
<1>6. h = [f \in HeaderFields \cup {"crc"} |-> h[f]] /\ (\A f \in HeaderFields : h[f] = p[f])
      /\ h["crc"] = compute_crc32(p)
  BY <1>1, <1>2
<1>7. [f \in HeaderFields |-> h[f]] = p
  BY <1>3, <1>6
<1>8. /\ h.magic = "AICL" /\ h.version = v /\ h.message_id = m /\ h.correlation_id = c
      /\ h.deadline_ms = d /\ h.payload_length = len
  BY <1>4, <1>6 DEF HeaderFields
<1> QED BY <1>5, <1>6, <1>7, <1>8 DEF HeaderOk, h

(* __post_init__ gives a packet its ids. *)
LEMMA IdsGiven ==
  ASSUME NEW p \in Packets, ~Raised(__post_init__(p))
  PROVE  LET q == __post_init__(p)
         IN  q.message_id # None /\ q.correlation_id # None /\ q.deadline_ms \in Int
<1> DEFINE Given(id, other) == IF id = None THEN other ELSE id
           q == [p EXCEPT !.session_id = Given(@, Uuid), !.message_id = Given(@, Uuid),
                          !.correlation_id = Given(@, NoId)]
<1>1. __post_init__(p) = q
  BY DEF __post_init__, Raised, Raise
<1>2. {"message_id", "correlation_id", "deadline_ms"} \subseteq DOMAIN p /\ p.deadline_ms \in Int
  BY PacketAssumption
<1>3. q.message_id = Given(p.message_id, Uuid) /\ q.correlation_id = Given(p.correlation_id, NoId)
      /\ q.deadline_ms = p.deadline_ms
  BY <1>2
<1>4. Uuid # None /\ NoId # None
  BY NoneAssumption
<1> QED BY <1>1, <1>2, <1>3, <1>4

(* encode makes a good packet of every packet it does not refuse. *)
LEMMA EncodeIsGood ==
  ASSUME NEW p \in Packets, NEW c \in BOOLEAN, ~Raised(encode(p, c))
  PROVE  Good(encode(p, c), c)
<1> DEFINE q == __post_init__(p)
           payload == build_payload(q)
           fl == IF c THEN q.flags \cup {FLAG.HAS_TRAILER} ELSE q.flags
           h == pack_header(q.version, fl, q.message_id, q.correlation_id, q.deadline_ms, Len(payload))
<1>1. ~Raised(q) /\ Buildable(q) /\ ~Raised(h)
      /\ encode(p, c) = [hdr |-> h, body |-> payload \o Trailer(h, payload, c)]
  <2> HIDE DEF q, payload
  <2> QED BY DEF encode, Trailer, Raised, Raise, q, payload
<1>2. payload \in Seq(0 .. 255)
  BY <1>1, PacketAssumption
<1>3. q.message_id # None /\ q.correlation_id # None /\ q.deadline_ms \in Int
  BY <1>1, IdsGiven
<1> HIDE DEF q, payload, fl
<1>5. Len(payload) \in Nat
  BY <1>2
<1>6. HeaderOk(h) /\ h.payload_length = Len(payload)
  BY <1>1, <1>3, <1>5, PackedHeader
<1> QED BY <1>1, <1>2, <1>6 DEF Good

----------------------------------------------------------------------------
(* decode refuses a header that does not fit its CRC, a body that is too   *)
(* short for its header, and a trailer that does not fit the payload.      *)
LEMMA BadHeader ==
  ASSUME NEW w, w.hdr = None \/ ~validate_header(w.hdr)
  PROVE  Raised(decode(w))
BY DEF decode, Raised, Raise

LEMMA BadLength ==
  ASSUME NEW w, Len(w.body) - w.hdr.payload_length \in Int,
         Len(w.body) - w.hdr.payload_length < CHECKSUM_SIZE, Len(w.body) - w.hdr.payload_length # 0
  PROVE  Raised(decode(w))
BY DEF decode, Raised, Raise

LEMMA BadTrailer ==
  ASSUME NEW w, w.hdr.payload_length \in Nat, Len(w.body) \in Nat,
         Len(w.body) - w.hdr.payload_length >= CHECKSUM_SIZE,
         ~validate_trailer(w.hdr, SubSeq(w.body, 1, w.hdr.payload_length),
                           SubSeq(w.body, w.hdr.payload_length + 1, w.hdr.payload_length + CHECKSUM_SIZE))
  PROVE  Raised(decode(w))
<1> DEFINE extra == Len(w.body) - w.hdr.payload_length
<1>1. ~(extra < 0) /\ extra # 0 /\ ~(extra < CHECKSUM_SIZE)
  BY DEF CHECKSUM_SIZE
<1>2. CASE w.hdr = None \/ ~validate_header(w.hdr)
  BY <1>2, BadHeader
<1>3. CASE w.hdr # None /\ validate_header(w.hdr)
  <2>1. decode(w) = Raise("ChecksumError")
    BY <1>1, <1>3 DEF decode
  <2> QED BY <2>1 DEF Raised, Raise
<1> QED BY <1>2, <1>3

(* A header that differs from a good one in one field is not valid. *)
LEMMA OtherField ==
  ASSUME NEW h, HeaderOk(h), NEW f \in HeaderFields, NEW x, x # h[f]
  PROVE  ~validate_header([h EXCEPT ![f] = x])
<1> DEFINE g == [h EXCEPT ![f] = x]
           P == [y \in HeaderFields |-> h[y]]
           Q == [y \in HeaderFields |-> g[y]]
<1>1. h = [y \in HeaderFields \cup {"crc"} |-> h[y]] /\ h.crc = compute_crc32(P)
  BY DEF HeaderOk
<1>2. f # "crc"
  BY DEF HeaderFields
<1>3. g[f] = x /\ g["crc"] = h["crc"]
  BY <1>1, <1>2
<1>4. Q[f] # P[f]
  BY <1>3
<1> HIDE DEF g, P, Q
<1>5. compute_crc32(P).crc = P /\ compute_crc32(Q).crc = Q
  BY DEF compute_crc32
<1>6. g.crc # compute_crc32(Q)
  BY <1>1, <1>3, <1>4, <1>5
<1> QED BY <1>6 DEF validate_header, g, Q

LEMMA OtherCrc ==
  ASSUME NEW h, HeaderOk(h)
  PROVE  ~validate_header([h EXCEPT !["crc"] = [crc |-> h.crc]])
<1> DEFINE g == [h EXCEPT !["crc"] = [crc |-> h.crc]]
           P == [y \in HeaderFields |-> h[y]]
           Q == [y \in HeaderFields |-> g[y]]
<1>1. h = [y \in HeaderFields \cup {"crc"} |-> h[y]] /\ h.crc = [crc |-> P]
  BY DEF HeaderOk, compute_crc32
<1>2. "crc" \notin HeaderFields /\ "magic" \in HeaderFields
  BY DEF HeaderFields
<1>3. g["crc"] = [crc |-> h.crc] /\ \A y \in HeaderFields : g[y] = h[y]
  BY <1>1, <1>2
<1>4. Q = P
  BY <1>3
<1>5. DOMAIN P = HeaderFields
  OBVIOUS
<1> HIDE DEF P, Q, g
<1>6. DOMAIN [crc |-> P] = {"crc"}
  OBVIOUS
<1>7. [crc |-> P] # P
  BY <1>2, <1>5, <1>6
<1>8. [crc |-> [crc |-> P]] # [crc |-> P]
  <2>1. [crc |-> [crc |-> P]].crc = [crc |-> P] /\ [crc |-> P].crc = P
    OBVIOUS
  <2> QED BY <1>7, <2>1
<1>9. g.crc # compute_crc32(Q)
  BY <1>1, <1>3, <1>4, <1>8 DEF compute_crc32
<1> QED BY <1>9 DEF validate_header, g, Q

(* Where the bytes of a good packet are. *)
LEMMA GoodBody ==
  ASSUME NEW h, NEW payload \in Seq(0 .. 255), NEW c \in BOOLEAN, HeaderOk(h), Len(payload) = h.payload_length
  PROVE  LET b == payload \o Trailer(h, payload, c)
             B == (0 .. 255) \cup {<<i, compute_crc32(<<h, payload>>)>> : i \in 1 .. CHECKSUM_SIZE}
         IN  /\ b \in Seq(B) /\ Len(b) = Len(payload) + (IF c THEN CHECKSUM_SIZE ELSE 0)
             /\ \A i \in 1 .. Len(payload) : b[i] = payload[i]
             /\ c => \A i \in 1 .. CHECKSUM_SIZE : b[Len(payload) + i] = <<i, compute_crc32(<<h, payload>>)>>
<1> DEFINE crc == compute_crc32(<<h, payload>>)
           B == (0 .. 255) \cup {<<i, crc>> : i \in 1 .. CHECKSUM_SIZE}
           t == Trailer(h, payload, c)
           b == payload \o t
<1> HIDE DEF crc
<1>1. payload \in Seq(B) /\ Len(payload) \in Nat
  OBVIOUS
<1>2. t \in Seq(B) /\ Len(t) = (IF c THEN CHECKSUM_SIZE ELSE 0) /\ (c => \A i \in 1 .. CHECKSUM_SIZE : t[i] = <<i, crc>>)
  <2>1. CASE c
    <3>1. t = [i \in 1 .. 4 |-> <<i, crc>>] /\ CHECKSUM_SIZE = 4
      BY <2>1 DEF Trailer, CrcBytes, CHECKSUM_SIZE, crc
    <3> HIDE DEF t
    <3>2. \A i \in 1 .. 4 : <<i, crc>> \in B
      BY <3>1
    <3> HIDE DEF B
    <3>3. t \in [1 .. 4 -> B]
      BY <3>1, <3>2
    <3>4. PICK k \in Nat : k = 4
      OBVIOUS
    <3>5. t \in [1 .. k -> B]
      BY <3>3, <3>4
    <3>6. t \in Seq(B) /\ Len(t) = k
      BY <3>5
    <3> QED BY <2>1, <3>1, <3>4, <3>6
  <2>2. CASE ~c
    BY <2>2 DEF Trailer
  <2> QED BY <2>1, <2>2
<1> HIDE DEF B, t
<1>3. b \in Seq(B) /\ Len(b) = Len(payload) + Len(t)
      /\ \A i \in 1 .. Len(payload) + Len(t) : b[i] = IF i <= Len(payload) THEN payload[i] ELSE t[i - Len(payload)]
  BY <1>1, <1>2, ConcatProperties
<1>4. Len(t) \in Nat
  BY <1>2
<1> HIDE DEF b
<1>5. ASSUME NEW i \in 1 .. Len(payload) PROVE b[i] = payload[i]
  <2>1. i \in 1 .. Len(payload) + Len(t) /\ i <= Len(payload)
    BY <1>1, <1>4
  <2> QED BY <1>3, <2>1
<1>6. ASSUME c, NEW i \in 1 .. CHECKSUM_SIZE PROVE b[Len(payload) + i] = <<i, crc>>
  <2>1. Len(payload) + i \in 1 .. Len(payload) + Len(t) /\ ~(Len(payload) + i <= Len(payload))
        /\ (Len(payload) + i) - Len(payload) = i
    BY <1>1, <1>2, <1>6 DEF CHECKSUM_SIZE
  <2> QED BY <1>2, <1>3, <1>6, <2>1
<1> QED BY <1>2, <1>3, <1>5, <1>6 DEF b, t, B, crc

(* With a checksum, another byte in the body is refused. *)
LEMMA OtherByte ==
  ASSUME NEW w, Good(w, TRUE), NEW n \in DOMAIN w.body
  PROVE  Raised(decode([w EXCEPT !.body[n] = IF n > w.hdr.payload_length THEN <<0, n>> ELSE (@ + 128) % 256]))
<1>1. PICK h, payload :
        /\ w = [hdr |-> h, body |-> payload \o Trailer(h, payload, TRUE)]
        /\ HeaderOk(h) /\ payload \in Seq(0 .. 255) /\ Len(payload) = h.payload_length
  BY DEF Good
<1> DEFINE b == payload \o Trailer(h, payload, TRUE)
           crc == compute_crc32(<<h, payload>>)
           B == (0 .. 255) \cup {<<i, crc>> : i \in 1 .. CHECKSUM_SIZE}
           L0 == Len(payload)
           y == IF n > L0 THEN <<0, n>> ELSE (b[n] + 128) % 256
           a == [b EXCEPT ![n] = y]
<1>0. HeaderOk(h) /\ payload \in Seq(0 .. 255) /\ Len(payload) = h.payload_length
  BY <1>1
<1>2. /\ b \in Seq(B) /\ Len(b) = L0 + 4
      /\ \A i \in 1 .. L0 : b[i] = payload[i]
      /\ \A i \in 1 .. 4 : b[L0 + i] = <<i, crc>>
  <2>1. /\ b \in Seq(B) /\ Len(b) = L0 + (IF TRUE THEN CHECKSUM_SIZE ELSE 0)
        /\ \A i \in 1 .. L0 : b[i] = payload[i]
        /\ TRUE => \A i \in 1 .. CHECKSUM_SIZE : b[L0 + i] = <<i, crc>>
    BY <1>0, GoodBody, Zenon
  <2> HIDE DEF b, B, crc, L0
  <2>2. CHECKSUM_SIZE = 4
    BY DEF CHECKSUM_SIZE
  <2> QED BY <2>1, <2>2
<1>3. L0 \in Nat /\ \A i \in 1 .. L0 : payload[i] \in 0 .. 255
  <2>1. Len(payload) \in Nat /\ payload \in [1 .. Len(payload) -> 0 .. 255]
    BY <1>0, LenProperties
  <2> QED BY <2>1
<1>4. w.hdr = h /\ w.body = b /\ [w EXCEPT !.body[n] = IF n > w.hdr.payload_length THEN <<0, n>> ELSE (@ + 128) % 256]
                               = [hdr |-> h, body |-> a]
  <2>1. w = [hdr |-> h, body |-> b]
    BY <1>1
  <2>2. w.hdr = h /\ w.body = b /\ h.payload_length = L0
    BY <1>0, <2>1
  <2> HIDE DEF b, L0
  <2> QED BY <2>1, <2>2
<1> HIDE DEF b, B, L0
<1>5. n \in 1 .. L0 + 4
  BY <1>2, <1>4
<1> HIDE DEF y
<1>6. a \in Seq(B \cup {y}) /\ Len(a) = L0 + 4 /\ a[n] = y /\ \A i \in 1 .. L0 + 4 : i # n => a[i] = b[i]
  <2>1. b \in [1 .. L0 + 4 -> B]
    BY <1>2
  <2>2. a \in [1 .. L0 + 4 -> B \cup {y}] /\ a[n] = y /\ \A i \in 1 .. L0 + 4 : i # n => a[i] = b[i]
    BY <1>5, <2>1
  <2> HIDE DEF a
  <2>3. L0 + 4 \in Nat
    BY <1>3
  <2>4. a \in Seq(B \cup {y}) /\ Len(a) = L0 + 4
    BY <2>2, <2>3
  <2> QED BY <2>2, <2>4
<1> HIDE DEF a
<1> DEFINE front == SubSeq(a, 1, L0)
           back == SubSeq(a, L0 + 1, L0 + 4)
<1>7. \A i \in 1 .. L0 : front[i] = a[i]
  BY <1>3, <1>6
<1>8. \A i \in 1 .. 4 : back[i] = a[L0 + i]
  BY <1>3, <1>6
<1> HIDE DEF front, back
<1>9. ~validate_trailer(h, front, back)
  <2> SUFFICES ASSUME back = CrcBytes(<<h, front>>) PROVE FALSE
    BY DEF validate_trailer
  <2>1. \A i \in 1 .. 4 : back[i] = <<i, compute_crc32(<<h, front>>)>>
    BY DEF CrcBytes, CHECKSUM_SIZE
  <2>2. CASE n > L0
    <3>1. n - L0 \in 1 .. 4 /\ L0 + (n - L0) = n /\ n - L0 # 0
      BY <1>3, <1>5, <2>2
    <3>2. <<0, n>> = <<n - L0, compute_crc32(<<h, front>>)>>
      BY <1>6, <1>8, <2>1, <2>2, <3>1 DEF y
    <3> QED BY <3>1, <3>2
  <2>3. CASE ~(n > L0)
    <3>1. n \in 1 .. L0 /\ L0 + 1 # n /\ L0 + 1 \in 1 .. L0 + 4 /\ 1 \in 1 .. 4
      BY <1>3, <1>5, <2>3
    <3>2. <<1, crc>> = <<1, compute_crc32(<<h, front>>)>>
      BY <1>2, <1>6, <1>8, <2>1, <3>1
    <3>3. crc = compute_crc32(<<h, front>>)
      BY <3>2
    <3>4. payload = front
      BY <3>3 DEF crc, compute_crc32
    <3>5. payload[n] = y /\ y = (payload[n] + 128) % 256
      BY <1>2, <1>6, <1>7, <2>3, <3>1, <3>4 DEF y
    <3>6. payload[n] \in 0 .. 255
      BY <1>3, <3>1
    <3> QED BY <3>5, <3>6
  <2> QED BY <2>2, <2>3
<1>10. L0 = h.payload_length /\ (L0 + 4) - L0 >= 4
  BY <1>1, <1>3 DEF L0
<1> DEFINE v == [hdr |-> h, body |-> a]
<1>11. v.hdr = h /\ v.body = a
  OBVIOUS
<1> HIDE DEF v
<1>12. Raised(decode(v))
  <2>1. v.hdr.payload_length = L0 /\ Len(v.body) = L0 + 4 /\ CHECKSUM_SIZE = 4
    BY <1>6, <1>10, <1>11 DEF CHECKSUM_SIZE
  <2>2. v.hdr.payload_length \in Nat /\ Len(v.body) \in Nat
        /\ Len(v.body) - v.hdr.payload_length >= CHECKSUM_SIZE
    BY <1>3, <1>10, <2>1
  <2>3. ~validate_trailer(v.hdr, SubSeq(v.body, 1, v.hdr.payload_length),
                          SubSeq(v.body, v.hdr.payload_length + 1, v.hdr.payload_length + CHECKSUM_SIZE))
    BY <1>9, <1>11, <2>1 DEF front, back
  <2> QED BY <2>2, <2>3, BadTrailer
<1> QED BY <1>4, <1>12 DEF v

(* Another header field, or another checksum of the header, is refused. *)
LEMMA OtherHeader ==
  ASSUME NEW w, NEW c \in BOOLEAN, Good(w, c), NEW f \in HeaderFields \cup {"crc"}
  PROVE  Raised(decode([w EXCEPT !.hdr[f] =
           CASE f = "flags"   -> (@ \cup {FLAG.ERROR}) \ (@ \cap {FLAG.ERROR})
             [] f \in {"payload_length", "deadline_ms"} -> @ + 1
             [] f = "crc" -> [crc |-> @]
             [] OTHER -> None]))
<1>1. PICK h, payload :
        /\ w = [hdr |-> h, body |-> payload \o Trailer(h, payload, c)]
        /\ HeaderOk(h) /\ payload \in Seq(0 .. 255) /\ Len(payload) = h.payload_length
  BY DEF Good
<1> DEFINE x == CASE f = "flags"   -> (h[f] \cup {FLAG.ERROR}) \ (h[f] \cap {FLAG.ERROR})
                  [] f \in {"payload_length", "deadline_ms"} -> h[f] + 1
                  [] f = "crc" -> [crc |-> h[f]]
                  [] OTHER -> None
           g == [h EXCEPT ![f] = x]
           b == payload \o Trailer(h, payload, c)
           v == [w EXCEPT !.hdr[f] =
                   CASE f = "flags"   -> (@ \cup {FLAG.ERROR}) \ (@ \cap {FLAG.ERROR})
                     [] f \in {"payload_length", "deadline_ms"} -> @ + 1
                     [] f = "crc" -> [crc |-> @]
                     [] OTHER -> None]
<1>2. v.hdr = g
  <2>1. w = [hdr |-> h, body |-> b]
    BY <1>1
  <2> HIDE DEF b
  <2>2. w.hdr = h /\ "hdr" \in DOMAIN w
    BY <2>1
  <2> QED BY <2>2
<1>3. ~validate_header(g)
  <2>0. HeaderOk(h)
    BY <1>1
  <2>1. CASE f = "crc"
    <3>1. x = [crc |-> h.crc]
      BY <2>1
    <3> QED BY <2>0, <2>1, <3>1, OtherCrc
  <2>2. CASE f # "crc"
    <3>1. f \in HeaderFields
      BY <2>2
    <3>2. /\ None \notin {h.magic, h.version, h.message_id, h.correlation_id}
          /\ h.deadline_ms \in Int /\ h.payload_length \in Nat
      BY <2>0 DEF HeaderOk
    <3>3. x # h[f]
      <4>1. CASE f = "flags"
        <5>1. x = (h[f] \cup {FLAG.ERROR}) \ (h[f] \cap {FLAG.ERROR})
          BY <4>1
        <5> QED BY <5>1, Zenon
      <4>2. CASE f \in {"payload_length", "deadline_ms"}
        BY <3>2, <4>2
      <4>3. CASE f \in {"magic", "version", "message_id", "correlation_id"}
        <5>1. x = None
          BY <4>3
        <5> QED BY <3>2, <4>3, <5>1
      <4> QED BY <3>1, <4>1, <4>2, <4>3 DEF HeaderFields
    <3> HIDE DEF x
    <3> QED BY <2>0, <3>1, <3>3, OtherField
  <2> QED BY <2>1, <2>2
<1> HIDE DEF v, g
<1>4. Raised(decode(v))
  BY <1>2, <1>3, BadHeader
<1> QED BY <1>4 DEF v

(* A packet cut short is refused, unless it lost its trailer and nothing   *)
(* else.                                                                   *)
LEMMA CutShort ==
  ASSUME NEW w, NEW c \in BOOLEAN, Good(w, c), NEW n \in Nat, n < Len(w.body)
  PROVE  LET v == [w EXCEPT !.body = SubSeq(@, 1, n)]
         IN  Raised(decode(v)) \/ (c /\ Len(v.body) = v.hdr.payload_length)
<1>1. PICK h, payload :
        /\ w = [hdr |-> h, body |-> payload \o Trailer(h, payload, c)]
        /\ HeaderOk(h) /\ payload \in Seq(0 .. 255) /\ Len(payload) = h.payload_length
  BY DEF Good
<1> DEFINE b == payload \o Trailer(h, payload, c)
           B == (0 .. 255) \cup {<<i, compute_crc32(<<h, payload>>)>> : i \in 1 .. CHECKSUM_SIZE}
           v == [w EXCEPT !.body = SubSeq(@, 1, n)]
<1>2. b \in Seq(B) /\ Len(b) = Len(payload) + (IF c THEN CHECKSUM_SIZE ELSE 0)
  <2>1. HeaderOk(h) /\ payload \in Seq(0 .. 255) /\ Len(payload) = h.payload_length
    BY <1>1
  <2>2. /\ b \in Seq(B) /\ Len(b) = Len(payload) + (IF c THEN CHECKSUM_SIZE ELSE 0)
        /\ \A i \in 1 .. Len(payload) : b[i] = payload[i]
        /\ c => \A i \in 1 .. CHECKSUM_SIZE : b[Len(payload) + i] = <<i, compute_crc32(<<h, payload>>)>>
    BY <2>1, GoodBody, Zenon
  <2> HIDE DEF b, B
  <2> QED BY <2>2
<1>3. w = [hdr |-> h, body |-> b]
  BY <1>1
<1>4. Len(payload) \in Nat /\ Len(payload) = h.payload_length
  BY <1>1, LenProperties
<1> HIDE DEF b, B
<1>5. w.body = b /\ v.hdr = h /\ v.body = SubSeq(b, 1, n)
  BY <1>3
<1>6. Len(SubSeq(b, 1, n)) = n
  <2>1. n \in 0 .. Len(b)
    BY <1>2, <1>5
  <2> QED BY <1>2, <2>1
<1> HIDE DEF v
<1>7. CASE n < Len(payload)
  <2>1. Len(v.body) - v.hdr.payload_length \in Int /\ Len(v.body) - v.hdr.payload_length < CHECKSUM_SIZE
        /\ Len(v.body) - v.hdr.payload_length # 0
    BY <1>4, <1>5, <1>6, <1>7 DEF CHECKSUM_SIZE
  <2>2. Raised(decode(v))
    BY <2>1, BadLength
  <2> QED BY <2>2 DEF v
<1>8. CASE n >= Len(payload)
  <2>1. c
    BY <1>2, <1>4, <1>5, <1>8
  <2>2. Len(b) = Len(payload) + 4
    BY <1>2, <2>1 DEF CHECKSUM_SIZE
  <2>3. CASE n = Len(payload)
    BY <1>4, <1>5, <1>6, <2>1, <2>3 DEF v
  <2>4. CASE n # Len(payload)
    <3>1. Len(v.body) - v.hdr.payload_length \in Int /\ Len(v.body) - v.hdr.payload_length < CHECKSUM_SIZE
          /\ Len(v.body) - v.hdr.payload_length # 0
      BY <1>4, <1>5, <1>6, <1>8, <2>2, <2>4 DEF CHECKSUM_SIZE
    <3>2. Raised(decode(v))
      BY <3>1, BadLength
    <3> QED BY <3>2 DEF v
  <2> QED BY <2>3, <2>4
<1> QED BY <1>4, <1>7, <1>8

(* Without a checksum, bytes that follow are refused. *)
LEMMA Followed ==
  ASSUME NEW w, Good(w, FALSE), NEW n \in Nat \ {0}
  PROVE  Raised(decode([w EXCEPT !.body = @ \o [i \in 1 .. n |-> <<0, i>>]]))
<1>1. PICK h, payload :
        /\ w = [hdr |-> h, body |-> payload \o Trailer(h, payload, FALSE)]
        /\ HeaderOk(h) /\ payload \in Seq(0 .. 255) /\ Len(payload) = h.payload_length
  BY DEF Good
<1> DEFINE more == [i \in 1 .. n |-> <<0, i>>]
           v == [w EXCEPT !.body = @ \o more]
           a == payload \o more
           B == (0 .. 255) \cup {<<0, i>> : i \in 1 .. n}
<1>2. Len(payload) \in Nat /\ Len(payload) = h.payload_length /\ payload \in Seq(B)
  BY <1>1, LenProperties, SeqMonotonic
<1>3. payload \o Trailer(h, payload, FALSE) = payload
  <2>1. Trailer(h, payload, FALSE) = << >>
    BY DEF Trailer
  <2> QED BY <1>1, <2>1, ConcatEmptySeq
<1>4. v.hdr = h /\ v.body = a
  <2> HIDE DEF more
  <2>1. w = [hdr |-> h, body |-> payload]
    BY <1>1, <1>3
  <2> QED BY <2>1
<1>5. more \in Seq(B) /\ Len(more) = n /\ \A i \in 1 .. n : more[i] = <<0, i>>
  <2>1. \A i \in 1 .. n : <<0, i>> \in B
    OBVIOUS
  <2> HIDE DEF B
  <2>2. more \in [1 .. n -> B] /\ \A i \in 1 .. n : more[i] = <<0, i>>
    BY <2>1
  <2> HIDE DEF more
  <2> QED BY <2>2
<1> HIDE DEF more, v, B
<1>6. a \in Seq(B) /\ Len(a) = Len(payload) + n
      /\ \A i \in 1 .. Len(payload) + n : a[i] = IF i <= Len(payload) THEN payload[i] ELSE more[i - Len(payload)]
  BY <1>2, <1>5, ConcatProperties
<1> HIDE DEF a
<1>7. CASE n < 4
  <2>1. Len(v.body) - v.hdr.payload_length \in Int /\ Len(v.body) - v.hdr.payload_length < CHECKSUM_SIZE
        /\ Len(v.body) - v.hdr.payload_length # 0
    BY <1>2, <1>4, <1>6, <1>7 DEF CHECKSUM_SIZE
  <2>2. Raised(decode(v))
    BY <2>1, BadLength
  <2> QED BY <2>2 DEF v, more
<1>8. CASE n >= 4
  <2> DEFINE L0 == Len(payload)
             back == SubSeq(a, L0 + 1, L0 + 4)
  <2>1. a[L0 + 1] = <<0, 1>>
    <3>1. L0 + 1 \in 1 .. L0 + n /\ ~(L0 + 1 <= L0) /\ (L0 + 1) - L0 = 1 /\ 1 \in 1 .. n
      BY <1>2, <1>8
    <3> QED BY <1>5, <1>6, <3>1
  <2>2. back[1] = a[L0 + 1]
    <3>1. L0 \in Nat /\ L0 + 4 <= Len(a)
      BY <1>2, <1>6, <1>8
    <3> HIDE DEF L0
    <3> QED BY <1>6, <3>1
  <2> HIDE DEF back
  <2>3. ASSUME NEW x PROVE back # CrcBytes(x)
    <3>1. CrcBytes(x)[1] = <<1, compute_crc32(x)>>
      BY DEF CrcBytes, CHECKSUM_SIZE
    <3> QED BY <2>1, <2>2, <3>1
  <2>4. v.hdr.payload_length = L0 /\ Len(v.body) = L0 + n /\ CHECKSUM_SIZE = 4 /\ L0 \in Nat
    BY <1>2, <1>4, <1>6 DEF CHECKSUM_SIZE
  <2>5. v.hdr.payload_length \in Nat /\ Len(v.body) \in Nat
        /\ Len(v.body) - v.hdr.payload_length >= CHECKSUM_SIZE
    BY <1>8, <2>4
  <2>6. ~validate_trailer(v.hdr, SubSeq(v.body, 1, v.hdr.payload_length),
                          SubSeq(v.body, v.hdr.payload_length + 1, v.hdr.payload_length + CHECKSUM_SIZE))
    BY <1>4, <2>3, <2>4 DEF validate_trailer, back
  <2>7. Raised(decode(v))
    BY <2>5, <2>6, BadTrailer
  <2> QED BY <2>7 DEF v, more
<1> QED BY <1>7, <1>8

----------------------------------------------------------------------------
(* Damage that decode notices, or that it cannot. *)
Noticed ==
  \/ Raised(decode(wire))
  \/ damage = "cut" /\ checksum /\ Len(wire.body) = wire.hdr.payload_length
  \/ damage = "altered" /\ ~checksum /\ wire.hdr.crc = compute_crc32([f \in HeaderFields |-> wire.hdr[f]])
  \/ damage = "followed" /\ checksum

(* The inductive invariant: until it is damaged, what encode accepted is   *)
(* a good packet for the checksum that was asked for; after one damage,    *)
(* decode would notice or could not; and what decode returned is still     *)
(* what it would return, since nothing touches the bytes after it.         *)
DamageInv ==
  /\ checksum \in BOOLEAN
  /\ pkt = None => wire = None /\ view = None /\ damage = "none"
  /\ view # None => view = decode(wire)
  /\ wire # None /\ ~Raised(wire) /\ damage = "none" => Good(wire, checksum)
  /\ damage # "none" => Noticed

(* A damaged packet has a header that fits the one before. *)
LEMMA BytesLeaveHeader ==
  ASSUME NEW w, NEW c \in BOOLEAN, Good(w, c), NEW n, NEW x
  PROVE  LET v == [w EXCEPT !.body[n] = x]
         IN  v.hdr.crc = compute_crc32([f \in HeaderFields |-> v.hdr[f]])
<1>1. PICK h, payload :
        /\ w = [hdr |-> h, body |-> payload \o Trailer(h, payload, c)]
        /\ HeaderOk(h) /\ payload \in Seq(0 .. 255) /\ Len(payload) = h.payload_length
  BY DEF Good
<1> DEFINE b == payload \o Trailer(h, payload, c)
           v == [w EXCEPT !.body[n] = x]
<1>2. w = [hdr |-> h, body |-> b] /\ h.crc = compute_crc32([f \in HeaderFields |-> h[f]])
  BY <1>1 DEF HeaderOk
<1> HIDE DEF b
<1>3. v.hdr = h
  BY <1>2
<1> HIDE DEF v
<1>4. v.hdr.crc = compute_crc32([f \in HeaderFields |-> v.hdr[f]])
  BY <1>2, <1>3
<1> QED BY <1>4 DEF v

LEMMA GoodLength ==
  ASSUME NEW w, NEW c \in BOOLEAN, Good(w, c)
  PROVE  Len(w.body) \in Nat
<1>1. PICK h, payload :
        /\ w = [hdr |-> h, body |-> payload \o Trailer(h, payload, c)]
        /\ HeaderOk(h) /\ payload \in Seq(0 .. 255) /\ Len(payload) = h.payload_length
  BY DEF Good
<1> DEFINE b == payload \o Trailer(h, payload, c)
           B == (0 .. 255) \cup {<<i, compute_crc32(<<h, payload>>)>> : i \in 1 .. CHECKSUM_SIZE}
<1>2. HeaderOk(h) /\ payload \in Seq(0 .. 255) /\ Len(payload) = h.payload_length
  BY <1>1
<1>3. /\ b \in Seq(B) /\ Len(b) = Len(payload) + (IF c THEN CHECKSUM_SIZE ELSE 0)
      /\ \A i \in 1 .. Len(payload) : b[i] = payload[i]
      /\ c => \A i \in 1 .. CHECKSUM_SIZE : b[Len(payload) + i] = <<i, compute_crc32(<<h, payload>>)>>
  BY <1>2, GoodBody, Zenon
<1>4. w.body = b
  BY <1>1
<1> HIDE DEF b, B
<1> QED BY <1>3, <1>4, LenProperties

LEMMA DamageStep == DamageInv /\ [Next]_vars => DamageInv'
<1> SUFFICES ASSUME DamageInv, [Next]_vars PROVE DamageInv'
  OBVIOUS
<1>1. ASSUME NEW p \in Packets, NEW c \in BOOLEAN, Encode(p, c) PROVE DamageInv'
  <2>1. pkt' = p /\ checksum' = c /\ wire' = encode(p, c) /\ view' = view /\ damage' = damage
    BY <1>1 DEF Encode
  <2>2. p # None /\ view = None /\ damage = "none"
    BY <1>1, NoneAssumption DEF DamageInv, Encode
  <2>3. ~Raised(wire') => Good(wire', c)
    BY <2>1, EncodeIsGood
  <2> QED BY <2>1, <2>2, <2>3 DEF DamageInv
<1>2. ASSUME OnTheWire, NEW w, wire' = w, view' = view, checksum' = checksum, pkt' = pkt,
             NEW d \in {"cut", "altered", "followed"}, damage' = d,
             \/ Raised(decode(w))
             \/ d = "cut" /\ checksum /\ Len(w.body) = w.hdr.payload_length
             \/ d = "altered" /\ ~checksum /\ w.hdr.crc = compute_crc32([f \in HeaderFields |-> w.hdr[f]])
             \/ d = "followed" /\ checksum
      PROVE  DamageInv'
  BY <1>2 DEF DamageInv, OnTheWire, Noticed
<1>3. OnTheWire => Good(wire, checksum) /\ checksum \in BOOLEAN
  BY DEF DamageInv, OnTheWire
<1>4. ASSUME CutHeader PROVE DamageInv'
  <2> DEFINE w == [hdr |-> None, body |-> << >>]
  <2>1. w.hdr = None
    OBVIOUS
  <2>2. OnTheWire /\ wire' = w /\ damage' = "cut" /\ UNCHANGED <<pkt, checksum, view>>
    BY <1>4 DEF CutHeader
  <2> HIDE DEF w
  <2>3. Raised(decode(w))
    BY <2>1, BadHeader
  <2> QED BY <1>2, <2>2, <2>3
<1>5. ASSUME NEW n \in 0 .. Len(wire.body), Len(wire.body) \in Nat, Cut(n) PROVE DamageInv'
  <2> DEFINE w == [wire EXCEPT !.body = SubSeq(@, 1, n)]
  <2>1. OnTheWire /\ wire' = w /\ damage' = "cut" /\ UNCHANGED <<pkt, checksum, view>>
    BY <1>5 DEF Cut
  <2>2. n \in Nat /\ n < Len(wire.body) /\ Good(wire, checksum) /\ checksum \in BOOLEAN
    BY <1>3, <1>5 DEF Cut
  <2>3. Raised(decode(w)) \/ (checksum /\ Len(w.body) = w.hdr.payload_length)
    BY <2>2, CutShort
  <2> HIDE DEF w
  <2> QED BY <1>2, <2>1, <2>3
<1>6. ASSUME NEW n, Alter(n) PROVE DamageInv'
  <2> DEFINE x == IF n > wire.hdr.payload_length THEN <<0, n>> ELSE (wire.body[n] + 128) % 256
             w == [wire EXCEPT !.body[n] = IF n > wire.hdr.payload_length THEN <<0, n>> ELSE (@ + 128) % 256]
             u == [wire EXCEPT !.body[n] = x]
  <2>1. OnTheWire /\ wire' = w /\ damage' = "altered" /\ UNCHANGED <<pkt, checksum, view>> /\ n \in DOMAIN wire.body
    BY <1>6 DEF Alter
  <2>2. Good(wire, checksum) /\ checksum \in BOOLEAN
    BY <1>3, <2>1
  <2>3. CASE checksum
    <3>1. Raised(decode(w))
      BY <2>1, <2>2, <2>3, OtherByte
    <3> HIDE DEF w
    <3> QED BY <1>2, <2>1, <3>1
  <2>4. CASE ~checksum
    <3>1. w = u
      OBVIOUS
    <3>2. u.hdr.crc = compute_crc32([f \in HeaderFields |-> u.hdr[f]])
      <4> HIDE DEF x
      <4> QED BY <2>2, BytesLeaveHeader
    <3> HIDE DEF w, u
    <3> QED BY <1>2, <2>1, <2>4, <3>1, <3>2
  <2> QED BY <2>3, <2>4
<1>7. ASSUME NEW f \in HeaderFields \cup {"crc"}, AlterHeader(f) PROVE DamageInv'
  <2> DEFINE w == [wire EXCEPT !.hdr[f] =
                     CASE f = "flags"   -> (@ \cup {FLAG.ERROR}) \ (@ \cap {FLAG.ERROR})
                       [] f \in {"payload_length", "deadline_ms"} -> @ + 1
                       [] f = "crc" -> [crc |-> @]
                       [] OTHER -> None]
  <2>1. OnTheWire /\ wire' = w /\ damage' = "altered" /\ UNCHANGED <<pkt, checksum, view>>
    BY <1>7 DEF AlterHeader
  <2>2. Raised(decode(w))
    BY <1>3, <2>1, OtherHeader
  <2> HIDE DEF w
  <2> QED BY <1>2, <2>1, <2>2
<1>8. ASSUME NEW n \in 1 .. CHECKSUM_SIZE + 1, Follow(n) PROVE DamageInv'
  <2> DEFINE w == [wire EXCEPT !.body = @ \o [i \in 1 .. n |-> <<0, i>>]]
  <2>1. OnTheWire /\ wire' = w /\ damage' = "followed" /\ UNCHANGED <<pkt, checksum, view>>
    BY <1>8 DEF Follow
  <2>2. n \in Nat \ {0}
    BY DEF CHECKSUM_SIZE
  <2>3. CASE checksum
    <3> HIDE DEF w
    <3> QED BY <1>2, <2>1, <2>3
  <2>4. CASE ~checksum
    <3>1. checksum = FALSE /\ Good(wire, FALSE)
      BY <1>3, <2>1, <2>4
    <3>2. Raised(decode(w))
      BY <2>2, <3>1, Followed
    <3> HIDE DEF w
    <3> QED BY <1>2, <2>1, <3>2
  <2> QED BY <2>3, <2>4
<1>9. ASSUME Decode PROVE DamageInv'
  BY <1>9 DEF Decode, DamageInv, Noticed
<1>10. ASSUME Done PROVE DamageInv'
  BY <1>10 DEF Done, DamageInv
<1>11. ASSUME UNCHANGED vars PROVE DamageInv'
  BY <1>11 DEF DamageInv, Noticed, vars
<1>12. ASSUME Damage PROVE DamageInv'
  <2>1. CASE OnTheWire /\ \E n \in 0 .. Len(wire.body) : Cut(n) \/ Alter(n)
    <3>1. PICK n \in 0 .. Len(wire.body) : Cut(n) \/ Alter(n)
      BY <2>1
    <3>2. Len(wire.body) \in Nat
      <4>1. Good(wire, checksum) /\ checksum \in BOOLEAN
        BY <1>3, <2>1
      <4> QED BY <4>1, GoodLength
    <3> QED BY <1>5, <1>6, <3>1, <3>2
  <2> QED BY <1>4, <1>7, <1>8, <1>12, <2>1 DEF Damage
<1> QED BY <1>1, <1>9, <1>10, <1>11, <1>12 DEF Next, Direct

(* DamageNoticed holds for every set of packets and every limit: damage of *)
(* any kind the model knows is refused by decode but for the exceptions    *)
(* the property names (codec_api.py decode, header.py validate_header).    *)
THEOREM DamageIsNoticed == Spec => []DamageNoticed
<1>1. Init => DamageInv
  BY DEF Init, DamageInv
<1>2. DamageInv => DamageNoticed
  BY DEF DamageInv, DamageNoticed, Noticed
<1> QED BY <1>1, <1>2, DamageStep, PTL DEF Spec

----------------------------------------------------------------------------
(* What is left of a number after i - 1 bytes of seven bits. *)
Rest7(n, i) == n \div Weight[i]
Groups(n)   == Least({k \in 1 .. _MAX_BYTES : Rest7(n, k) <= 127} \cup {_MAX_BYTES})

LEMMA Weights == _MAX_BYTES = 4 /\ Weight[1] = 1 /\ Weight[2] = 128 /\ Weight[3] = 16384 /\ Weight[4] = 2097152
BY SMT DEF _MAX_BYTES, Weight

LEMMA RestIsNat ==
  ASSUME NEW n \in Nat, NEW i \in 1 .. 4
  PROVE  Rest7(n, i) \in Nat
<1>1. n \div 1 \in Nat /\ n \div 128 \in Nat /\ n \div 16384 \in Nat /\ n \div 2097152 \in Nat
  BY SMT
<1>2. i = 1 \/ i = 2 \/ i = 3 \/ i = 4
  BY SMT
<1> QED BY <1>1, <1>2, Weights, SMT DEF Rest7

(* The bytes before the last have more to come, and the last has not       *)
(* unless the number is too large.                                         *)
LEMMA GroupsOf ==
  ASSUME NEW n \in Nat
  PROVE  /\ Groups(n) \in 1 .. 4
         /\ \A j \in 1 .. Groups(n) - 1 : Rest7(n, j) > 127
         /\ Rest7(n, Groups(n)) <= 127 \/ Groups(n) = 4
<1> DEFINE S == {k \in 1 .. 4 : Rest7(n, k) <= 127} \cup {4}
           g == Groups(n)
<1>1. g = Least(S)
  BY Weights, SMT DEF Groups
<1>2. S \subseteq Nat /\ S # {}
  BY SMT
<1>3. \E x \in S : \A y \in S : x <= y
  BY <1>2, LeastNatural, SMT
<1>4. g \in S /\ \A y \in S : g <= y
  BY <1>1, <1>3, SMT DEF Least
<1>5. g \in 1 .. 4
  BY <1>4, SMT
<1>6. ASSUME NEW j \in 1 .. g - 1 PROVE Rest7(n, j) > 127
  <2>1. j \in 1 .. 4 /\ ~(g <= j)
    BY <1>5, SMT
  <2>2. ~(Rest7(n, j) <= 127)
    BY <1>4, <2>1, SMT
  <2> QED BY <2>1, <2>2, RestIsNat, SMT
<1> QED BY <1>4, <1>5, <1>6, SMT

LEMMA VarintBytes ==
  ASSUME NEW n \in Nat
  PROVE  LET d == encode_varint(n) \o <<0>>
         IN  /\ Len(d) = Groups(n) + 1
             /\ \A i \in 1 .. Groups(n) : d[i] = (Rest7(n, i) % 128) + (IF Rest7(n, i) > 127 THEN 128 ELSE 0)
<1> DEFINE g == Groups(n)
           Byte(i) == (Rest7(n, i) % 128) + (IF Rest7(n, i) > 127 THEN 128 ELSE 0)
           e == encode_varint(n)
           d == e \o <<0>>
<1>1. g \in 1 .. 4 /\ g \in Nat
  BY GroupsOf, SMT
<1>2. e = [i \in 1 .. g |-> Byte(i)]
  BY SMT DEF encode_varint, Groups, Rest7
<1>3. \A i \in 1 .. g : Byte(i) \in Nat
  <2> SUFFICES ASSUME NEW i \in 1 .. g PROVE Byte(i) \in Nat
    BY SMT
  <2>0. i \in 1 .. 4
    BY <1>1
  <2>1. Rest7(n, i) \in Nat
    BY <2>0, RestIsNat
  <2> QED BY <2>1, SMT
<1> HIDE DEF e, g, Byte
<1>4. e \in [1 .. g -> Nat] /\ \A i \in 1 .. g : e[i] = Byte(i)
  BY <1>2, <1>3, SMT
<1>5. e \in Seq(Nat) /\ Len(e) = g
  BY <1>1, <1>4, SMT
<1>6. <<0>> \in Seq(Nat) /\ Len(<<0>>) = 1
  BY SMT
<1>7. Len(d) = g + 1 /\ \A i \in 1 .. g : d[i] = e[i]
  BY <1>1, <1>5, <1>6, ConcatProperties, SMT
<1> QED BY <1>4, <1>7 DEF g, e, Byte

(* encode_varint and decode_varint over every number. *)
LEMMA VarintOf ==
  ASSUME NEW n \in Nat
  PROVE  LET r == decode_varint(encode_varint(n) \o <<0>>, 1)
         IN  IF n < 268435456 THEN r = [v |-> n, pos |-> Groups(n) + 1] ELSE Raised(r)
<1> DEFINE g == Groups(n)
           d == encode_varint(n) \o <<0>>
           Ends(i) == 1 + i - 1 <= Len(d) /\ d[1 + i - 1] < 128
           stop == CHOOSE i \in 1 .. _MAX_BYTES : Ends(i) /\ \A j \in 1 .. i - 1 : ~Ends(j)
           Part(i) == IF i <= stop THEN (d[1 + i - 1] % 128) * Weight[i] ELSE 0
           r == decode_varint(d, 1)
<1>1. /\ g \in 1 .. 4
      /\ \A j \in 1 .. g - 1 : Rest7(n, j) > 127
      /\ Rest7(n, g) <= 127 \/ g = 4
  BY GroupsOf, SMT
<1>2. /\ Len(d) = g + 1
      /\ \A i \in 1 .. g : d[i] = (Rest7(n, i) % 128) + (IF Rest7(n, i) > 127 THEN 128 ELSE 0)
  BY VarintBytes, Zenon
<1>3. r = IF \E i \in 1 .. _MAX_BYTES : Ends(i)
          THEN [v |-> Part(1) + Part(2) + Part(3) + Part(4), pos |-> 1 + stop]
          ELSE Raise(IF 1 + _MAX_BYTES - 1 > Len(d) THEN "varint truncated" ELSE "varint > 4 bytes")
  BY SMT DEF decode_varint
<1> HIDE DEF g, d, r
<1>4. \A i \in 1 .. g : Rest7(n, i) \in Nat /\ 1 + i - 1 = i /\ i <= Len(d)
  <2> SUFFICES ASSUME NEW i \in 1 .. g PROVE Rest7(n, i) \in Nat /\ 1 + i - 1 = i /\ i <= Len(d)
    OBVIOUS
  <2>1. i \in 1 .. 4 /\ 1 + i - 1 = i /\ i <= Len(d)
    BY <1>1, <1>2
  <2> QED BY <2>1, RestIsNat
<1>5. \A i \in 1 .. g : Ends(i) <=> Rest7(n, i) <= 127
  <2> SUFFICES ASSUME NEW i \in 1 .. g PROVE Ends(i) <=> Rest7(n, i) <= 127
    BY SMT
  <2>1. Rest7(n, i) \in Nat /\ 1 + i - 1 = i /\ i <= Len(d) /\ d[i] = (Rest7(n, i) % 128) + (IF Rest7(n, i) > 127 THEN 128 ELSE 0)
    BY <1>2, <1>4, SMT
  <2> QED BY <2>1, SMT
<1>6. \A j \in 1 .. g - 1 : ~Ends(j)
  <2> SUFFICES ASSUME NEW j \in 1 .. g - 1 PROVE ~Ends(j)
    BY SMT
  <2>1. j \in 1 .. g /\ Rest7(n, j) > 127 /\ Rest7(n, j) \in Nat
    BY <1>1, <1>4, SMT
  <2>2. ~(Rest7(n, j) <= 127)
    BY <2>1, SMT
  <2> HIDE DEF Ends
  <2> QED BY <1>5, <2>1, <2>2, SMT
<1>7. Rest7(n, 4) <= 127 <=> n < 268435456
  <2>1. Rest7(n, 4) = n \div 2097152
    BY Weights, SMT DEF Rest7
  <2> QED BY <2>1, SMT
<1>8. CASE n >= 268435456
  <2>1. g = 4
    <3>1. Rest7(n, 1) > 127 /\ Rest7(n, 2) > 127 /\ Rest7(n, 3) > 127
      <4>1. Rest7(n, 1) = n \div 1 /\ Rest7(n, 2) = n \div 128 /\ Rest7(n, 3) = n \div 16384
        BY Weights, SMT DEF Rest7
      <4> QED BY <1>8, <4>1, SMT
    <3>2. g = 1 \/ g = 2 \/ g = 3 \/ g = 4
      BY <1>1, SMT
    <3> QED BY <1>1, <3>1, <3>2, RestIsNat, SMT
  <2>2. \A i \in 1 .. 4 : ~Ends(i)
    <3> SUFFICES ASSUME NEW i \in 1 .. 4 PROVE ~Ends(i)
      BY SMT
    <3> HIDE DEF Ends
    <3>1. CASE i = 4
      BY <1>5, <1>7, <1>8, <2>1, <3>1, SMT
    <3>2. CASE i # 4
      BY <1>6, <2>1, <3>2, SMT
    <3> QED BY <3>1, <3>2, SMT
  <2> HIDE DEF Ends, stop, Part
  <2>3. _MAX_BYTES = 4
    BY Weights
  <2>4. r = Raise(IF 1 + _MAX_BYTES - 1 > Len(d) THEN "varint truncated" ELSE "varint > 4 bytes")
    <3>1. ~\E i \in 1 .. _MAX_BYTES : Ends(i)
      BY <2>2, <2>3, Zenon
    <3> QED BY <1>3, <3>1, Zenon
  <2>5. Raised(r)
    BY <2>4, Zenon DEF Raised, Raise
  <2> QED BY <1>8, <2>5, SMT DEF r, d
<1>9. CASE n < 268435456
  <2>1. Rest7(n, g) <= 127
    BY <1>1, <1>7, <1>9, SMT
  <2>2. Ends(g)
    <3> HIDE DEF Ends
    <3> QED BY <1>1, <1>5, <2>1, SMT
  <2>3. stop = g
    <3> HIDE DEF Ends
    <3>1. \A i \in 1 .. 4 : Ends(i) /\ (\A j \in 1 .. i - 1 : ~Ends(j)) => i = g
      <4> SUFFICES ASSUME NEW i \in 1 .. 4, Ends(i), \A j \in 1 .. i - 1 : ~Ends(j) PROVE i = g
        BY SMT
      <4>1. ~(i < g)
        BY <1>1, <1>6, SMT
      <4>2. ~(g < i)
        BY <1>1, <2>2, SMT
      <4> QED BY <1>1, <4>1, <4>2, SMT
    <3>2. g \in 1 .. _MAX_BYTES /\ Ends(g) /\ \A j \in 1 .. g - 1 : ~Ends(j)
      BY <1>1, <1>6, <2>2, Weights, SMT
    <3>3. _MAX_BYTES = 4
      BY Weights, SMT
    <3> QED BY <3>1, <3>2, <3>3, SMT
  <2>4. r = [v |-> Part(1) + Part(2) + Part(3) + Part(4), pos |-> 1 + g]
    <3> HIDE DEF Ends, Part, stop
    <3>1. g \in 1 .. _MAX_BYTES
      <4>1. _MAX_BYTES = 4
        BY Weights
      <4> QED BY <1>1, <4>1
    <3>2. \E i \in 1 .. _MAX_BYTES : Ends(i)
      BY <2>2, <3>1, Zenon
    <3> QED BY <1>3, <2>3, <3>2, Zenon
  <2>5. \A i \in 1 .. 4 : Part(i) = IF i <= g THEN (Rest7(n, i) % 128) * Weight[i] ELSE 0
    <3> HIDE DEF stop, Ends
    <3> SUFFICES ASSUME NEW i \in 1 .. 4 PROVE Part(i) = IF i <= g THEN (Rest7(n, i) % 128) * Weight[i] ELSE 0
      BY SMT
    <3>1. CASE i <= g
      <4>1. i \in 1 .. g
        BY <1>1, <3>1, SMT
      <4>2. Rest7(n, i) \in Nat /\ 1 + i - 1 = i /\ d[i] = (Rest7(n, i) % 128) + (IF Rest7(n, i) > 127 THEN 128 ELSE 0)
        BY <1>2, <1>4, <4>1, SMT
      <4>3. d[1 + i - 1] % 128 = Rest7(n, i) % 128
        BY <4>2, SMT
      <4> QED BY <2>3, <3>1, <4>3, SMT
    <3>2. CASE ~(i <= g)
      BY <2>3, <3>2, SMT
    <3> QED BY <3>1, <3>2, SMT
  <2> HIDE DEF Ends, stop, Part
  <2>6. /\ Part(1) = (n % 128)
        /\ Part(2) = IF 2 <= g THEN ((n \div 128) % 128) * 128 ELSE 0
        /\ Part(3) = IF 3 <= g THEN ((n \div 16384) % 128) * 16384 ELSE 0
        /\ Part(4) = IF 4 <= g THEN ((n \div 2097152) % 128) * 2097152 ELSE 0
    <3>1. Rest7(n, 1) = n /\ Rest7(n, 2) = n \div 128 /\ Rest7(n, 3) = n \div 16384 /\ Rest7(n, 4) = n \div 2097152
      <4>1. n \div 1 = n
        BY SMT
      <4> QED BY <4>1, Weights, SMT DEF Rest7
    <3>2. 1 <= g /\ n % 128 \in Int
      BY <1>1, SMT
    <3> QED BY <2>5, <3>1, <3>2, Weights, SMT
  <2>7. (g = 1 /\ n <= 127) \/ (g = 2 /\ n \div 128 <= 127) \/ (g = 3 /\ n \div 16384 <= 127) \/ (g = 4 /\ n \div 2097152 <= 127)
    <3>1. Rest7(n, 1) = n /\ Rest7(n, 2) = n \div 128 /\ Rest7(n, 3) = n \div 16384 /\ Rest7(n, 4) = n \div 2097152
      <4>1. n \div 1 = n
        BY SMT
      <4> QED BY <4>1, Weights, SMT DEF Rest7
    <3>2. g = 1 \/ g = 2 \/ g = 3 \/ g = 4
      BY <1>1, SMT
    <3> QED BY <2>1, <3>1, <3>2, SMT
  <2>8. Part(1) + Part(2) + Part(3) + Part(4) = n
    <3>1. CASE g = 1
      BY <2>6, <2>7, <3>1, SMT
    <3>2. CASE g = 2
      BY <2>6, <2>7, <3>2, SMT
    <3>3. CASE g = 3
      BY <2>6, <2>7, <3>3, SMT
    <3>4. CASE g = 4
      <4> DEFINE q1 == n \div 128
                 q2 == q1 \div 128
                 q3 == q2 \div 128
      <4>1. q1 \in Nat /\ n = 128 * q1 + (n % 128)
        BY SMT
      <4> HIDE DEF q1
      <4>2. q2 \in Nat /\ q1 = 128 * q2 + (q1 % 128)
        BY <4>1, SMT
      <4> HIDE DEF q2
      <4>3. q3 \in Nat /\ q2 = 128 * q3 + (q2 % 128)
        BY <4>2, SMT
      <4> HIDE DEF q3
      <4>4. n \div 16384 = q2
        BY SMT DEF q1, q2
      <4>5. n \div 2097152 = q3
        BY SMT DEF q1, q2, q3
      <4>6. q3 % 128 = q3
        BY <2>7, <3>4, <4>3, <4>5, SMT
      <4>7. Part(1) = n % 128 /\ Part(2) = (q1 % 128) * 128 /\ Part(3) = (q2 % 128) * 16384 /\ Part(4) = q3 * 2097152
        BY <2>6, <3>4, <4>4, <4>5, <4>6, SMT DEF q1
      <4>8. n % 128 \in Int /\ q1 % 128 \in Int /\ q2 % 128 \in Int
        BY <4>1, <4>2, SMT
      <4> QED BY <4>1, <4>2, <4>3, <4>7, <4>8, SMT
    <3> QED BY <2>7, <3>1, <3>2, <3>3, <3>4, SMT
  <2>9. r = [v |-> n, pos |-> g + 1]
    BY <1>1, <2>4, <2>8, SMT
  <2> QED BY <1>9, <2>9, SMT DEF r, d, g
<1> QED BY <1>8, <1>9, SMT

(* VarintExact holds whatever numbers are shown to encode_varint: what it  *)
(* writes of a number below 2^28 decode_varint reads back, and what it     *)
(* writes of a larger one is refused (varint.py).                          *)
THEOREM VarintIsExact == Spec => []VarintExact
<1>1. VarintExact
  <2> SUFFICES ASSUME NEW n \in Numbers
               PROVE  LET r == decode_varint(encode_varint(n) \o <<0>>, 1)
                      IN  IF n < 128 * Weight[_MAX_BYTES] THEN ~Raised(r) /\ r.v = n ELSE Raised(r)
    BY SMT DEF VarintExact
  <2> DEFINE r == decode_varint(encode_varint(n) \o <<0>>, 1)
  <2>1. n \in Nat /\ 128 * Weight[_MAX_BYTES] = 268435456
    BY NumberAssumption, Weights, SMT
  <2>2. IF n < 268435456 THEN r = [v |-> n, pos |-> Groups(n) + 1] ELSE Raised(r)
    BY <2>1, VarintOf, SMT
  <2> HIDE DEF r
  <2>3. r = [v |-> n, pos |-> Groups(n) + 1] => ~Raised(r) /\ r.v = n
    BY SMT DEF Raised
  <2> QED BY <2>1, <2>2, <2>3, SMT DEF r
<1> QED BY <1>1, PTL

----------------------------------------------------------------------------
(* The numbers of an action that is not told otherwise. *)
LEMMA Fields ==
  /\ {"confidence", "deadline_ms"} \subseteq DOMAIN ModelAction
  /\ ModelAction.confidence \in Int /\ ModelAction.deadline_ms \in Int
BY DEF ModelAction, One

(* The numbers of the action parse_model_output makes are numbers or None. *)
LEMMA ParsedNumbers ==
  ASSUME NEW raw \in Outputs, ~Raised(parse_model_output(raw))
  PROVE  LET a == parse_model_output(raw)
         IN  a.confidence \in Int \cup {None} /\ a.deadline_ms \in Int \cup {None}
<1> DEFINE a == parse_model_output(raw)
<1>1. CASE "dict" \in DOMAIN raw
  <2>1. a = from_dict(raw.dict)
    BY <1>1 DEF parse_model_output
  <2>2. a = [f \in DOMAIN ModelAction |-> IF f \in DOMAIN raw.dict THEN raw.dict[f] ELSE ModelAction[f]]
    BY <2>1 DEF from_dict, Raised, Raise
  <2> HIDE DEF a
  <2>3. \A f \in {"confidence", "deadline_ms"} : f \in DOMAIN raw.dict => raw.dict[f] \in Int \cup {None}
    BY <1>1, OutputAssumption
  <2>4. ASSUME NEW f \in {"confidence", "deadline_ms"} PROVE a[f] \in Int \cup {None}
    <3>1. f \in DOMAIN ModelAction /\ ModelAction[f] \in Int \cup {None}
      BY Fields
    <3>2. a[f] = IF f \in DOMAIN raw.dict THEN raw.dict[f] ELSE ModelAction[f]
      BY <2>2, <3>1
    <3> QED BY <2>3, <3>1, <3>2, Zenon
  <2>5. a["confidence"] \in Int \cup {None} /\ a["deadline_ms"] \in Int \cup {None}
    BY <2>4
  <2> QED BY <2>5 DEF a
<1>2. CASE ~("dict" \in DOMAIN raw)
  <2> DEFINE m == ModelIntent[Least({i \in DOMAIN ModelIntent : ModelIntent[i] \in raw.words})]
             t == TextDict(raw.text)
  <2>1. \/ a = [ModelAction EXCEPT !.intent = "RETURN_RESULT", !.result = t]
        \/ a = [ModelAction EXCEPT !.intent = m, !.inputs = t]
    BY <1>2 DEF parse_model_output, Raised, Raise
  <2> HIDE DEF a, m, t
  <2>2. a["confidence"] = ModelAction["confidence"] /\ a["deadline_ms"] = ModelAction["deadline_ms"]
    BY <2>1, Fields
  <2>3. a["confidence"] \in Int \cup {None} /\ a["deadline_ms"] \in Int \cup {None}
    BY <2>2, Fields
  <2> QED BY <2>3 DEF a
<1> QED BY <1>1, <1>2

(* The invariant of a conversation: the action is what the model's output  *)
(* parses to; bytes on the wire are someone's; and an action that is       *)
(* invalid, denied, lacks a number or names an id that is no UUID was      *)
(* turned away.                                                            *)
ConversationInv ==
  /\ said # None => said \in Outputs /\ action = parse_model_output(said)
  /\ said = None => action = None
  /\ request # None => obs # None
  /\ wire # None => pkt # None \/ said # None \/ obs # None
  /\ Outbound /\ Unsendable(action) => Raised(wire)

(* action_to_packet refuses what must not be sent. *)
LEMMA UnsendableIsRefused ==
  ASSUME NEW a, a.confidence \in Int \cup {None}, a.deadline_ms \in Int \cup {None}, Unsendable(a)
  PROVE  Raised(action_to_packet(a))
<1>1. CASE validate(a) # {}
  <2>1. action_to_packet(a) \in {Raise("ValidationError"), Raise("TypeError")}
    BY <1>1 DEF action_to_packet
  <2> QED BY <2>1 DEF Raised, Raise
<1>2. CASE validate(a) = {}
  <2>0. Comparable(a) /\ a.confidence \in Int /\ a.deadline_ms \in Int
    BY <1>2 DEF validate, Comparable
  <2>1. ~(0 <= a.confidence /\ a.confidence <= One) => "confidence" \in validate(a)
    BY <2>0 DEF validate
  <2>2. a.deadline_ms < 0 => "deadline" \in validate(a)
    BY <2>0 DEF validate
  <2>3. a.target = << >> /\ a.intent \in {"CLASSIFY", "CALL_MODEL", "CALL_TOOL", "READ_MEMORY", "WRITE_MEMORY"}
          => "target" \in validate(a)
    BY <2>0 DEF validate
  <2>4. a.intent = "CALL_TOOL" /\ ~Has(a.params, Key.tool_name) => "tool_name" \in validate(a)
    BY <2>0 DEF validate
  <2>5. a.confidence \in 0 .. One
    <3>1. PICK x \in Int : x = a.confidence
      BY <2>0
    <3>2. 0 <= x /\ x <= One
      BY <1>2, <2>1, <3>1
    <3>3. x \in 0 .. One
      BY <3>2 DEF One
    <3> QED BY <3>1, <3>3
  <2>6. a.intent \in gate.out \/ (a.correlation_id # None /\ (a.correlation_id.hex = None \/ Len(a.correlation_id.hex) # 16))
    <3> DEFINE outside == a.confidence \notin 0 .. One
    <3>1. /\ ~(a.deadline_ms < 0)
          /\ ~(a.target = << >> /\ a.intent \in {"CLASSIFY", "CALL_MODEL", "CALL_TOOL", "READ_MEMORY", "WRITE_MEMORY"})
          /\ ~(a.intent = "CALL_TOOL" /\ ~Has(a.params, Key.tool_name))
      BY <1>2, <2>2, <2>3, <2>4
    <3>2. ~outside /\ a.confidence # None /\ a.deadline_ms # None
      BY <2>0, <2>5 DEF Comparable
    <3>3. \/ a.confidence = None \/ a.deadline_ms = None
          \/ outside \/ a.deadline_ms < 0
          \/ a.target = << >> /\ a.intent \in {"CLASSIFY", "CALL_MODEL", "CALL_TOOL", "READ_MEMORY", "WRITE_MEMORY"}
          \/ a.intent = "CALL_TOOL" /\ ~Has(a.params, Key.tool_name)
          \/ a.intent \in gate.out
          \/ a.correlation_id # None /\ (a.correlation_id.hex = None \/ Len(a.correlation_id.hex) # 16)
      BY DEF Unsendable
    <3> HIDE DEF outside
    <3> QED BY <3>1, <3>2, <3>3, Zenon
  <2>7. a.intent \in gate.out \/ (a.correlation_id # None /\ ~IsUuid(a.correlation_id))
    BY <2>6 DEF IsUuid, Text
  <2>8. action_to_packet(a) \in {Raise("SemanticError"), Raise("ValueError")}
    BY <1>2, <2>7 DEF action_to_packet
  <2> QED BY <2>8 DEF Raised, Raise
<1> QED BY <1>1, <1>2

LEMMA ConversationStep == ConversationInv /\ [SNext]_svars => ConversationInv'
<1> SUFFICES ASSUME ConversationInv, [SNext]_svars PROVE ConversationInv'
  OBVIOUS
<1> USE DEF ConversationInv
<1>1. ASSUME Wire PROVE ConversationInv'
  <2>1. UNCHANGED <<gate, said, action, obs, request, reply>>
    BY <1>1 DEF Wire, talk
  <2>2. CASE said = None /\ obs = None /\ Direct
    <3>1. wire' = None \/ pkt' # None
      BY <2>2, NoneAssumption DEF Direct, Done, Encode
    <3>2. action = None
      BY <2>2
    <3> QED BY <2>1, <2>2, <3>1, <3>2 DEF Outbound
  <2>3. CASE Decode
    BY <2>1, <2>3 DEF Decode, Outbound, Unsendable
  <2>4. CASE reply = None /\ Damage
    <3>1. OnTheWire /\ pkt' = pkt
      BY <2>4 DEF Damage, CutHeader, Cut, Alter, AlterHeader, Follow
    <3>2. wire # None /\ ~Raised(wire)
      BY <3>1 DEF OnTheWire
    <3>3. ~(action # None /\ ~Raised(action) /\ Unsendable(action))
      BY <2>4, <3>2 DEF Outbound
    <3>4. ~(action # None /\ ~Raised(action) /\ Unsendable(action))'
      BY <2>1, <3>3 DEF Unsendable
    <3> QED BY <2>1, <3>1, <3>2, <3>4 DEF Outbound
  <2> QED BY <1>1, <2>2, <2>3, <2>4 DEF Wire
<1>2. ASSUME End PROVE ConversationInv'
  BY <1>2 DEF End, Outbound
<1>3. ASSUME bytes_to_observation PROVE ConversationInv'
  <2>1. UNCHANGED <<pkt, wire, gate, said, action, request, reply>> /\ wire # None /\ obs = None
    BY <1>3 DEF bytes_to_observation
  <2>4. (Outbound /\ Unsendable(action) => Raised(wire))'
    BY <2>1 DEF Outbound, Unsendable
  <2>5. request' = None
    BY <2>1
  <2> QED BY <2>1, <2>4, <2>5
<1>4. ASSUME NEW g, set_gate(g) PROVE ConversationInv'
  BY <1>4 DEF set_gate, Idle, vars, talk, Outbound
<1>5. ASSUME NEW raw \in Outputs, Say(raw) PROVE ConversationInv'
  <2>1. wire = None
    BY <1>5 DEF Say, Idle
  <2>2. UNCHANGED <<pkt, wire, gate, obs, request, reply>> /\ said' = raw /\ action' = parse_model_output(raw) /\ said = None
    BY <1>5 DEF Say, vars, Idle
  <2>3. raw # None
    BY OutputAssumption
  <2> QED BY <2>1, <2>2, <2>3 DEF Outbound
<1>6. ASSUME NEW c \in BOOLEAN, action_to_bytes(c) PROVE ConversationInv'
  <2> DEFINE p == action_to_packet(action)
  <2>1. UNCHANGED <<gate, said, action, obs, request, reply>> /\ action # None /\ ~Raised(action)
    BY <1>6 DEF action_to_bytes, talk, HasAction
  <2>2. said # None /\ said \in Outputs /\ action = parse_model_output(said)
    BY <2>1
  <2>3. action.confidence \in Int \cup {None} /\ action.deadline_ms \in Int \cup {None}
    BY <2>1, <2>2, ParsedNumbers
  <2>4. Unsendable(action) => Raised(p)
    BY <2>3, UnsendableIsRefused
  <2>5. Raised(p) => wire' = p
    BY <1>6 DEF action_to_bytes
  <2> HIDE DEF p
  <2>6. (Outbound /\ Unsendable(action) => Raised(wire))'
    BY <2>1, <2>4, <2>5 DEF Unsendable
  <2> QED BY <2>1, <2>2, <2>6
<1>7. ASSUME NEW o \in Observations, Observe(o) PROVE ConversationInv'
  BY <1>7, GivenAssumption DEF Observe, Idle, vars, Outbound, Unsendable
<1>8. ASSUME NEW m, NEW g, Ask(m, g) PROVE ConversationInv'
  <2>1. UNCHANGED <<pkt, wire, gate, said, action, obs, reply>> /\ obs # None
    BY <1>8 DEF Ask, vars
  <2>3. (Outbound /\ Unsendable(action) => Raised(wire))'
    BY <2>1 DEF Outbound, Unsendable
  <2> QED BY <2>1, <2>3
<1>9. ASSUME NEW r \in Results, result_to_bytes(r) PROVE ConversationInv'
  <2>1. UNCHANGED <<gate, said, action, obs, request>> /\ request # None /\ reply' = r
    BY <1>9 DEF result_to_bytes
  <2>2. r # None
    BY GivenAssumption
  <2> QED BY <2>1, <2>2 DEF Outbound
<1>10. ASSUME NEW codec, FastEncode(codec) \/ FastDecode(codec) PROVE ConversationInv'
  <2>1. UNCHANGED <<pkt, wire, gate, said, action, obs, request, reply>>
    BY <1>10 DEF FastEncode, FastDecode, vars
  <2>2. (Outbound /\ Unsendable(action) => Raised(wire))'
    BY <2>1 DEF Outbound, Unsendable
  <2> QED BY <2>1, <2>2
<1>11. ASSUME UNCHANGED svars PROVE ConversationInv'
  <2>1. UNCHANGED <<pkt, wire, gate, said, action, obs, request, reply>>
    BY <1>11 DEF svars, vars, talk
  <2>2. (Outbound /\ Unsendable(action) => Raised(wire))'
    BY <2>1 DEF Outbound, Unsendable
  <2> QED BY <2>1, <2>2
<1> QED
  <2> HIDE DEF ConversationInv
  <2> QED BY <1>1, <1>2, <1>3, <1>4, <1>5, <1>6, <1>7, <1>8, <1>9, <1>10, <1>11 DEF SNext

(* The conversation keeps its invariant. *)
THEOREM ConversationInvariant == SSpec => []ConversationInv
<1>1. SInit => ConversationInv
  BY DEF SInit, Init, ConversationInv, Outbound
<1> QED BY <1>1, ConversationStep, PTL DEF SSpec

(* No action that is invalid, that lacks a number, that the gate in force  *)
(* denies, or whose id is no UUID is ever encoded: "validate -> Gate ->    *)
(* Packet -> binary".                                                      *)
THEOREM NothingInvalidIsSent == SSpec => [](Outbound /\ Unsendable(action) => Raised(wire))
<1>1. ConversationInv => (Outbound /\ Unsendable(action) => Raised(wire))
  BY DEF ConversationInv
<1> QED BY <1>1, ConversationInvariant, PTL
=============================================================================
