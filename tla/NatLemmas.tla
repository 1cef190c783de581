----------------------------- MODULE NatLemmas -----------------------------
(***************************************************************************)
(* Facts about the natural numbers that the components' proofs share.      *)
(*                                                                         *)
(* The arithmetic of ring indices: a ring of C slots keeps message i in    *)
(* slot i % C, and a round robin of C handlers gives call i to handler     *)
(* i % C.  And that a set of naturals has a least element, which is what   *)
(* the code's "first session" and "first handler" rest on.                 *)
(***************************************************************************)
EXTENDS Integers, WellFoundedInduction, TLAPS

(* A set of naturals that is not empty has a least element. *)
LEMMA LeastNatural ==
  ASSUME NEW S, S \subseteq Nat, S # {}
  PROVE  \E x \in S : \A y \in S : x <= y
  <1> DEFINE R == {p \in Nat \X Nat : p[1] < p[2]}
  <1>1. IsWellFoundedOn(R, Nat)
    <2>1. R = OpToRel(<, Nat)
      BY DEF OpToRel
    <2> QED BY <2>1, NatLessThanWellFounded
  <1>2. PICK x \in S : \A y \in S : ~ (<<y, x>> \in R)
    BY <1>1, WFMin, Zenon
  <1>3. ASSUME NEW y \in S PROVE x <= y
    <2>1. x \in Nat /\ y \in Nat
      OBVIOUS
    <2>2. ~ (<<y, x>> \in R)
      BY <1>2
    <2>3. ~ (y < x)
      BY <2>1, <2>2
    <2> QED BY <2>1, <2>3
  <1> QED BY <1>3

(* Division with remainder, as the provers know it: i = C*q + r, r < C.    *)
LEMMA DivMod ==
  ASSUME NEW C \in Nat \ {0}, NEW i \in Nat
  PROVE  /\ i % C \in 0 .. C - 1
         /\ i \div C \in Nat
         /\ i = (C * (i \div C)) + (i % C)
  OBVIOUS

(* Multiples of C that differ, differ by at least C. *)
LEMMA DistinctQuotients ==
  ASSUME NEW C \in Nat \ {0}, NEW p \in Int, NEW q \in Int, p < q
  PROVE  (C * q) - (C * p) >= C
  <1>1. (C * q) - (C * p) = C * (q - p)
    OBVIOUS
  <1>2. q - p >= 1
    OBVIOUS
  <1>3. C * (q - p) >= C
    BY <1>2
  <1>4. QED
    BY <1>1, <1>3

(* A number has only one representation C*q + r with r < C. *)
LEMMA UniqueRemainder ==
  ASSUME NEW C \in Nat \ {0},
         NEW p \in Nat, NEW r \in 0 .. C - 1,
         NEW q \in Nat, NEW s \in 0 .. C - 1,
         (C * p) + r = (C * q) + s
  PROVE  r = s
  <1>1. C * p \in Nat /\ C * q \in Nat
    OBVIOUS
  <1>2. CASE p < q
    BY <1>1, <1>2, DistinctQuotients
  <1>3. CASE q < p
    BY <1>1, <1>3, DistinctQuotients
  <1>4. CASE p = q
    BY <1>1, <1>4
  <1>5. QED
    BY <1>2, <1>3, <1>4

(* Fewer than C apart, two indices use different slots: a producer that    *)
(* stays less than a lap ahead never touches a pending message.            *)
LEMMA SlotsDistinct ==
  ASSUME NEW C \in Nat \ {0}, NEW i \in Nat, NEW j \in Nat,
         i < j, j - i < C
  PROVE  i % C # j % C
  <1> SUFFICES ASSUME i % C = j % C PROVE FALSE
    OBVIOUS
  <1> DEFINE q == i \div C
             p == j \div C
             r == i % C
  <1>1. q \in Nat /\ r \in 0 .. C - 1 /\ i = (C * q) + r
    BY DivMod
  <1>2. p \in Nat /\ j = (C * p) + r
    BY DivMod
  <1> HIDE DEF q, p, r
  <1>3. C * p \in Nat /\ C * q \in Nat
    BY <1>1, <1>2
  <1>4. q < p \/ p < q \/ p = q
    BY <1>1, <1>2
  <1>5. QED
    BY <1>1, <1>2, <1>3, <1>4, DistinctQuotients

(* One lap later the slot is the same. *)
LEMMA SlotNextLap ==
  ASSUME NEW C \in Nat \ {0}, NEW i \in Nat
  PROVE  (i + C) % C = i % C
  <1> DEFINE q == i \div C
             p == (i + C) \div C
             r == i % C
             s == (i + C) % C
  <1>1. i + C \in Nat
    OBVIOUS
  <1>2. /\ q \in Nat /\ p \in Nat /\ r \in 0 .. C - 1 /\ s \in 0 .. C - 1
        /\ i = (C * q) + r
        /\ i + C = (C * p) + s
    BY <1>1, DivMod
  <1> HIDE DEF q, p, r, s
  <1>3. C * (q + 1) = (C * q) + C
    BY <1>2
  <1>4. (C * (q + 1)) + r = (C * p) + s
    BY <1>2, <1>3
  <1>5. r = s
    BY <1>2, <1>4, UniqueRemainder
  <1>6. QED
    BY <1>5 DEF r, s

----------------------------------------------------------------------------
(* Counters that wrap at M stand for the true counts. *)

(* A number below M is its own remainder. *)
LEMMA SmallMod ==
  ASSUME NEW M \in Nat \ {0}, NEW d \in 0 .. M - 1
  PROVE  d % M = d
  OBVIOUS

(* Adding 1 to a wrapped counter gives the wrapped count plus 1. *)
LEMMA WrappedAdd ==
  ASSUME NEW M \in Nat \ {0}, NEW a \in Nat
  PROVE  ((a % M) + 1) % M = (a + 1) % M
  <1> DEFINE q == a \div M
             r == a % M
             p == (a + 1) \div M
             s == (a + 1) % M
             u == (r + 1) \div M
             t == (r + 1) % M
  <1>1. q \in Nat /\ r \in 0 .. M - 1 /\ a = (M * q) + r
    BY DivMod
  <1>2. p \in Nat /\ s \in 0 .. M - 1 /\ a + 1 = (M * p) + s
    <2>1. a + 1 \in Nat
      OBVIOUS
    <2>2. QED
      BY <2>1, DivMod
  <1>3. u \in Nat /\ t \in 0 .. M - 1 /\ r + 1 = (M * u) + t
    <2>1. r + 1 \in Nat
      BY <1>1
    <2>2. QED
      BY <2>1, DivMod
  <1> HIDE DEF q, r, p, s, u, t
  <1>4. (M * q) + (M * u) = M * (q + u) /\ q + u \in Nat
    BY <1>1, <1>3
  <1>5. (M * (q + u)) + t = (M * p) + s
    BY <1>1, <1>2, <1>3, <1>4
  <1>6. t = s
    BY <1>2, <1>3, <1>4, <1>5, UniqueRemainder
  <1>7. QED
    BY <1>6 DEF r, s, t

(* The wrapped difference of two wrapped counts less than M apart is their *)
(* true difference.                                                        *)
LEMMA WrappedSub ==
  ASSUME NEW M \in Nat \ {0}, NEW a \in Nat, NEW b \in Nat, b <= a, a - b < M
  PROVE  ((a % M) - (b % M)) % M = a - b
  <1> DEFINE q == a \div M
             r == a % M
             p == b \div M
             s == b % M
  <1>1. q \in Nat /\ r \in 0 .. M - 1 /\ a = (M * q) + r
    BY DivMod
  <1>2. p \in Nat /\ s \in 0 .. M - 1 /\ b = (M * p) + s
    BY DivMod
  <1> HIDE DEF q, r, p, s
  <1>3. (M * q) - (M * p) = M * (q - p) /\ M * q \in Nat /\ M * p \in Nat
    BY <1>1, <1>2
  <1>4. CASE q = p
    BY <1>1, <1>2, <1>4 DEF r, s
  <1>5. CASE p < q
    <2>1. q - p = 1
      <3>1. CASE p + 1 < q
        <4>1. (M * q) - (M * (p + 1)) >= M
          BY <1>1, <1>2, <3>1, DistinctQuotients
        <4>2. M * (p + 1) = (M * p) + M
          BY <1>2
        <4>3. QED
          BY <1>1, <1>2, <1>3, <4>1, <4>2
      <3>2. QED
        BY <1>1, <1>2, <1>5, <3>1
    <2>2. M * (q - p) = M
      BY <2>1
    <2>3. r - s = (a - b) - M
      BY <1>1, <1>2, <1>3, <2>2
    <2>4. (r - s) % M = a - b
      BY <2>3
    <2>5. QED
      BY <2>4 DEF r, s
  <1>6. CASE q < p
    BY <1>1, <1>2, <1>3, <1>6, DistinctQuotients
  <1>7. QED
    BY <1>1, <1>2, <1>4, <1>5, <1>6

(* Two counts less than M apart are equal when their wrapped values are. *)
LEMMA WrappedEqual ==
  ASSUME NEW M \in Nat \ {0}, NEW a \in Nat, NEW b \in Nat, b <= a, a - b < M
  PROVE  a % M = b % M <=> a = b
  <1>1. CASE a = b
    BY <1>1
  <1>2. CASE b < a
    BY <1>2, SlotsDistinct
  <1>3. QED
    BY <1>1, <1>2

(* When C divides M the slot of a wrapped index is the slot of the index. *)
LEMMA SlotOfWrapped ==
  ASSUME NEW C \in Nat \ {0}, NEW k \in Nat \ {0}, NEW a \in Nat
  PROVE  (a % (k * C)) % C = a % C
  <1> DEFINE M == k * C
             q == a \div M
             r == a % M
             p == a \div C
             s == a % C
             u == r \div C
             t == r % C
  <1>1. M \in Nat \ {0}
    OBVIOUS
  <1> HIDE DEF M
  <1>2. q \in Nat /\ r \in 0 .. M - 1 /\ a = (M * q) + r
    BY <1>1, DivMod
  <1>3. p \in Nat /\ s \in 0 .. C - 1 /\ a = (C * p) + s
    BY DivMod
  <1>4. u \in Nat /\ t \in 0 .. C - 1 /\ r = (C * u) + t
    <2>1. r \in Nat
      BY <1>1, <1>2
    <2>2. QED
      BY <2>1, DivMod
  <1> HIDE DEF q, r, p, s, u, t
  <1>5. M * q = C * (k * q) /\ k * q \in Nat
    BY <1>2 DEF M
  <1>6. (C * (k * q)) + (C * u) = C * ((k * q) + u) /\ (k * q) + u \in Nat
    BY <1>4, <1>5
  <1>7. (C * ((k * q) + u)) + t = (C * p) + s
    BY <1>2, <1>3, <1>4, <1>5, <1>6
  <1>8. t = s
    BY <1>3, <1>4, <1>6, <1>7, UniqueRemainder
  <1>9. QED
    BY <1>8 DEF M, r, s, t
=============================================================================
