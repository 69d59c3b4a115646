--------------------------- MODULE RingArithmetic ---------------------------
(***************************************************************************)
(* Facts about the modular arithmetic of ring buffers: absolute positions  *)
(* 0, 1, 2, ... in a stream, cursors that hold them modulo a span, and     *)
(* slots that hold them modulo a capacity that divides the span.           *)
(***************************************************************************)
EXTENDS Integers, TLAPS

(* Division with remainder. *)
LEMMA DivMod ==
  ASSUME NEW a \in Int, NEW m \in Nat, m > 0
  PROVE  /\ a \div m \in Int
         /\ a % m \in 0..(m - 1)
         /\ a = m * (a \div m) + (a % m)
  BY SMT

(* Quotient and remainder are unique. *)
LEMMA DivModUnique ==
  ASSUME NEW m \in Nat, m > 0,
         NEW q \in Int, NEW r \in 0..(m - 1),
         NEW p \in Int, NEW s \in 0..(m - 1),
         m * q + r = m * p + s
  PROVE  q = p /\ r = s
<1>1. m * (q - p) = s - r
  BY SMT
<1>2. ~(q - p >= 1)
  <2> SUFFICES ASSUME q - p >= 1 PROVE FALSE
    OBVIOUS
  <2>1. m * (q - p) >= m
    BY SMT
  <2> QED BY <1>1, <2>1, SMT
<1>3. ~(p - q >= 1)
  <2> SUFFICES ASSUME p - q >= 1 PROVE FALSE
    OBVIOUS
  <2>1. m * (p - q) >= m
    BY SMT
  <2>2. m * (p - q) = r - s
    BY <1>1, SMT
  <2> QED BY <2>1, <2>2, SMT
<1> QED BY <1>1, <1>2, <1>3, SMT

(* The remainder of any decomposition is the modulus. *)
LEMMA ModOf ==
  ASSUME NEW m \in Nat, m > 0, NEW a \in Int,
         NEW q \in Int, NEW r \in 0..(m - 1), a = m * q + r
  PROVE  a % m = r
<1>1. /\ a \div m \in Int
      /\ a % m \in 0..(m - 1)
      /\ a = m * (a \div m) + (a % m)
  BY DivMod
<1> QED BY <1>1, DivModUnique

(* Advancing a cursor: wrapping before or after the addition is the same.  *)
LEMMA ModAdd ==
  ASSUME NEW m \in Nat, m > 0, NEW a \in Int, NEW b \in Int
  PROVE  ((a % m) + b) % m = (a + b) % m
<1> DEFINE q == a \div m
           c == (a % m) + b
<1>1. q \in Int /\ a % m \in 0..(m - 1) /\ a = m * q + (a % m)
  BY DivMod
<1>2. c \in Int
  BY <1>1
<1>3. c \div m \in Int /\ c % m \in 0..(m - 1) /\ c = m * (c \div m) + (c % m)
  BY <1>2, DivMod
<1>4. a + b = m * (q + (c \div m)) + (c % m)
  <2> HIDE DEF q
  <2>1. a + b = m * q + c
    BY <1>1, SMT
  <2>2. m * (q + (c \div m)) = m * q + m * (c \div m)
    BY <1>1, <1>3, SMT
  <2> HIDE DEF c
  <2> QED BY <1>1, <1>2, <1>3, <2>1, <2>2, SMT
<1> HIDE DEF q, c
<1>5. q + (c \div m) \in Int
  BY <1>1, <1>3
<1>6. (a + b) % m = c % m
  <2> DEFINE p == q + (c \div m)
             r == c % m
  <2>1. p \in Int /\ r \in 0..(m - 1) /\ a + b \in Int /\ a + b = m * p + r
    BY <1>3, <1>4, <1>5
  <2> HIDE DEF p, r
  <2>2. (a + b) % m = r
    BY <2>1, ModOf
  <2> QED BY <2>2 DEF r
<1> QED BY <1>6 DEF c

(* The distance of two positions less than a span apart is the distance of *)
(* their cursors, in modular arithmetic.                                   *)
LEMMA ModDistance ==
  ASSUME NEW m \in Nat, m > 0, NEW a \in Nat, NEW b \in Nat,
         a <= b, b - a < m
  PROVE  ((b % m) - (a % m)) % m = b - a
<1>1. a % m \in Int
  BY DivMod
<1>2. ((b % m) + (0 - (a % m))) % m = (b + (0 - (a % m))) % m
  BY SMTT(30), <1>1, ModAdd
<1>3. /\ a \div m \in Int /\ a % m \in 0..(m - 1)
      /\ a = m * (a \div m) + (a % m)
  BY DivMod
<1>4. b + (0 - (a % m)) = m * (a \div m) + (b - a)
  BY <1>3, SMT
<1>5. (b + (0 - (a % m))) % m = b - a
  BY SMTT(30), <1>3, <1>4, ModOf
<1>6. b % m \in Int /\ (b % m) + (0 - (a % m)) = (b % m) - (a % m)
  BY <1>1, DivMod
<1> QED BY <1>2, <1>5, <1>6

(* The slot of a cursor is the slot of the position it stands for.         *)
LEMMA ModMod ==
  ASSUME NEW c \in Nat, c > 0, NEW k \in Nat, k > 0, NEW a \in Nat
  PROVE  (a % (k * c)) % c = a % c
<1> DEFINE m == k * c
<1>1. m \in Nat /\ m > 0
  BY SMT
<1>2. /\ a \div m \in Int /\ a % m \in 0..(m - 1)
      /\ a = m * (a \div m) + (a % m)
  <2> HIDE DEF m
  <2> QED BY <1>1, DivMod
<1> DEFINE r == a % m
           q == a \div m
<1>3. /\ r \div c \in Int /\ r % c \in 0..(c - 1)
      /\ r = c * (r \div c) + (r % c)
  <2> HIDE DEF m
  <2>1. r \in Int
    BY <1>1, <1>2
  <2> QED BY <2>1, DivMod
<1>4. a = c * (k * q + (r \div c)) + (r % c)
  <2>1. a = (k * c) * q + r
    BY <1>2 DEF m, q, r
  <2>2. q \in Int /\ r \div c \in Int /\ r % c \in Int /\ r \in Int
    BY <1>1, <1>2, <1>3
  <2> HIDE DEF m, q, r
  <2>3. c * (k * q + (r \div c)) = (k * c) * q + c * (r \div c)
    BY <2>2, SMT
  <2> QED BY <2>1, <2>2, <2>3, <1>3, SMT
<1>5. k * q + (r \div c) \in Int
  <2> HIDE DEF m, r
  <2> QED BY <1>2, <1>3, SMT DEF q
<1>6. a % c = r % c
  <2> DEFINE p == k * q + (r \div c)
             s == r % c
  <2>1. p \in Int /\ s \in 0..(c - 1) /\ a = c * p + s
    <3> HIDE DEF m, q, r
    <3> QED BY <1>3, <1>4, <1>5
  <2> HIDE DEF p, s
  <2>2. a % c = s
    BY <2>1, ModOf
  <2> QED BY <2>2 DEF s
<1> QED BY <1>6

(* Positions less than a capacity apart have different slots.              *)
LEMMA SlotsDistinct ==
  ASSUME NEW c \in Nat, c > 0, NEW a \in Nat, NEW b \in Nat,
         a < b, b - a < c
  PROVE  a % c # b % c
<1>1. SUFFICES ASSUME a % c = b % c PROVE FALSE
  OBVIOUS
<1>2. ((b % c) - (a % c)) % c = b - a
  <2>1. a <= b
    BY SMT
  <2> QED BY <2>1, ModDistance
<1>3. a % c \in Int /\ b % c \in Int
  BY DivMod
<1>4. (b % c) - (a % c) = c * 0 + 0
  BY <1>1, <1>3
<1>5. 0 \in 0..(c - 1)
  BY SMT
<1>6. ((b % c) - (a % c)) % c = 0
  BY <1>3, <1>4, <1>5, ModOf
<1> QED BY <1>2, <1>6, SMT
=============================================================================
