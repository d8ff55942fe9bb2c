---------------------------- MODULE NumberProofs ----------------------------
(***************************************************************************)
(* Numbers, as the proofs about sums, words and sequences of any length    *)
(* need them.                                                              *)
(***************************************************************************)
EXTENDS Integers, NaturalsInduction, WellFoundedInduction, TLAPS

\* A set of numbers that is not empty has a least one.
LEMMA LeastNumber ==
  ASSUME NEW T \in SUBSET Nat, T # {}
  PROVE  \E n \in T : \A m \in T : n <= m
<1>1. IsWellFoundedOn(OpToRel(<, Nat), Nat)
  BY NatLessThanWellFounded, Zenon
<1>2. PICK n \in T : \A m \in T : ~ (<<m, n>> \in OpToRel(<, Nat))
  BY <1>1, WFMin, Zenon
<1>3. \A m \in T : ~ (m < n)
  BY <1>2 DEF OpToRel
<1> QED
  BY <1>3

\* The quotient and the remainder.
LEMMA Divided ==
  ASSUME NEW w \in Nat \ {0}, NEW x \in Nat
  PROVE  x = w * (x \div w) + (x % w) /\ x % w \in 0 .. w - 1 /\ x \div w \in Nat
OBVIOUS

\* A multiple of a number is not smaller than the number.
LEMMA AtLeastOnce ==
  ASSUME NEW w \in Nat, NEW d \in Int, d >= 1
  PROVE  w * d >= w
OBVIOUS

\* There is one remainder only.
LEMMA OneRemainder ==
  ASSUME NEW w \in Nat \ {0}, NEW q1 \in Int, NEW q2 \in Int,
         NEW r1 \in 0 .. w - 1, NEW r2 \in 0 .. w - 1, w * q1 + r1 = w * q2 + r2
  PROVE  r1 = r2
<1>1. w * (q1 - q2) = r2 - r1
  OBVIOUS
<1>2. w * (q2 - q1) = r1 - r2
  OBVIOUS
<1>3. CASE q1 - q2 >= 1
  <2>1. w * (q1 - q2) >= w
    BY <1>3, AtLeastOnce
  <2> QED
    BY <1>1, <2>1
<1>4. CASE q2 - q1 >= 1
  <2>1. w * (q2 - q1) >= w
    BY <1>4, AtLeastOnce
  <2> QED
    BY <1>2, <2>1
<1>5. CASE q1 = q2
  BY <1>1, <1>5
<1> QED
  BY <1>3, <1>4, <1>5

\* There is one quotient and one remainder.
LEMMA DividedBack ==
  ASSUME NEW w \in Nat \ {0}, NEW q \in Nat, NEW r \in 0 .. w - 1, NEW x, x = q * w + r
  PROVE  x \div w = q /\ x % w = r
<1> DEFINE d == x \div w
           m == x % w
<1>1. x \in Nat
  <2>1. q * w \in Nat
    OBVIOUS
  <2> QED
    BY <2>1
<1>2. x = w * d + m /\ m \in 0 .. w - 1 /\ d \in Nat
  BY <1>1, Divided
<1>3. x = w * q + r
  OBVIOUS
<1> HIDE DEF d, m
<1>4. m = r
  BY <1>2, <1>3, OneRemainder
<1>5. w * d = w * q
  <2>1. w * d \in Int /\ w * q \in Int
    BY <1>2
  <2> QED
    BY <1>2, <1>3, <1>4, <2>1
<1>6. d = q
  <2>1. w * (d - q) = 0 /\ w * (q - d) = 0
    BY <1>2, <1>5
  <2>2. ~(d - q >= 1) /\ ~(q - d >= 1)
    BY <1>2, <2>1, AtLeastOnce
  <2> QED
    BY <1>2, <2>2
<1> QED
  BY <1>4, <1>6, Zenon DEF d, m

\* A number below n * w has a quotient below n.
LEMMA DividedBelow ==
  ASSUME NEW w \in Nat \ {0}, NEW n \in Nat, NEW x \in 0 .. n * w - 1
  PROVE  /\ x \div w \in 0 .. n - 1 /\ x % w \in 0 .. w - 1
         /\ x = (x \div w) * w + (x % w)
<1> DEFINE q == x \div w
           r == x % w
<1>0. x \in Nat
  OBVIOUS
<1>1. x = w * q + r /\ r \in 0 .. w - 1 /\ q \in Nat
  BY <1>0, Divided
<1> HIDE DEF q, r
<1>2. x = q * w + r
  BY <1>1
<1>3. q < n
  <2> SUFFICES ASSUME q >= n PROVE FALSE
    BY <1>1
  <2>1. (q - n) * w >= 0
    BY <1>1
  <2>2. q * w >= n * w
    BY <1>1, <2>1
  <2>3. q * w \in Nat /\ n * w \in Nat
    BY <1>1
  <2> QED
    BY <1>1, <1>2, <2>2, <2>3
<1> QED
  BY <1>1, <1>2, <1>3 DEF q, r

\* Induction up to a number, for the numbers of a set.
LEMMA UpTo ==
  ASSUME NEW n \in Nat, NEW S, 0 \in S, \A i \in 1 .. n : i - 1 \in S => i \in S
  PROVE  \A i \in 0 .. n : i \in S
<1> DEFINE T == {i \in 0 .. n : i \notin S}
<1> SUFFICES ASSUME T # {} PROVE FALSE
  OBVIOUS
<1>1. PICK i \in T : \A m \in T : i <= m
  <2>1. T \in SUBSET Nat
    OBVIOUS
  <2> QED
    BY <2>1, LeastNumber, Zenon
<1>2. i \in 1 .. n /\ i - 1 \in 0 .. n /\ i - 1 \notin T
  BY <1>1
<1> QED
  BY <1>1, <1>2

\* The values of a recursive function that makes each value from the one before.
Steps(f, a, g, n) == f[0] = a /\ \A i \in 1 .. n : f[i] = g[i][f[i - 1]]

\* There is such a function.
LEMMA Iterated ==
  ASSUME NEW R, NEW a \in R, NEW g \in [Nat -> [R -> R]], NEW n \in Nat
  PROVE  \E f \in [0 .. n -> R] : Steps(f, a, g, n)
<1> DEFINE Is(m, f) == Steps(f, a, g, m)
           S == {m \in Nat : \E f \in [0 .. m -> R] : Is(m, f)}
<1>1. 0 \in S
  <2>1. [i \in 0 .. 0 |-> a] \in [0 .. 0 -> R] /\ Is(0, [i \in 0 .. 0 |-> a])
    BY DEF Steps
  <2> QED
    BY <2>1
<1>2. ASSUME NEW m \in 1 .. n, m - 1 \in S PROVE m \in S
  <2>1. PICK f \in [0 .. m - 1 -> R] : Is(m - 1, f)
    BY <1>2
  <2> DEFINE h == [i \in 0 .. m |-> IF i = m THEN g[m][f[m - 1]] ELSE f[i]]
  <2>2. m \in Nat /\ m - 1 \in 0 .. m - 1 /\ f[m - 1] \in R
    BY <1>2
  <2>3. h \in [0 .. m -> R]
    BY <1>2, <2>2
  <2>4. h[0] = f[0] /\ h[m] = g[m][f[m - 1]] /\ h[m - 1] = f[m - 1]
    BY <1>2
  <2>5. ASSUME NEW i \in 1 .. m - 1 PROVE h[i] = f[i] /\ h[i - 1] = f[i - 1]
    BY <1>2
  <2> HIDE DEF h
  <2>6. Is(m, h)
    <3>1. ASSUME NEW i \in 1 .. m PROVE h[i] = g[i][h[i - 1]]
      <4>1. CASE i = m
        BY <2>4, <4>1
      <4>2. CASE i # m
        <5>1. i \in 1 .. m - 1
          BY <4>2
        <5> QED
          BY <2>1, <2>5, <5>1 DEF Steps
      <4> QED
        BY <4>1, <4>2
    <3> QED
      BY <2>1, <2>4, <3>1 DEF Steps
  <2> HIDE DEF Is
  <2> QED
    BY <2>2, <2>3, <2>6, Zenon
<1> HIDE DEF S
<1>3. \A m \in 0 .. n : m \in S
  BY <1>1, <1>2, UpTo
<1>4. n \in S
  BY <1>3
<1> QED
  BY <1>4, Zenon DEF S
=============================================================================
