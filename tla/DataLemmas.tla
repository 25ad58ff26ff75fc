------------------------------ MODULE DataLemmas ------------------------------
(***************************************************************************)
(* Lemmas about data that the proofs of several components cite: induction *)
(* on the natural numbers and the functions it defines, remainders, and    *)
(* the distances of linear probing.                                        *)
(*                                                                         *)
(* Induction is stated with a set where one expects a predicate: a proof   *)
(* takes for it the numbers that satisfy what it wants to show.            *)
(***************************************************************************)
EXTENDS Integers, FiniteSets, FiniteSetsExt, FiniteSetTheorems, WellFoundedInduction, TLAPS

-----------------------------------------------------------------------------
(* Induction.                                                              *)

\* A set of natural numbers that is not empty has a least element.
LEMMA LeastElement ==
  ASSUME NEW S \in SUBSET Nat, S # {}
  PROVE  \E m \in S : \A k \in S : m <= k
<1>1. PICK m \in S : \A k \in S : ~(<<k, m>> \in OpToRel(<, Nat))
  BY NatLessThanWellFounded, WFMin
<1>2. \A k \in S : ~(k < m)
  BY <1>1 DEF OpToRel
<1>3. \A k \in S : m <= k
  BY <1>2
<1> QED BY <1>3

\* Min and Max are what their names say when there is such an element.
LEMMA MinIs ==
  ASSUME NEW S \in SUBSET Int, NEW m \in S, \A k \in S : m <= k
  PROVE  Min(S) = m
<1>1. Min(S) \in S /\ \A k \in S : Min(S) <= k
  BY DEF Min
<1>2. Min(S) <= m /\ m <= Min(S)
  BY <1>1
<1>3. Min(S) \in Int /\ m \in Int
  BY <1>1
<1> QED BY <1>2, <1>3

LEMMA MaxIs ==
  ASSUME NEW S \in SUBSET Int, NEW m \in S, \A k \in S : k <= m
  PROVE  Max(S) = m
<1>1. Max(S) \in S /\ \A k \in S : Max(S) >= k
  BY DEF Max
<1>2. Max(S) >= m /\ m >= Max(S)
  BY <1>1
<1>3. Max(S) \in Int /\ m \in Int
  BY <1>1
<1> QED BY <1>2, <1>3

\* The smaller of two numbers.
LEMMA MinOfTwo ==
  ASSUME NEW a \in Nat, NEW b \in Nat
  PROVE  /\ a <= b => Min({a, b}) = a
         /\ b <= a => Min({a, b}) = b
<1>1. {a, b} \in SUBSET Int /\ a \in {a, b} /\ b \in {a, b}
  OBVIOUS
<1>2. ASSUME a <= b PROVE Min({a, b}) = a
  <2>1. \A k \in {a, b} : a <= k
    BY <1>2
  <2> QED BY <1>1, <2>1, MinIs
<1>3. ASSUME b <= a PROVE Min({a, b}) = b
  <2>1. \A k \in {a, b} : b <= k
    BY <1>3
  <2> QED BY <1>1, <2>1, MinIs
<1> QED BY <1>2, <1>3

\* A set of numbers in 1..n that has every number below one of its own is an
\* initial segment.
LEMMA Segment ==
  ASSUME NEW n \in Nat, NEW S \in SUBSET (1..n), \A i \in S, j \in 1..n : j < i => j \in S
  PROVE  \E k \in 0..n : S = 1..k /\ Cardinality(S) = k
<1>1. \A k \in 0..n : Cardinality(1..k) = k
  BY FS_Interval
<1>2. CASE S = 1..n
  BY <1>1, <1>2
<1>3. CASE S # 1..n
  <2> DEFINE rest == (1..n) \ S
  <2>1. rest \in SUBSET Nat /\ rest # {}
    <3>1. \A j \in S : j \in 1..n
      OBVIOUS
    <3>2. \E j \in 1..n : j \notin S
      BY <1>3, <3>1, Zenon
    <3> QED BY <3>2
  <2>2. PICK m \in rest : \A k \in rest : m <= k
    <3> HIDE DEF rest
    <3> QED BY <2>1, LeastElement
  <2>3. m \in 1..n /\ m \notin S
    OBVIOUS
  <2>4. ASSUME NEW j \in 1..n PROVE j \in S <=> j < m
    <3>1. j < m => j \in S
      BY <2>2, <2>3
    <3>2. j \in S => ~(m < j) /\ j # m
      BY <2>3
    <3> QED BY <2>3, <3>1, <3>2
  <2>5. S = 1..(m - 1)
    <3>1. ASSUME NEW j PROVE j \in S => j \in 1..(m - 1)
      BY <2>3, <2>4
    <3>2. ASSUME NEW j PROVE j \in 1..(m - 1) => j \in S
      BY <2>3, <2>4
    <3> QED BY <3>1, <3>2
  <2>6. m - 1 \in 0..n
    BY <2>3
  <2> QED BY <1>1, <2>5, <2>6
<1> QED BY <1>2, <1>3

\* Induction on the natural numbers.
LEMMA NatInduct ==
  ASSUME NEW S, 0 \in S, \A n \in Nat : n \in S => n + 1 \in S
  PROVE  Nat \subseteq S
<1> SUFFICES ASSUME ~(Nat \subseteq S) PROVE FALSE
  OBVIOUS
<1>1. PICK m \in Nat \ S : \A k \in Nat \ S : m <= k
  BY LeastElement
<1>2. m # 0
  OBVIOUS
<1>3. m - 1 \in Nat /\ m - 1 \notin Nat \ S
  BY <1>1, <1>2
<1> QED BY <1>3

\* Induction up to a bound.
LEMMA IntervalInduct ==
  ASSUME NEW M \in Nat, NEW S, 0 \in S, \A n \in 0..(M - 1) : n \in S => n + 1 \in S
  PROVE  0..M \subseteq S
<1> DEFINE T == {n \in Nat : n <= M => n \in S}
<1>1. 0 \in T
  OBVIOUS
<1>2. ASSUME NEW n \in Nat, n \in T PROVE n + 1 \in T
  BY <1>2
<1>3. Nat \subseteq T
  <2> HIDE DEF T
  <2> QED BY <1>1, <1>2, NatInduct
<1> QED BY <1>3

\* The ways to get each of M values in D from the one before it, and a function
\* that starts with c and follows one of them.
NextValues(M, D) == [1..M -> [D -> D]]
Follows(f, M, D, c, G) ==
  f \in [0..M -> D] /\ f[0] = c /\ \A n \in 1..M : f[n] = G[n][f[n - 1]]

\* Recursion: there is such a function.
LEMMA StepFunction ==
  ASSUME NEW M \in Nat, NEW D, NEW c \in D, NEW G \in NextValues(M, D)
  PROVE  \E f : Follows(f, M, D, c, G)
<1> SUFFICES \E f \in [0..M -> D] : f[0] = c /\ \A n \in 1..M : f[n] = G[n][f[n - 1]]
  BY DEF Follows
<1> USE DEF NextValues
<1> DEFINE Good(n) == \E f \in [0..n -> D] : f[0] = c /\ \A k \in 1..n : f[k] = G[k][f[k - 1]]
           S == {n \in Nat : n <= M => Good(n)}
<1>1. Good(0)
  <2> DEFINE g == [i \in 0..0 |-> c]
  <2>1. g \in [0..0 -> D] /\ g[0] = c /\ 1..0 = {}
    OBVIOUS
  <2> HIDE DEF g
  <2> QED BY <2>1
<1>2. ASSUME NEW n \in Nat, n \in S PROVE n + 1 \in S
  <2> SUFFICES ASSUME n + 1 <= M PROVE Good(n + 1)
    OBVIOUS
  <2>1. PICK f \in [0..n -> D] : f[0] = c /\ \A k \in 1..n : f[k] = G[k][f[k - 1]]
    BY <1>2
  <2> DEFINE g == [i \in 0..(n + 1) |-> IF i = n + 1 THEN G[n + 1][f[n]] ELSE f[i]]
  <2>2. G[n + 1][f[n]] \in D
    OBVIOUS
  <2>3. g \in [0..(n + 1) -> D]
    BY <2>2
  <2>4. g[0] = c
    BY <2>1
  <2>5. ASSUME NEW k \in 1..(n + 1) PROVE g[k] = G[k][g[k - 1]]
    <3>1. CASE k = n + 1
      BY <3>1
    <3>2. CASE k \in 1..n
      BY <3>2, <2>1
    <3> QED BY <3>1, <3>2
  <2> HIDE DEF g
  <2> QED BY <2>3, <2>4, <2>5
<1>3. Nat \subseteq S
  <2> HIDE DEF Good
  <2>1. 0 \in S
    BY <1>1
  <2> HIDE DEF S
  <2> QED BY <2>1, <1>2, NatInduct
<1>4. M \in S
  BY <1>3
<1> QED BY <1>4

-----------------------------------------------------------------------------
(* Remainders and probing.                                                 *)

\* The remainder of a number below twice the divisor.
LEMMA SmallRemainder ==
  ASSUME NEW a \in Nat, a > 0, NEW v \in Nat, v < a + a
  PROVE  v % a = IF v < a THEN v ELSE v - a
<1>1. v \div a \in Nat /\ v % a \in 0..(a - 1)
  OBVIOUS
<1>2. v = a * (v \div a) + (v % a)
  OBVIOUS
<1>3. PICK q \in Nat, r \in 0..(a - 1) : q = v \div a /\ r = v % a /\ v = a * q + r
  BY <1>1, <1>2
<1>4. CASE q = 0
  BY <1>3, <1>4
<1>5. CASE q = 1
  BY <1>3, <1>5
<1>6. CASE q >= 2
  <2>1. a * q >= a * 2
    BY <1>6
  <2> QED BY <1>3, <2>1
<1> QED BY <1>3, <1>4, <1>5, <1>6

\* The quotient of a number below the divisor.
LEMMA SmallQuotient ==
  ASSUME NEW a \in Nat, a > 0, NEW v \in Nat, v < a
  PROVE  v \div a = 0
<1>1. v \div a \in Nat /\ v % a \in 0..(a - 1)
  OBVIOUS
<1>2. v = a * (v \div a) + (v % a)
  OBVIOUS
<1>3. PICK q \in Nat, r \in 0..(a - 1) : q = v \div a /\ v = a * q + r
  BY <1>1, <1>2
<1>4. q < 1
  <2> SUFFICES ASSUME q >= 1 PROVE FALSE
    BY <1>3
  <2>1. a * q >= a
    BY <1>3
  <2> QED BY <1>3, <2>1
<1> QED BY <1>3, <1>4

\* A product with a positive number is no smaller.
LEMMA NoSmaller ==
  ASSUME NEW a \in Nat, NEW b \in Nat, b > 0
  PROVE  a * b \in Nat /\ a <= a * b
<1>1. PICK c \in Nat : b = c + 1
  <2>1. b - 1 \in Nat
    OBVIOUS
  <2> QED BY <2>1
<1>2. a * (c + 1) = a * c + a /\ a * c \in Nat
  OBVIOUS
<1> QED BY <1>1, <1>2

\* The steps from the home slot h to slot i of a table with cap slots.
LEMMA ProbeSteps ==
  ASSUME NEW cap \in Nat, NEW h \in 0..(cap - 1), NEW i \in 0..(cap - 1)
  PROVE  /\ (i + cap - h) % cap = IF h <= i THEN i - h ELSE i + cap - h
         /\ (i + cap - h) % cap \in 0..(cap - 1)
<1>1. cap > 0 /\ i + cap - h \in Nat /\ i + cap - h < cap + cap
  OBVIOUS
<1>2. (i + cap - h) % cap = IF i + cap - h < cap THEN i + cap - h ELSE i + cap - h - cap
  BY <1>1, SmallRemainder
<1> QED BY <1>2
=============================================================================
