--------------------------- MODULE IntervalLemmas --------------------------
(***************************************************************************)
(* Least and greatest elements of sets of natural numbers: what lastFile   *)
(* finds, and where an argument about a chain of blocks starts.  Multiples *)
(* of file sizes.                                                          *)
(***************************************************************************)
EXTENDS Integers, WellFoundedInduction, TLAPS

\* Every non-empty set of natural numbers has a least element.
LEMMA LeastElement ==
    ASSUME NEW S \in SUBSET Nat, S # {}
    PROVE  \E n \in S : \A m \in S : n <= m
<1> DEFINE R == {ss \in Nat \X Nat : ss[1] < ss[2]}
<1>1. IsWellFoundedOn(R, Nat)
  BY NatLessThanWellFounded DEF OpToRel
<1>2. \E n \in S : \A m \in S : ~ (<<m, n>> \in R)
  <2> HIDE DEF R
  <2> QED BY <1>1, WFMin, Zenon
<1>3. PICK n \in S : \A m \in S : ~ (<<m, n>> \in R)
  BY <1>2
<1>4. \A m \in S : n <= m
  <2>1. TAKE m \in S
  <2>2. m \in Nat /\ n \in Nat
    OBVIOUS
  <2>3. <<m, n>> \notin R
    BY <1>3
  <2>4. ~ (m < n)
    BY <2>2, <2>3 DEF R
  <2> QED BY <2>2, <2>4
<1> QED BY <1>4

\* Every non-empty set of heights has a greatest element.
LEMMA GreatestElement ==
    ASSUME NEW n \in Nat, NEW S \in SUBSET (0..n), S # {}
    PROVE  \E h \in S : \A k \in S : k <= h
<1> DEFINE T == {n - h : h \in S}
<1>1. T \in SUBSET Nat
  <2>1. \A h \in S : h \in 0..n
    OBVIOUS
  <2>2. \A h \in S : n - h \in Nat
    BY <2>1
  <2> QED BY <2>2
<1>2. T # {}
  <2>1. PICK h \in S : TRUE
    OBVIOUS
  <2>2. n - h \in T
    OBVIOUS
  <2> QED BY <2>2
<1>3. PICK t \in T : \A u \in T : t <= u
  <2> HIDE DEF T
  <2> QED BY <1>1, <1>2, LeastElement
<1>4. PICK h \in S : t = n - h
  BY <1>3
<1>5. \A k \in S : k <= h
  <2>1. TAKE k \in S
  <2>2. n - h <= n - k
    BY <1>3, <1>4
  <2> QED BY <2>2
<1> QED BY <1>5

\* A multiple has a quotient.
LEMMA Quotient ==
    ASSUME NEW n \in Nat \ {0}, NEW d \in Nat, d % n = 0
    PROVE  \E q \in Nat : d = n * q
<1>1. d = n * (d \div n) /\ d \div n \in Nat
  OBVIOUS
<1> QED BY <1>1

\* What has a quotient is a multiple.
LEMMA Multiple ==
    ASSUME NEW n \in Nat \ {0}, NEW q \in Nat
    PROVE  (n * q) % n = 0
OBVIOUS

\* The next multiple, and that there is none in between.
LEMMA NextMultiple ==
    ASSUME NEW n \in Nat \ {0}, NEW d \in Nat, d % n = 0
    PROVE  /\ (d + n) % n = 0
           /\ d > 0 => d >= n /\ (d - n) % n = 0
           /\ \A e \in Nat : e % n = 0 /\ d < e => d + n <= e
<1>1. PICK q \in Nat : d = n * q
  BY Quotient
<1>2. (d + n) % n = 0
  <2>1. d + n = n * (q + 1) /\ q + 1 \in Nat
    BY <1>1
  <2>2. (n * (q + 1)) % n = 0
    BY <2>1, Multiple
  <2> QED BY <2>1, <2>2
<1>3. ASSUME d > 0 PROVE d >= n /\ (d - n) % n = 0
  <2>1. q # 0
    BY <1>1, <1>3
  <2>2. q - 1 \in Nat /\ d - n = n * (q - 1)
    BY <1>1, <2>1
  <2>3. n * (q - 1) \in Nat
    BY <2>2
  <2> QED BY <2>2, <2>3, Multiple
<1>4. ASSUME NEW e \in Nat, e % n = 0, d < e PROVE d + n <= e
  <2>1. PICK r \in Nat : e = n * r
    BY <1>4, Quotient
  <2>2. q < r
    <3> SUFFICES ASSUME r <= q PROVE FALSE
      OBVIOUS
    <3>1. n * r <= n * q
      OBVIOUS
    <3> QED BY <1>1, <1>4, <2>1, <3>1
  <2>3. n * (q + 1) <= n * r
    <3>1. q + 1 <= r
      BY <2>2
    <3> QED BY <3>1
  <2> QED BY <1>1, <2>1, <2>3
<1> QED BY <1>2, <1>3, <1>4

\* A multiple of a multiple.
LEMMA MultipleOfMultiple ==
    ASSUME NEW n \in Nat \ {0}, NEW m \in Nat \ {0}, m % n = 0, NEW d \in Nat, d % m = 0
    PROVE  d % n = 0
<1>1. PICK r \in Nat : m = n * r
  BY Quotient
<1>2. PICK q \in Nat : d = m * q
  BY Quotient
<1>3. d = n * (r * q) /\ r * q \in Nat
  BY <1>1, <1>2
<1> QED BY <1>3, Multiple

\* A file is among the first x \div n iff its end is among the first x heights.
LEMMA DivBound ==
    ASSUME NEW x \in Int, NEW n \in Nat \ {0}, NEW k \in Int
    PROVE  k < x \div n <=> k * n + n <= x
<1> DEFINE q == x \div n
<1>1. q \in Int /\ n * q <= x /\ x < n * q + n
  OBVIOUS
<1> HIDE DEF q
<1>2. ASSUME k < q PROVE k * n + n <= x
  <2>1. k + 1 <= q
    BY <1>1, <1>2
  <2>2. n * (k + 1) <= n * q
    BY <1>1, <2>1
  <2> QED BY <1>1, <2>2
<1>3. ASSUME ~ (k < q) PROVE ~ (k * n + n <= x)
  <2>1. q <= k
    BY <1>1, <1>3
  <2>2. n * q <= n * k
    BY <1>1, <2>1
  <2> QED BY <1>1, <2>2
<1> QED BY <1>2, <1>3 DEF q

\* What a division returns.
LEMMA DivIs ==
    ASSUME NEW x \in Int, NEW n \in Nat \ {0}, NEW q \in Int, q * n <= x, x < q * n + n
    PROVE  x \div n = q
<1> DEFINE r == x \div n
<1>1. r \in Int
  OBVIOUS
<1>2. ~ (q < r)
  BY DivBound
<1>3. (q - 1) * n + n <= x /\ q - 1 \in Int
  OBVIOUS
<1>4. q - 1 < r
  BY <1>3, DivBound
<1> HIDE DEF r
<1>5. r = q
  BY <1>1, <1>2, <1>4
<1> QED BY <1>5 DEF r
=============================================================================
