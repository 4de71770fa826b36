---------------------------- MODULE NaturalLemmas ---------------------------
(* Facts about natural numbers that several proofs need.                   *)
EXTENDS Integers, WellFoundedInduction, TLAPS

\* A non-empty set of naturals has a least element.
LEMMA LeastExists ==
  ASSUME NEW S \in SUBSET Nat, S # {}
  PROVE  \E x \in S : \A y \in S : x <= y
<1> DEFINE R == {ss \in Nat \X Nat : ss[1] < ss[2]}
<1>1. IsWellFoundedOn(R, Nat)  BY NatLessThanWellFounded DEF OpToRel
<1>2. \A x, y \in Nat : y < x => <<y, x>> \in R  OBVIOUS
<1> HIDE DEF R
<1>3. PICK k \in S : \A n \in S : ~ (<<n, k>> \in R)  BY <1>1, WFMin, Zenon
<1>4. \A n \in S : ~ (n < k)  BY <1>2, <1>3, S \subseteq Nat, Zenon
<1> QED  BY <1>4, SMT

\* Division with remainder by a divisor that is not a number.
LEMMA Division ==
  ASSUME NEW x \in Nat, NEW m \in Nat \ {0}
  PROVE  /\ x \div m \in Nat /\ x % m \in 0 .. m - 1
         /\ x = m * (x \div m) + (x % m)
  BY SMT

LEMMA Monotonic ==
  ASSUME NEW m \in Nat, NEW x \in Int, NEW y \in Int, x <= y
  PROVE  m * x <= m * y
  BY SMT

\* The quotient is the only one with a remainder below the divisor.
LEMMA Unique ==
  ASSUME NEW m \in Nat \ {0}, NEW p \in Nat, NEW r \in 0 .. m - 1
  PROVE  (m * p + r) \div m = p
<1> DEFINE x == m * p + r  q == x \div m  s == x % m
<1>1. x \in Nat  BY SMT
<1>2. q \in Nat /\ s \in 0 .. m - 1 /\ x = m * q + s  BY <1>1, Division
<1> HIDE DEF q, s
<1>3. m * (q - p) = m * q - m * p  BY <1>2
<1>4. m * (q - p) \in 1 - m .. m - 1  BY <1>2, <1>3
<1>5. q - p <= 0
  <2>1. q - p >= 1 => m * 1 <= m * (q - p)  BY <1>2, Monotonic
  <2> QED  BY <1>2, <1>4, <2>1
<1>6. q - p >= 0
  <2>1. q - p <= -1 => m * (q - p) <= m * (-1)  BY <1>2, Monotonic
  <2> QED  BY <1>2, <1>4, <2>1
<1> QED  BY <1>2, <1>5, <1>6 DEF q

\* And so is the remainder.
LEMMA Remainder ==
  ASSUME NEW m \in Nat \ {0}, NEW p \in Nat, NEW r \in 0 .. m - 1
  PROVE  (m * p + r) % m = r
<1> DEFINE x == m * p + r
<1>1. x \in Nat  BY SMT
<1>2. x = m * (x \div m) + (x % m) /\ x % m \in 0 .. m - 1  BY <1>1, Division
<1>3. x \div m = p  BY Unique
<1> HIDE DEF x
<1>4. x = m * p + (x % m)  BY <1>2, <1>3
<1>5. m * p \in Int  OBVIOUS
<1> QED  BY <1>2, <1>4, <1>5 DEF x

\* Adding one and taking the remainder may be done in either order.
LEMMA AddRemainder ==
  ASSUME NEW m \in Nat \ {0}, NEW x \in Nat, NEW i \in 0 .. 1
  PROVE  ((x % m) + i) % m = (x + i) % m
<1> DEFINE q == x \div m  r == x % m
<1>1. q \in Nat /\ r \in 0 .. m - 1 /\ x = m * q + r  BY Division
<1> HIDE DEF q, r
<1>2. CASE r + i < m
  <2>1. r + i \in 0 .. m - 1  BY <1>1, <1>2
  <2>2. (m * q + (r + i)) % m = r + i  BY <1>1, <2>1, Remainder
  <2>3. (m * 0 + (r + i)) % m = r + i  BY <2>1, Remainder
  <2>4. m * q \in Int /\ m * 0 = 0  BY <1>1
  <2>5. x + i = m * q + (r + i) /\ m * 0 + (r + i) = r + i  BY <1>1, <2>1, <2>4
  <2> QED  BY <2>2, <2>3, <2>5 DEF r
<1>3. CASE r + i >= m
  <2>1. r + i = m  BY <1>1, <1>3
  <2>2. (m * (q + 1) + 0) % m = 0 /\ (m * 1 + 0) % m = 0
    <3>1. q + 1 \in Nat /\ 1 \in Nat /\ 0 \in 0 .. m - 1  BY <1>1
    <3> QED  BY <3>1, Remainder
  <2>3. m * q \in Int /\ m * (q + 1) = m * q + m /\ m * 1 = m  BY <1>1
  <2>4. x + i = m * (q + 1) + 0 /\ r + i = m * 1 + 0  BY <1>1, <2>1, <2>3
  <2> QED  BY <2>2, <2>4 DEF r
<1> QED  BY <1>1, <1>2, <1>3
=============================================================================
