---------------------------- MODULE NumberProofs ----------------------------
(***************************************************************************)
(* Induction over the natural numbers, stated with sets of numbers, and    *)
(* remainders by any modulus.                                              *)
(***************************************************************************)
EXTENDS LeastElement, WellFoundedInduction, TLAPS

\* Every non-empty set of natural numbers has a least element.
LEMMA LeastIsLeast ==
  ASSUME NEW S \in SUBSET Nat, S # {}
  PROVE  Least(S) \in S /\ \A j \in S : Least(S) <= j
<1> DEFINE R == OpToRel(<, Nat)
<1>1. IsWellFoundedOn(R, Nat)
  BY NatLessThanWellFounded, Zenon
<1>2. PICK k \in S : \A j \in S : ~(<<j, k>> \in R)
  <2> HIDE DEF R
  <2> QED  BY <1>1, WFMin, Zenon
<1>3. \A j \in S : k <= j
  <2> TAKE j \in S
  <2>1. <<j, k>> \in Nat \X Nat
    OBVIOUS
  <2>2. ~(j < k)
    BY <1>2, <2>1 DEF OpToRel
  <2> QED  BY <2>2
<1> QED  BY <1>3 DEF Least

\* A set of numbers that holds 0 and the successor of each of its members holds
\* every natural number: otherwise the least number outside has a predecessor inside.
LEMMA NaturalsFromZero ==
  ASSUME NEW T \in SUBSET Nat, 0 \in T, \A n \in T : n + 1 \in T
  PROVE  T = Nat
<1> DEFINE Outside == Nat \ T
<1> SUFFICES ASSUME Outside # {}  PROVE FALSE
  OBVIOUS
<1> DEFINE k == Least(Outside)
<1>1. k \in Outside /\ \A j \in Outside : k <= j
  BY LeastIsLeast
<1> HIDE DEF k
<1>2. k \in Nat /\ k # 0
  BY <1>1
<1>3. k - 1 \in Nat /\ k - 1 \notin Outside
  BY <1>1, <1>2
<1>4. k - 1 \in T
  BY <1>3
<1>5. (k - 1) + 1 \in T
  BY <1>4
<1> QED  BY <1>1, <1>2, <1>5

-----------------------------------------------------------------------------
LEMMA Division ==
  ASSUME NEW x \in Int, NEW w \in Nat \ {0}
  PROVE  x % w \in 0..w - 1 /\ x \div w \in Int /\ x = (x \div w) * w + (x % w)
OBVIOUS

LEMMA RemainderUnique ==
  ASSUME NEW x \in Int, NEW w \in Nat \ {0}, NEW r \in 0..w - 1, NEW q \in Int,
         x = q * w + r
  PROVE  x % w = r
<1> DEFINE d == (x \div w) - q
<1>1. d * w = r - (x % w)
  BY Division
<1>2. r - (x % w) < w /\ r - (x % w) > -w
  BY Division
<1>3. d \in Int
  BY Division
<1> HIDE DEF d
<1>4. d = 0
  <2>1. CASE d >= 1
    <3>1. d * w >= w
      BY <1>3, <2>1
    <3> QED  BY <3>1, <1>1, <1>2
  <2>2. CASE d <= -1
    <3>1. d * w <= -w
      BY <1>3, <2>2
    <3> QED  BY <3>1, <1>1, <1>2
  <2> QED  BY <2>1, <2>2, <1>3
<1>5. r - (x % w) = 0
  BY <1>1, <1>4
<1>6. x % w \in Int
  BY Division
<1> QED  BY <1>5, <1>6

LEMMA QuotientUnique ==
  ASSUME NEW x \in Int, NEW w \in Nat \ {0}, NEW r \in 0..w - 1, NEW q \in Int,
         x = q * w + r
  PROVE  x \div w = q
<1>1. x % w = r
  BY RemainderUnique
<1>2. PICK d \in Int : d = x \div w
  BY Division
<1>3. x = d * w + r
  BY <1>1, <1>2, Division
<1>4. d * w = q * w
  BY <1>3
<1>5. (d - q) * w = 0
  BY <1>4
<1>6. PICK e \in Int : e = d - q
  OBVIOUS
<1>7. e * w = 0
  BY <1>5, <1>6
<1>8. e = 0
  <2>1. CASE e >= 1
    <3>1. e * w >= w
      BY <2>1
    <3> QED  BY <1>7, <3>1
  <2>2. CASE e <= -1
    <3>1. e * w <= -w
      BY <2>2
    <3> QED  BY <1>7, <3>1
  <2> QED  BY <2>1, <2>2
<1> QED  BY <1>2, <1>6, <1>8

\* A number below w is its own remainder.
LEMMA RemainderSmall ==
  ASSUME NEW w \in Nat \ {0}, NEW x \in 0..w - 1
  PROVE  x % w = x
<1>1. x = 0 * w + x /\ 0 \in Int /\ x \in Int
  OBVIOUS
<1> QED  BY <1>1, RemainderUnique

\* A counter that wraps around is the true count modulo its width.
LEMMA RemainderAdds ==
  ASSUME NEW a \in Int, NEW s \in Int, NEW w \in Nat \ {0}
  PROVE  ((a % w) + s) % w = (a + s) % w
<1> DEFINE r == (a + s) % w
           q == ((a + s) \div w) - (a \div w)
<1>1. r \in 0..w - 1 /\ (a + s) \div w \in Int /\ a + s = ((a + s) \div w) * w + r
  BY Division
<1>2. a % w \in 0..w - 1 /\ a \div w \in Int /\ a = (a \div w) * w + (a % w)
  BY Division
<1>3. (a % w) + s = q * w + r
  BY <1>1, <1>2
<1>4. q \in Int /\ (a % w) + s \in Int
  BY <1>1, <1>2
<1> HIDE DEF r, q
<1>5. ((a % w) + s) % w = r
  BY <1>1, <1>3, <1>4, RemainderUnique
<1> QED  BY <1>5 DEF r

\* Products of natural numbers.
LEMMA ProductType ==
  ASSUME NEW a \in Nat, NEW b \in Nat
  PROVE  a * b \in Nat
OBVIOUS

LEMMA ProductMonotone ==
  ASSUME NEW a \in Int, NEW b \in Int, a <= b, NEW w \in Nat
  PROVE  a * w <= b * w
<1>1. PICK e \in Nat : b = a + e
  <2>1. b - a \in Nat /\ b = a + (b - a)
    OBVIOUS
  <2> QED  BY <2>1
<1>2. e * w \in Nat
  BY ProductType
<1>3. b * w = a * w + e * w
  BY <1>1
<1>4. PICK x \in Int, y \in Nat : x = a * w /\ y = e * w
  BY <1>2
<1> QED  BY <1>3, <1>4
=============================================================================
