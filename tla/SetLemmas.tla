----------------------------- MODULE SetLemmas -----------------------------
(***************************************************************************)
(* What the proofs use of numbers: that finite sets of them have a least   *)
(* and a greatest element, and are numbered from the least one on; and     *)
(* what division leaves.                                                   *)
(***************************************************************************)
EXTENDS Integers, FiniteSetsExt, FiniteSetTheorems, WellFoundedInduction, TLAPS

\* A non-empty set of naturals has a least element, and Min is it.
LEMMA MinInSet ==
  ASSUME NEW S, S \subseteq Nat, S # {}
  PROVE  Min(S) \in S /\ \A y \in S : Min(S) <= y
<1> DEFINE R == {ss \in Nat \X Nat : ss[1] < ss[2]}
<1>1. IsWellFoundedOn(R, Nat)
  BY NatLessThanWellFounded DEF OpToRel
<1>2. \E x \in S : \A y \in S : ~ (<<y, x>> \in R)
  BY <1>1, WFMin
<1>3. \A x, y \in Nat : <<y, x>> \in R <=> y < x
  OBVIOUS
<1> HIDE DEF R
<1>4. PICK x \in S : \A y \in S : ~ (<<y, x>> \in R)
  BY <1>2
<1>5. \A y \in S : x =< y
  <2>1. \A y \in S : ~ (y < x)
    BY <1>3, <1>4
  <2>2. QED
    BY <2>1
<1>6. QED
  BY <1>5 DEF Min


\* A non-empty finite set of naturals has a greatest element, and Max is it.
LEMMA MaxInSet ==
  ASSUME NEW n \in Nat, NEW S, S \subseteq 0 .. n, S # {}
  PROVE  Max(S) \in S
<1> DEFINE Below == {n - x : x \in S}
<1>1. Below \subseteq Nat /\ Below # {}
  <2>1. \A x \in S : n - x \in Nat
    OBVIOUS
  <2>2. Below \subseteq Nat
    BY <2>1
  <2>3. \E x \in S : n - x \in Below
    OBVIOUS
  <2>4. QED
    BY <2>2, <2>3
<1>2. PICK m \in Below : \A y \in Below : m =< y
  <2> DEFINE R == {ss \in Nat \X Nat : ss[1] < ss[2]}
  <2>1. IsWellFoundedOn(R, Nat)
    BY NatLessThanWellFounded DEF OpToRel
  <2>2. \A x, y \in Nat : <<y, x>> \in R <=> y < x
    OBVIOUS
  <2> HIDE DEF R, Below
  <2>3. PICK x \in Below : \A y \in Below : ~ (<<y, x>> \in R)
    BY <1>1, <2>1, WFMin
  <2>4. \A y \in Below : ~ (y < x)
    BY <1>1, <2>2, <2>3
  <2>5. QED
    BY <1>1, <2>4
<1>3. PICK x \in S : m = n - x
  BY <1>2
<1>4. \A y \in S : x >= y
  <2> SUFFICES ASSUME NEW y \in S PROVE x >= y
    OBVIOUS
  <2>1. m =< n - y
    BY <1>2
  <2>2. QED
    BY <1>3, <2>1
<1>5. QED
  BY <1>4 DEF Max

\* Counting each element with those below it numbers a set from 1, without gaps.
LEMMA RanksFromOne ==
  ASSUME NEW S, S \subseteq Nat, IsFiniteSet(S)
  PROVE  /\ \A x \in S : Cardinality({y \in S : y <= x}) \in 1 .. Cardinality(S)
         /\ {Cardinality({y \in S : y <= x}) : x \in S} = 1 .. Cardinality(S)
<1> DEFINE n == Cardinality(S)
           UpTo(x) == {y \in S : y <= x}
           f == [x \in S |-> Cardinality(UpTo(x))]
<1>1. n \in Nat
  BY FS_CardinalityType
<1>2. ASSUME NEW x \in S
      PROVE  IsFiniteSet(UpTo(x)) /\ Cardinality(UpTo(x)) \in 1 .. n
  <2>1. UpTo(x) \in SUBSET S
    OBVIOUS
  <2>2. IsFiniteSet(UpTo(x)) /\ Cardinality(UpTo(x)) \in Nat /\ Cardinality(UpTo(x)) <= n
    BY <2>1, FS_Subset, FS_CardinalityType
  <2>3. x \in UpTo(x)
    OBVIOUS
  <2>4. Cardinality(UpTo(x)) # 0
    <3> HIDE DEF UpTo
    <3>1. QED
      BY <2>2, <2>3, FS_EmptySet
  <2>5. QED
    BY <1>1, <2>2, <2>4
<1>3. ASSUME NEW x \in S, NEW y \in S, x < y
      PROVE  Cardinality(UpTo(x)) # Cardinality(UpTo(y))
  <2>1. UpTo(x) \in SUBSET UpTo(y)
    <3>1. \A z \in S : z <= x => z <= y
      BY <1>3
    <3>2. QED
      BY <3>1
  <2>2. y \in UpTo(y) /\ y \notin UpTo(x)
    BY <1>3
  <2>3. IsFiniteSet(UpTo(y))
    BY <1>2
  <2> HIDE DEF UpTo
  <2>4. Cardinality(UpTo(x)) = Cardinality(UpTo(y)) => UpTo(x) = UpTo(y)
    BY <2>1, <2>3, FS_Subset
  <2>5. QED
    BY <2>2, <2>4
<1>4. \A x, y \in S : Cardinality(UpTo(x)) = Cardinality(UpTo(y)) => x = y
  <2>1. SUFFICES ASSUME NEW x \in S, NEW y \in S, x # y
                 PROVE  Cardinality(UpTo(x)) # Cardinality(UpTo(y))
    OBVIOUS
  <2>2. x < y \/ y < x
    BY <2>1
  <2>3. QED
    BY <1>3, <2>2
<1>5. f \in Injection(S, 1 .. n)
  <2>1. f \in [S -> 1 .. n]
    BY <1>2
  <2>2. IsInjective(f)
    BY <1>4 DEF IsInjective
  <2>3. QED
    BY <2>1, <2>2 DEF Injection
<1>6. f \in Surjection(S, 1 .. n)
  <2>1. IsFiniteSet(1 .. n) /\ Cardinality(1 .. n) = n
    BY <1>1, FS_Interval
  <2> HIDE DEF f
  <2>2. QED
    BY <1>5, <2>1, FS_Injection
<1>7. \A i \in 1 .. n : \E x \in S : Cardinality(UpTo(x)) = i
  BY <1>6 DEF Surjection
<1>8. QED
  BY <1>2, <1>7

\* A finite set grows by one element at most.
LEMMA OneMoreElement ==
  ASSUME NEW S, IsFiniteSet(S), NEW k \in Nat, Cardinality(S) <= k, NEW x
  PROVE  IsFiniteSet(S \cup {x}) /\ Cardinality(S \cup {x}) <= k + 1
<1>1. Cardinality(S) \in Nat
  BY FS_CardinalityType
<1> QED
  BY <1>1, FS_AddElement

-----------------------------------------------------------------------------
(* Quotients and remainders *)

\* What division by a positive number gives.
LEMMA DivMod ==
  ASSUME NEW a \in Int, NEW n \in Nat \ {0}
  PROVE  /\ a \div n \in Int /\ a % n \in 0 .. n - 1
         /\ a = (n * (a \div n)) + (a % n)
<1>1. a % n \in 0 .. n - 1
  OBVIOUS
<1>2. a \div n \in Int
  OBVIOUS
<1>3. a = (n * (a \div n)) + (a % n)
  OBVIOUS
<1> QED
  BY <1>1, <1>2, <1>3

\* A positive multiple is not less than the number.
LEMMA Multiples ==
  ASSUME NEW n \in Nat \ {0}, NEW k \in Int, k >= 1
  PROVE  n * k \in Int /\ n * k >= n
<1>1. n * (k - 1) >= 0
  OBVIOUS
<1>2. n * (k - 1) = (n * k) - n
  OBVIOUS
<1>3. n * k \in Int /\ n * (k - 1) \in Int
  OBVIOUS
<1> QED
  BY <1>1, <1>2, <1>3

\* Two remainders of one number are equal, whatever the quotients.
LEMMA ModUnique ==
  ASSUME NEW n \in Nat \ {0}, NEW q1 \in Int, NEW q2 \in Int,
         NEW r1 \in 0 .. n - 1, NEW r2 \in 0 .. n - 1, (n * q1) + r1 = (n * q2) + r2
  PROVE  r1 = r2
<1>1. n * (q1 - q2) = r2 - r1 /\ n * (q2 - q1) = r1 - r2
  <2>1. n * (q1 - q2) = (n * q1) - (n * q2)
    OBVIOUS
  <2>2. n * (q2 - q1) = (n * q2) - (n * q1)
    OBVIOUS
  <2>3. n * q1 \in Int /\ n * q2 \in Int
    OBVIOUS
  <2> QED
    BY <2>1, <2>2, <2>3
<1>2. CASE q1 - q2 >= 1
  BY <1>1, <1>2, Multiples
<1>3. CASE q2 - q1 >= 1
  BY <1>1, <1>3, Multiples
<1>4. CASE q1 = q2
  BY <1>4
<1> QED
  BY <1>2, <1>3, <1>4

\* What is left of any multiple is the remainder.
LEMMA ModIs ==
  ASSUME NEW n \in Nat \ {0}, NEW q \in Int, NEW r \in 0 .. n - 1
  PROVE  ((n * q) + r) % n = r
<1> DEFINE a == (n * q) + r
<1>1. a \in Int
  OBVIOUS
<1>2. a = (n * q) + r
  OBVIOUS
<1> HIDE DEF a
<1>3. a % n \in 0 .. n - 1 /\ a = (n * (a \div n)) + (a % n) /\ a \div n \in Int
  BY <1>1, DivMod
<1>4. a % n = r
  BY <1>2, <1>3, ModUnique
<1> QED
  BY <1>4 DEF a
=============================================================================
