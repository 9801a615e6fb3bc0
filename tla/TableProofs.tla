---------------------------- MODULE TableProofs ----------------------------
(***************************************************************************)
(* The theorems about the language's table: every key with an identity of  *)
(* its own is found, and to these keys the table is an ordered map.  The   *)
(* entries that are live are numbered in their order, which is what        *)
(* compaction makes their positions and what the map's positions are; the  *)
(* index is followed through one lemma about an entry more (Placed), which *)
(* insertion and rebuilding share.                                         *)
(***************************************************************************)
EXTENDS Table, SetLemmas, SequenceTheorems, TLAPS

-----------------------------------------------------------------------------
(* Numbering *)

UpTo(S, i) == {x \in S : x <= i}

\* Of two elements the greater one has more below it.
LEMMA RankGrows ==
  ASSUME NEW S, S \subseteq Nat, IsFiniteSet(S), NEW x \in S, NEW y \in S, x < y
  PROVE  Cardinality(UpTo(S, x)) < Cardinality(UpTo(S, y))
<1>1. UpTo(S, x) \in SUBSET UpTo(S, y)
  <2>1. \A z \in S : z <= x => z <= y
    OBVIOUS
  <2> QED
    BY <2>1 DEF UpTo
<1>2. y \in UpTo(S, y) /\ y \notin UpTo(S, x)
  <2>1. y <= y /\ ~(y <= x)
    OBVIOUS
  <2> QED
    BY <2>1 DEF UpTo
<1>3. IsFiniteSet(UpTo(S, y))
  <2>1. UpTo(S, y) \in SUBSET S
    BY DEF UpTo
  <2> QED
    BY <2>1, FS_Subset
<1>4. IsFiniteSet(UpTo(S, x)) /\ Cardinality(UpTo(S, x)) <= Cardinality(UpTo(S, y))
  BY <1>1, <1>3, FS_Subset
<1>5. Cardinality(UpTo(S, x)) # Cardinality(UpTo(S, y))
  BY <1>1, <1>2, <1>3, FS_Subset
<1>6. Cardinality(UpTo(S, x)) \in Nat /\ Cardinality(UpTo(S, y)) \in Nat
  BY <1>3, <1>4, FS_CardinalityType
<1> QED
  BY <1>4, <1>5, <1>6

\* So that no two have the same number.
LEMMA RanksDiffer ==
  ASSUME NEW S, S \subseteq Nat, IsFiniteSet(S), NEW x \in S, NEW y \in S,
         Cardinality(UpTo(S, x)) = Cardinality(UpTo(S, y))
  PROVE  x = y
<1>1. x \in Nat /\ y \in Nat
  OBVIOUS
<1>2. CASE x < y
  <2>1. Cardinality(UpTo(S, x)) < Cardinality(UpTo(S, y))
    BY <1>2, RankGrows
  <2>2. IsFiniteSet(UpTo(S, x))
    <3>1. UpTo(S, x) \in SUBSET S
      BY DEF UpTo
    <3> QED
      BY <3>1, FS_Subset
  <2> QED
    BY <2>1, <2>2, FS_CardinalityType
<1>3. CASE y < x
  <2>1. Cardinality(UpTo(S, y)) < Cardinality(UpTo(S, x))
    BY <1>3, RankGrows
  <2>2. IsFiniteSet(UpTo(S, x))
    <3>1. UpTo(S, x) \in SUBSET S
      BY DEF UpTo
    <3> QED
      BY <3>1, FS_Subset
  <2> QED
    BY <2>1, <2>2, FS_CardinalityType
<1> QED
  BY <1>1, <1>2, <1>3

\* The n-th position in a set is one of it, and n of the set are up to it.
LEMMA NthIn ==
  ASSUME NEW S, S \subseteq Nat, IsFiniteSet(S), NEW n \in 1 .. Cardinality(S)
  PROVE  Nth(S, n) \in S /\ Cardinality(UpTo(S, Nth(S, n))) = n
<1>1. {Cardinality({y \in S : y <= x}) : x \in S} = 1 .. Cardinality(S)
  BY RanksFromOne
<1>2. \E x \in S : Cardinality({y \in S : y <= x}) = n
  BY <1>1
<1> QED
  BY <1>2 DEF Nth, UpTo

\* Every one has its number.
LEMMA NthIs ==
  ASSUME NEW S, S \subseteq Nat, IsFiniteSet(S), NEW i \in S
  PROVE  /\ Cardinality(UpTo(S, i)) \in 1 .. Cardinality(S)
         /\ Nth(S, Cardinality(UpTo(S, i))) = i
<1>1. Cardinality(UpTo(S, i)) \in 1 .. Cardinality(S)
  BY RanksFromOne DEF UpTo
<1> DEFINE n == Cardinality(UpTo(S, i))
<1>2. n \in 1 .. Cardinality(S)
  BY <1>1
<1>3. n = Cardinality(UpTo(S, i))
  OBVIOUS
<1> HIDE DEF n
<1>4. Nth(S, n) \in S /\ Cardinality(UpTo(S, Nth(S, n))) = n
  BY <1>2, NthIn
<1>5. Nth(S, n) = i
  BY <1>3, <1>4, RanksDiffer
<1> QED
  BY <1>1, <1>3, <1>5

\* The numbers follow the order.
LEMMA NthGrows ==
  ASSUME NEW S, S \subseteq Nat, IsFiniteSet(S),
         NEW n \in 1 .. Cardinality(S), NEW m \in 1 .. Cardinality(S), n < m
  PROVE  Nth(S, n) < Nth(S, m)
<1>1. /\ Nth(S, n) \in S /\ Cardinality(UpTo(S, Nth(S, n))) = n
      /\ Nth(S, m) \in S /\ Cardinality(UpTo(S, Nth(S, m))) = m
  BY NthIn
<1>2. Nth(S, n) # Nth(S, m) /\ n \in Nat /\ m \in Nat
  BY <1>1, FS_CardinalityType
<1>3. ~ (Nth(S, m) < Nth(S, n))
  <2> SUFFICES ASSUME Nth(S, m) < Nth(S, n) PROVE FALSE
    OBVIOUS
  <2>1. m < n
    BY <1>1, RankGrows
  <2> QED
    BY <1>2, <2>1
<1>4. Nth(S, n) \in Nat /\ Nth(S, m) \in Nat
  BY <1>1
<1> QED
  BY <1>2, <1>3, <1>4

\* Whatever lists a set in its order is the numbering.
LEMMA Enumerates ==
  ASSUME NEW S, S \subseteq Nat, NEW m \in Nat, NEW f \in [1 .. m -> S],
         \A i, j \in 1 .. m : i < j => f[i] < f[j],
         \A x \in S : \E i \in 1 .. m : f[i] = x
  PROVE  IsFiniteSet(S) /\ Cardinality(S) = m /\ \A n \in 1 .. m : Nth(S, n) = f[n]
<1>1. \A i, j \in 1 .. m : f[i] = f[j] => i = j
  <2>1. \A i, j \in 1 .. m : i < j \/ j < i \/ i = j
    OBVIOUS
  <2>2. \A i \in 1 .. m : f[i] \in Nat
    OBVIOUS
  <2> QED
    BY <2>1, <2>2
<1>2. \A i, j \in 1 .. m : f[i] <= f[j] <=> i <= j
  <2>1. \A i, j \in 1 .. m : i < j \/ j < i \/ i = j
    OBVIOUS
  <2>2. \A i \in 1 .. m : f[i] \in Nat
    OBVIOUS
  <2> QED
    BY <2>1, <2>2
<1>3. ASSUME NEW n \in 0 .. m, NEW T, T = {f[i] : i \in 1 .. n}
      PROVE  IsFiniteSet(T) /\ Cardinality(T) = n
  <2> DEFINE g == [i \in 1 .. n |-> f[i]]
  <2>1. \A i \in 1 .. n : i \in 1 .. m
    OBVIOUS
  <2>2. g \in [1 .. n -> T] /\ \A i \in 1 .. n : g[i] = f[i]
    BY <1>3
  <2>3. \A t \in T : \E i \in 1 .. n : g[i] = t
    BY <1>3, <2>2
  <2> HIDE DEF g
  <2>4. g \in Surjection(1 .. n, T)
    BY <2>2, <2>3 DEF Surjection
  <2>5. g \in Injection(1 .. n, T)
    <3>1. \A i, j \in 1 .. n : g[i] = g[j] => i = j
      BY <1>1, <2>1, <2>2
    <3> QED
      BY <2>2, <3>1 DEF Injection, IsInjective
  <2>6. IsFiniteSet(1 .. n) /\ Cardinality(1 .. n) = n
    <3>1. n \in Int /\ 1 \in Int /\ (IF 1 > n THEN 0 ELSE n - 1 + 1) = n
      OBVIOUS
    <3> QED
      BY <3>1, FS_Interval
  <2> QED
    BY <2>4, <2>5, <2>6, FS_Surjection
<1>4. IsFiniteSet(S) /\ Cardinality(S) = m
  <2>1. S = {f[i] : i \in 1 .. m}
    OBVIOUS
  <2>2. m \in 0 .. m
    OBVIOUS
  <2> QED
    BY <1>3, <2>1, <2>2
<1>5. ASSUME NEW n \in 1 .. m PROVE Nth(S, n) = f[n]
  <2>1. UpTo(S, f[n]) = {f[i] : i \in 1 .. n}
    <3>1. \A i \in 1 .. n : i \in 1 .. m /\ i <= n
      OBVIOUS
    <3>2. \A i \in 1 .. m : i <= n => i \in 1 .. n
      OBVIOUS
    <3>3. \A x \in UpTo(S, f[n]) : \E i \in 1 .. n : x = f[i]
      <4> SUFFICES ASSUME NEW x \in S, x <= f[n] PROVE \E i \in 1 .. n : x = f[i]
        BY DEF UpTo
      <4>1. PICK i \in 1 .. m : f[i] = x
        OBVIOUS
      <4> QED
        BY <1>2, <3>2, <4>1
    <3>4. \A i \in 1 .. n : f[i] \in S /\ f[i] <= f[n]
      BY <1>2, <3>1
    <3>5. {f[i] : i \in 1 .. n} \subseteq UpTo(S, f[n])
      BY <3>4 DEF UpTo
    <3> QED
      BY <3>3, <3>5
  <2>2. Cardinality(UpTo(S, f[n])) = n
    <3>1. n \in 0 .. m
      OBVIOUS
    <3> QED
      BY <1>3, <2>1, <3>1
  <2>3. Nth(S, n) \in S /\ Cardinality(UpTo(S, Nth(S, n))) = n
    BY <1>4, NthIn
  <2>4. f[n] \in S /\ Cardinality(UpTo(S, f[n])) = Cardinality(UpTo(S, Nth(S, n)))
    BY <2>2, <2>3
  <2> QED
    BY <1>4, <2>3, <2>4, RanksDiffer
<1> QED
  BY <1>4, <1>5

\* A greater position comes last.
LEMMA NthAdded ==
  ASSUME NEW S, S \subseteq Nat, IsFiniteSet(S), NEW i \in Nat, \A x \in S : x < i
  PROVE  /\ IsFiniteSet(S \cup {i}) /\ Cardinality(S \cup {i}) = Cardinality(S) + 1
         /\ \A n \in 1 .. Cardinality(S) : Nth(S \cup {i}, n) = Nth(S, n)
         /\ Nth(S \cup {i}, Cardinality(S) + 1) = i
<1> DEFINE k == Cardinality(S)
           T == S \cup {i}
           f == [n \in 1 .. k + 1 |-> IF n <= k THEN Nth(S, n) ELSE i]
<1>1. k \in Nat
  BY FS_CardinalityType
<1>2. ASSUME NEW n \in 1 .. k + 1
      PROVE  /\ n <= k => f[n] = Nth(S, n) /\ f[n] \in S
             /\ ~(n <= k) => f[n] = i /\ n = k + 1
             /\ f[n] \in T
  <2>1. n <= k => n \in 1 .. k
    BY <1>1
  <2>2. n <= k => Nth(S, n) \in S
    BY <2>1, NthIn
  <2>3. ~(n <= k) => n = k + 1
    BY <1>1
  <2> HIDE DEF k
  <2> QED
    BY <2>2, <2>3
<1>3. f \in [1 .. k + 1 -> T]
  <2>1. \A n \in 1 .. k + 1 : f[n] \in T
    BY <1>2
  <2>2. f = [n \in 1 .. k + 1 |-> f[n]]
    OBVIOUS
  <2> HIDE DEF f, k
  <2> QED
    BY <2>1, <2>2
<1> HIDE DEF f
<1>4. \A n, m \in 1 .. k + 1 : n < m => f[n] < f[m]
  <2> SUFFICES ASSUME NEW n \in 1 .. k + 1, NEW m \in 1 .. k + 1, n < m PROVE f[n] < f[m]
    OBVIOUS
  <2>1. n \in 1 .. k /\ n <= k
    BY <1>1
  <2>2. f[n] = Nth(S, n) /\ f[n] \in S
    BY <1>2, <2>1
  <2>3. CASE m <= k
    <3>1. m \in 1 .. k
      BY <1>1, <2>3
    <3>2. f[m] = Nth(S, m)
      BY <1>2, <2>3
    <3> QED
      BY <2>1, <2>2, <3>1, <3>2, NthGrows
  <2>4. CASE ~ (m <= k)
    BY <1>2, <2>2, <2>4
  <2> QED
    BY <2>3, <2>4
<1>5. \A x \in T : \E n \in 1 .. k + 1 : f[n] = x
  <2> SUFFICES ASSUME NEW x \in T PROVE \E n \in 1 .. k + 1 : f[n] = x
    OBVIOUS
  <2>1. CASE x \in S
    <3>1. PICK n \in 1 .. k : Nth(S, n) = x
      BY <2>1, NthIs
    <3>2. n \in 1 .. k + 1 /\ n <= k
      BY <1>1
    <3> QED
      BY <1>2, <3>1, <3>2
  <2>2. CASE x = i
    <3>1. k + 1 \in 1 .. k + 1 /\ ~ (k + 1 <= k)
      BY <1>1
    <3> QED
      BY <1>2, <2>2, <3>1
  <2> QED
    BY <2>1, <2>2
<1>6. T \subseteq Nat /\ k + 1 \in Nat
  BY <1>1
<1> HIDE DEF T
<1>7. IsFiniteSet(T) /\ Cardinality(T) = k + 1 /\ \A n \in 1 .. k + 1 : Nth(T, n) = f[n]
  BY <1>3, <1>4, <1>5, <1>6, Enumerates
<1>8. \A n \in 1 .. k : n \in 1 .. k + 1 /\ n <= k
  BY <1>1
<1>9. k + 1 \in 1 .. k + 1 /\ ~ (k + 1 <= k)
  BY <1>1
<1> HIDE DEF k
<1>10. /\ \A n \in 1 .. k : Nth(T, n) = Nth(S, n)
       /\ Nth(T, k + 1) = i
  BY <1>2, <1>7, <1>8, <1>9
<1> QED
  BY <1>7, <1>10 DEF T, k

\* Without one of them those beyond it move up.
LEMMA NthWithout ==
  ASSUME NEW S, S \subseteq Nat, IsFiniteSet(S), NEW r \in 1 .. Cardinality(S)
  PROVE  LET T == S \ {Nth(S, r)}
         IN  /\ IsFiniteSet(T) /\ Cardinality(T) = Cardinality(S) - 1
             /\ \A n \in 1 .. Cardinality(S) - 1 :
                  Nth(T, n) = Nth(S, IF n < r THEN n ELSE n + 1)
<1> DEFINE k == Cardinality(S)
           T == S \ {Nth(S, r)}
           at(n) == IF n < r THEN n ELSE n + 1
           f == [n \in 1 .. k - 1 |-> Nth(S, at(n))]
<1>1. k \in Nat /\ k - 1 \in Nat
  BY FS_CardinalityType
<1>2. /\ \A n \in 1 .. k - 1 : at(n) \in 1 .. k /\ at(n) # r
      /\ \A n, m \in 1 .. k - 1 : n < m => at(n) < at(m)
      /\ \A j \in 1 .. k : j # r => \E n \in 1 .. k - 1 : at(n) = j
  <2>1. \A n \in 1 .. k - 1 : at(n) \in 1 .. k /\ at(n) # r
    BY <1>1
  <2>2. \A n, m \in 1 .. k - 1 : n < m => at(n) < at(m)
    BY <1>1
  <2>3. ASSUME NEW j \in 1 .. k, j # r PROVE \E n \in 1 .. k - 1 : at(n) = j
    <3>1. CASE j < r
      <4>1. j \in 1 .. k - 1 /\ at(j) = j
        BY <1>1, <3>1
      <4> QED
        BY <4>1
    <3>2. CASE ~ (j < r)
      <4>1. j - 1 \in 1 .. k - 1 /\ ~ (j - 1 < r) /\ (j - 1) + 1 = j
        BY <1>1, <2>3, <3>2
      <4>2. at(j - 1) = j
        BY <4>1
      <4> QED
        BY <4>1, <4>2
    <3> QED
      BY <3>1, <3>2
  <2> QED
    BY <2>1, <2>2, <2>3
<1> HIDE DEF at
<1>3. \A n, m \in 1 .. k : n # m => Nth(S, n) # Nth(S, m)
  BY NthIn
<1>4. f \in [1 .. k - 1 -> T]
  <2>1. \A n \in 1 .. k - 1 : Nth(S, at(n)) \in T
    BY <1>2, <1>3, NthIn
  <2> QED
    BY <2>1
<1>5. \A n, m \in 1 .. k - 1 : n < m => f[n] < f[m]
  BY <1>2, NthGrows
<1>6. \A x \in T : \E n \in 1 .. k - 1 : f[n] = x
  <2> SUFFICES ASSUME NEW x \in T PROVE \E n \in 1 .. k - 1 : f[n] = x
    OBVIOUS
  <2>1. PICK j \in 1 .. k : Nth(S, j) = x
    BY NthIs
  <2>2. PICK n \in 1 .. k - 1 : at(n) = j
    BY <1>2, <2>1
  <2> QED
    BY <2>1, <2>2
<1>7. T \subseteq Nat
  OBVIOUS
<1>8. \A n \in 1 .. k - 1 : f[n] = Nth(S, at(n))
  OBVIOUS
<1> HIDE DEF T, f, k
<1>9. IsFiniteSet(T) /\ Cardinality(T) = k - 1 /\ \A n \in 1 .. k - 1 : Nth(T, n) = f[n]
  BY <1>1, <1>4, <1>5, <1>6, <1>7, Enumerates
<1> QED
  BY <1>8, <1>9 DEF T, k, at

Among(S, R) == {Nth(S, j) : j \in R}
Renumbers(S, R) ==
  \A n \in 1 .. Cardinality(R) : Nth(Among(S, R), n) = Nth(S, Nth(R, n))

\* The numbering of some of the numbers of a set.
LEMMA NthOfNth ==
  ASSUME NEW S, S \subseteq Nat, IsFiniteSet(S), NEW R, R \subseteq 1 .. Cardinality(S)
  PROVE  /\ IsFiniteSet(R) /\ Cardinality(Among(S, R)) = Cardinality(R)
         /\ Renumbers(S, R)
<1> DEFINE T == Among(S, R)
           k == Cardinality(R)
           f == [n \in 1 .. k |-> Nth(S, Nth(R, n))]
<1>1. IsFiniteSet(R) /\ k \in Nat /\ R \subseteq Nat
  <2>1. Cardinality(S) \in Nat
    BY FS_CardinalityType
  <2>2. IsFiniteSet(1 .. Cardinality(S)) /\ R \in SUBSET (1 .. Cardinality(S))
    BY <2>1, FS_Interval
  <2>3. IsFiniteSet(R)
    BY <2>2, FS_Subset
  <2> QED
    BY <2>3, FS_CardinalityType
<1>2. \A n \in 1 .. k : Nth(R, n) \in R
  BY <1>1, NthIn
<1>3. f \in [1 .. k -> T]
  BY <1>2 DEF Among
<1>4. \A n, m \in 1 .. k : n < m => f[n] < f[m]
  <2> SUFFICES ASSUME NEW n \in 1 .. k, NEW m \in 1 .. k, n < m PROVE f[n] < f[m]
    OBVIOUS
  <2>1. Nth(R, n) < Nth(R, m)
    BY <1>1, NthGrows
  <2>2. Nth(R, n) \in 1 .. Cardinality(S) /\ Nth(R, m) \in 1 .. Cardinality(S)
    BY <1>2
  <2> QED
    BY <2>1, <2>2, NthGrows
<1>5. \A x \in T : \E n \in 1 .. k : f[n] = x
  <2> SUFFICES ASSUME NEW x \in T PROVE \E n \in 1 .. k : f[n] = x
    OBVIOUS
  <2>1. PICK j \in R : x = Nth(S, j)
    BY DEF Among
  <2>2. PICK n \in 1 .. k : Nth(R, n) = j
    BY <1>1, NthIs
  <2> QED
    BY <2>1, <2>2
<1>6. T \subseteq Nat
  BY NthIn DEF Among
<1>7. \A n \in 1 .. k : f[n] = Nth(S, Nth(R, n))
  OBVIOUS
<1> HIDE DEF T, f, k
<1>8. IsFiniteSet(T) /\ Cardinality(T) = k /\ \A n \in 1 .. k : Nth(T, n) = f[n]
  BY <1>1, <1>3, <1>4, <1>5, <1>6, Enumerates
<1> QED
  BY <1>1, <1>7, <1>8 DEF T, k, Renumbers

-----------------------------------------------------------------------------
(* The index *)

Slot(n, h, p) == (h + p) % n

\* The slots that were ever used since the index was built.
Taken(index) == {s \in DOMAIN index : index[s] # EmptySlot}

\* Probing from h on meets i, and no empty slot before.
Leads(index, h, i) ==
  \E p \in DOMAIN index :
    /\ index[Slot(Cardinality(DOMAIN index), h, p)] = i
    /\ \A q \in 0 .. p - 1 : index[Slot(Cardinality(DOMAIN index), h, q)] # EmptySlot

\* An index of 2 * c slots for the first m entries of es: it has taken no more slots than
\* these, and leads to those of them that are live.
IndexOK(index, c, es, m) ==
  /\ c \in Nat \ {0} /\ m \in Nat
  /\ index \in [0 .. 2 * c - 1 -> {Tombstone} \cup 0 .. m]
  /\ IsFiniteSet(Taken(index)) /\ Cardinality(Taken(index)) <= m
  /\ \A i \in 1 .. m : es[i].live => Leads(index, es[i].hash, i)

\* Probes stay in the index, and get everywhere.
LEMMA Slots ==
  ASSUME NEW n \in Nat \ {0}, NEW h \in Nat
  PROVE  /\ \A p \in Nat : Slot(n, h, p) \in 0 .. n - 1
         /\ \A s \in 0 .. n - 1 : \E p \in 0 .. n - 1 : Slot(n, h, p) = s
<1>1. \A p \in Nat : Slot(n, h, p) \in 0 .. n - 1
  <2> SUFFICES ASSUME NEW p \in Nat PROVE Slot(n, h, p) \in 0 .. n - 1
    OBVIOUS
  <2>1. h + p \in Int
    OBVIOUS
  <2> QED
    BY <2>1, DivMod DEF Slot
<1>2. ASSUME NEW s \in 0 .. n - 1 PROVE \E p \in 0 .. n - 1 : Slot(n, h, p) = s
  <2> DEFINE p == (s - h) % n
             q == (s - h) \div n
  <2>1. p \in 0 .. n - 1 /\ q \in Int /\ s - h = (n * q) + p
    <3>1. s - h \in Int
      OBVIOUS
    <3> QED
      BY <3>1, DivMod
  <2> HIDE DEF p, q
  <2>2. -q \in Int /\ n * (-q) = -(n * q) /\ n * q \in Int
    BY <2>1
  <2>3. h + p = (n * (-q)) + s
    BY <2>1, <2>2
  <2>4. ((n * (-q)) + s) % n = s
    BY <2>2, ModIs
  <2>5. Slot(n, h, p) = s
    BY <2>3, <2>4 DEF Slot
  <2> QED
    BY <2>1, <2>5
<1> QED
  BY <1>1, <1>2

\* How many slots there are.
LEMMA IndexSize ==
  ASSUME NEW index, NEW c, NEW es, NEW m, IndexOK(index, c, es, m)
  PROVE  /\ DOMAIN index = 0 .. 2 * c - 1 /\ 2 * c \in Nat \ {0}
         /\ IsFiniteSet(DOMAIN index) /\ Cardinality(DOMAIN index) = 2 * c
<1>1. DOMAIN index = 0 .. 2 * c - 1 /\ c \in Nat \ {0}
  BY DEF IndexOK
<1> DEFINE n == 2 * c
<1>2. n \in Nat \ {0} /\ n - 1 \in Int /\ 0 \in Int
      /\ (IF 0 > n - 1 THEN 0 ELSE (n - 1) - 0 + 1) = n
  BY <1>1
<1> HIDE DEF n
<1>3. IsFiniteSet(0 .. n - 1) /\ Cardinality(0 .. n - 1) = n
  BY <1>2, FS_Interval
<1> QED
  BY <1>1, <1>2, <1>3 DEF n

\* One slot at least is empty while there are more of them than entries.
LEMMA SomeEmpty ==
  ASSUME NEW index, NEW c, NEW es, NEW m, IndexOK(index, c, es, m), m < 2 * c
  PROVE  \E s \in DOMAIN index : index[s] = EmptySlot
<1>1. 2 * c \in Nat \ {0} /\ IsFiniteSet(DOMAIN index) /\ Cardinality(DOMAIN index) = 2 * c
  BY IndexSize
<1>2. Cardinality(Taken(index)) <= m /\ m \in Nat /\ Cardinality(Taken(index)) \in Nat
  BY FS_CardinalityType DEF IndexOK
<1>3. Taken(index) # DOMAIN index
  BY <1>1, <1>2
<1> QED
  BY <1>3 DEF Taken

\* And so the search for one ends at the first.
LEMMA FirstEmptyIs ==
  ASSUME NEW index, NEW c, NEW es, NEW m, IndexOK(index, c, es, m), m < 2 * c, NEW h \in Nat
  PROVE  \E p \in DOMAIN index :
           /\ FirstEmpty(index, h) = Slot(Cardinality(DOMAIN index), h, p)
           /\ index[Slot(Cardinality(DOMAIN index), h, p)] = EmptySlot
           /\ \A q \in 0 .. p - 1 : index[Slot(Cardinality(DOMAIN index), h, q)] # EmptySlot
<1> DEFINE n == Cardinality(DOMAIN index)
           E == {q \in DOMAIN index : index[Slot(n, h, q)] = EmptySlot}
           p == Min(E)
<1>1. n \in Nat \ {0} /\ DOMAIN index = 0 .. n - 1
  BY IndexSize
<1>2. E # {}
  <2>1. PICK s \in DOMAIN index : index[s] = EmptySlot
    BY SomeEmpty
  <2> HIDE DEF n
  <2>2. PICK q \in 0 .. n - 1 : Slot(n, h, q) = s
    BY <1>1, <2>1, Slots
  <2> QED
    BY <1>1, <2>1, <2>2
<1>3. E \subseteq Nat
  BY <1>1
<1>4. p \in E /\ \A q \in E : p <= q
  <2> HIDE DEF E, n
  <2> QED
    BY <1>2, <1>3, MinInSet
<1>5. FirstEmpty(index, h) = Slot(n, h, p)
  BY DEF FirstEmpty, Slot
<1> HIDE DEF p, n
<1>6. \A q \in 0 .. p - 1 : q \in DOMAIN index /\ ~ (p <= q)
  <2>1. p \in 0 .. n - 1
    BY <1>1, <1>4
  <2> QED
    BY <1>1, <2>1
<1>7. \A q \in 0 .. p - 1 : index[Slot(n, h, q)] # EmptySlot
  BY <1>4, <1>6
<1> QED
  BY <1>4, <1>5, <1>7 DEF n

\* What leads to an entry still does when a slot that is not its own is taken.
LEMMA LeadsStays ==
  ASSUME NEW index, NEW n \in Nat \ {0}, DOMAIN index = 0 .. n - 1,
         Cardinality(DOMAIN index) = n,
         NEW h \in Nat, NEW i, Leads(index, h, i),
         NEW s \in DOMAIN index, index[s] # i, NEW v, v # EmptySlot
  PROVE  Leads([index EXCEPT ![s] = v], h, i)
<1> DEFINE new == [index EXCEPT ![s] = v]
<1>1. DOMAIN new = DOMAIN index
  OBVIOUS
<1>2. \A x \in DOMAIN index : new[x] = IF x = s THEN v ELSE index[x]
  OBVIOUS
<1> HIDE DEF new
<1>3. PICK p \in DOMAIN index :
        /\ index[Slot(n, h, p)] = i
        /\ \A q \in 0 .. p - 1 : index[Slot(n, h, q)] # EmptySlot
  BY DEF Leads
<1>4. p \in Nat /\ \A q \in 0 .. p - 1 : q \in Nat
  OBVIOUS
<1>5. \A q \in Nat : Slot(n, h, q) \in DOMAIN index
  BY Slots
<1>6. new[Slot(n, h, p)] = i
  BY <1>2, <1>3, <1>4, <1>5
<1>7. \A q \in 0 .. p - 1 : new[Slot(n, h, q)] # EmptySlot
  BY <1>2, <1>3, <1>4, <1>5
<1>8. Leads(new, h, i)
  BY <1>1, <1>3, <1>6, <1>7 DEF Leads
<1> QED
  BY <1>8 DEF new

\* An entry more, in a slot that is free and that the probes from its hash lead to.
LEMMA Placed ==
  ASSUME NEW index, NEW c, NEW es, NEW m, IndexOK(index, c, es, m),
         NEW h \in Nat, NEW p \in DOMAIN index,
         index[Slot(Cardinality(DOMAIN index), h, p)] \in {EmptySlot, Tombstone},
         \A q \in 0 .. p - 1 : index[Slot(Cardinality(DOMAIN index), h, q)] # EmptySlot,
         NEW es2, es2[m + 1].hash = h,
         \A i \in 1 .. m : es[i].hash \in Nat /\ es2[i] = es[i]
  PROVE  IndexOK([index EXCEPT ![Slot(Cardinality(DOMAIN index), h, p)] = m + 1], c, es2, m + 1)
<1> DEFINE n == Cardinality(DOMAIN index)
           s == Slot(n, h, p)
           new == [index EXCEPT ![s] = m + 1]
<1>1. /\ n \in Nat \ {0} /\ DOMAIN index = 0 .. n - 1 /\ n = Cardinality(DOMAIN index)
      /\ n = 2 * c /\ IsFiniteSet(DOMAIN index)
  BY IndexSize
<1>2. /\ c \in Nat \ {0} /\ m \in Nat /\ m + 1 \in Nat
      /\ index \in [DOMAIN index -> {Tombstone} \cup 0 .. m]
      /\ IsFiniteSet(Taken(index)) /\ Cardinality(Taken(index)) <= m
      /\ \A i \in 1 .. m : es[i].live => Leads(index, es[i].hash, i)
  BY DEF IndexOK
<1> HIDE DEF n
<1>3. \A q \in Nat : Slot(n, h, q) \in DOMAIN index
  BY <1>1, Slots
<1>4. p \in Nat /\ \A q \in 0 .. p - 1 : q \in Nat
  BY <1>1
<1>5. s \in DOMAIN index /\ index[s] \in {EmptySlot, Tombstone}
  BY <1>3, <1>4 DEF n
<1> HIDE DEF s
<1>6. m + 1 # EmptySlot /\ m + 1 # Tombstone /\ {Tombstone} \cup 0 .. m \subseteq {Tombstone} \cup 0 .. m + 1
      /\ m + 1 \in 0 .. m + 1
  BY <1>2 DEF EmptySlot, Tombstone
<1>7. new \in [DOMAIN index -> {Tombstone} \cup 0 .. m + 1]
  BY <1>2, <1>6
<1>8. DOMAIN new = DOMAIN index /\ \A x \in DOMAIN index : new[x] = IF x = s THEN m + 1 ELSE index[x]
  OBVIOUS
<1>9. IsFiniteSet(Taken(new)) /\ Cardinality(Taken(new)) <= m + 1
  <2>1. Taken(new) \in SUBSET (Taken(index) \cup {s})
    <3> HIDE DEF new
    <3> QED
      BY <1>8 DEF Taken
  <2>2. IsFiniteSet(Taken(index) \cup {s}) /\ Cardinality(Taken(index) \cup {s}) <= m + 1
    BY <1>2, OneMoreElement
  <2> HIDE DEF new
  <2>3. IsFiniteSet(Taken(new)) /\ Cardinality(Taken(new)) <= Cardinality(Taken(index) \cup {s})
    BY <2>1, <2>2, FS_Subset
  <2>4. Cardinality(Taken(new)) \in Nat /\ Cardinality(Taken(index) \cup {s}) \in Nat
    BY <2>2, <2>3, FS_CardinalityType
  <2> QED
    BY <1>2, <2>2, <2>3, <2>4
<1>10. ASSUME NEW i \in 1 .. m + 1, es2[i].live PROVE Leads(new, es2[i].hash, i)
  <2>1. CASE i \in 1 .. m
    <3>1. es2[i] = es[i] /\ es[i].hash \in Nat
      BY <2>1
    <3>2. Leads(index, es[i].hash, i)
      BY <1>2, <1>10, <2>1, <3>1
    <3>3. index[s] # i
      BY <1>5, <2>1 DEF EmptySlot, Tombstone
    <3>4. Leads([index EXCEPT ![s] = m + 1], es[i].hash, i)
      <4> DEFINE v == m + 1
      <4>1. v # EmptySlot
        BY <1>6
      <4> HIDE DEF v
      <4>2. Leads([index EXCEPT ![s] = v], es[i].hash, i)
        BY <1>1, <1>5, <3>1, <3>2, <3>3, <4>1, LeadsStays
      <4> QED
        BY <4>2 DEF v
    <3> QED
      BY <3>1, <3>4
  <2>2. CASE i = m + 1
    <3> HIDE DEF new
    <3>1. new[Slot(n, h, p)] = m + 1
      BY <1>5, <1>8 DEF s
    <3>2. \A q \in 0 .. p - 1 : index[Slot(n, h, q)] # EmptySlot /\ Slot(n, h, q) \in DOMAIN index
      BY <1>3, <1>4 DEF n
    <3>4. \A q \in 0 .. p - 1 : new[Slot(n, h, q)] # EmptySlot
      BY <1>6, <1>8, <3>2
    <3>3. Leads(new, h, m + 1)
      BY <1>1, <1>8, <3>1, <3>4 DEF Leads
    <3> QED
      BY <2>2, <3>3
  <2>3. i \in 1 .. m \/ i = m + 1
    BY <1>2
  <2> QED
    BY <2>1, <2>2, <2>3
<1>11. DOMAIN index = 0 .. 2 * c - 1
  BY <1>1
<1> HIDE DEF new
<1>12. IndexOK(new, c, es2, m + 1)
  BY <1>2, <1>7, <1>9, <1>10, <1>11 DEF IndexOK
<1> QED
  BY <1>12 DEF new, s, n

\* RebuiltIndex's recursion, up to the n-th entry.
Builds(es, c, n, f) ==
  f = [i \in 0 .. n |->
         IF i = 0 THEN Index(c) ELSE Indexed(f[i - 1], es, i)]

\* What the equation says, entry by entry.
LEMMA BuildsAre ==
  ASSUME NEW es, NEW c, NEW n \in Nat, NEW f, Builds(es, c, n, f)
  PROVE  /\ f[0] = Index(c)
         /\ \A i \in 1 .. n : f[i] = Indexed(f[i - 1], es, i)
<1>1. \A i \in 0 .. n : f[i] = IF i = 0 THEN Index(c)
        ELSE Indexed(f[i - 1], es, i)
  BY Zenon DEF Builds
<1>2. 0 \in 0 .. n /\ \A i \in 1 .. n : i \in 0 .. n /\ i # 0
  OBVIOUS
<1> QED
  BY <1>1, <1>2, Zenon

\* There is a function that the recursion defines.
LEMMA BuildsExist ==
  ASSUME NEW es, NEW c, NEW n \in Nat
  PROVE  \E f : Builds(es, c, n, f)
<1> DEFINE Off == {m \in Nat : ~ \E f : Builds(es, c, m, f)}
<1>1. Off = {}
  <2> SUFFICES ASSUME Off # {} PROVE FALSE
    OBVIOUS
  <2> DEFINE m == Min(Off)
  <2>1. m \in Off /\ \A x \in Off : m <= x
    <3>1. Off \subseteq Nat
      OBVIOUS
    <3> QED
      BY <3>1, MinInSet
  <2> HIDE DEF m
  <2>2. m \in Nat /\ ~ \E f : Builds(es, c, m, f)
    BY <2>1
  <2>3. CASE m = 0
    <3> DEFINE base == [i \in 0 .. 0 |-> Index(c)]
    <3>1. \A i \in 0 .. 0 : i = 0
      OBVIOUS
    <3>2. Builds(es, c, 0, base)
      BY <3>1, Zenon DEF Builds
    <3> QED
      BY <2>2, <2>3, <3>2
  <2>4. CASE m # 0
    <3> DEFINE j == m - 1
    <3>1. j \in Nat /\ ~(m <= j) /\ j = m - 1
      BY <2>2, <2>4
    <3> HIDE DEF j
    <3>2. j \notin Off
      BY <2>1, <3>1
    <3>3. PICK below : Builds(es, c, j, below)
      BY <3>1, <3>2
    <3>4. /\ below[0] = Index(c)
          /\ \A i \in 1 .. j :
               below[i] = Indexed(below[i - 1], es, i)
      <4> HIDE DEF Off
      <4>1. below[0] = Index(c)
        BY <3>1, <3>3, BuildsAre
      <4>2. ASSUME NEW i \in 1 .. j PROVE below[i] = Indexed(below[i - 1], es, i)
        BY <3>1, <3>3, BuildsAre
      <4> QED
        BY <4>1, <4>2
    <3> DEFINE last == Indexed(below[m - 1], es, m)
               f == [i \in 0 .. m |-> IF i = m THEN last ELSE below[i]]
    <3>5. ASSUME NEW i \in 0 .. m
          PROVE  f[i] = IF i = 0 THEN Index(c)
                        ELSE Indexed(f[i - 1], es, i)
      <4>1. f[i] = IF i = m THEN last ELSE below[i]
        OBVIOUS
      <4>2. i # 0 => i - 1 \in 0 .. m /\ i - 1 # m /\ (i # m => i \in 1 .. j)
        BY <2>2, <3>1
      <4>3. i # 0 => f[i - 1] = below[i - 1]
        BY <4>2
      <4> HIDE DEF f
      <4>4. CASE i = 0
        <5>1. f[i] = below[0]
          BY <2>4, <4>1, <4>4
        <5> QED
          BY <3>4, <4>4, <5>1, Zenon
      <4>5. CASE i # 0 /\ i = m
        <5>1. f[i] = last /\ f[i - 1] = below[m - 1]
          BY <4>1, <4>3, <4>5
        <5> QED
          BY <4>5, <5>1, Zenon
      <4>6. CASE i # 0 /\ i # m
        <5>1. f[i] = below[i] /\ f[i - 1] = below[i - 1] /\ i \in 1 .. j
          BY <4>1, <4>2, <4>3, <4>6
        <5>2. below[i] = Indexed(below[i - 1], es, i)
          BY <3>4, <5>1
        <5> QED
          BY <4>6, <5>1, <5>2, Zenon
      <4> QED
        BY <4>4, <4>5, <4>6
    <3>6. f = [i \in 0 .. m |-> f[i]]
      OBVIOUS
    <3> HIDE DEF f
    <3>7. Builds(es, c, m, f)
      BY <3>5, <3>6, Zenon DEF Builds
    <3> QED
      BY <2>2, <3>7
  <2> QED
    BY <2>3, <2>4
<1> QED
  BY <1>1

\* A new index, without an entry.
LEMMA NoneIndexed ==
  ASSUME NEW c \in Nat \ {0}, NEW es
  PROVE  IndexOK(Index(c), c, es, 0)
<1> DEFINE none == Index(c)
<1>1. none \in [0 .. 2 * c - 1 -> {Tombstone} \cup 0 .. 0]
  BY DEF Index, EmptySlot
<1>2. Taken(none) = {}
  BY DEF Index, Taken
<1>3. \A j \in 1 .. 0 : FALSE
  OBVIOUS
<1> HIDE DEF none
<1>4. IsFiniteSet(Taken(none)) /\ Cardinality(Taken(none)) <= 0
  BY <1>2, FS_EmptySet
<1>5. IndexOK(none, c, es, 0)
  BY <1>1, <1>3, <1>4 DEF IndexOK
<1> QED
  BY <1>5 DEF none

\* The index that is rebuilt leads to all of the entries.
LEMMA Rebuilt ==
  ASSUME NEW c \in Nat \ {0}, NEW es, Len(es) \in Nat, Len(es) < 2 * c,
         \A i \in 1 .. Len(es) : es[i].hash \in Nat
  PROVE  IndexOK(RebuiltIndex(es, c), c, es, Len(es))
<1> DEFINE n == Len(es)
           f == CHOOSE f : Builds(es, c, n, f)
<1>1. n \in Nat /\ n < 2 * c /\ 0 \in 0 .. n
  OBVIOUS
<1>2. RebuiltIndex(es, c) = f[n]
  BY Zenon DEF RebuiltIndex, Builds
<1>3. Builds(es, c, n, f)
  BY <1>1, BuildsExist
<1> HIDE DEF f, n
<1>4. /\ f[0] = Index(c)
      /\ \A i \in 1 .. n : f[i] = Indexed(f[i - 1], es, i)
  <2>1. f[0] = Index(c)
    BY <1>1, <1>3, BuildsAre
  <2>2. ASSUME NEW i \in 1 .. n PROVE f[i] = Indexed(f[i - 1], es, i)
    BY <1>1, <1>3, BuildsAre
  <2> QED
    BY <2>1, <2>2
<1> DEFINE Off == {i \in 0 .. n : ~ IndexOK(f[i], c, es, i)}
<1>5. Off = {}
  <2> SUFFICES ASSUME Off # {} PROVE FALSE
    OBVIOUS
  <2> DEFINE i == Min(Off)
  <2>1. i \in Off /\ \A x \in Off : i <= x
    <3>1. Off \subseteq Nat
      OBVIOUS
    <3> QED
      BY <3>1, MinInSet
  <2> HIDE DEF i
  <2>2. i \in 0 .. n /\ ~ IndexOK(f[i], c, es, i)
    BY <2>1
  <2>3. IndexOK(Index(c), c, es, 0)
    BY NoneIndexed
  <2>4. i # 0
    BY <1>4, <2>2, <2>3
  <2> DEFINE j == i - 1
  <2>5. j \in 0 .. n /\ ~ (i <= j) /\ i = j + 1 /\ i \in 1 .. n /\ j < 2 * c /\ j \in Nat
    BY <1>1, <2>2, <2>4
  <2>6. f[i] = Indexed(f[j], es, i)
    BY <1>4, <2>5
  <2> HIDE DEF j
  <2>7. IndexOK(f[j], c, es, j)
    BY <2>1, <2>5
  <2>8. es[i].hash \in Nat /\ \A x \in 1 .. j : es[x].hash \in Nat
    <3>1. \A x \in 1 .. j : x \in 1 .. n
      BY <1>1, <2>5
    <3> QED
      BY <2>5, <3>1 DEF n
  <2> HIDE DEF Off
  <2>9. PICK p \in DOMAIN f[j] :
          /\ FirstEmpty(f[j], es[i].hash) = Slot(Cardinality(DOMAIN f[j]), es[i].hash, p)
          /\ f[j][Slot(Cardinality(DOMAIN f[j]), es[i].hash, p)] = EmptySlot
          /\ \A q \in 0 .. p - 1 :
               f[j][Slot(Cardinality(DOMAIN f[j]), es[i].hash, q)] # EmptySlot
    BY <2>5, <2>7, <2>8, FirstEmptyIs
  <2>10. IndexOK([f[j] EXCEPT ![Slot(Cardinality(DOMAIN f[j]), es[i].hash, p)] = j + 1],
                 c, es, j + 1)
    <3> DEFINE index == f[j]
               h == es[i].hash
    <3>1. /\ IndexOK(index, c, es, j) /\ h \in Nat /\ p \in DOMAIN index
          /\ index[Slot(Cardinality(DOMAIN index), h, p)] \in {EmptySlot, Tombstone}
          /\ \A q \in 0 .. p - 1 : index[Slot(Cardinality(DOMAIN index), h, q)] # EmptySlot
          /\ es[j + 1].hash = h
      BY <2>5, <2>7, <2>8, <2>9
    <3> HIDE DEF index, h
    <3>2. IndexOK([index EXCEPT ![Slot(Cardinality(DOMAIN index), h, p)] = j + 1], c, es, j + 1)
      BY <2>8, <3>1, Placed
    <3> QED
      BY <3>2 DEF index, h
  <2> QED
    BY <2>2, <2>5, <2>6, <2>9, <2>10 DEF Indexed
<1>6. n \in 0 .. n
  BY <1>1
<1>7. IndexOK(f[n], c, es, n)
  BY <1>5, <1>6
<1> QED
  BY <1>2, <1>7 DEF n

-----------------------------------------------------------------------------
(* The invariant *)

Entries == [key : TableKeys \cup {Nil}, value : TableValues \cup {Nil}, hash : Nat, live : BOOLEAN]

\* A table's parts fit together, and there are no more entries than half of the slots.
TableOK(t) ==
  /\ t = [entries |-> t.entries, index |-> t.index, length |-> t.length]
  /\ t.entries \in Seq(Entries)
  /\ t.length = Cardinality(Live(t))
  /\ \E c \in Nat : IndexOK(t.index, c, t.entries, Used(t)) /\ Used(t) <= c

\* A key with an identity of its own is in one entry, under the hash that it has.
KeysOK(t) ==
  /\ \A i \in Live(t) : t.entries[i].key \in TableKeys
  /\ \A i \in Live(t) :
       t.entries[i].key \in StableKeys => t.entries[i].hash = hash[t.entries[i].key]
  /\ \A i, j \in Live(t) :
       t.entries[i].key = t.entries[j].key /\ t.entries[i].key \in StableKeys => i = j

TInv == TableOK(table) /\ KeysOK(table) /\ hash \in [TableKeys -> Nat]

-----------------------------------------------------------------------------
(* Searching *)

\* What the positions in a table are.
LEMMA Positions ==
  ASSUME NEW t, TableOK(t)
  PROVE  /\ DOMAIN t.entries = 1 .. Used(t) /\ Used(t) \in Nat
         /\ \A i \in 1 .. Used(t) : t.entries[i] \in Entries /\ t.entries[i].hash \in Nat
         /\ Live(t) \subseteq 1 .. Used(t) /\ Live(t) \subseteq Nat
         /\ IsFiniteSet(Live(t)) /\ t.length \in Nat /\ t.length <= Used(t)
<1>1. DOMAIN t.entries = 1 .. Used(t) /\ Used(t) \in Nat
  BY DEF TableOK, Used
<1>2. \A i \in 1 .. Used(t) : t.entries[i] \in Entries
  BY DEF TableOK, Used
<1>3. \A i \in 1 .. Used(t) : t.entries[i].hash \in Nat
  BY <1>2 DEF Entries
<1>4. Live(t) \in SUBSET (1 .. Used(t)) /\ Live(t) \subseteq Nat
  BY <1>1 DEF Live
<1>5. IsFiniteSet(1 .. Used(t)) /\ Cardinality(1 .. Used(t)) = Used(t)
  <2> DEFINE k == Used(t)
  <2>1. k \in Int /\ 1 \in Int /\ (IF 1 > k THEN 0 ELSE k - 1 + 1) = k
    BY <1>1
  <2> HIDE DEF k
  <2>2. IsFiniteSet(1 .. k) /\ Cardinality(1 .. k) = k
    BY <2>1, FS_Interval
  <2> QED
    BY <2>2 DEF k
<1>6. IsFiniteSet(Live(t)) /\ Cardinality(Live(t)) <= Used(t) /\ Cardinality(Live(t)) \in Nat
  BY <1>4, <1>5, FS_Subset, FS_CardinalityType
<1> QED
  BY <1>1, <1>2, <1>3, <1>4, <1>6 DEF TableOK

\* A search ends, at the key or at an empty slot, and passes neither.
LEMMA Searched ==
  ASSUME NEW t, TableOK(t), hash \in [TableKeys -> Nat], NEW k \in TableKeys
  PROVE  /\ Probes(t, k) \in DOMAIN t.index
         /\ \A p \in Nat : SlotAt(t, hash[k], p) \in DOMAIN t.index
         /\ \/ t.index[SlotAt(t, hash[k], Probes(t, k))] = EmptySlot
            \/ Holds(t, SlotAt(t, hash[k], Probes(t, k)), k)
         /\ \A q \in DOMAIN t.index : q < Probes(t, k) =>
              /\ t.index[SlotAt(t, hash[k], q)] # EmptySlot
              /\ ~ Holds(t, SlotAt(t, hash[k], q), k)
<1> DEFINE n == Cardinality(DOMAIN t.index)
           h == hash[k]
           Ends == {p \in DOMAIN t.index :
                      \/ t.index[SlotAt(t, h, p)] = EmptySlot
                      \/ Holds(t, SlotAt(t, h, p), k)}
<1>1. PICK c \in Nat : IndexOK(t.index, c, t.entries, Used(t)) /\ Used(t) <= c
  BY DEF TableOK
<1>2. n \in Nat \ {0} /\ DOMAIN t.index = 0 .. n - 1
  BY <1>1, IndexSize
<1>3. Used(t) < 2 * c
  <2>1. c \in Nat \ {0} /\ Used(t) \in Nat
    BY <1>1 DEF IndexOK
  <2> QED
    BY <1>1, <2>1
<1>4. PICK s \in DOMAIN t.index : t.index[s] = EmptySlot
  BY <1>1, <1>3, SomeEmpty
<1>5. h \in Nat /\ \A p : SlotAt(t, h, p) = Slot(n, h, p)
  BY DEF SlotAt, Slot, IndexCapacity
<1> HIDE DEF h, n
<1>6. /\ \A p \in Nat : SlotAt(t, h, p) \in DOMAIN t.index
      /\ \E p \in DOMAIN t.index : SlotAt(t, h, p) = s
  <2>1. /\ \A p \in Nat : Slot(n, h, p) \in 0 .. n - 1
        /\ \A x \in 0 .. n - 1 : \E p \in 0 .. n - 1 : Slot(n, h, p) = x
    BY <1>2, <1>5, Slots
  <2>2. \E p \in 0 .. n - 1 : Slot(n, h, p) = s
    BY <1>2, <1>4, <2>1, Zenon
  <2> QED
    BY <1>2, <1>5, <2>1, <2>2, Zenon
<1>7. Ends # {} /\ Ends \subseteq Nat
  BY <1>2, <1>4, <1>6
<1>8. Probes(t, k) = Min(Ends)
  BY DEF Probes, h
<1> HIDE DEF Ends
<1>9. Probes(t, k) \in Ends /\ \A q \in Ends : Probes(t, k) <= q
  BY <1>7, <1>8, MinInSet
<1>10. \A q \in DOMAIN t.index : q < Probes(t, k) => q \notin Ends
  <2> SUFFICES ASSUME NEW q \in DOMAIN t.index, q < Probes(t, k), q \in Ends PROVE FALSE
    OBVIOUS
  <2>1. q \in Nat /\ Probes(t, k) \in Nat /\ Probes(t, k) <= q
    BY <1>7, <1>9
  <2> QED
    BY <2>1
<1> QED
  BY <1>6, <1>9, <1>10 DEF Ends, h

\* A key that is found is that of a live entry with its hash.
LEMMA FoundIs ==
  ASSUME NEW t, TableOK(t), hash \in [TableKeys -> Nat], NEW k \in TableKeys, Found(t, k)
  PROVE  /\ SlotFor(t, k) \in DOMAIN t.index /\ t.index[SlotFor(t, k)] = EntryOf(t, k)
         /\ EntryOf(t, k) \in Live(t)
         /\ t.entries[EntryOf(t, k)].key = k /\ t.entries[EntryOf(t, k)].hash = hash[k]
<1> DEFINE s == SlotAt(t, hash[k], Probes(t, k))
<1>1. Probes(t, k) \in DOMAIN t.index /\ \A p \in Nat : SlotAt(t, hash[k], p) \in DOMAIN t.index
  BY Searched
<1>2. DOMAIN t.index \subseteq Nat
  BY IndexSize DEF TableOK
<1>3. s \in DOMAIN t.index
  BY <1>1, <1>2
<1>4. SlotFor(t, k) = s /\ Holds(t, s, k)
  BY DEF Found, SlotFor
<1> HIDE DEF s
<1>5. /\ t.index[s] \notin {EmptySlot, Tombstone}
      /\ t.entries[t.index[s]].live /\ t.entries[t.index[s]].hash = hash[k]
      /\ t.entries[t.index[s]].key = k
  BY <1>4 DEF Holds
<1>6. t.index[s] \in 1 .. Used(t)
  <2>1. Used(t) \in Nat /\ t.index[s] \in {Tombstone} \cup 0 .. Used(t)
    BY <1>3 DEF TableOK, IndexOK
  <2> QED
    BY <1>5, <2>1 DEF EmptySlot, Tombstone
<1>7. t.index[s] \in Live(t)
  BY <1>5, <1>6, Positions DEF Live
<1> QED
  BY <1>3, <1>4, <1>5, <1>7 DEF EntryOf

\* A key that is in a live entry with its hash is found.
LEMMA FoundAll ==
  ASSUME NEW t, TableOK(t), hash \in [TableKeys -> Nat], NEW k \in TableKeys,
         NEW i \in Live(t), t.entries[i].key = k, t.entries[i].hash = hash[k]
  PROVE  Found(t, k)
<1> DEFINE h == hash[k]
           P == Probes(t, k)
<1>1. PICK c \in Nat : IndexOK(t.index, c, t.entries, Used(t))
  BY DEF TableOK
<1>2. i \in 1 .. Used(t) /\ t.entries[i].live
  BY Positions DEF Live
<1>3. PICK p \in DOMAIN t.index :
        /\ t.index[SlotAt(t, h, p)] = i
        /\ \A q \in 0 .. p - 1 : t.index[SlotAt(t, h, q)] # EmptySlot
  <2>1. Leads(t.index, h, i)
    BY <1>1, <1>2 DEF IndexOK
  <2>2. \A q : SlotAt(t, h, q) = Slot(Cardinality(DOMAIN t.index), h, q)
    BY DEF SlotAt, Slot, IndexCapacity
  <2> HIDE DEF h
  <2> QED
    BY <2>1, <2>2, Zenon DEF Leads
<1>4. /\ P \in DOMAIN t.index
      /\ t.index[SlotAt(t, h, P)] = EmptySlot \/ Holds(t, SlotAt(t, h, P), k)
      /\ \A q \in DOMAIN t.index : q < P => ~ Holds(t, SlotAt(t, h, q), k)
  BY Searched
<1>5. Holds(t, SlotAt(t, h, p), k)
  BY <1>2, <1>3, Positions DEF Holds, EmptySlot, Tombstone
<1>6. DOMAIN t.index \subseteq Nat
  BY IndexSize DEF TableOK
<1> HIDE DEF h, P
<1>7. ~ (p < P)
  BY <1>4, <1>5
<1>8. P = p \/ P \in 0 .. p - 1
  BY <1>3, <1>4, <1>6, <1>7
<1>9. Holds(t, SlotAt(t, h, P), k)
  BY <1>3, <1>4, <1>5, <1>8
<1> QED
  BY <1>9 DEF Found, h, P

\* One that is not found is given a slot that is free and that a search would get to.
LEMMA FreeIs ==
  ASSUME NEW t, TableOK(t), hash \in [TableKeys -> Nat], NEW k \in TableKeys, ~ Found(t, k)
  PROVE  \E p \in DOMAIN t.index :
           /\ SlotFor(t, k) = Slot(Cardinality(DOMAIN t.index), hash[k], p)
           /\ t.index[SlotFor(t, k)] \in {EmptySlot, Tombstone}
           /\ \A q \in 0 .. p - 1 :
                t.index[Slot(Cardinality(DOMAIN t.index), hash[k], q)] # EmptySlot
<1> DEFINE n == Cardinality(DOMAIN t.index)
           P == Probes(t, k)
           freed == FreedBefore(t, k, P)
           p == IF freed = {} THEN P ELSE Min(freed)
<1>1. /\ P \in DOMAIN t.index
      /\ t.index[SlotAt(t, hash[k], P)] = EmptySlot
      /\ \A q \in DOMAIN t.index : q < P => t.index[SlotAt(t, hash[k], q)] # EmptySlot
  <2>1. ~ Holds(t, SlotAt(t, hash[k], P), k)
    BY DEF Found
  <2> QED
    BY <2>1, Searched
<1>2. PICK m \in Nat : DOMAIN t.index = 0 .. m - 1
  BY IndexSize DEF TableOK
<1>3. SlotFor(t, k) = SlotAt(t, hash[k], p)
  BY DEF SlotFor
<1>4. \A q : SlotAt(t, hash[k], q) = Slot(n, hash[k], q)
  BY DEF SlotAt, Slot, IndexCapacity
<1>5. freed \subseteq 0 .. P - 1 /\ \A q \in freed : t.index[SlotAt(t, hash[k], q)] = Tombstone
  BY DEF FreedBefore
<1> HIDE DEF freed, P, n
<1>6. freed # {} => Min(freed) \in freed
  <2>1. freed \subseteq Nat
    BY <1>5
  <2> QED
    BY <2>1, MinInSet
<1>7. p \in 0 .. P /\ t.index[SlotAt(t, hash[k], p)] \in {EmptySlot, Tombstone}
  <2>1. P \in Nat
    BY <1>1, <1>2
  <2>2. CASE freed = {}
    <3>1. p = P
      BY <2>2
    <3> QED
      BY <1>1, <2>1, <3>1
  <2>3. CASE freed # {}
    <3>1. p = Min(freed)
      BY <2>3
    <3>2. p \in freed
      BY <1>6, <2>3, <3>1
    <3> HIDE DEF p
    <3>3. p \in 0 .. P - 1 /\ t.index[SlotAt(t, hash[k], p)] = Tombstone
      BY <1>5, <3>2
    <3> QED
      BY <2>1, <3>3
  <2> QED
    BY <2>2, <2>3
<1> HIDE DEF p
<1>8. p \in DOMAIN t.index
  BY <1>1, <1>2, <1>7
<1>9. \A q \in 0 .. p - 1 : q \in DOMAIN t.index /\ q < P
  BY <1>1, <1>2, <1>7
<1>10. \A q \in 0 .. p - 1 : t.index[SlotAt(t, hash[k], q)] # EmptySlot
  BY <1>1, <1>9
<1> QED
  BY <1>3, <1>4, <1>7, <1>8, <1>10 DEF n

-----------------------------------------------------------------------------
(* The map that a table is *)

Mine(t) == {i \in Live(t) : t.entries[i].key \in StableKeys}
PairAt(t, i) == <<t.entries[i].key, t.entries[i].value>>
MapOf(t) == [n \in 1 .. Cardinality(Mine(t)) |-> PairAt(t, Nth(Mine(t), n))]

\* The refinement mapping is this one.
LEMMA MapIs == mapBar = MapOf(table)
<1> DEFINE kept == Kept(table.entries, Mine(table))
<1>1. mapBar = [i \in DOMAIN kept |-> <<kept[i].key, kept[i].value>>]
  BY DEF mapBar, Mine
<1>2. kept = [n \in 1 .. Cardinality(Mine(table)) |-> table.entries[Nth(Mine(table), n)]]
  BY DEF Kept
<1> HIDE DEF kept
<1>3. DOMAIN kept = 1 .. Cardinality(Mine(table))
  BY <1>2
<1>4. \A n \in DOMAIN kept : <<kept[n].key, kept[n].value>> = PairAt(table, Nth(Mine(table), n))
  BY <1>2, <1>3 DEF PairAt
<1> QED
  BY <1>1, <1>3, <1>4 DEF MapOf

\* And after a step.
LEMMA MapIsNext == (mapBar = MapOf(table))'
  BY MapIs, PTL

\* The positions of the keys with an identity of their own.
LEMMA MineIs ==
  ASSUME NEW t, TableOK(t)
  PROVE  /\ Mine(t) \subseteq Live(t) /\ Mine(t) \subseteq Nat /\ IsFiniteSet(Mine(t))
         /\ Cardinality(Mine(t)) \in Nat
<1>1. Mine(t) \in SUBSET Live(t)
  BY DEF Mine
<1>2. Live(t) \subseteq Nat /\ IsFiniteSet(Live(t))
  BY Positions
<1> QED
  BY <1>1, <1>2, FS_Subset, FS_CardinalityType

\* The pairs of the map are those of the entries.
LEMMA MapHas ==
  ASSUME NEW t, TableOK(t)
  PROVE  /\ \A n \in DOMAIN MapOf(t) :
              Nth(Mine(t), n) \in Mine(t) /\ MapOf(t)[n] = PairAt(t, Nth(Mine(t), n))
         /\ \A i \in Mine(t) : \E n \in DOMAIN MapOf(t) :
              Nth(Mine(t), n) = i /\ MapOf(t)[n] = PairAt(t, i)
<1> DEFINE S == Mine(t)
           c == Cardinality(S)
<1>1. S \subseteq Nat /\ IsFiniteSet(S)
  BY MineIs
<1>2. DOMAIN MapOf(t) = 1 .. c /\ \A n \in 1 .. c : MapOf(t)[n] = PairAt(t, Nth(S, n))
  BY DEF MapOf
<1> HIDE DEF S
<1>3. \A n \in 1 .. c : Nth(S, n) \in S
  BY <1>1, NthIn
<1>4. \A i \in S : \E n \in 1 .. c : Nth(S, n) = i
  BY <1>1, NthIs
<1>5. \A i \in S : \E n \in 1 .. c : Nth(S, n) = i /\ MapOf(t)[n] = PairAt(t, i)
  BY <1>2, <1>4
<1> QED
  BY <1>2, <1>3, <1>5 DEF S

\* What is found under a key is what the map has under it.
LEMMA GetsValue ==
  ASSUME TInv, NEW k \in StableKeys
  PROVE  ot_table_get(table, k) = M!ValueOf(k) /\ (Found(table, k) <=> M!Has(k))
<1> DEFINE f == MapOf(table)
<1>0. /\ TableOK(table) /\ hash \in [TableKeys -> Nat] /\ k \in TableKeys
      /\ \A i \in Live(table) :
           table.entries[i].key \in StableKeys => table.entries[i].hash = hash[table.entries[i].key]
      /\ \A i, j \in Live(table) :
           table.entries[i].key = table.entries[j].key /\ table.entries[i].key \in StableKeys => i = j
  BY DEF TInv, KeysOK, StableKeys
<1>1. M!Has(k) <=> \E n \in DOMAIN f : f[n][1] = k
  BY MapIs DEF M!Has
<1>2. /\ \A n \in DOMAIN f :
              Nth(Mine(table), n) \in Mine(table) /\ f[n] = PairAt(table, Nth(Mine(table), n))
      /\ \A i \in Mine(table) : \E n \in DOMAIN f :
              Nth(Mine(table), n) = i /\ f[n] = PairAt(table, i)
  BY <1>0, MapHas
<1> HIDE DEF f
<1>3. \A i : PairAt(table, i)[1] = table.entries[i].key /\ PairAt(table, i)[2] = table.entries[i].value
  BY DEF PairAt
<1>4. \A i : i \in Mine(table) <=> i \in Live(table) /\ table.entries[i].key \in StableKeys
  BY DEF Mine
<1>5. CASE Found(table, k)
  <2> DEFINE e == EntryOf(table, k)
  <2>1. e \in Live(table) /\ table.entries[e].key = k
    BY <1>0, <1>5, FoundIs
  <2>2. ot_table_get(table, k) = table.entries[e].value
    BY <1>5 DEF ot_table_get
  <2> HIDE DEF e
  <2>3. e \in Mine(table)
    BY <1>4, <2>1
  <2>4. PICK n \in DOMAIN f : f[n] = PairAt(table, e)
    BY <1>2, <2>3
  <2>5. f[n][1] = k /\ f[n][2] = table.entries[e].value
    BY <1>3, <2>1, <2>4
  <2>6. \A m \in DOMAIN f : f[m][1] = k => f[m] = f[n]
    <3> SUFFICES ASSUME NEW m \in DOMAIN f, f[m][1] = k PROVE f[m] = f[n]
      OBVIOUS
    <3> DEFINE i == Nth(Mine(table), m)
    <3>1. i \in Mine(table) /\ f[m] = PairAt(table, i)
      BY <1>2
    <3> HIDE DEF i
    <3>2. i \in Live(table) /\ table.entries[i].key = k
      BY <1>3, <1>4, <3>1
    <3>3. i = e
      BY <1>0, <2>1, <3>2
    <3> QED
      BY <2>4, <3>1, <3>3
  <2>7. M!Has(k)
    BY <1>1, <2>5
  <2>8. (CHOOSE p \in {f[x] : x \in DOMAIN f} : p[1] = k) = f[n]
    <3> DEFINE p == CHOOSE p \in {f[x] : x \in DOMAIN f} : p[1] = k
    <3>1. p \in {f[x] : x \in DOMAIN f} /\ p[1] = k
      BY <2>5
    <3> HIDE DEF p
    <3>2. p = f[n]
      BY <2>6, <3>1
    <3> QED
      BY <3>2 DEF p
  <2>9. M!ValueOf(k) = (CHOOSE p \in {f[x] : x \in DOMAIN f} : p[1] = k)[2]
    BY <2>7, MapIs DEF M!ValueOf, M!Range, Range, f
  <2> QED
    BY <1>5, <2>2, <2>5, <2>7, <2>8, <2>9
<1>6. CASE ~ Found(table, k)
  <2>1. ~ M!Has(k)
    <3> SUFFICES ASSUME NEW n \in DOMAIN f, f[n][1] = k PROVE FALSE
      BY <1>1
    <3> DEFINE i == Nth(Mine(table), n)
    <3>1. i \in Mine(table) /\ f[n] = PairAt(table, i)
      BY <1>2
    <3> HIDE DEF i
    <3>2. i \in Live(table) /\ table.entries[i].key = k
      BY <1>3, <1>4, <3>1
    <3>3. table.entries[i].hash = hash[k]
      BY <1>0, <3>2
    <3> QED
      BY <1>0, <1>6, <3>2, <3>3, FoundAll
  <2> QED
    BY <1>6, <2>1 DEF ot_table_get, M!ValueOf
<1> QED
  BY <1>5, <1>6

\* The invariant says that keys are found.
LEMMA InvFinds == TInv => KeysAreFound
<1> SUFFICES ASSUME TInv PROVE KeysAreFound
  OBVIOUS
<1>1. TableOK(table)
  BY DEF TInv
<1>2. PICK c \in Nat : IndexOK(table.index, c, table.entries, Used(table)) /\ Used(table) <= c
  BY <1>1 DEF TableOK
<1>3. c # 0 /\ Used(table) \in Nat
  BY <1>2 DEF IndexOK
<1>4. Used(table) < 2 * c
  BY <1>2, <1>3
<1>5. \E s \in DOMAIN table.index : table.index[s] = EmptySlot
  BY <1>2, <1>4, SomeEmpty
<1>6. ASSUME NEW i \in Live(table)
      PROVE  \E p \in DOMAIN table.index :
               /\ table.index[SlotAt(table, table.entries[i].hash, p)] = i
               /\ \A q \in 0 .. p - 1 :
                    table.index[SlotAt(table, table.entries[i].hash, q)] # EmptySlot
  <2> DEFINE h == table.entries[i].hash
  <2>1. i \in 1 .. Used(table) /\ table.entries[i].live
    BY <1>1, Positions DEF Live
  <2>2. Leads(table.index, h, i)
    BY <1>2, <2>1 DEF IndexOK
  <2>3. \A q : SlotAt(table, h, q) = Slot(Cardinality(DOMAIN table.index), h, q)
    BY DEF SlotAt, Slot, IndexCapacity
  <2> HIDE DEF h
  <2>4. \E p \in DOMAIN table.index :
               /\ table.index[SlotAt(table, h, p)] = i
               /\ \A q \in 0 .. p - 1 : table.index[SlotAt(table, h, q)] # EmptySlot
    BY <2>2, <2>3, Zenon DEF Leads
  <2> QED
    BY <2>4 DEF h
<1>7. table.length = Cardinality(Live(table))
  BY <1>1 DEF TableOK
<1>8. \A k \in StableKeys : ot_table_get(table, k) = M!ValueOf(k)
  BY GetsValue
<1> QED
  BY <1>5, <1>6, <1>7, <1>8 DEF KeysAreFound

-----------------------------------------------------------------------------
(* What a put does to the table *)

\* The entry of a key that is found, with another value.
LEMMA UpdatedIs ==
  ASSUME NEW t, TableOK(t), hash \in [TableKeys -> Nat], NEW k \in TableKeys, Found(t, k),
         NEW v \in TableValues
  PROVE  LET u == Updated(t, k, v)
         IN  /\ u = [entries |-> u.entries, index |-> t.index, length |-> t.length]
             /\ u.index = t.index /\ u.length = t.length
             /\ u.entries \in Seq(Entries) /\ Len(u.entries) = Len(t.entries)
             /\ \A i \in 1 .. Used(t) :
                  u.entries[i] = IF i = EntryOf(t, k) THEN [t.entries[i] EXCEPT !.value = v]
                                 ELSE t.entries[i]
<1> DEFINE e == EntryOf(t, k)
           es == [t.entries EXCEPT ![e].value = v]
           u == Updated(t, k, v)
<1>1. /\ t = [entries |-> t.entries, index |-> t.index, length |-> t.length]
      /\ t.entries \in Seq(Entries) /\ e \in Live(t)
      /\ DOMAIN t.entries = 1 .. Used(t) /\ Used(t) \in Nat /\ Used(t) = Len(t.entries)
  BY FoundIs, Positions DEF TableOK, Used
<1>2. e \in 1 .. Used(t)
  BY Positions, <1>1
<1>3. u = [t EXCEPT !.entries = es]
  BY DEF Updated
<1> HIDE DEF e
<1>4. /\ DOMAIN es = 1 .. Used(t)
      /\ \A i \in 1 .. Used(t) : es[i] = IF i = e THEN [t.entries[i] EXCEPT !.value = v]
                                         ELSE t.entries[i]
  BY <1>1, <1>2
<1> HIDE DEF es, u
<1>5. ASSUME NEW i \in 1 .. Used(t) PROVE es[i] \in Entries
  <2>1. t.entries[i] \in Entries
    BY <1>1
  <2>2. [t.entries[i] EXCEPT !.value = v] \in Entries
    BY <2>1 DEF Entries
  <2> QED
    BY <1>4, <2>1, <2>2
<1>6. es \in Seq(Entries) /\ Len(es) = Len(t.entries)
  <2>1. es = [i \in 1 .. Used(t) |-> es[i]]
    <3>1. es = [i \in DOMAIN es |-> es[i]]
      BY <1>1 DEF es
    <3> QED
      BY <1>4, <3>1
  <2>2. es \in [1 .. Used(t) -> Entries]
    BY <1>5, <2>1
  <2> QED
    BY <1>1, <1>4, <2>2
<1>7. u = [entries |-> es, index |-> t.index, length |-> t.length]
  BY <1>1, <1>3
<1>8. u.entries = es /\ u.index = t.index /\ u.length = t.length
  BY <1>7
<1> QED
  BY <1>4, <1>6, <1>7, <1>8 DEF u, e

\* The entry of a key that is found, without the key.
LEMMA DeletedIs ==
  ASSUME NEW t, TableOK(t), hash \in [TableKeys -> Nat], NEW k \in TableKeys, Found(t, k)
  PROVE  LET d == Deleted(t, k)
         IN  /\ d = [entries |-> d.entries, index |-> d.index, length |-> d.length]
             /\ d.index = [t.index EXCEPT ![SlotFor(t, k)] = Tombstone]
             /\ d.length = t.length - 1
             /\ d.entries \in Seq(Entries) /\ Len(d.entries) = Len(t.entries)
             /\ ~ d.entries[EntryOf(t, k)].live
             /\ \A i \in 1 .. Used(t) : i # EntryOf(t, k) => d.entries[i] = t.entries[i]
<1> DEFINE e == EntryOf(t, k)
           es == [t.entries EXCEPT ![e] = [@ EXCEPT !.live = FALSE, !.key = Nil, !.value = Nil]]
           ix == [t.index EXCEPT ![SlotFor(t, k)] = Tombstone]
           d == Deleted(t, k)
<1>1. /\ t = [entries |-> t.entries, index |-> t.index, length |-> t.length]
      /\ t.entries \in Seq(Entries) /\ e \in Live(t)
      /\ DOMAIN t.entries = 1 .. Used(t) /\ Used(t) \in Nat /\ Used(t) = Len(t.entries)
  BY FoundIs, Positions DEF TableOK, Used
<1>2. e \in 1 .. Used(t)
  BY Positions, <1>1
<1>3. d = [t EXCEPT !.entries = es, !.index = ix, !.length = @ - 1]
  BY DEF Deleted
<1> HIDE DEF e, ix
<1>4. /\ DOMAIN es = 1 .. Used(t)
      /\ es[e] = [t.entries[e] EXCEPT !.live = FALSE, !.key = Nil, !.value = Nil]
      /\ \A i \in 1 .. Used(t) : i # e => es[i] = t.entries[i]
  BY <1>1, <1>2
<1>5. es = [i \in 1 .. Used(t) |-> es[i]]
  BY <1>1, <1>4
<1> HIDE DEF es, d
<1>6. es[e] \in Entries /\ ~ es[e].live
  <2>1. t.entries[e] \in Entries
    BY <1>1, <1>2
  <2> QED
    BY <1>4, <2>1 DEF Entries
<1>7. \A i \in 1 .. Used(t) : es[i] \in Entries
  BY <1>1, <1>4, <1>6
<1>8. es \in Seq(Entries) /\ Len(es) = Len(t.entries)
  <2>1. es \in [1 .. Used(t) -> Entries]
    BY <1>5, <1>7
  <2> QED
    BY <1>1, <1>4, <2>1
<1>9. d = [entries |-> es, index |-> ix, length |-> t.length - 1]
  BY <1>1, <1>3
<1>10. d.entries = es /\ d.index = ix /\ d.length = t.length - 1
  BY <1>9
<1> QED
  BY <1>4, <1>6, <1>8, <1>9, <1>10 DEF d, e, ix

\* Both keep the table's parts together.
LEMMA UpdatedOK ==
  ASSUME NEW t, TableOK(t), hash \in [TableKeys -> Nat], NEW k \in TableKeys, Found(t, k),
         NEW v \in TableValues
  PROVE  LET u == Updated(t, k, v)
         IN  /\ TableOK(u) /\ (KeysOK(t) => KeysOK(u))
             /\ Live(u) = Live(t)
             /\ \A i \in Live(t) : u.entries[i].key = t.entries[i].key
             /\ \A i \in Live(t) :
                  u.entries[i].value = IF i = EntryOf(t, k) THEN v ELSE t.entries[i].value
<1> DEFINE u == Updated(t, k, v)
           e == EntryOf(t, k)
<1>1. /\ u = [entries |-> u.entries, index |-> t.index, length |-> t.length]
      /\ u.index = t.index /\ u.length = t.length
      /\ u.entries \in Seq(Entries) /\ Len(u.entries) = Len(t.entries)
      /\ \A i \in 1 .. Used(t) :
           u.entries[i] = IF i = e THEN [t.entries[i] EXCEPT !.value = v] ELSE t.entries[i]
  BY UpdatedIs, Zenon
<1>2. /\ DOMAIN t.entries = 1 .. Used(t) /\ Used(t) \in Nat /\ Used(t) = Len(t.entries)
      /\ \A i \in 1 .. Used(t) : t.entries[i] \in Entries
      /\ Live(t) \subseteq 1 .. Used(t)
  BY Positions DEF Used
<1> HIDE DEF u, e
<1>3. ASSUME NEW i \in 1 .. Used(t)
      PROVE  /\ u.entries[i].key = t.entries[i].key /\ u.entries[i].hash = t.entries[i].hash
             /\ u.entries[i].live = t.entries[i].live
             /\ u.entries[i].value = IF i = e THEN v ELSE t.entries[i].value
  BY <1>1, <1>2 DEF Entries
<1>4. DOMAIN u.entries = 1 .. Used(t) /\ Used(u) = Used(t)
  BY <1>1, <1>2 DEF Used
<1>5. Live(u) = Live(t)
  BY <1>2, <1>3, <1>4 DEF Live
<1>6. TableOK(u)
  <2>1. PICK c \in Nat : IndexOK(t.index, c, t.entries, Used(t)) /\ Used(t) <= c
    BY DEF TableOK
  <2>2. IndexOK(u.index, c, u.entries, Used(u))
    BY <1>1, <1>3, <1>4, <2>1 DEF IndexOK
  <2>3. t.length = Cardinality(Live(t))
    BY DEF TableOK
  <2> QED
    BY <1>1, <1>4, <1>5, <2>1, <2>2, <2>3 DEF TableOK
<1>7. KeysOK(t) => KeysOK(u)
  BY <1>2, <1>3, <1>5 DEF KeysOK
<1> QED
  BY <1>2, <1>3, <1>5, <1>6, <1>7 DEF u, e

\* The slot of a deleted key is a tombstone, which searches pass.
LEMMA DeletedOK ==
  ASSUME NEW t, TableOK(t), hash \in [TableKeys -> Nat], NEW k \in TableKeys, Found(t, k)
  PROVE  LET d == Deleted(t, k)
         IN  /\ TableOK(d) /\ (KeysOK(t) => KeysOK(d))
             /\ Live(d) = Live(t) \ {EntryOf(t, k)}
             /\ \A i \in Live(d) : d.entries[i] = t.entries[i]
<1> DEFINE d == Deleted(t, k)
           e == EntryOf(t, k)
           s == SlotFor(t, k)
<1>1. /\ d = [entries |-> d.entries, index |-> d.index, length |-> d.length]
      /\ d.index = [t.index EXCEPT ![s] = Tombstone]
      /\ d.length = t.length - 1
      /\ d.entries \in Seq(Entries) /\ Len(d.entries) = Len(t.entries)
      /\ ~ d.entries[e].live
      /\ \A i \in 1 .. Used(t) : i # e => d.entries[i] = t.entries[i]
  BY DeletedIs, Zenon
<1>2. /\ DOMAIN t.entries = 1 .. Used(t) /\ Used(t) \in Nat /\ Used(t) = Len(t.entries)
      /\ \A i \in 1 .. Used(t) : t.entries[i].hash \in Nat
      /\ Live(t) \subseteq 1 .. Used(t) /\ IsFiniteSet(Live(t))
  BY Positions DEF Used
<1>3. s \in DOMAIN t.index /\ t.index[s] = e /\ e \in Live(t)
  BY FoundIs
<1> HIDE DEF d, e, s
<1>4. DOMAIN d.entries = 1 .. Used(t) /\ Used(d) = Used(t)
  BY <1>1, <1>2 DEF Used
<1>5. Live(d) = Live(t) \ {e}
  <2>1. \A i \in 1 .. Used(t) : i \in Live(d) <=> i \in Live(t) /\ i # e
    BY <1>1, <1>2, <1>4 DEF Live
  <2>2. \A i : i \in Live(d) => i \in 1 .. Used(t)
    BY <1>4 DEF Live
  <2> QED
    BY <1>2, <2>1, <2>2
<1>6. \A i \in Live(d) : d.entries[i] = t.entries[i]
  BY <1>1, <1>2, <1>5
<1>7. TableOK(d)
  <2>1. PICK c \in Nat : IndexOK(t.index, c, t.entries, Used(t)) /\ Used(t) <= c
    BY DEF TableOK
  <2>2. /\ c \in Nat \ {0}
        /\ t.index \in [0 .. 2 * c - 1 -> {Tombstone} \cup 0 .. Used(t)]
        /\ IsFiniteSet(Taken(t.index)) /\ Cardinality(Taken(t.index)) <= Used(t)
        /\ \A i \in 1 .. Used(t) : t.entries[i].live => Leads(t.index, t.entries[i].hash, i)
    BY <2>1 DEF IndexOK
  <2>3. /\ DOMAIN t.index = 0 .. 2 * c - 1 /\ 2 * c \in Nat \ {0}
        /\ Cardinality(DOMAIN t.index) = 2 * c
    BY <2>1, IndexSize
  <2>4. d.index \in [0 .. 2 * c - 1 -> {Tombstone} \cup 0 .. Used(t)]
    BY <1>1, <1>3, <2>2
  <2>5. Taken(d.index) = Taken(t.index)
    <3>1. e # EmptySlot /\ Tombstone # EmptySlot
      BY <1>2, <1>3 DEF EmptySlot, Tombstone
    <3>2. DOMAIN d.index = DOMAIN t.index
          /\ \A x \in DOMAIN t.index : d.index[x] # EmptySlot <=> t.index[x] # EmptySlot
      BY <1>1, <1>3, <3>1
    <3> QED
      BY <3>2 DEF Taken
  <2>6. ASSUME NEW i \in 1 .. Used(d), d.entries[i].live
        PROVE  Leads(d.index, d.entries[i].hash, i)
    <3>1. i \in 1 .. Used(t) /\ i # e
      BY <1>1, <1>4, <2>6
    <3>2. d.entries[i] = t.entries[i] /\ t.entries[i].live /\ t.entries[i].hash \in Nat
      BY <1>1, <1>2, <2>6, <3>1
    <3>3. Leads(t.index, t.entries[i].hash, i)
      BY <2>2, <3>1, <3>2
    <3>4. t.index[s] # i /\ Tombstone # EmptySlot
      BY <1>3, <3>1 DEF EmptySlot, Tombstone
    <3> DEFINE n == 2 * c
               h == t.entries[i].hash
    <3>5. n \in Nat \ {0} /\ DOMAIN t.index = 0 .. n - 1 /\ Cardinality(DOMAIN t.index) = n
          /\ h \in Nat /\ Leads(t.index, h, i)
      BY <2>3, <3>2, <3>3
    <3> HIDE DEF n, h
    <3>6. Leads([t.index EXCEPT ![s] = Tombstone], h, i)
      BY <1>3, <3>4, <3>5, LeadsStays
    <3> QED
      BY <1>1, <3>2, <3>6 DEF h
  <2>7. IndexOK(d.index, c, d.entries, Used(d))
    BY <1>2, <1>4, <2>2, <2>4, <2>5, <2>6 DEF IndexOK
  <2>8. d.length = Cardinality(Live(d))
    <3>1. t.length = Cardinality(Live(t))
      BY DEF TableOK
    <3>2. Cardinality(Live(t) \ {e}) = Cardinality(Live(t)) - 1
      BY <1>2, <1>3, FS_RemoveElement
    <3> QED
      BY <1>1, <1>5, <3>1, <3>2
  <2> QED
    BY <1>1, <1>4, <2>1, <2>7, <2>8 DEF TableOK
<1>8. KeysOK(t) => KeysOK(d)
  <2>1. \A i \in Live(d) : i \in Live(t)
    BY <1>5
  <2> QED
    BY <1>6, <2>1, Zenon DEF KeysOK
<1> QED
  BY <1>5, <1>6, <1>7, <1>8 DEF d, e, s

\* There are half as many entries as slots.
LEMMA CapacityIs ==
  ASSUME NEW t, NEW c, NEW es, NEW m, IndexOK(t.index, c, es, m)
  PROVE  Capacity(t) = c /\ c \in Nat \ {0}
<1>1. Cardinality(DOMAIN t.index) = 2 * c /\ c \in Nat \ {0}
  BY IndexSize DEF IndexOK
<1> DEFINE n == 2 * c
<1>2. (2 * c) \div 2 = c
  BY <1>1
<1> QED
  BY <1>1, <1>2 DEF Capacity, IndexCapacity

\* What is kept of the entries is those that are live, in their order.
LEMMA KeptIs ==
  ASSUME NEW t, TableOK(t)
  PROVE  LET es == Kept(t.entries, Live(t))
         IN  /\ es \in Seq(Entries) /\ Len(es) = t.length /\ DOMAIN es = 1 .. t.length
             /\ \A n \in 1 .. t.length :
                  /\ Nth(Live(t), n) \in Live(t) /\ es[n] = t.entries[Nth(Live(t), n)]
                  /\ es[n] \in Entries /\ es[n].live
             /\ \A i \in Live(t) : \E n \in 1 .. t.length : Nth(Live(t), n) = i
             /\ \A n, m \in 1 .. t.length : Nth(Live(t), n) = Nth(Live(t), m) => n = m
<1> DEFINE es == Kept(t.entries, Live(t))
           L == Live(t)
<1>1. /\ L \subseteq Nat /\ IsFiniteSet(L) /\ t.length = Cardinality(L) /\ t.length \in Nat
      /\ \A i \in L : t.entries[i] \in Entries /\ t.entries[i].live
  <2>1. \A i \in L : i \in 1 .. Used(t) /\ t.entries[i].live
    BY Positions DEF Live
  <2> QED
    BY <2>1, Positions DEF TableOK
<1>2. es = [n \in 1 .. t.length |-> t.entries[Nth(L, n)]]
  BY <1>1 DEF Kept
<1> HIDE DEF es, L
<1>3. \A n \in 1 .. t.length : Nth(L, n) \in L /\ Cardinality(UpTo(L, Nth(L, n))) = n
  BY <1>1, NthIn
<1>4. \A n \in 1 .. t.length : es[n] = t.entries[Nth(L, n)] /\ es[n] \in Entries /\ es[n].live
  BY <1>1, <1>2, <1>3
<1>5. es \in Seq(Entries) /\ Len(es) = t.length /\ DOMAIN es = 1 .. t.length
  <2>1. DOMAIN es = 1 .. t.length /\ es = [n \in 1 .. t.length |-> es[n]]
    BY <1>2
  <2>2. es \in [1 .. t.length -> Entries]
    BY <1>4, <2>1
  <2> QED
    BY <1>1, <2>1, <2>2
<1>6. \A i \in L : \E n \in 1 .. t.length : Nth(L, n) = i
  BY <1>1, NthIs
<1>7. \A n, m \in 1 .. t.length : Nth(L, n) = Nth(L, m) => n = m
  BY <1>3
<1> QED
  BY <1>3, <1>4, <1>5, <1>6, <1>7 DEF es, L

\* There is room for an entry more, and no key has come or gone.
LEMMA RoomOK ==
  ASSUME NEW t, TableOK(t), hash \in [TableKeys -> Nat]
  PROVE  LET room == CompactOrGrow(t)
         IN  /\ TableOK(room) /\ Used(room) < Capacity(room)
             /\ KeysOK(t) => KeysOK(room)
             /\ \A k \in TableKeys : Found(room, k) => Found(t, k)
<1> DEFINE room == CompactOrGrow(t)
           es == Kept(t.entries, Live(t))
           kept == [t EXCEPT !.entries = es,
                      !.index = RebuiltIndex(es, IF Crowded(t) THEN Capacity(t) ELSE 2 * Capacity(t))]
<1>1. PICK c \in Nat : IndexOK(t.index, c, t.entries, Used(t)) /\ Used(t) <= c
  BY DEF TableOK
<1>2. Capacity(t) = c /\ c \in Nat \ {0}
  BY <1>1, CapacityIs
<1>3. CASE Used(t) < Capacity(t) /\ ~Crowded(t)
  <2>1. room = t
    BY <1>3 DEF CompactOrGrow
  <2> HIDE DEF room
  <2> QED
    BY <1>3, <2>1 DEF room
<1>4. CASE ~ (Used(t) < Capacity(t) /\ ~Crowded(t))
  <2> DEFINE cap == IF Crowded(t) THEN Capacity(t) ELSE 2 * Capacity(t)
  <2>1. room = kept
    BY <1>4, Zenon DEF CompactOrGrow
  <2>2. /\ es \in Seq(Entries) /\ Len(es) = t.length /\ DOMAIN es = 1 .. t.length
        /\ \A n \in 1 .. t.length :
             /\ Nth(Live(t), n) \in Live(t) /\ es[n] = t.entries[Nth(Live(t), n)]
             /\ es[n] \in Entries /\ es[n].live
        /\ \A i \in Live(t) : \E n \in 1 .. t.length : Nth(Live(t), n) = i
        /\ \A n, m \in 1 .. t.length : Nth(Live(t), n) = Nth(Live(t), m) => n = m
    BY KeptIs, Zenon
  <2>3. /\ t = [entries |-> t.entries, index |-> t.index, length |-> t.length]
        /\ t.length = Cardinality(Live(t))
    BY DEF TableOK
  <2>4. t.length \in Nat /\ t.length <= Used(t) /\ Used(t) \in Nat
    BY Positions
  <2>5. cap \in Nat \ {0} /\ t.length < cap
    <3>1. Crowded(t) <=> Used(t) > 2 * t.length
      BY DEF Crowded
    <3> QED
      BY <1>1, <1>2, <2>4, <3>1
  <2> HIDE DEF es, cap, room
  <2>6. room = [entries |-> es, index |-> RebuiltIndex(es, cap), length |-> t.length]
    BY <2>1, <2>3 DEF cap
  <2>7. room.entries = es /\ room.index = RebuiltIndex(es, cap) /\ room.length = t.length
    BY <2>6
  <2>8. Used(room) = t.length
    BY <2>2, <2>7 DEF Used
  <2>9. IndexOK(room.index, cap, room.entries, Used(room))
    <3>1. \A n \in 1 .. Len(es) : es[n].hash \in Nat
      BY <2>2 DEF Entries
    <3>2. Len(es) < 2 * cap /\ Len(es) \in Nat
      BY <2>2, <2>4, <2>5
    <3>3. IndexOK(RebuiltIndex(es, cap), cap, es, Len(es))
      BY <2>5, <3>1, <3>2, Rebuilt
    <3> QED
      BY <2>2, <2>7, <2>8, <3>3
  <2>10. Live(room) = 1 .. t.length
    BY <2>2, <2>7 DEF Live
  <2>11. Cardinality(1 .. t.length) = t.length
    <3> DEFINE m == t.length
    <3>1. m \in Int /\ 1 \in Int /\ (IF 1 > m THEN 0 ELSE m - 1 + 1) = m
      BY <2>4
    <3> HIDE DEF m
    <3>2. Cardinality(1 .. m) = m
      BY <3>1, FS_Interval
    <3> QED
      BY <3>2 DEF m
  <2>12. TableOK(room)
    BY <2>2, <2>4, <2>5, <2>6, <2>7, <2>8, <2>9, <2>10, <2>11 DEF TableOK
  <2>13. Used(room) < Capacity(room)
    <3>1. Capacity(room) = cap
      BY <2>9, CapacityIs
    <3> QED
      BY <2>5, <2>8, <3>1
  <2>14. KeysOK(t) => KeysOK(room)
    <3> SUFFICES ASSUME KeysOK(t) PROVE KeysOK(room)
      OBVIOUS
    <3>1. \A n \in Live(room) :
            Nth(Live(t), n) \in Live(t) /\ room.entries[n] = t.entries[Nth(Live(t), n)]
      BY <2>2, <2>7, <2>10
    <3>2. \A n, m \in Live(room) : Nth(Live(t), n) = Nth(Live(t), m) => n = m
      BY <2>2, <2>10
    <3> QED
      BY <3>1, <3>2 DEF KeysOK
  <2>15. ASSUME NEW k \in TableKeys, Found(room, k) PROVE Found(t, k)
    <3> DEFINE n == EntryOf(room, k)
               i == Nth(Live(t), n)
    <3>1. n \in Live(room) /\ room.entries[n].key = k /\ room.entries[n].hash = hash[k]
      BY <2>12, <2>15, FoundIs
    <3> HIDE DEF n
    <3>2. i \in Live(t) /\ room.entries[n] = t.entries[i]
      BY <2>2, <2>7, <2>10, <3>1
    <3> HIDE DEF i
    <3>3. t.entries[i].key = k /\ t.entries[i].hash = hash[k]
      BY <3>1, <3>2
    <3> QED
      BY <3>2, <3>3, FoundAll
  <2> QED
    BY <2>12, <2>13, <2>14, <2>15 DEF room
<1> QED
  BY <1>3, <1>4

\* The entry of a key that was not found comes last, and the index leads to it.
LEMMA InsertedOK ==
  ASSUME NEW t, TableOK(t), hash \in [TableKeys -> Nat], NEW k \in TableKeys, ~ Found(t, k),
         NEW v \in TableValues
  PROVE  LET room == CompactOrGrow(t)
             new == Inserted(t, k, v)
             last == Used(room) + 1
         IN  /\ TableOK(new) /\ (KeysOK(t) => KeysOK(new))
             /\ Live(new) = Live(room) \cup {last} /\ (\A i \in Live(room) : i < last)
             /\ \A i \in Live(room) : new.entries[i] = room.entries[i]
             /\ new.entries[last].key = k /\ new.entries[last].value = v
<1> DEFINE room == CompactOrGrow(t)
           new == Inserted(t, k, v)
           m == Used(room)
           entry == [key |-> k, value |-> v, hash |-> hash[k], live |-> TRUE]
           es == Append(room.entries, entry)
           s == SlotFor(room, k)
           ix == [room.index EXCEPT ![s] = m + 1]
<1>1. /\ TableOK(room) /\ m < Capacity(room)
      /\ KeysOK(t) => KeysOK(room)
      /\ ~ Found(room, k)
  BY RoomOK
<1>2. new = [room EXCEPT !.entries = Append(@, entry), !.index[s] = m + 1, !.length = @ + 1]
  BY DEF Inserted
<1> HIDE DEF room, m, s
<1>3. /\ DOMAIN room.entries = 1 .. m /\ m \in Nat
      /\ \A i \in 1 .. m : room.entries[i] \in Entries /\ room.entries[i].hash \in Nat
      /\ Live(room) \subseteq 1 .. m /\ IsFiniteSet(Live(room)) /\ room.length \in Nat
  BY <1>1, Positions DEF m
<1>4. /\ room = [entries |-> room.entries, index |-> room.index, length |-> room.length]
      /\ room.entries \in Seq(Entries) /\ Len(room.entries) = m
      /\ room.length = Cardinality(Live(room))
  BY <1>1 DEF TableOK, m, Used
<1>5. /\ entry \in Entries /\ entry.live /\ entry.key = k /\ entry.value = v
      /\ entry.hash = hash[k] /\ hash[k] \in Nat
  BY DEF Entries
<1> HIDE DEF entry, new
<1>6. /\ es \in Seq(Entries) /\ Len(es) = m + 1 /\ DOMAIN es = 1 .. m + 1
      /\ es[m + 1] = entry /\ \A i \in 1 .. m : es[i] = room.entries[i]
  BY <1>3, <1>4, <1>5
<1> HIDE DEF es, ix
<1>7. new = [entries |-> es, index |-> ix, length |-> room.length + 1]
  BY <1>2, <1>4 DEF es, ix
<1>8. new.entries = es /\ new.index = ix /\ new.length = room.length + 1 /\ Used(new) = m + 1
  BY <1>6, <1>7 DEF Used
<1>9. Live(new) = Live(room) \cup {m + 1}
  <2>1. \A i : i \in 1 .. m + 1 <=> i \in 1 .. m \/ i = m + 1
    BY <1>3
  <2>2. \A i \in 1 .. m : i \in Live(new) <=> i \in Live(room)
    BY <1>3, <1>6, <1>8, <2>1 DEF Live
  <2>3. m + 1 \in Live(new)
    BY <1>5, <1>6, <1>8, <2>1 DEF Live
  <2>4. \A i \in Live(new) : i \in 1 .. m + 1
    BY <1>6, <1>8 DEF Live
  <2> QED
    BY <1>3, <2>1, <2>2, <2>3, <2>4
<1>10. /\ \A i \in Live(room) : i < m + 1 /\ new.entries[i] = room.entries[i]
       /\ new.entries[m + 1] = entry
  BY <1>3, <1>6, <1>8
<1>11. TableOK(new)
  <2>1. PICK c \in Nat : IndexOK(room.index, c, room.entries, m) /\ m <= c
    BY <1>1 DEF TableOK, m
  <2>2. m + 1 <= c
    <3>1. Capacity(room) = c
      BY <2>1, CapacityIs
    <3> QED
      BY <1>1, <1>3, <3>1
  <2>3. PICK p \in DOMAIN room.index :
          /\ s = Slot(Cardinality(DOMAIN room.index), hash[k], p)
          /\ room.index[s] \in {EmptySlot, Tombstone}
          /\ \A q \in 0 .. p - 1 :
               room.index[Slot(Cardinality(DOMAIN room.index), hash[k], q)] # EmptySlot
    BY <1>1, FreeIs DEF s
  <2> DEFINE index == room.index
             old == room.entries
             h == hash[k]
  <2>4. /\ IndexOK(index, c, old, m) /\ h \in Nat /\ p \in DOMAIN index
        /\ index[Slot(Cardinality(DOMAIN index), h, p)] \in {EmptySlot, Tombstone}
        /\ \A q \in 0 .. p - 1 : index[Slot(Cardinality(DOMAIN index), h, q)] # EmptySlot
        /\ es[m + 1].hash = h
        /\ \A i \in 1 .. m : old[i].hash \in Nat /\ es[i] = old[i]
    BY <1>3, <1>5, <1>6, <2>1, <2>3
  <2>5. ix = [index EXCEPT ![Slot(Cardinality(DOMAIN index), h, p)] = m + 1]
    BY <2>3 DEF ix
  <2> HIDE DEF index, old, h
  <2>6. IndexOK([index EXCEPT ![Slot(Cardinality(DOMAIN index), h, p)] = m + 1], c, es, m + 1)
    BY <2>4, Placed
  <2>7. IndexOK(new.index, c, new.entries, Used(new))
    BY <1>8, <2>5, <2>6
  <2>8. new.length = Cardinality(Live(new))
    <3>1. m + 1 \notin Live(room)
      BY <1>3
    <3>2. Cardinality(Live(room) \cup {m + 1}) = Cardinality(Live(room)) + 1
      BY <1>3, <3>1, FS_AddElement
    <3> QED
      BY <1>4, <1>8, <1>9, <3>2
  <2> QED
    BY <1>6, <1>7, <1>8, <2>1, <2>2, <2>7, <2>8 DEF TableOK
<1>12. KeysOK(t) => KeysOK(new)
  <2> SUFFICES ASSUME KeysOK(t) PROVE KeysOK(new)
    OBVIOUS
  <2>1. KeysOK(room)
    BY <1>1
  <2>2. \A i \in Live(room) :
          /\ room.entries[i].key \in TableKeys
          /\ room.entries[i].key \in StableKeys => room.entries[i].hash = hash[room.entries[i].key]
          /\ \A j \in Live(room) :
               room.entries[i].key = room.entries[j].key /\ room.entries[i].key \in StableKeys => i = j
    BY <2>1, Zenon DEF KeysOK
  <2>3. \A i \in Live(room) : ~ (room.entries[i].key = k /\ k \in StableKeys)
    <3> SUFFICES ASSUME NEW i \in Live(room), room.entries[i].key = k, k \in StableKeys
                 PROVE  FALSE
      OBVIOUS
    <3>1. room.entries[i].hash = hash[k]
      BY <2>2
    <3> QED
      BY <1>1, <3>1, FoundAll
  <2>4. \A i \in Live(new) : i \in Live(room) \/ i = m + 1
    BY <1>9
  <2>5. \A i \in Live(room) : new.entries[i] = room.entries[i]
    BY <1>10
  <2>6. new.entries[m + 1].key = k /\ new.entries[m + 1].hash = hash[k]
    BY <1>5, <1>10
  <2>7. \A i \in Live(new) : new.entries[i].key \in TableKeys
    BY <2>2, <2>4, <2>5, <2>6, Zenon
  <2>8. \A i \in Live(new) :
          new.entries[i].key \in StableKeys => new.entries[i].hash = hash[new.entries[i].key]
    BY <2>2, <2>4, <2>5, <2>6, Zenon
  <2>9. ASSUME NEW i \in Live(new), NEW j \in Live(new),
               new.entries[i].key = new.entries[j].key, new.entries[i].key \in StableKeys
        PROVE  i = j
    <3>1. CASE i \in Live(room) /\ j \in Live(room)
      BY <2>2, <2>5, <2>9, <3>1
    <3>2. CASE i = m + 1 /\ j \in Live(room)
      BY <2>3, <2>5, <2>6, <2>9, <3>2
    <3>3. CASE i \in Live(room) /\ j = m + 1
      BY <2>3, <2>5, <2>6, <2>9, <3>3
    <3> QED
      BY <2>4, <3>1, <3>2, <3>3
  <2> QED
    BY <2>7, <2>8, <2>9 DEF KeysOK
<1> QED
  BY <1>5, <1>9, <1>10, <1>11, <1>12 DEF room, new, m

-----------------------------------------------------------------------------
(* The invariant holds *)

\* It does of a new table.
LEMMA TInvInit == TableInit => TInv
<1> SUFFICES ASSUME TableInit PROVE TInv
  OBVIOUS
<1>1. hash \in [TableKeys -> Nat] /\ MinCapacity \in Nat \ {0}
  BY TableAssumption DEF TableInit
<1>2. table = [entries |-> <<>>, index |-> Index(MinCapacity), length |-> 0]
  BY DEF TableInit, TableNew
<1>3. /\ table = [entries |-> table.entries, index |-> table.index, length |-> table.length]
      /\ table.entries = <<>> /\ table.index = Index(MinCapacity) /\ table.length = 0
  BY <1>2
<1>4. Used(table) = 0 /\ Live(table) = {} /\ table.entries \in Seq(Entries)
  BY <1>3 DEF Used, Live
<1>7. IsFiniteSet({}) /\ Cardinality({}) = 0
  BY FS_EmptySet
<1>8. IndexOK(table.index, MinCapacity, table.entries, 0)
  BY <1>1, <1>3, NoneIndexed
<1>9. TableOK(table)
  BY <1>1, <1>3, <1>4, <1>7, <1>8 DEF TableOK
<1>10. KeysOK(table)
  BY <1>4 DEF KeysOK
<1> QED
  BY <1>1, <1>9, <1>10 DEF TInv

\* A put is one of four things.
LEMMA PutCases ==
  ASSUME NEW k \in TableKeys, NEW v \in TableValues \cup {Nil}, Put(k, v)
  PROVE  /\ hash' = hash
         /\ \/ Found(table, k) /\ v = Nil /\ table' = Deleted(table, k)
            \/ Found(table, k) /\ v # Nil /\ table' = Updated(table, k, v)
            \/ table' = table
            \/ ~ Found(table, k) /\ v # Nil /\ table' = Inserted(table, k, v)
<1>1. /\ hash' = hash
      /\ table' = CASE Found(table, k) /\ v = Nil  -> Deleted(table, k)
                    [] Found(table, k) /\ v # Nil  -> Updated(table, k, v)
                    [] ~Found(table, k) /\ v = Nil -> table
                    [] OTHER                       -> Inserted(table, k, v)
  BY Zenon DEF Put
<1>2. CASE Found(table, k)
  BY <1>1, <1>2
<1>3. CASE ~ Found(table, k)
  BY <1>1, <1>3
<1> QED
  BY <1>2, <1>3

\* Every put keeps it.
LEMMA TInvPut ==
  ASSUME TInv, NEW k \in TableKeys, NEW v \in TableValues \cup {Nil}, Put(k, v)
  PROVE  TInv'
<1>1. TableOK(table) /\ KeysOK(table) /\ hash \in [TableKeys -> Nat]
  BY DEF TInv
<1>2. hash' = hash
  BY PutCases
<1>3. TableOK(table') /\ KeysOK(table')
  <2>1. CASE Found(table, k) /\ v = Nil /\ table' = Deleted(table, k)
    BY <1>1, <2>1, DeletedOK
  <2>2. CASE Found(table, k) /\ v # Nil /\ table' = Updated(table, k, v)
    <3>1. v \in TableValues
      BY <2>2
    <3> QED
      BY <1>1, <2>2, <3>1, UpdatedOK
  <2>3. CASE table' = table
    BY <1>1, <2>3
  <2>4. CASE ~ Found(table, k) /\ v # Nil /\ table' = Inserted(table, k, v)
    <3>1. v \in TableValues
      BY <2>4
    <3> QED
      BY <1>1, <2>4, <3>1, InsertedOK
  <2> QED
    BY <2>1, <2>2, <2>3, <2>4, PutCases
<1>4. TableOK(table)'
  BY <1>3 DEF TableOK, Live, Used
<1>5. KeysOK(table)'
  BY <1>2, <1>3 DEF KeysOK, Live, StableKeys
<1> QED
  BY <1>1, <1>2, <1>4, <1>5 DEF TInv

\* So does the collector, which moves the keys that hash by their address.
LEMMA TInvMoves ==
  ASSUME TInv, NEW k \in AddressKeys, Moves(k)
  PROVE  TInv'
<1>1. PICK h \in Hashes : hash' = [hash EXCEPT ![k] = h] /\ table' = table
  BY DEF Moves
<1>2. h \in Nat
  BY TableAssumption
<1>3. /\ TableOK(table) /\ KeysOK(table) /\ hash \in [TableKeys -> Nat]
  BY DEF TInv
<1>4. hash' \in [TableKeys -> Nat] /\ \A x \in StableKeys : hash'[x] = hash[x]
  BY <1>1, <1>2, <1>3 DEF StableKeys
<1>5. TableOK(table)'
  BY <1>1, <1>3 DEF TableOK, Live, Used
<1>6. KeysOK(table)'
  BY <1>1, <1>3, <1>4 DEF KeysOK, Live, StableKeys
<1> QED
  BY <1>4, <1>5, <1>6 DEF TInv

\* So does every step.
LEMMA TInvNext == TInv /\ [TableNext]_tableVars => TInv'
<1> SUFFICES ASSUME TInv, [TableNext]_tableVars PROVE TInv'
  OBVIOUS
<1>1. CASE \E k \in TableKeys, v \in TableValues \cup {Nil} : Put(k, v)
  BY <1>1, TInvPut
<1>2. CASE \E k \in AddressKeys : Moves(k)
  BY <1>2, TInvMoves
<1>3. CASE UNCHANGED tableVars
  <2>1. table' = table /\ hash' = hash
    BY <1>3 DEF tableVars
  <2> QED
    BY <2>1 DEF TInv, TableOK, KeysOK, Live, Used, StableKeys
<1> QED
  BY <1>1, <1>2, <1>3 DEF TableNext

\* KeysAreFound (table_lookup, table_rebuild_index, table_compact_or_grow): for any keys,
\* hashes and sizes, every entry that is live can be reached from its hash, a search ends,
\* and each key that has an identity of its own is found with its value.
THEOREM KeysFound == TableSpec => []KeysAreFound
  BY TInvNext, TInvInit, InvFinds, PTL DEF TableSpec

-----------------------------------------------------------------------------
(* The map of what a put leaves *)

\* Without its r-th element a sequence's later ones move up.
LEMMA RemoveIs ==
  ASSUME NEW P, NEW s \in Seq(P), NEW r \in 1 .. Len(s)
  PROVE  /\ RemoveAt(s, r) \in Seq(P) /\ Len(RemoveAt(s, r)) = Len(s) - 1
         /\ \A n \in 1 .. Len(s) - 1 :
              RemoveAt(s, r)[n] = s[IF n < r THEN n ELSE n + 1]
<1> DEFINE c == Len(s)
           a == SubSeq(s, 1, r - 1)
           b == SubSeq(s, r + 1, c)
<1>1. c \in Nat /\ r \in 1 .. c /\ r - 1 \in Int /\ r + 1 \in Int /\ c \in Int
  OBVIOUS
<1>2. \A i \in 1 .. c : s[i] \in P
  OBVIOUS
<1> HIDE DEF c
<1>3. a \in Seq(P) /\ Len(a) = r - 1 /\ \A i \in 1 .. r - 1 : a[i] = s[i]
  <2>1. \A i \in 1 .. r - 1 : i \in 1 .. c
    BY <1>1
  <2>2. \A i \in 1 .. r - 1 : s[i] \in P
    BY <1>2, <2>1
  <2>3. /\ a \in Seq(P) /\ Len(a) = IF 1 <= r - 1 THEN r - 1 - 1 + 1 ELSE 0
        /\ \A i \in 1 .. (r - 1) - 1 + 1 : a[i] = s[1 + i - 1]
    BY <1>1, <2>2, SubSeqProperties
  <2> HIDE DEF a
  <2>4. \A i \in 1 .. r - 1 : i \in 1 .. (r - 1) - 1 + 1 /\ 1 + i - 1 = i
    BY <1>1
  <2>5. \A i \in 1 .. r - 1 : a[i] = s[i]
    BY <2>3, <2>4
  <2>6. Len(a) = r - 1
    BY <1>1, <2>3
  <2> QED
    BY <2>3, <2>5, <2>6
<1>4. b \in Seq(P) /\ Len(b) = c - r /\ \A i \in 1 .. c - r : b[i] = s[r + i]
  <2>1. \A i \in r + 1 .. c : i \in 1 .. c
    BY <1>1
  <2>2. \A i \in r + 1 .. c : s[i] \in P
    BY <1>2, <2>1
  <2>3. /\ b \in Seq(P) /\ Len(b) = IF r + 1 <= c THEN c - (r + 1) + 1 ELSE 0
        /\ \A i \in 1 .. c - (r + 1) + 1 : b[i] = s[(r + 1) + i - 1]
    BY <1>1, <2>2, SubSeqProperties
  <2> HIDE DEF b
  <2>4. \A i \in 1 .. c - r : i \in 1 .. c - (r + 1) + 1 /\ (r + 1) + i - 1 = r + i
    BY <1>1
  <2>5. \A i \in 1 .. c - r : b[i] = s[r + i]
    BY <2>3, <2>4
  <2>6. Len(b) = c - r
    BY <1>1, <2>3
  <2> QED
    BY <2>3, <2>5, <2>6
<1>5. RemoveAt(s, r) = a \o b
  BY DEF RemoveAt, c
<1> HIDE DEF a, b
<1>6. /\ a \o b \in Seq(P) /\ Len(a \o b) = Len(a) + Len(b)
      /\ \A i \in 1 .. Len(a) + Len(b) :
           (a \o b)[i] = IF i <= Len(a) THEN a[i] ELSE b[i - Len(a)]
  BY <1>3, <1>4, ConcatProperties
<1>7. Len(a) + Len(b) = c - 1
  BY <1>1, <1>3, <1>4
<1>8. ASSUME NEW n \in 1 .. c - 1
      PROVE  (a \o b)[n] = s[IF n < r THEN n ELSE n + 1]
  <2>1. (a \o b)[n] = IF n <= Len(a) THEN a[n] ELSE b[n - Len(a)]
    BY <1>6, <1>7
  <2>2. CASE n < r
    <3>1. n <= Len(a) /\ n \in 1 .. r - 1
      BY <1>1, <1>3, <2>2
    <3>2. a[n] = s[n]
      BY <1>3, <3>1
    <3> QED
      BY <2>1, <2>2, <3>1, <3>2
  <2>3. CASE ~(n < r)
    <3>1. ~(n <= Len(a)) /\ n - Len(a) \in 1 .. c - r /\ r + (n - Len(a)) = n + 1
      BY <1>1, <1>3, <2>3
    <3>2. b[n - Len(a)] = s[r + (n - Len(a))]
      BY <1>4, <3>1
    <3> QED
      BY <2>1, <2>3, <3>1, <3>2
  <2> QED
    BY <2>2, <2>3
<1> QED
  BY <1>5, <1>6, <1>7, <1>8 DEF c

Pairs == TableKeys \X (TableValues \cup {Nil})

\* The map of a table is a sequence of pairs.
LEMMA MapSeq ==
  ASSUME NEW t, TableOK(t)
  PROVE  /\ MapOf(t) \in Seq(Pairs) /\ Len(MapOf(t)) = Cardinality(Mine(t))
         /\ DOMAIN MapOf(t) = 1 .. Cardinality(Mine(t))
         /\ \A n \in 1 .. Cardinality(Mine(t)) : MapOf(t)[n] = PairAt(t, Nth(Mine(t), n))
<1> DEFINE c == Cardinality(Mine(t))
<1>1. c \in Nat
  BY MineIs
<1>2. /\ DOMAIN MapOf(t) = 1 .. c /\ MapOf(t) = [n \in 1 .. c |-> MapOf(t)[n]]
      /\ \A n \in 1 .. c : MapOf(t)[n] = PairAt(t, Nth(Mine(t), n))
  BY DEF MapOf
<1> HIDE DEF c
<1>3. ASSUME NEW n \in 1 .. c PROVE MapOf(t)[n] \in Pairs
  <2> DEFINE i == Nth(Mine(t), n)
  <2>1. i \in Mine(t) /\ MapOf(t)[n] = PairAt(t, i)
    BY <1>2, MapHas
  <2> HIDE DEF i
  <2>2. t.entries[i] \in Entries /\ t.entries[i].key \in TableKeys
    BY <2>1, Positions DEF Mine, StableKeys
  <2> QED
    BY <2>1, <2>2 DEF PairAt, Pairs, Entries
<1>4. MapOf(t) \in [1 .. c -> Pairs]
  BY <1>2, <1>3
<1>5. MapOf(t) \in Seq(Pairs) /\ Len(MapOf(t)) = c
  BY <1>1, <1>2, <1>4
<1> QED
  BY <1>2, <1>5 DEF c

\* The entries of the keys are the same ones, with the same pairs.
LEMMA SameMap ==
  ASSUME NEW t, NEW u, TableOK(t), Mine(u) = Mine(t),
         \A i \in Mine(t) : PairAt(u, i) = PairAt(t, i)
  PROVE  MapOf(u) = MapOf(t)
<1> DEFINE c == Cardinality(Mine(t))
<1>1. \A n \in 1 .. c : Nth(Mine(t), n) \in Mine(t)
  BY MineIs, NthIn
<1>2. \A n \in 1 .. c : PairAt(u, Nth(Mine(t), n)) = PairAt(t, Nth(Mine(t), n))
  BY <1>1
<1> QED
  BY <1>2 DEF MapOf

\* An update keeps the key's place, and the other pairs.
LEMMA MapUpdated ==
  ASSUME NEW t, TableOK(t), KeysOK(t), hash \in [TableKeys -> Nat], NEW k \in TableKeys,
         Found(t, k), NEW v \in TableValues
  PROVE  LET u == Updated(t, k, v)
             f == MapOf(t)
         IN  /\ k \notin StableKeys => MapOf(u) = f
             /\ k \in StableKeys =>
                  MapOf(u) = [n \in DOMAIN f |-> IF f[n][1] = k THEN <<k, v>> ELSE f[n]]
<1> DEFINE u == Updated(t, k, v)
           e == EntryOf(t, k)
           f == MapOf(t)
           c == Cardinality(Mine(t))
<1>1. /\ Live(u) = Live(t)
      /\ \A i \in Live(t) : u.entries[i].key = t.entries[i].key
      /\ \A i \in Live(t) : u.entries[i].value = IF i = e THEN v ELSE t.entries[i].value
  BY UpdatedOK, Zenon
<1>2. e \in Live(t) /\ t.entries[e].key = k
  BY FoundIs
<1>3. /\ DOMAIN f = 1 .. c
      /\ \A n \in 1 .. c : Nth(Mine(t), n) \in Mine(t) /\ f[n] = PairAt(t, Nth(Mine(t), n))
  BY MapSeq, MapHas
<1> HIDE DEF u, e, f
<1>4. Mine(u) = Mine(t)
  BY <1>1 DEF Mine
<1>5. ASSUME k \notin StableKeys PROVE MapOf(u) = f
  <2>1. \A i \in Mine(t) : i \in Live(t) /\ i # e
    BY <1>2, <1>5 DEF Mine
  <2>2. \A i \in Mine(t) : PairAt(u, i) = PairAt(t, i)
    BY <1>1, <2>1 DEF PairAt
  <2> QED
    BY <1>4, <2>2, SameMap DEF f
<1>6. ASSUME k \in StableKeys
      PROVE  MapOf(u) = [n \in DOMAIN f |-> IF f[n][1] = k THEN <<k, v>> ELSE f[n]]
  <2>1. ASSUME NEW n \in 1 .. c
        PROVE  PairAt(u, Nth(Mine(t), n)) = IF f[n][1] = k THEN <<k, v>> ELSE f[n]
    <3> DEFINE i == Nth(Mine(t), n)
    <3>1. i \in Mine(t) /\ f[n] = PairAt(t, i)
      BY <1>3
    <3> HIDE DEF i
    <3>2. i \in Live(t) /\ t.entries[i].key \in StableKeys
      BY <3>1 DEF Mine
    <3>3. f[n][1] = t.entries[i].key
      BY <3>1 DEF PairAt
    <3>4. i = e <=> t.entries[i].key = k
      BY <1>2, <1>6, <3>2 DEF KeysOK
    <3>5. /\ u.entries[i].key = t.entries[i].key
          /\ u.entries[i].value = IF i = e THEN v ELSE t.entries[i].value
      BY <1>1, <3>2
    <3>6. CASE i = e
      BY <3>3, <3>4, <3>5, <3>6 DEF PairAt, i
    <3>7. CASE i # e
      BY <3>1, <3>3, <3>4, <3>5, <3>7 DEF PairAt, i
    <3> QED
      BY <3>6, <3>7
  <2>2. MapOf(u) = [n \in 1 .. c |-> PairAt(u, Nth(Mine(t), n))]
    BY <1>4 DEF MapOf
  <2> QED
    BY <1>3, <2>1, <2>2
<1> QED
  BY <1>5, <1>6 DEF u, f

\* A deletion takes the key's pair out of its place.
LEMMA MapDeleted ==
  ASSUME NEW t, TableOK(t), KeysOK(t), hash \in [TableKeys -> Nat], NEW k \in TableKeys,
         Found(t, k)
  PROVE  LET d == Deleted(t, k)
             f == MapOf(t)
         IN  /\ k \notin StableKeys => MapOf(d) = f
             /\ k \in StableKeys => \E r \in DOMAIN f : f[r][1] = k /\ MapOf(d) = RemoveAt(f, r)
<1> DEFINE d == Deleted(t, k)
           e == EntryOf(t, k)
           f == MapOf(t)
           S == Mine(t)
           c == Cardinality(S)
<1>1. /\ Live(d) = Live(t) \ {e}
      /\ \A i \in Live(d) : d.entries[i] = t.entries[i]
      /\ TableOK(d)
  BY DeletedOK, Zenon
<1>2. e \in Live(t) /\ t.entries[e].key = k
  BY FoundIs
<1>3. /\ f \in Seq(Pairs) /\ Len(f) = c /\ DOMAIN f = 1 .. c
      /\ \A n \in 1 .. c : Nth(S, n) \in S /\ f[n] = PairAt(t, Nth(S, n))
  BY MapSeq, MapHas
<1>4. S \subseteq Nat /\ IsFiniteSet(S) /\ c \in Nat
  BY MineIs
<1> HIDE DEF d, e, f
<1>5. Mine(d) = S \ {e}
  BY <1>1 DEF Mine
<1>6. \A i \in Mine(d) : PairAt(d, i) = PairAt(t, i)
  BY <1>1 DEF PairAt, Mine
<1>7. ASSUME k \notin StableKeys PROVE MapOf(d) = f
  <2>1. e \notin S
    BY <1>2, <1>7 DEF Mine
  <2>2. Mine(d) = S
    BY <1>5, <2>1
  <2> QED
    BY <1>6, <2>2, SameMap DEF f
<1>8. ASSUME k \in StableKeys
      PROVE  \E r \in DOMAIN f : f[r][1] = k /\ MapOf(d) = RemoveAt(f, r)
  <2>1. e \in S
    BY <1>2, <1>8 DEF Mine
  <2>2. PICK r \in 1 .. c : Nth(S, r) = e
    <3> HIDE DEF S
    <3> QED
      BY <1>4, <2>1, NthIs
  <2>3. f[r][1] = k
    BY <1>2, <1>3, <2>2 DEF PairAt
  <2> HIDE DEF S
  <2>4. /\ Cardinality(Mine(d)) = c - 1
        /\ \A n \in 1 .. c - 1 : Nth(Mine(d), n) = Nth(S, IF n < r THEN n ELSE n + 1)
    BY <1>4, <1>5, <2>2, NthWithout
  <2>5. /\ RemoveAt(f, r) \in Seq(Pairs) /\ Len(RemoveAt(f, r)) = c - 1
        /\ \A n \in 1 .. c - 1 : RemoveAt(f, r)[n] = f[IF n < r THEN n ELSE n + 1]
    BY <1>3, RemoveIs
  <2>6. /\ MapOf(d) \in Seq(Pairs) /\ Len(MapOf(d)) = c - 1
        /\ \A n \in 1 .. c - 1 :
             Nth(Mine(d), n) \in Mine(d) /\ MapOf(d)[n] = PairAt(d, Nth(Mine(d), n))
    BY <1>1, <2>4, MapSeq, MapHas
  <2>7. ASSUME NEW n \in 1 .. c - 1 PROVE MapOf(d)[n] = RemoveAt(f, r)[n]
    <3> DEFINE m == IF n < r THEN n ELSE n + 1
    <3>1. m \in 1 .. c
      BY <1>4
    <3>2. MapOf(d)[n] = PairAt(t, Nth(S, m))
      BY <1>6, <2>4, <2>6
    <3>3. RemoveAt(f, r)[n] = f[m]
      BY <2>5
    <3> HIDE DEF m
    <3> QED
      BY <1>3, <3>1, <3>2, <3>3
  <2>8. MapOf(d) = RemoveAt(f, r)
    BY <2>5, <2>6, <2>7, SeqEqual
  <2> QED
    BY <1>3, <2>3, <2>8
<1> QED
  BY <1>7, <1>8 DEF d, f

\* Dropping the entries of deleted keys leaves the map as it is.
LEMMA MapRoom ==
  ASSUME NEW t, TableOK(t), hash \in [TableKeys -> Nat]
  PROVE  MapOf(CompactOrGrow(t)) = MapOf(t)
<1> DEFINE room == CompactOrGrow(t)
           es == Kept(t.entries, Live(t))
           L == Live(t)
           R == Mine(room)
           T == Among(L, R)
<1>1. CASE Used(t) < Capacity(t) /\ ~Crowded(t)
  BY <1>1 DEF CompactOrGrow
<1>2. CASE ~ (Used(t) < Capacity(t) /\ ~Crowded(t))
  <2>1. room = [t EXCEPT !.entries = es,
                  !.index = RebuiltIndex(es, IF Crowded(t) THEN Capacity(t) ELSE 2 * Capacity(t))]
    BY <1>2, Zenon DEF CompactOrGrow
  <2>2. /\ DOMAIN es = 1 .. t.length
        /\ \A n \in 1 .. t.length :
             /\ Nth(L, n) \in L /\ es[n] = t.entries[Nth(L, n)]
             /\ es[n].live
        /\ \A i \in L : \E n \in 1 .. t.length : Nth(L, n) = i
    BY KeptIs, Zenon
  <2>3. /\ t = [entries |-> t.entries, index |-> t.index, length |-> t.length]
        /\ t.length = Cardinality(L) /\ L \subseteq Nat /\ IsFiniteSet(L)
    BY Positions DEF TableOK
  <2> HIDE DEF es, room, L
  <2>4. room.entries = es
    BY <2>1, <2>3
  <2>5. Live(room) = 1 .. t.length
    BY <2>2, <2>4 DEF Live
  <2>6. R = {n \in 1 .. t.length : es[n].key \in StableKeys}
    BY <2>4, <2>5 DEF Mine
  <2>7. T = Mine(t)
    <3>1. ASSUME NEW j \in R PROVE Nth(L, j) \in Mine(t)
      BY <2>2, <2>6 DEF Mine, L
    <3>2. ASSUME NEW i \in Mine(t) PROVE i \in T
      <4>1. i \in L /\ t.entries[i].key \in StableKeys
        BY DEF Mine, L
      <4>2. PICK n \in 1 .. t.length : Nth(L, n) = i
        BY <2>2, <4>1
      <4>3. n \in R
        BY <2>2, <2>6, <4>1, <4>2
      <4> QED
        BY <4>2, <4>3 DEF Among
    <3> QED
      BY <3>1, <3>2 DEF Among
  <2>8. R \subseteq 1 .. Cardinality(L)
    BY <2>3, <2>6
  <2> HIDE DEF R
  <2>9. /\ IsFiniteSet(R) /\ Cardinality(T) = Cardinality(R)
        /\ \A n \in 1 .. Cardinality(R) : Nth(T, n) = Nth(L, Nth(R, n))
    <3>1. L \subseteq Nat /\ IsFiniteSet(L)
      BY <2>3
    <3>2. IsFiniteSet(R) /\ Cardinality(T) = Cardinality(R) /\ Renumbers(L, R)
      BY <2>8, <3>1, NthOfNth
    <3> QED
      BY <3>2 DEF Renumbers
  <2> HIDE DEF T
  <2>10. ASSUME NEW n \in 1 .. Cardinality(R)
         PROVE  PairAt(room, Nth(R, n)) = PairAt(t, Nth(Mine(t), n))
    <3>1. R \subseteq Nat
      BY <2>8
    <3>2. Nth(R, n) \in R
      BY <2>9, <3>1, NthIn
    <3>3. Nth(R, n) \in 1 .. t.length
      BY <2>3, <2>8, <3>2
    <3>4. es[Nth(R, n)] = t.entries[Nth(L, Nth(R, n))]
      BY <2>2, <3>3
    <3>5. Nth(Mine(t), n) = Nth(L, Nth(R, n))
      BY <2>7, <2>9
    <3> QED
      BY <2>4, <3>4, <3>5 DEF PairAt
  <2>11. Cardinality(R) = Cardinality(Mine(t))
    BY <2>7, <2>9
  <2>12. MapOf(room) = [n \in 1 .. Cardinality(R) |-> PairAt(room, Nth(R, n))]
    BY DEF MapOf, R
  <2>13. MapOf(t) = [n \in 1 .. Cardinality(R) |-> PairAt(t, Nth(Mine(t), n))]
    BY <2>11 DEF MapOf
  <2> QED
    BY <2>10, <2>12, <2>13 DEF room
<1> QED
  BY <1>1, <1>2

\* A key that was not found goes to the end.
LEMMA MapInserted ==
  ASSUME NEW t, TableOK(t), hash \in [TableKeys -> Nat], NEW k \in TableKeys, ~ Found(t, k),
         NEW v \in TableValues
  PROVE  LET new == Inserted(t, k, v)
         IN  /\ k \notin StableKeys => MapOf(new) = MapOf(t)
             /\ k \in StableKeys => MapOf(new) = Append(MapOf(t), <<k, v>>)
<1> DEFINE room == CompactOrGrow(t)
           new == Inserted(t, k, v)
           last == Used(room) + 1
           S == Mine(room)
           f == MapOf(room)
           c == Cardinality(S)
<1>1. /\ TableOK(new)
      /\ Live(new) = Live(room) \cup {last} /\ (\A i \in Live(room) : i < last)
      /\ \A i \in Live(room) : new.entries[i] = room.entries[i]
      /\ new.entries[last].key = k /\ new.entries[last].value = v
  BY InsertedOK
<1>2. TableOK(room) /\ f = MapOf(t)
  BY RoomOK, MapRoom
<1> HIDE DEF room, new
<1>3. /\ f \in Seq(Pairs) /\ Len(f) = c /\ DOMAIN f = 1 .. c
      /\ \A n \in 1 .. c : Nth(S, n) \in S /\ f[n] = PairAt(room, Nth(S, n))
  BY <1>2, MapSeq, MapHas
<1>4. S \subseteq Nat /\ IsFiniteSet(S) /\ c \in Nat /\ S \subseteq Live(room)
  BY <1>2, MineIs
<1>5. last \in Nat
  BY <1>2, Positions
<1> HIDE DEF last, f
<1>6. \A i \in S : PairAt(new, i) = PairAt(room, i)
  BY <1>1, <1>4 DEF PairAt
<1>7. \A i : i \in Mine(new) <=> i \in S \/ (i = last /\ k \in StableKeys)
  BY <1>1 DEF Mine
<1>8. ASSUME k \notin StableKeys PROVE MapOf(new) = f
  <2>1. Mine(new) = S
    BY <1>7, <1>8
  <2> QED
    BY <1>2, <1>6, <2>1, SameMap DEF f
<1>9. ASSUME k \in StableKeys PROVE MapOf(new) = Append(f, <<k, v>>)
  <2>1. Mine(new) = S \cup {last}
    BY <1>7, <1>9
  <2>2. \A i \in S : i < last
    BY <1>1, <1>4
  <2> HIDE DEF S
  <2>3. /\ Cardinality(Mine(new)) = c + 1
        /\ \A n \in 1 .. c : Nth(Mine(new), n) = Nth(S, n)
        /\ Nth(Mine(new), c + 1) = last
    <3>1. S \subseteq Nat /\ IsFiniteSet(S)
      BY <1>4
    <3>2. /\ Cardinality(S \cup {last}) = Cardinality(S) + 1
          /\ \A n \in 1 .. Cardinality(S) : Nth(S \cup {last}, n) = Nth(S, n)
          /\ Nth(S \cup {last}, Cardinality(S) + 1) = last
      BY <1>5, <2>2, <3>1, NthAdded, Zenon
    <3> QED
      BY <2>1, <3>2, Zenon
  <2>4. <<k, v>> \in Pairs
    BY DEF Pairs
  <2> DEFINE more == Append(f, <<k, v>>)
  <2>5. /\ more \in Seq(Pairs) /\ Len(more) = c + 1
        /\ \A n \in 1 .. c : more[n] = f[n]
        /\ more[c + 1] = <<k, v>>
    BY <1>3, <2>4, AppendProperties
  <2> HIDE DEF more
  <2>6. /\ MapOf(new) \in Seq(Pairs) /\ Len(MapOf(new)) = c + 1
        /\ \A n \in 1 .. c + 1 : MapOf(new)[n] = PairAt(new, Nth(Mine(new), n))
    BY <1>1, <2>3, MapSeq
  <2>7. ASSUME NEW n \in 1 .. c + 1 PROVE MapOf(new)[n] = more[n]
    <3>1. CASE n \in 1 .. c
      BY <1>3, <1>6, <2>3, <2>5, <2>6, <3>1
    <3>2. CASE n = c + 1
      BY <1>1, <2>3, <2>5, <2>6, <3>2 DEF PairAt
    <3> QED
      BY <1>4, <3>1, <3>2
  <2>8. MapOf(new) = more
    BY <2>5, <2>6, <2>7, SeqEqual
  <2> QED
    BY <2>8 DEF more
<1> QED
  BY <1>2, <1>8, <1>9 DEF new

\* A put does to the map what the map promises, or nothing to it.
LEMMA PutMaps ==
  ASSUME TInv, TInv', NEW k \in TableKeys, NEW v \in TableValues \cup {Nil}, Put(k, v)
  PROVE  UNCHANGED table \/ M!Next \/ UNCHANGED mapBar
<1>1. TableOK(table) /\ KeysOK(table) /\ hash \in [TableKeys -> Nat]
  BY DEF TInv
<1>2. mapBar = MapOf(table) /\ mapBar' = MapOf(table')
  <2>1. mapBar = MapOf(table)
    BY MapIs
  <2>2. mapBar' = MapOf(table)'
    BY MapIsNext
  <2>3. MapOf(table)' = MapOf(table')
    BY DEF MapOf, Mine, Live, PairAt, StableKeys
  <2> QED
    BY <2>1, <2>2, <2>3
<1>3. CASE Found(table, k) /\ v = Nil /\ table' = Deleted(table, k)
  <2>1. CASE k \notin StableKeys
    BY <1>1, <1>2, <1>3, <2>1, MapDeleted
  <2>2. CASE k \in StableKeys
    <3>1. \E r \in DOMAIN mapBar : mapBar[r][1] = k /\ mapBar' = RemoveAt(mapBar, r)
      BY <1>1, <1>2, <1>3, <2>2, MapDeleted
    <3>2. M!Delete(k)
      BY <3>1 DEF M!Delete, M!RemoveAt, RemoveAt
    <3> QED
      BY <2>2, <3>2 DEF M!Next
  <2> QED
    BY <2>1, <2>2
<1>4. CASE Found(table, k) /\ v # Nil /\ table' = Updated(table, k, v)
  <2>1. v \in TableValues
    BY <1>4
  <2>2. CASE k \notin StableKeys
    BY <1>1, <1>2, <1>4, <2>1, <2>2, MapUpdated
  <2>3. CASE k \in StableKeys
    <3>1. mapBar' = [n \in DOMAIN mapBar |-> IF mapBar[n][1] = k THEN <<k, v>> ELSE mapBar[n]]
      BY <1>1, <1>2, <1>4, <2>1, <2>3, MapUpdated
    <3>2. M!Has(k)
      BY <1>4, <2>3, GetsValue
    <3>3. M!Put(k, v)
      BY <3>1, <3>2 DEF M!Put
    <3> QED
      BY <2>1, <2>3, <3>3 DEF M!Next
  <2> QED
    BY <2>2, <2>3
<1>5. CASE table' = table
  BY <1>5
<1>6. CASE ~ Found(table, k) /\ v # Nil /\ table' = Inserted(table, k, v)
  <2>1. v \in TableValues
    BY <1>6
  <2>2. CASE k \notin StableKeys
    BY <1>1, <1>2, <1>6, <2>1, <2>2, MapInserted
  <2>3. CASE k \in StableKeys
    <3>1. mapBar' = Append(mapBar, <<k, v>>)
      BY <1>1, <1>2, <1>6, <2>1, <2>3, MapInserted
    <3>2. ~ M!Has(k)
      BY <1>6, <2>3, GetsValue
    <3>3. M!Put(k, v)
      BY <3>1, <3>2 DEF M!Put
    <3> QED
      BY <2>1, <2>3, <3>3 DEF M!Next
  <2> QED
    BY <2>2, <2>3
<1> QED
  BY <1>3, <1>4, <1>5, <1>6, PutCases

\* ImplementsOrderedMap (ot_table_put, table_compact_or_grow): for any keys, hashes and
\* sizes, the keys that have an identity of their own keep their values and the order of
\* their first insertion, through collisions, deletions and rebuilt indexes, and whatever
\* is put under the other keys.
THEOREM TableIsOrderedMap == TableSpec => ImplementsOrderedMap
<1>1. TableInit => M!Init
  <2> SUFFICES ASSUME TableInit PROVE mapBar = <<>>
    BY DEF M!Init
  <2>1. TableOK(table)
    BY TInvInit DEF TInv
  <2>2. Live(table) = {}
    BY DEF TableInit, TableNew, Live
  <2>3. Mine(table) = {} /\ Cardinality({}) = 0
    BY <2>2, FS_EmptySet DEF Mine
  <2>4. Len(MapOf(table)) = 0 /\ MapOf(table) \in Seq(Pairs)
    BY <2>1, <2>3, MapSeq
  <2>5. MapOf(table) = <<>>
    BY <2>4, EmptySeq
  <2> QED
    BY <2>5, MapIs
<1>2. TInv /\ [TableNext]_tableVars => TInv'
  BY TInvNext
<1>3. TInv /\ TInv' /\ [TableNext]_tableVars => [UNCHANGED table \/ M!Next]_mapBar
  <2> SUFFICES ASSUME TInv, TInv', [TableNext]_tableVars
               PROVE  UNCHANGED table \/ M!Next \/ UNCHANGED mapBar
    OBVIOUS
  <2>1. CASE \E k \in TableKeys, v \in TableValues \cup {Nil} : Put(k, v)
    BY <2>1, PutMaps
  <2>2. CASE \E k \in AddressKeys : Moves(k)
    BY <2>2 DEF Moves
  <2>3. CASE UNCHANGED tableVars
    BY <2>3 DEF tableVars
  <2> QED
    BY <2>1, <2>2, <2>3 DEF TableNext
<1> QED
  BY <1>1, <1>2, <1>3, TInvInit, PTL DEF TableSpec, ImplementsOrderedMap
=============================================================================
