--------------------------- MODULE MachineProofs ----------------------------
(***************************************************************************)
(* The theorems about the page manager and the in-memory filesystem.       *)
(***************************************************************************)
EXTENDS Memory, MemoryFs, SetLemmas, SequenceTheorems

-----------------------------------------------------------------------------
(***************************************************************************)
(* The page manager loses no page and gives none out twice, for any number *)
(* of pages, processes and known regions and any sizes that are asked for. *)
(* MInv is inductive: it adds to PagesAccounted and KnownMemoryExclusive   *)
(* that the free list repeats nothing, that regions lie in memory and that *)
(* idle's pages stay idle's.                                               *)
(***************************************************************************)

Entries(list) == {list[i] : i \in 1 .. Len(list)}
NoRepeats(list) == \A i, j \in 1 .. Len(list) : list[i] = list[j] => i = j

\* The free list in the form in which steps are followed.
FreePages ==
  /\ NoRepeats(free_list)
  /\ \A i \in 1 .. Len(free_list) :
       pidx[free_list[i]] = NONE /\ free_list[i] \notin RegionPages \cup IdlesPages

MInv ==
  /\ MemoryTypeOK
  /\ FreePages
  /\ NoPageLost
  /\ StatsAgree
  /\ KnownMemoryExclusive
  /\ RegionPages \subseteq PageNos
  /\ \A pg \in IdlesPages : pidx[pg] = NONE

-----------------------------------------------------------------------------
(* Lemmas about sets, sequences and runs *)

\* The kernel's constants.
LEMMA Constants ==
  /\ KERNEL \notin {NONE} \cup Procs /\ NONE \notin Procs
  /\ NULL \notin PageNos /\ Procs \subseteq Nat /\ PageNos \subseteq Nat
  /\ IsFiniteSet(PageNos) /\ Cardinality(PageNos) = TOTAL /\ TOTAL \in Nat
<1>1. TOTAL \in Nat /\ TOTAL > 0 /\ PROCS_MAX \in Nat
  BY MemoryAssumption DEF IdlePages
<1>2. IsFiniteSet(0 .. TOTAL - 1) /\ Cardinality(0 .. TOTAL - 1) = TOTAL
  <2>1. TOTAL - 1 \in Int /\ 0 \in Int
    BY <1>1
  <2>2. /\ IsFiniteSet(0 .. TOTAL - 1)
        /\ Cardinality(0 .. TOTAL - 1) = IF 0 > TOTAL - 1 THEN 0 ELSE TOTAL - 1 - 0 + 1
    BY <2>1, FS_Interval, Zenon
  <2>3. QED
    BY <1>1, <2>2
<1>3. /\ KERNEL \notin {NONE} \cup Procs /\ NONE \notin Procs
      /\ NULL \notin PageNos /\ Procs \subseteq Nat /\ PageNos \subseteq Nat
  BY <1>1 DEF KERNEL, NONE, NULL, Procs, PageNos
<1>4. QED
  BY <1>1, <1>2, <1>3 DEF PageNos

\* A list without repetitions has as many pages as entries.
LEMMA ListCardinality ==
  ASSUME NEW list \in Seq(PageNos), NoRepeats(list)
  PROVE  Cardinality(Entries(list)) = Len(list) /\ Len(list) <= TOTAL
<1>1. Len(list) \in Nat /\ list \in [1 .. Len(list) -> PageNos]
  OBVIOUS
<1>2. list \in Bijection(1 .. Len(list), Entries(list))
  BY <1>1 DEF NoRepeats, Entries, Bijection, Injection, Surjection, IsInjective
<1>3. Cardinality(Entries(list)) = Len(list)
  BY <1>1, <1>2, FS_CountingElements DEF ExistsBijection
<1>4. Entries(list) \subseteq PageNos
  BY <1>1 DEF Entries
<1>5. QED
  BY <1>3, <1>4, Constants, FS_Subset

\* Pushed lowest first, a set of pages comes to lie on the list once each
\* (page_free_process).
LEMMA DescendingLists ==
  ASSUME NEW S, S \subseteq PageNos
  PROVE  /\ Cardinality(S) \in Nat
         /\ Descending(S) \in [1 .. Cardinality(S) -> S]
         /\ \A x \in S : \E i \in 1 .. Cardinality(S) : Descending(S)[i] = x
         /\ \A i, j \in 1 .. Cardinality(S) : Descending(S)[i] = Descending(S)[j] => i = j
<1> DEFINE n == Cardinality(S)
           Above(x) == {y \in S : y > x}
           f == [x \in S |-> Cardinality(Above(x))]
<1>1. IsFiniteSet(S) /\ n \in Nat /\ S \subseteq Nat
  BY Constants, FS_Subset, FS_CardinalityType
<1>2. ASSUME NEW x \in S
      PROVE  IsFiniteSet(Above(x)) /\ Cardinality(Above(x)) \in 0 .. n - 1
  <2>1. IsFiniteSet(Above(x)) /\ Cardinality(Above(x)) \in Nat
    <3>1. Above(x) \in SUBSET S
      OBVIOUS
    <3>2. QED
      BY <1>1, <3>1, FS_Subset, FS_CardinalityType
  <2>2. IsFiniteSet(S \ {x}) /\ Cardinality(S \ {x}) = n - 1
    BY <1>1, FS_RemoveElement
  <2>3. Above(x) \in SUBSET (S \ {x})
    BY <1>1
  <2>4. Cardinality(Above(x)) <= n - 1
    BY <2>2, <2>3, FS_Subset
  <2>5. QED
    BY <1>1, <2>1, <2>4
<1>3. ASSUME NEW x \in S, NEW y \in S, x < y
      PROVE  Cardinality(Above(x)) # Cardinality(Above(y))
  <2>1. Above(y) \in SUBSET Above(x)
    <3>1. x \in Nat /\ y \in Nat /\ \A z \in S : z \in Nat
      BY <1>1
    <3>2. \A z \in S : z > y => z > x
      BY <1>3, <3>1
    <3>3. QED
      BY <3>2
  <2>2. y \in Above(x) /\ y \notin Above(y)
    BY <1>1, <1>3
  <2>3. IsFiniteSet(Above(x))
    BY <1>2
  <2> HIDE DEF Above
  <2>4. Cardinality(Above(x)) = Cardinality(Above(y)) => Above(x) = Above(y)
    BY <2>1, <2>3, FS_Subset
  <2>5. QED
    BY <2>2, <2>4
<1>4. \A x, y \in S : Cardinality(Above(x)) = Cardinality(Above(y)) => x = y
  <2>1. SUFFICES ASSUME NEW x \in S, NEW y \in S, x # y
                 PROVE  Cardinality(Above(x)) # Cardinality(Above(y))
    OBVIOUS
  <2>2. x < y \/ y < x
    BY <1>1, <2>1
  <2>3. QED
    BY <1>3, <2>2
<1>5. f \in Injection(S, 0 .. n - 1)
  <2>1. f \in [S -> 0 .. n - 1]
    BY <1>2
  <2>2. IsInjective(f)
    BY <1>4 DEF IsInjective
  <2>3. QED
    BY <2>1, <2>2 DEF Injection
<1>6. f \in Surjection(S, 0 .. n - 1)
  <2>1. IsFiniteSet(0 .. n - 1) /\ Cardinality(0 .. n - 1) = n
    <3>1. n \in Nat /\ 0 \in Int /\ n - 1 \in Int
      BY <1>1
    <3> HIDE DEF n
    <3>2. IsFiniteSet(0 .. n - 1)
          /\ Cardinality(0 .. n - 1) = (IF 0 > n - 1 THEN 0 ELSE n - 1 - 0 + 1)
      BY <3>1, FS_Interval
    <3> QED
      BY <3>1, <3>2
  <2> HIDE DEF f
  <2>2. QED
    BY <1>5, <2>1, FS_Injection
<1>7. \A i \in 1 .. n : \E x \in S : Cardinality(Above(x)) = i - 1
  <2>1. ASSUME NEW i \in 1 .. n PROVE \E x \in S : Cardinality(Above(x)) = i - 1
    <3>1. i - 1 \in 0 .. n - 1
      BY <1>1
    <3>2. PICK x \in S : f[x] = i - 1
      BY <1>6, <3>1 DEF Surjection
    <3>3. QED
      BY <3>2
  <2>2. QED
    BY <2>1
<1>8. \A i \in 1 .. n : Descending(S)[i] \in S /\ Cardinality(Above(Descending(S)[i])) = i - 1
  BY <1>7 DEF Descending
<1>9. Descending(S) \in [1 .. n -> S]
  BY <1>8 DEF Descending
<1>10. ASSUME NEW x \in S PROVE \E i \in 1 .. n : Descending(S)[i] = x
  <2>1. Cardinality(Above(x)) + 1 \in 1 .. n
    BY <1>1, <1>2
  <2> DEFINE i == Cardinality(Above(x)) + 1
  <2>2. Descending(S)[i] \in S /\ Cardinality(Above(Descending(S)[i])) = i - 1
    BY <1>8, <2>1
  <2>3. Cardinality(Above(Descending(S)[i])) = Cardinality(Above(x))
    <3>1. Cardinality(Above(x)) \in 0 .. n - 1
      BY <1>2
    <3>2. Cardinality(Above(x)) = i - 1
      BY <1>1, <3>1
    <3>3. QED
      BY <2>2, <3>2
  <2>4. Descending(S)[i] = x
    BY <1>4, <2>2, <2>3
  <2>5. QED
    BY <2>1, <2>4
<1>11. ASSUME NEW i \in 1 .. n, NEW j \in 1 .. n, Descending(S)[i] = Descending(S)[j]
       PROVE  i = j
  <2>1. i - 1 = j - 1
    BY <1>8, <1>11
  <2>2. QED
    BY <1>1, <2>1
<1>12. QED
  BY <1>1, <1>9, <1>10, <1>11

\* The first run of n pages lies on the list.
LEMMA FirstRunIsOne ==
  ASSUME free_list \in Seq(PageNos), NEW n \in Nat, Runs(free_list, n) # {}
  PROVE  /\ FirstRun(free_list, n) \in Nat \ {0}
         /\ FirstRun(free_list, n) + n - 1 <= Len(free_list)
         /\ \A k \in 1 .. n - 1 :
              free_list[FirstRun(free_list, n) + k] = free_list[FirstRun(free_list, n)] + k
<1>1. Len(free_list) \in Nat
  OBVIOUS
<1>2. Runs(free_list, n) \subseteq Nat
  BY <1>1 DEF Runs
<1>3. FirstRun(free_list, n) \in Runs(free_list, n)
  BY <1>2, MinInSet DEF FirstRun
<1>4. QED
  BY <1>1, <1>3 DEF Runs, RunAt

\* out is list without the n entries from the first on.
Without(list, first, n, out) ==
  /\ out \in Seq(PageNos)
  /\ Len(out) = Len(list) - n
  /\ \A i \in 1 .. Len(out) : out[i] = list[IF i < first THEN i ELSE i + n]

EntriesFrom(list, first, n) == {list[first + k] : k \in 0 .. n - 1}

\* Cutting entries out of the list leaves the others, once each.
LEMMA CutOut ==
  ASSUME NEW list \in Seq(PageNos), NoRepeats(list),
         NEW first \in Nat \ {0}, NEW n \in Nat, first + n - 1 <= Len(list),
         NEW out, Without(list, first, n, out)
  PROVE  /\ NoRepeats(out)
         /\ Entries(out) = Entries(list) \ EntriesFrom(list, first, n)
<1> DEFINE from(i) == IF i < first THEN i ELSE i + n
           taken == {list[first + k] : k \in 0 .. n - 1}
<1>1. /\ Len(list) \in Nat /\ Len(out) \in Nat /\ Len(out) = Len(list) - n
      /\ \A i \in 1 .. Len(out) : out[i] = list[from(i)]
  <2>1. out \in Seq(PageNos)
    BY DEF Without
  <2>2. Len(list) \in Nat /\ Len(out) \in Nat
    BY <2>1
  <2> QED
    BY <2>2 DEF Without
<1>2. \A i \in 1 .. Len(out) : from(i) \in 1 .. Len(list)
  BY <1>1
<1>3. NoRepeats(out)
  <2>1. \A i, j \in 1 .. Len(out) : from(i) = from(j) => i = j
    BY <1>1
  <2>2. \A i, j \in 1 .. Len(out) : out[i] = out[j] => from(i) = from(j)
    BY <1>1, <1>2 DEF NoRepeats
  <2>3. QED
    BY <2>1, <2>2 DEF NoRepeats
<1>4. ASSUME NEW i \in 1 .. Len(out)
      PROVE  out[i] \in {list[j] : j \in 1 .. Len(list)} \ taken
  <2>1. out[i] = list[from(i)] /\ from(i) \in 1 .. Len(list)
    BY <1>1, <1>2
  <2>2. ASSUME NEW k \in 0 .. n - 1 PROVE out[i] # list[first + k]
    <3>1. first + k \in 1 .. Len(list) /\ from(i) # first + k
      BY <1>1
    <3>2. QED
      BY <2>1, <3>1 DEF NoRepeats
  <2>3. QED
    BY <2>1, <2>2
<1>5. ASSUME NEW j \in 1 .. Len(list), list[j] \notin taken
      PROVE  \E i \in 1 .. Len(out) : out[i] = list[j]
  <2>1. CASE j < first
    <3>1. j \in 1 .. Len(out) /\ from(j) = j
      BY <1>1, <2>1
    <3>2. QED
      BY <1>1, <3>1
  <2>2. CASE j >= first /\ j < first + n
    <3>1. j - first \in 0 .. n - 1 /\ first + (j - first) = j
      BY <1>1, <2>2
    <3>2. list[j] \in taken
      BY <3>1
    <3>3. QED
      BY <1>5, <3>2
  <2>3. CASE j >= first + n
    <3>1. j - n \in 1 .. Len(out) /\ from(j - n) = j
      BY <1>1, <2>3
    <3>2. QED
      BY <1>1, <3>1
  <2>4. QED
    BY <1>1, <2>1, <2>2, <2>3
<1>6. QED
  BY <1>3, <1>4, <1>5 DEF Entries, EntriesFrom

-----------------------------------------------------------------------------
(* Steps that take pages off the list *)

TakenBy(owner, taken) == pidx' = [pg \in PageNos |-> IF pg \in taken THEN owner ELSE pidx[pg]]

\* Pages leave the free list for a process that exists, or for a known region.
LEMMA TakeStep ==
  ASSUME MInv,
         NEW first \in Nat \ {0}, NEW n \in Nat, first + n - 1 <= Len(free_list),
         NEW owner \in {KERNEL} \cup Procs,
         NEW taken, taken = EntriesFrom(free_list, first, n),
         Without(free_list, first, n, free_list'),
         TakenBy(owner, taken),
         allocated_pages' = allocated_pages + n,
         dirty' \subseteq dirty, panicked' \in BOOLEAN,
         live' \subseteq Procs, live \subseteq live',
         known_memory' \in [KnownMemories -> KnownMemoryInfo],
         \A km \in KnownMemories : known_memory'[km].holder \in live' \cup {NONE},
         \/ owner = KERNEL /\ RegionPages' = RegionPages \cup taken
         \/ owner \in live' /\ RegionPages' = RegionPages
  PROVE  MInv'
<1>0. pidx' = [pg \in PageNos |-> IF pg \in taken THEN owner ELSE pidx[pg]]
  BY DEF TakenBy
<1>1. /\ Len(free_list) \in Nat /\ Len(free_list') \in Nat
      /\ free_list \in [1 .. Len(free_list) -> PageNos]
      /\ free_list' \in Seq(PageNos)
      /\ Len(free_list') = Len(free_list) - n
  BY DEF MInv, MemoryTypeOK, Without
<1>2. NoRepeats(free_list') /\ ListPages' = ListPages \ taken
  <2>1. free_list \in Seq(PageNos) /\ NoRepeats(free_list)
    BY DEF MInv, MemoryTypeOK, FreePages
  <2>2. NoRepeats(free_list') /\ Entries(free_list') = Entries(free_list) \ taken
    BY <2>1, CutOut
  <2>3. QED
    BY <2>2 DEF ListPages, Entries
<1>3. taken \subseteq ListPages
  <2>1. \A k \in 0 .. n - 1 : first + k \in 1 .. Len(free_list)
    BY <1>1
  <2>2. QED
    BY <2>1 DEF ListPages, EntriesFrom
<1>4. \A pg \in ListPages :
        pg \in PageNos /\ pidx[pg] = NONE /\ pg \notin RegionPages \cup IdlesPages
  BY <1>1 DEF MInv, FreePages, ListPages
<1>5. MemoryTypeOK'
  <2>1. pidx' \in [PageNos -> {KERNEL, NONE} \cup Procs]
    BY <1>0 DEF MInv, MemoryTypeOK
  <2>2. allocated_pages' \in Nat
    BY DEF MInv, MemoryTypeOK
  <2>3. QED
    BY <1>1, <2>1, <2>2 DEF MInv, MemoryTypeOK
<1>6. FreePages'
  <2>1. ASSUME NEW pg \in ListPages'
        PROVE  pidx'[pg] = NONE /\ pg \notin RegionPages' \cup IdlesPages
    BY <1>0, <1>2, <1>4, <2>1
  <2>2. \A i \in 1 .. Len(free_list') : free_list'[i] \in ListPages'
    BY DEF ListPages
  <2>3. IdlesPages' = IdlesPages
    BY DEF IdlesPages
  <2>4. QED
    BY <1>2, <2>1, <2>2, <2>3 DEF FreePages
<1>7. NoPageLost'
  <2>1. ASSUME NEW pg \in PageNos \ ListPages'
        PROVE  pidx'[pg] \in live' \/ pg < INFO_PAGES \/ pg \in RegionPages' \cup IdlesPages
    <3>1. CASE pg \in taken
      BY <1>0, <2>1, <3>1
    <3>2. CASE pg \notin taken
      <4>1. pg \notin ListPages
        BY <1>2, <2>1, <3>2
      <4>2. pidx[pg] \in live \/ pg < INFO_PAGES \/ pg \in RegionPages \cup IdlesPages
        BY <2>1, <4>1 DEF MInv, NoPageLost
      <4>3. QED
        BY <1>0, <2>1, <3>2, <4>2
    <3>3. QED
      BY <3>1, <3>2
  <2>2. QED
    BY <2>1 DEF NoPageLost, IdlesPages
<1>8. StatsAgree'
  BY <1>1, Constants DEF MInv, StatsAgree
<1>9. KnownMemoryExclusive'
  <2>1. ASSUME NEW pg \in RegionPages' PROVE pidx'[pg] = KERNEL
    <3>1. CASE pg \in taken
      BY <1>0, <1>3, <1>4, <2>1, <3>1
    <3>2. CASE pg \notin taken
      <4>1. pg \in RegionPages
        BY <2>1, <3>2
      <4>2. pidx[pg] = KERNEL /\ pg \in PageNos
        BY <4>1 DEF MInv, KnownMemoryExclusive, RegionPages
      <4>3. QED
        BY <1>0, <3>2, <4>2
    <3>3. QED
      BY <3>1, <3>2
  <2>2. \A km \in KnownMemories : Region(km)' \subseteq RegionPages'
    BY DEF RegionPages
  <2>3. QED
    BY <2>1, <2>2 DEF KnownMemoryExclusive
<1>10. RegionPages' \subseteq PageNos
  BY <1>3, <1>4 DEF MInv
<1>11. \A pg \in IdlesPages : pidx'[pg] = NONE
  <2>1. \A pg \in IdlesPages : pg \in PageNos /\ pg \notin taken
    <3>1. IdlesPages \subseteq PageNos
      BY MemoryAssumption DEF IdlesPages, PageNos, IdlePages
    <3>2. QED
      BY <1>3, <1>4, <3>1
  <2>2. QED
    BY <1>0, <2>1 DEF MInv
<1>12. QED
  BY <1>5, <1>6, <1>7, <1>8, <1>9, <1>10, <1>11 DEF MInv, IdlesPages

\* The list that a run was cut out of is the list without the run.
LEMMA UnlinkedIsWithout ==
  ASSUME free_list \in Seq(PageNos), NEW n \in Nat, Runs(free_list, n) # {}
  PROVE  /\ Without(free_list, FirstRun(free_list, n), n, Unlinked(free_list, n))
         /\ FirstRun(free_list, n) \in Nat \ {0}
         /\ FirstRun(free_list, n) + n - 1 <= Len(free_list)
<1> DEFINE m == FirstRun(free_list, n)
           left == SubSeq(free_list, 1, m - 1)
           right == SubSeq(free_list, m + n, Len(free_list))
<1>1. m \in Nat \ {0} /\ m + n - 1 <= Len(free_list) /\ Len(free_list) \in Nat
  BY FirstRunIsOne
<1>2. \A i \in 1 .. Len(free_list) : free_list[i] \in PageNos
  OBVIOUS
<1>3. Unlinked(free_list, n) = left \o right
  BY DEF Unlinked
<1> HIDE DEF m
<1>4. /\ left \in Seq(PageNos) /\ Len(left) = m - 1
      /\ \A i \in 1 .. m - 1 : left[i] = free_list[i]
  <2>1. \A i \in 1 .. m - 1 : free_list[i] \in PageNos
    BY <1>1, <1>2
  <2>2. QED
    BY <1>1, <2>1, SubSeqProperties
<1>5. /\ right \in Seq(PageNos) /\ Len(right) = Len(free_list) - m - n + 1
      /\ \A i \in 1 .. Len(right) : right[i] = free_list[m + n + i - 1]
  <2>1. \A i \in m + n .. Len(free_list) : free_list[i] \in PageNos
    BY <1>1, <1>2
  <2>2. /\ right \in Seq(PageNos)
        /\ Len(right) = IF m + n <= Len(free_list) THEN Len(free_list) - (m + n) + 1 ELSE 0
        /\ \A i \in 1 .. Len(free_list) - (m + n) + 1 : right[i] = free_list[m + n + i - 1]
    BY <1>1, <2>1, SubSeqProperties
  <2> HIDE DEF right
  <2>3. QED
    BY <1>1, <2>2
<1> HIDE DEF left, right
<1>6. /\ left \o right \in Seq(PageNos)
      /\ Len(left \o right) = Len(left) + Len(right)
      /\ \A i \in 1 .. Len(left) + Len(right) :
           (left \o right)[i] = IF i <= Len(left) THEN left[i] ELSE right[i - Len(left)]
  BY <1>4, <1>5, ConcatProperties
<1>7. Len(left \o right) = Len(free_list) - n
  BY <1>1, <1>4, <1>5, <1>6
<1>8. ASSUME NEW i \in 1 .. Len(left \o right)
      PROVE  (left \o right)[i] = free_list[IF i < m THEN i ELSE i + n]
  <2>1. CASE i < m
    BY <1>1, <1>4, <1>6, <1>7, <2>1
  <2>2. CASE ~(i < m)
    <3>1. i - Len(left) \in 1 .. Len(right)
      BY <1>1, <1>4, <1>5, <1>7, <2>2
    <3>2. (left \o right)[i] = right[i - Len(left)]
      BY <1>1, <1>4, <1>6, <1>7, <2>2
    <3>3. m + n + (i - Len(left)) - 1 = i + n
      BY <1>1, <1>4
    <3>4. QED
      BY <1>5, <2>2, <3>1, <3>2, <3>3
  <2>3. QED
    BY <2>1, <2>2
<1>9. QED
  BY <1>1, <1>3, <1>6, <1>7, <1>8 DEF Without, m

\* A process takes its first pages (process_create).
LEMMA ProcessCreateStep ==
  ASSUME MInv, NEW p \in Procs, NEW args \in BOOLEAN, ProcessCreate(p, args)
  PROVE  MInv'
<1> DEFINE n == IF args THEN 4 ELSE 3
           taken == {free_list[i] : i \in 1 .. n}
<1>1. /\ Len(free_list) >= n /\ live' = live \cup {p}
      /\ pidx' = [pg \in PageNos |-> IF pg \in taken THEN p ELSE pidx[pg]]
      /\ free_list' = SubSeq(free_list, n + 1, Len(free_list))
      /\ dirty' = dirty \ taken /\ allocated_pages' = allocated_pages + n
      /\ known_memory' = known_memory /\ panicked' = panicked
  BY DEF ProcessCreate
<1>2. n \in Nat
  OBVIOUS
<1> HIDE DEF n
<1>3. /\ free_list \in Seq(PageNos) /\ Len(free_list) \in Nat
      /\ \A i \in 1 .. Len(free_list) : free_list[i] \in PageNos
  BY DEF MInv, MemoryTypeOK
<1>4. taken = EntriesFrom(free_list, 1, n)
  <2>1. \A i \in 1 .. n : i - 1 \in 0 .. n - 1 /\ 1 + (i - 1) = i
    BY <1>2
  <2>2. \A k \in 0 .. n - 1 : 1 + k \in 1 .. n
    BY <1>2
  <2>3. QED
    BY <2>1, <2>2 DEF EntriesFrom
<1>5. Without(free_list, 1, n, free_list')
  <2>1. \A i \in n + 1 .. Len(free_list) : free_list[i] \in PageNos
    BY <1>2, <1>3
  <2> DEFINE out == SubSeq(free_list, n + 1, Len(free_list))
  <2>2. /\ out \in Seq(PageNos)
        /\ Len(out) = IF n + 1 <= Len(free_list) THEN Len(free_list) - (n + 1) + 1 ELSE 0
        /\ \A i \in 1 .. Len(free_list) - (n + 1) + 1 : out[i] = free_list[n + 1 + i - 1]
    BY <1>2, <1>3, <2>1, SubSeqProperties
  <2>3. free_list' = out
    BY <1>1
  <2> HIDE DEF out
  <2>4. Len(out) = Len(free_list) - n
    BY <1>1, <1>2, <1>3, <2>2
  <2>5. \A i \in 1 .. Len(out) : out[i] = free_list[IF i < 1 THEN i ELSE i + n]
    BY <1>1, <1>2, <1>3, <2>2, <2>4
  <2>6. QED
    BY <2>2, <2>3, <2>4, <2>5 DEF Without
<1>6. /\ live' \subseteq Procs /\ live \subseteq live' /\ p \in live'
      /\ panicked' \in BOOLEAN /\ dirty' \subseteq dirty
      /\ known_memory' \in [KnownMemories -> KnownMemoryInfo]
      /\ \A km \in KnownMemories : known_memory'[km].holder \in live' \cup {NONE}
  BY <1>1 DEF MInv, MemoryTypeOK, KnownMemoryExclusive
<1>7. RegionPages' = RegionPages
  BY <1>1 DEF RegionPages, Region
<1>8. 1 + n - 1 <= Len(free_list)
  BY <1>1, <1>2, <1>3
<1> HIDE DEF taken
<1>9. TakenBy(p, taken)
  BY <1>1 DEF TakenBy
<1>10. QED
  BY <1>1, <1>2, <1>4, <1>5, <1>6, <1>7, <1>8, <1>9, TakeStep

\* A process allocates a run of pages (page_allocate).
LEMMA AllocPagesStep ==
  ASSUME MInv, NEW p \in live, NEW n \in AllocSizes, AllocPages(p, n)
  PROVE  MInv'
<1> DEFINE first == FirstRun(free_list, n)
           taken == RunPages(free_list, n)
<1>1. /\ Runs(free_list, n) # {}
      /\ pidx' = [pg \in PageNos |-> IF pg \in taken THEN p ELSE pidx[pg]]
      /\ free_list' = Unlinked(free_list, n)
      /\ dirty' = dirty \ taken /\ allocated_pages' = allocated_pages + n
      /\ known_memory' = known_memory /\ panicked' = panicked /\ live' = live
  BY DEF AllocPages, Allocate
<1>2. n \in Nat /\ p \in Procs /\ free_list \in Seq(PageNos)
  BY MemoryAssumption DEF MInv, MemoryTypeOK
<1>3. /\ Without(free_list, first, n, free_list')
      /\ first \in Nat \ {0} /\ first + n - 1 <= Len(free_list)
  BY <1>1, <1>2, UnlinkedIsWithout
<1>4. taken = EntriesFrom(free_list, first, n)
  BY DEF RunPages, EntriesFrom
<1>5. /\ live' \subseteq Procs /\ live \subseteq live' /\ p \in live'
      /\ panicked' \in BOOLEAN /\ dirty' \subseteq dirty
      /\ known_memory' \in [KnownMemories -> KnownMemoryInfo]
      /\ \A km \in KnownMemories : known_memory'[km].holder \in live' \cup {NONE}
  BY <1>1 DEF MInv, MemoryTypeOK, KnownMemoryExclusive
<1>6. RegionPages' = RegionPages
  BY <1>1 DEF RegionPages, Region
<1> HIDE DEF taken, first
<1>7. TakenBy(p, taken)
  BY <1>1 DEF TakenBy
<1>8. QED
  BY <1>1, <1>2, <1>3, <1>4, <1>5, <1>6, <1>7, TakeStep

\* The first lock of a known region allocates its pages.
LEMMA LockAllocatesStep ==
  ASSUME MInv, NEW p \in live, NEW km \in KnownMemories, NEW n \in AllocSizes,
         LockAllocates(p, km, n)
  PROVE  MInv'
<1> DEFINE first == FirstRun(free_list, n)
           taken == RunPages(free_list, n)
           addr == free_list[first]
<1>1. /\ Runs(free_list, n) # {} /\ known_memory[km].addr = NULL
      /\ pidx' = [pg \in PageNos |-> IF pg \in taken THEN KERNEL ELSE pidx[pg]]
      /\ free_list' = Unlinked(free_list, n)
      /\ dirty' = dirty \ taken /\ allocated_pages' = allocated_pages + n
      /\ known_memory' = [known_memory EXCEPT ![km] =
            [addr |-> addr, page_count |-> n, holder |-> p]]
      /\ panicked' = panicked /\ live' = live
  BY DEF LockAllocates, Allocate
<1>2. n \in Nat \ {0} /\ p \in Procs /\ free_list \in Seq(PageNos)
  BY MemoryAssumption DEF MInv, MemoryTypeOK
<1>3. /\ Without(free_list, first, n, free_list')
      /\ first \in Nat \ {0} /\ first + n - 1 <= Len(free_list)
      /\ \A k \in 1 .. n - 1 : free_list[first + k] = addr + k
  BY <1>1, <1>2, UnlinkedIsWithout, FirstRunIsOne
<1>4. taken = EntriesFrom(free_list, first, n)
  BY DEF RunPages, EntriesFrom
<1> HIDE DEF first
<1>5. addr \in PageNos /\ addr \in Nat /\ addr # NULL
  <2>1. first \in 1 .. Len(free_list)
    BY <1>2, <1>3
  <2>2. QED
    <3>1. free_list[first] \in PageNos
      BY <1>2, <2>1, ElementOfSeq
    <3>2. addr \in PageNos
      BY <3>1
    <3> HIDE DEF addr
    <3>3. QED
      BY <3>2, Constants
<1>6. taken = addr .. addr + n - 1
  <2>1. \A k \in 0 .. n - 1 : free_list[first + k] = addr + k
    BY <1>2, <1>3, <1>5
  <2> HIDE DEF addr
  <2>2. \A k \in 0 .. n - 1 : addr + k \in addr .. addr + n - 1
    BY <1>2, <1>5
  <2>3. \A pg \in addr .. addr + n - 1 : pg - addr \in 0 .. n - 1 /\ addr + (pg - addr) = pg
    BY <1>2, <1>5
  <2>4. \A k \in 0 .. n - 1 : free_list[first + k] \in addr .. addr + n - 1
    BY <2>1, <2>2
  <2>5. \A pg \in addr .. addr + n - 1 : \E k \in 0 .. n - 1 : free_list[first + k] = pg
    BY <2>1, <2>3
  <2>6. QED
    BY <1>4, <2>4, <2>5 DEF EntriesFrom
<1> HIDE DEF taken, addr
<1>7. known_memory \in [KnownMemories -> KnownMemoryInfo]
  BY DEF MInv, MemoryTypeOK
<1>8. /\ live' \subseteq Procs /\ live \subseteq live'
      /\ panicked' \in BOOLEAN /\ dirty' \subseteq dirty
      /\ known_memory' \in [KnownMemories -> KnownMemoryInfo]
      /\ \A k \in KnownMemories : known_memory'[k].holder \in live' \cup {NONE}
  <2>1. live \subseteq Procs /\ panicked \in BOOLEAN
    BY DEF MInv, MemoryTypeOK
  <2>2. [addr |-> addr, page_count |-> n, holder |-> p] \in KnownMemoryInfo
    BY <1>2, <1>5 DEF KnownMemoryInfo
  <2>3. \A k \in KnownMemories : known_memory[k].holder \in live \cup {NONE}
    BY DEF MInv, KnownMemoryExclusive
  <2>4. QED
    BY <1>1, <1>7, <2>1, <2>2, <2>3
<1>9. RegionPages' = RegionPages \cup taken
  <2>1. Region(km) = {} /\ Region(km)' = taken
    BY <1>1, <1>5, <1>6, <1>7 DEF Region
  <2>2. \A k \in KnownMemories \ {km} : Region(k)' = Region(k)
    BY <1>1, <1>7 DEF Region
  <2>3. QED
    BY <2>1, <2>2 DEF RegionPages
<1>10. QED
  <2>1. n \in Nat /\ KERNEL \in {KERNEL} \cup Procs
    BY <1>2
  <2> HIDE DEF KERNEL
  <2>2. TakenBy(KERNEL, taken)
    BY <1>1 DEF TakenBy
  <2>3. QED
    BY <1>1, <1>3, <1>4, <1>8, <1>9, <2>1, <2>2, TakeStep

-----------------------------------------------------------------------------
(* The other steps *)

\* The pages of a process that exits come back, once each.
LEMMA ProcessExitStep ==
  ASSUME MInv, NEW p \in live, ProcessExit(p)
  PROVE  MInv'
<1> DEFINE P == PagesOf(p)
           D == Descending(P)
           c == Cardinality(P)
<1>1. /\ known_memory' = [km \in KnownMemories |->
            IF known_memory[km].holder = p THEN [known_memory[km] EXCEPT !.holder = NONE]
            ELSE known_memory[km]]
      /\ dirty' = dirty \ P
      /\ pidx' = [pg \in PageNos |-> IF pidx[pg] = p THEN NONE ELSE pidx[pg]]
      /\ free_list' = D \o free_list
      /\ allocated_pages' = allocated_pages - c
      /\ live' = live \ {p} /\ panicked' = panicked
  BY DEF ProcessExit
<1>2. P \subseteq PageNos /\ \A pg \in PageNos : pg \in P <=> pidx[pg] = p
  BY DEF PagesOf
<1>3. /\ c \in Nat /\ D \in [1 .. c -> P]
      /\ \A x \in P : \E i \in 1 .. c : D[i] = x
      /\ \A i, j \in 1 .. c : D[i] = D[j] => i = j
  BY <1>2, DescendingLists
<1> HIDE DEF P, D, c
<1>4. /\ free_list \in Seq(PageNos) /\ Len(free_list) \in Nat
      /\ free_list \in [1 .. Len(free_list) -> PageNos]
      /\ p \in Procs /\ known_memory \in [KnownMemories -> KnownMemoryInfo]
  BY DEF MInv, MemoryTypeOK
<1>5. p # NONE /\ p # KERNEL /\ p \notin {NONE, KERNEL}
  BY <1>4, Constants
<1>6. D \in Seq(PageNos) /\ Len(D) = c
  <2>1. D \in [1 .. c -> PageNos]
    BY <1>2, <1>3
  <2>2. QED
    BY <1>3, <2>1
<1>7. /\ free_list' \in Seq(PageNos) /\ Len(free_list') = c + Len(free_list)
      /\ \A i \in 1 .. Len(free_list') :
           free_list'[i] = IF i <= c THEN D[i] ELSE free_list[i - c]
  BY <1>1, <1>4, <1>6, ConcatProperties
\* What came back and what was there differ.
<1>8. \A i \in 1 .. Len(free_list) :
        /\ free_list[i] \in PageNos /\ free_list[i] \notin P
        /\ pidx[free_list[i]] = NONE /\ free_list[i] \notin RegionPages \cup IdlesPages
  <2>1. \A i \in 1 .. Len(free_list) :
          /\ free_list[i] \in PageNos
          /\ pidx[free_list[i]] = NONE /\ free_list[i] \notin RegionPages \cup IdlesPages
    BY <1>4 DEF MInv, FreePages
  <2>2. QED
    BY <1>2, <1>5, <2>1
<1>9. NoRepeats(free_list')
  <2>1. SUFFICES ASSUME NEW i \in 1 .. Len(free_list'), NEW j \in 1 .. Len(free_list'),
                        free_list'[i] = free_list'[j]
                 PROVE  i = j
    BY DEF NoRepeats
  <2>2. CASE i <= c /\ j <= c
    <3>1. i \in 1 .. c /\ j \in 1 .. c /\ D[i] = D[j]
      BY <1>3, <1>4, <1>7, <2>1, <2>2
    <3>2. QED
      BY <1>3, <3>1
  <2>3. CASE i <= c /\ ~(j <= c)
    <3>1. D[i] \in P /\ j - c \in 1 .. Len(free_list) /\ D[i] = free_list[j - c]
      BY <1>3, <1>4, <1>7, <2>1, <2>3
    <3>2. QED
      BY <1>8, <3>1
  <2>4. CASE ~(i <= c) /\ j <= c
    <3>1. D[j] \in P /\ i - c \in 1 .. Len(free_list) /\ D[j] = free_list[i - c]
      BY <1>3, <1>4, <1>7, <2>1, <2>4
    <3>2. QED
      BY <1>8, <3>1
  <2>5. CASE ~(i <= c) /\ ~(j <= c)
    <3>1. /\ i - c \in 1 .. Len(free_list) /\ j - c \in 1 .. Len(free_list)
          /\ free_list[i - c] = free_list[j - c]
      BY <1>3, <1>4, <1>7, <2>1, <2>5
    <3>2. i - c = j - c
      BY <3>1 DEF MInv, FreePages, NoRepeats
    <3>3. QED
      BY <1>3, <1>7, <3>2
  <2>6. QED
    BY <2>2, <2>3, <2>4, <2>5
<1>10. ListPages' = ListPages \cup P
  <2>1. ASSUME NEW i \in 1 .. Len(free_list') PROVE free_list'[i] \in ListPages \cup P
    <3>1. CASE i <= c
      BY <1>3, <1>7, <3>1
    <3>2. CASE ~(i <= c)
      <4>1. i - c \in 1 .. Len(free_list) /\ free_list'[i] = free_list[i - c]
        BY <1>3, <1>4, <1>7, <3>2
      <4>2. QED
        BY <4>1 DEF ListPages
    <3>3. QED
      BY <3>1, <3>2
  <2>2. ASSUME NEW pg \in P PROVE \E i \in 1 .. Len(free_list') : free_list'[i] = pg
    <3>1. PICK i \in 1 .. c : D[i] = pg
      BY <1>3
    <3>2. i \in 1 .. Len(free_list') /\ free_list'[i] = pg
      BY <1>3, <1>4, <1>7, <3>1
    <3>3. QED
      BY <3>2
  <2>3. ASSUME NEW j \in 1 .. Len(free_list)
        PROVE  \E i \in 1 .. Len(free_list') : free_list'[i] = free_list[j]
    <3>1. /\ j + c \in 1 .. Len(free_list') /\ ~(j + c <= c) /\ (j + c) - c = j
      BY <1>3, <1>4, <1>7
    <3>2. free_list'[j + c] = free_list[j]
      BY <1>7, <3>1
    <3>3. QED
      BY <3>1, <3>2
  <2>4. QED
    BY <2>1, <2>2, <2>3 DEF ListPages
<1>11. RegionPages' = RegionPages
  <2>1. \A km \in KnownMemories :
          /\ known_memory'[km].addr = known_memory[km].addr
          /\ known_memory'[km].page_count = known_memory[km].page_count
    BY <1>1, <1>4 DEF KnownMemoryInfo
  <2>2. \A km \in KnownMemories : Region(km)' = Region(km)
    BY <2>1 DEF Region
  <2>3. QED
    BY <2>2 DEF RegionPages
<1>12. StatsAgree' /\ allocated_pages' \in Nat
  <2>1. Len(free_list') <= TOTAL
    BY <1>7, <1>9, ListCardinality
  <2>2. allocated_pages = TOTAL - Len(free_list)
    BY DEF MInv, StatsAgree
  <2>3. QED
    BY <1>1, <1>3, <1>4, <1>7, <2>1, <2>2, Constants DEF StatsAgree
<1>13. MemoryTypeOK'
  <2>1. pidx' \in [PageNos -> {KERNEL, NONE} \cup Procs]
    BY <1>1 DEF MInv, MemoryTypeOK
  <2>2. known_memory' \in [KnownMemories -> KnownMemoryInfo]
    BY <1>1, <1>4 DEF KnownMemoryInfo
  <2>3. QED
    BY <1>1, <1>7, <1>12, <2>1, <2>2 DEF MInv, MemoryTypeOK
<1>14. FreePages'
  <2>1. ASSUME NEW pg \in ListPages'
        PROVE  pidx'[pg] = NONE /\ pg \notin RegionPages' \cup IdlesPages
    <3>1. CASE pg \in ListPages
      <4>1. pg \in PageNos /\ pidx[pg] = NONE /\ pg \notin RegionPages \cup IdlesPages
        BY <1>8, <3>1 DEF ListPages
      <4>2. QED
        BY <1>1, <1>11, <4>1
    <3>2. CASE pg \in P
      <4>1. pg \in PageNos /\ pidx[pg] = p
        BY <1>2, <3>2
      <4>2. pg \notin RegionPages
        BY <1>5, <4>1 DEF MInv, KnownMemoryExclusive, RegionPages
      <4>3. pg \notin IdlesPages
        BY <1>5, <4>1 DEF MInv
      <4>4. QED
        BY <1>1, <1>11, <4>1, <4>2, <4>3
    <3>3. QED
      BY <1>10, <2>1, <3>1, <3>2
  <2>2. \A i \in 1 .. Len(free_list') : free_list'[i] \in ListPages'
    BY DEF ListPages
  <2>3. IdlesPages' = IdlesPages
    BY DEF IdlesPages
  <2>4. QED
    BY <1>9, <2>1, <2>2, <2>3 DEF FreePages
<1>15. NoPageLost'
  <2>1. ASSUME NEW pg \in PageNos \ ListPages'
        PROVE  pidx'[pg] \in live' \/ pg < INFO_PAGES \/ pg \in RegionPages' \cup IdlesPages
    <3>1. pg \notin ListPages /\ pidx[pg] # p
      BY <1>2, <1>10, <2>1
    <3>2. pidx'[pg] = pidx[pg]
      BY <1>1, <2>1, <3>1
    <3>3. pidx[pg] \in live \/ pg < INFO_PAGES \/ pg \in RegionPages \cup IdlesPages
      BY <2>1, <3>1 DEF MInv, NoPageLost
    <3>4. QED
      BY <1>1, <1>11, <3>1, <3>2, <3>3
  <2>2. QED
    BY <2>1 DEF NoPageLost, IdlesPages
<1>16. KnownMemoryExclusive'
  <2>1. \A km \in KnownMemories : known_memory'[km].holder \in live' \cup {NONE}
    BY <1>1, <1>4 DEF MInv, KnownMemoryExclusive, KnownMemoryInfo
  <2>2. ASSUME NEW pg \in RegionPages' PROVE pidx'[pg] = KERNEL
    <3>1. pg \in PageNos /\ pidx[pg] = KERNEL
      BY <1>11 DEF MInv, KnownMemoryExclusive, RegionPages
    <3>2. QED
      BY <1>1, <1>5, <3>1
  <2>3. \A km \in KnownMemories : Region(km)' \subseteq RegionPages'
    BY DEF RegionPages
  <2>4. QED
    BY <2>1, <2>2, <2>3 DEF KnownMemoryExclusive
<1>17. \A pg \in IdlesPages : pidx'[pg] = NONE
  <2>1. IdlesPages \subseteq PageNos
    BY MemoryAssumption DEF IdlesPages, PageNos, IdlePages
  <2>2. QED
    BY <1>1, <1>5, <2>1 DEF MInv
<1>18. QED
  BY <1>11, <1>13, <1>14, <1>15, <1>12, <1>16, <1>17 DEF MInv, IdlesPages

\* A step that leaves pages, list and regions alone.
LEMMA KeepStep ==
  ASSUME MInv, UNCHANGED <<pidx, free_list, allocated_pages, live>>,
         RegionPages' = RegionPages,
         known_memory' \in [KnownMemories -> KnownMemoryInfo],
         \A km \in KnownMemories : known_memory'[km].holder \in live \cup {NONE},
         dirty' \subseteq PageNos, panicked' \in BOOLEAN
  PROVE  MInv'
<1>1. MemoryTypeOK'
  BY DEF MInv, MemoryTypeOK
<1>2. FreePages' /\ StatsAgree' /\ (\A pg \in IdlesPages : pidx[pg] = NONE)'
  BY DEF MInv, FreePages, NoRepeats, StatsAgree, IdlesPages
<1>3. NoPageLost' /\ (RegionPages \subseteq PageNos)'
  BY DEF MInv, NoPageLost, ListPages, IdlesPages
<1>4. KnownMemoryExclusive'
  <2>1. \A pg \in RegionPages' : pidx'[pg] = KERNEL
    BY DEF MInv, KnownMemoryExclusive, RegionPages
  <2>2. \A km \in KnownMemories : Region(km)' \subseteq RegionPages'
    BY DEF RegionPages
  <2>3. QED
    BY <2>1, <2>2 DEF KnownMemoryExclusive
<1>5. QED
  BY <1>1, <1>2, <1>3, <1>4 DEF MInv

\* Steps of others leave memory as it is.
LEMMA StutterStep == MInv /\ UNCHANGED memoryVars => MInv'
  BY DEF memoryVars, MInv, MemoryTypeOK, FreePages, NoRepeats, NoPageLost, StatsAgree,
         KnownMemoryExclusive, RegionPages, Region, ListPages, IdlesPages

\* Memory as memory_init leaves it.
LEMMA MemoryInitSound == MemoryInit => MInv
<1> SUFFICES ASSUME MemoryInit PROVE MInv
  OBVIOUS
<1> DEFINE n == TOTAL - INFO_PAGES - IdlePages
<1>1. /\ n \in Nat /\ TOTAL \in Nat /\ INFO_PAGES \in Nat \ {0}
      /\ n = TOTAL - INFO_PAGES - 3
  BY MemoryAssumption DEF IdlePages
<1>2. /\ pidx = [pg \in PageNos |-> IF pg < INFO_PAGES THEN KERNEL ELSE NONE]
      /\ free_list = [i \in 1 .. n |-> INFO_PAGES + 3 + i - 1]
      /\ known_memory = [km \in KnownMemories |-> [addr |-> NULL, page_count |-> 0, holder |-> NONE]]
      /\ allocated_pages = INFO_PAGES + 3
      /\ live = {} /\ dirty = INFO_PAGES + 3 .. TOTAL - 1 /\ panicked = FALSE
  BY DEF MemoryInit, IdlePages
<1> HIDE DEF n
<1>3. /\ \A i \in 1 .. n : INFO_PAGES + 3 + i - 1 \in PageNos
      /\ \A i \in 1 .. n : INFO_PAGES + 3 + i - 1 >= INFO_PAGES + 3
      /\ \A i, j \in 1 .. n : INFO_PAGES + 3 + i - 1 = INFO_PAGES + 3 + j - 1 => i = j
  BY <1>1 DEF PageNos
<1>4. free_list \in Seq(PageNos) /\ Len(free_list) = n
  BY <1>1, <1>2, <1>3
<1>5. MemoryTypeOK
  <2>1. pidx \in [PageNos -> {KERNEL, NONE} \cup Procs]
    BY <1>2
  <2>2. known_memory \in [KnownMemories -> KnownMemoryInfo]
    BY <1>2 DEF KnownMemoryInfo
  <2>3. allocated_pages \in Nat /\ dirty \subseteq PageNos
    BY <1>1, <1>2 DEF PageNos
  <2>4. QED
    BY <1>2, <1>4, <2>1, <2>2, <2>3 DEF MemoryTypeOK
<1>6. RegionPages = {}
  BY <1>2 DEF RegionPages, Region
<1>7. FreePages
  <2>1. NoRepeats(free_list)
    BY <1>2, <1>3, <1>4 DEF NoRepeats
  <2>2. ASSUME NEW i \in 1 .. Len(free_list)
        PROVE  pidx[free_list[i]] = NONE /\ free_list[i] \notin RegionPages \cup IdlesPages
    <3>1. /\ free_list[i] = INFO_PAGES + 3 + i - 1 /\ i \in Nat /\ i >= 1
          /\ free_list[i] \in PageNos
      BY <1>1, <1>2, <1>3, <1>4
    <3>2. ~(free_list[i] < INFO_PAGES) /\ free_list[i] \notin IdlesPages
      BY <1>1, <3>1 DEF IdlesPages, IdlePages
    <3>3. QED
      BY <1>2, <1>6, <3>1, <3>2
  <2>3. QED
    BY <2>1, <2>2 DEF FreePages
<1>8. NoPageLost
  <2>1. ASSUME NEW pg \in PageNos, ~(pg < INFO_PAGES), pg \notin IdlesPages
        PROVE  pg \in ListPages
    <3>1. pg - INFO_PAGES - 2 \in 1 .. n /\ pg = INFO_PAGES + 3 + (pg - INFO_PAGES - 2) - 1
      BY <1>1, <2>1 DEF PageNos, IdlesPages, IdlePages
    <3>2. free_list[pg - INFO_PAGES - 2] = pg
      BY <1>2, <3>1
    <3>3. QED
      BY <1>4, <3>1, <3>2 DEF ListPages
  <2>2. QED
    BY <2>1 DEF NoPageLost
<1>9. StatsAgree
  BY <1>1, <1>2, <1>4 DEF StatsAgree
<1>10. KnownMemoryExclusive
  BY <1>2 DEF KnownMemoryExclusive, Region
<1>11. \A pg \in IdlesPages : pidx[pg] = NONE
  <2>1. \A pg \in IdlesPages : pg \in PageNos /\ ~(pg < INFO_PAGES)
    BY <1>1 DEF IdlesPages, PageNos, IdlePages
  <2>2. QED
    BY <1>2, <2>1
<1>12. QED
  BY <1>5, <1>6, <1>7, <1>8, <1>9, <1>10, <1>11 DEF MInv

\* Every operation of the page manager.
LEMMA MemoryNextSound == MInv /\ [MemoryNext]_memoryVars => MInv'
<1> SUFFICES ASSUME MInv, [MemoryNext]_memoryVars PROVE MInv'
  OBVIOUS
<1>0. /\ known_memory \in [KnownMemories -> KnownMemoryInfo]
      /\ \A km \in KnownMemories : known_memory[km].holder \in live \cup {NONE}
      /\ dirty \subseteq PageNos /\ panicked \in BOOLEAN /\ live \subseteq Procs
  BY DEF MInv, MemoryTypeOK, KnownMemoryExclusive
<1>1. ASSUME NEW p \in Procs, NEW args \in BOOLEAN, ProcessCreate(p, args) PROVE MInv'
  BY <1>1, ProcessCreateStep
<1>2. ASSUME NEW args \in BOOLEAN, ProcessCreatePanics(args) PROVE MInv'
  <2>1. /\ UNCHANGED <<pidx, free_list, known_memory, allocated_pages, live, dirty>>
        /\ panicked' \in BOOLEAN
    BY <1>2 DEF ProcessCreatePanics
  <2>2. RegionPages' = RegionPages
    BY <2>1 DEF RegionPages, Region
  <2>3. QED
    BY <1>0, <2>1, <2>2, KeepStep
<1>3. ASSUME NEW p \in live, Running(p) PROVE MInv'
  <2>1. ASSUME NEW n \in AllocSizes, AllocPages(p, n) PROVE MInv'
    BY <2>1, AllocPagesStep
  <2>2. ASSUME NEW n \in AllocSizes, AllocPagesFails(p, n) PROVE MInv'
    BY <2>2, StutterStep DEF AllocPagesFails
  <2>3. ASSUME NEW pg \in PageNos, Write(p, pg) PROVE MInv'
    <3>1. /\ UNCHANGED <<pidx, free_list, known_memory, allocated_pages, live, panicked>>
          /\ dirty' \subseteq PageNos
      BY <1>0, <2>3 DEF Write
    <3>2. RegionPages' = RegionPages
      BY <3>1 DEF RegionPages, Region
    <3>3. QED
      BY <1>0, <3>1, <3>2, KeepStep
  <2>4. ASSUME NEW km \in KnownMemories, NEW n \in AllocSizes, LockAllocates(p, km, n)
        PROVE  MInv'
    BY <2>4, LockAllocatesStep
  <2>5. ASSUME NEW km \in KnownMemories, NEW n \in AllocSizes, LockAgain(p, km, n)
        PROVE  MInv'
    <3>1. /\ UNCHANGED <<pidx, free_list, allocated_pages, live, dirty, panicked>>
          /\ known_memory' = [known_memory EXCEPT ![km].holder = p]
      BY <2>5 DEF LockAgain
    <3>2. /\ known_memory' \in [KnownMemories -> KnownMemoryInfo]
          /\ \A k \in KnownMemories :
               /\ known_memory'[k].holder \in live \cup {NONE}
               /\ known_memory'[k].addr = known_memory[k].addr
               /\ known_memory'[k].page_count = known_memory[k].page_count
      BY <1>0, <3>1 DEF KnownMemoryInfo
    <3>3. RegionPages' = RegionPages
      <4>1. \A k \in KnownMemories : Region(k)' = Region(k)
        BY <3>2 DEF Region
      <4>2. QED
        BY <4>1 DEF RegionPages
    <3>4. QED
      BY <1>0, <3>1, <3>2, <3>3, KeepStep
  <2>6. ASSUME NEW km \in KnownMemories, NEW n \in AllocSizes, LockFails(p, km, n)
        PROVE  MInv'
    BY <2>6, StutterStep DEF LockFails
  <2>7. ASSUME ProcessExit(p) PROVE MInv'
    BY <2>7, ProcessExitStep
  <2>8. QED
    BY <1>3, <2>1, <2>2, <2>3, <2>4, <2>5, <2>6, <2>7 DEF Running
<1>4. CASE UNCHANGED memoryVars
  BY <1>4, StutterStep
<1>5. QED
  BY <1>1, <1>2, <1>3, <1>4 DEF MemoryNext

-----------------------------------------------------------------------------
(* The theorems *)

\* What the invariant says in the words of the properties.
LEMMA MInvImplies == MInv => PagesAccounted /\ KnownMemoryExclusive
<1> SUFFICES ASSUME MInv PROVE PagesAccounted /\ KnownMemoryExclusive
  OBVIOUS
<1>1. NoRepeats(free_list) /\ free_list \in Seq(PageNos)
  BY DEF MInv, MemoryTypeOK, FreePages
<1>2. Cardinality(ListPages) = Len(free_list)
  <2>1. Cardinality(Entries(free_list)) = Len(free_list)
    BY <1>1, ListCardinality
  <2>2. QED
    BY <2>1 DEF ListPages, Entries
<1>3. \A pg \in ListPages : pidx[pg] = NONE /\ pg \notin RegionPages \cup IdlesPages
  BY DEF MInv, FreePages, ListPages
<1>4. QED
  BY <1>2, <1>3 DEF MInv, PagesAccounted, FreeListSound

\* Pages are nowhere twice, nowhere lost, and counted right, whatever runs are cut out of
\* the list and whoever gives pages back (page_allocate, page_free_process).
THEOREM PagesAreAccounted == MemorySpec => []PagesAccounted
<1>1. MInv => PagesAccounted
  BY MInvImplies
<1>2. QED
  BY MemoryInitSound, MemoryNextSound, <1>1, PTL DEF MemorySpec

\* A known region overlaps nothing a process owns, and only a process that exists holds it
\* (known_memory_lock, known_memory_release_process).
THEOREM RegionsAreExclusive == MemorySpec => []KnownMemoryExclusive
<1>1. MInv => KnownMemoryExclusive
  BY MInvImplies
<1>2. QED
  BY MemoryInitSound, MemoryNextSound, <1>1, PTL DEF MemorySpec

\* A page changes hands cleared, in both directions (page_allocate, page_free_process).
\* Each operation by itself sees to it: no invariant is needed.
THEOREM PagesComeCleared == MemorySpec => PagesChangeHandsCleared
<1> DEFINE Cleared == \A pg \in PageNos : pidx'[pg] # pidx[pg] => pg \notin dirty'
<1>1. ASSUME [MemoryNext]_memoryVars PROVE Cleared
  <2>1. ASSUME NEW owner, NEW n \in AllocSizes, Allocate(owner, n) PROVE Cleared
    BY <2>1 DEF Allocate
  <2>2. ASSUME NEW p \in Procs, NEW args \in BOOLEAN, ProcessCreate(p, args) PROVE Cleared
    BY <2>2 DEF ProcessCreate
  <2>3. ASSUME NEW p \in live, ProcessExit(p) PROVE Cleared
    BY <2>3 DEF ProcessExit, PagesOf
  <2>4. ASSUME pidx' = pidx PROVE Cleared
    BY <2>4
  <2>5. ASSUME NEW p \in live, Running(p) PROVE Cleared
    <3>1. ASSUME NEW n \in AllocSizes, AllocPages(p, n) \/ AllocPagesFails(p, n) PROVE Cleared
      BY <2>1, <2>4, <3>1 DEF AllocPages, AllocPagesFails, memoryVars
    <3>2. ASSUME NEW km \in KnownMemories, NEW n \in AllocSizes,
                 LockAllocates(p, km, n) \/ LockAgain(p, km, n) \/ LockFails(p, km, n)
          PROVE  Cleared
      BY <2>1, <2>4, <3>2 DEF LockAllocates, LockAgain, LockFails, memoryVars
    <3>3. ASSUME NEW pg \in PageNos, Write(p, pg) PROVE Cleared
      BY <2>4, <3>3 DEF Write
    <3>4. QED
      BY <2>3, <2>5, <3>1, <3>2, <3>3 DEF Running
  <2>6. QED
    BY <1>1, <2>2, <2>4, <2>5 DEF MemoryNext, ProcessCreatePanics, memoryVars
<1>2. QED
  BY <1>1, PTL DEF MemorySpec, PagesChangeHandsCleared

-----------------------------------------------------------------------------
(***************************************************************************)
(* A handle that a client holds names the file the client opened, for any  *)
(* number of files, clients and opens and any limits.  HInv is inductive:  *)
(* it adds that ids count up, so that the id of a closed handle is never   *)
(* given out again, and that no two open entries have one id.              *)
(***************************************************************************)

Entry(N) == [handle_id : Nat, inode_num : N, is_open : BOOLEAN]

HInv ==
  /\ \E N : handles \in Seq(Entry(N))
  /\ next_handle_id \in Nat
  /\ Len(handles) <= MAX_OPEN_HANDLES
  /\ \A i \in 1 .. Len(handles) : handles[i].handle_id < next_handle_id
  /\ \A i, j \in 1 .. Len(handles) :
       handles[i].is_open /\ handles[j].is_open /\ handles[i].handle_id = handles[j].handle_id
         => i = j
  /\ \A id \in closed : id \in Nat /\ id < next_handle_id
  /\ \A h \in held :
       /\ h[1] \in Nat /\ h[1] < next_handle_id /\ h[1] \notin closed
       /\ \E i \in 1 .. Len(handles) :
            handles[i].is_open /\ handles[i].handle_id = h[1] /\ handles[i].inode_num = h[2]
       /\ \A g \in held : g[1] = h[1] => g = h

-----------------------------------------------------------------------------
\* The table has room for a handle.
LEMMA Limit == MAX_OPEN_HANDLES \in Nat /\ MAX_OPEN_HANDLES > 0
<1>1. MAX_OPEN_HANDLES \in Nat \ {0}
  BY MemoryFsAssumption, Zenon
<1>2. QED
  BY <1>1

\* An open that finds a place in the table.
LEMMA AllocateStep ==
  ASSUME HInv, NEW n, allocate_handle(n)
  PROVE  HInv'
<1> DEFINE id == next_handle_id
           new == Handle(id, n)
<1>1. PICK N : handles \in Seq(Entry(N))
  BY DEF HInv
<1> DEFINE M == N \cup {n}
<1>2. /\ id \in Nat /\ next_handle_id' = id + 1 /\ held' = held \cup {<<id, n>>}
      /\ closed' = closed /\ ~TableFull
  BY DEF HInv, allocate_handle
<1>3. new \in Entry(M) /\ new.is_open /\ new.handle_id = id /\ new.inode_num = n
  BY <1>2 DEF Handle, Entry
<1>4. /\ handles \in Seq(Entry(M)) /\ Len(handles) \in Nat
      /\ DOMAIN handles = 1 .. Len(handles)
  <2>1. Entry(N) \subseteq Entry(M)
    BY DEF Entry
  <2>2. handles \in Seq(Entry(M))
    BY <1>1, <2>1, SeqMonotonic
  <2>3. QED
    BY <2>2
<1> HIDE DEF new, M
<1>5. PICK slot \in 1 .. Len(handles) + 1 :
        /\ handles' \in Seq(Entry(M)) /\ slot \in 1 .. Len(handles')
        /\ Len(handles') <= MAX_OPEN_HANDLES /\ Len(handles') \in Nat
        /\ handles'[slot] = new
        /\ \A i \in 1 .. Len(handles') : i # slot => i \in 1 .. Len(handles) /\ handles'[i] = handles[i]
        /\ \A i \in 1 .. Len(handles) : i # slot => i \in 1 .. Len(handles')
        /\ slot \in 1 .. Len(handles) => ~handles[slot].is_open
  <2>1. CASE ClosedSlots = {}
    <3>1. handles' = Append(handles, new)
      BY <2>1 DEF allocate_handle, new
    <3>2. Len(handles) < MAX_OPEN_HANDLES
      BY <1>2, <1>4, <2>1, Limit DEF TableFull
    <3>3. /\ handles' \in Seq(Entry(M)) /\ Len(handles') = Len(handles) + 1
          /\ handles'[Len(handles) + 1] = new
          /\ \A i \in 1 .. Len(handles) : handles'[i] = handles[i]
      BY <1>3, <1>4, <3>1, AppendProperties
    <3>4. Len(handles) + 1 \notin 1 .. Len(handles)
      BY <1>4
    <3>5. Len(handles') <= MAX_OPEN_HANDLES /\ Len(handles') \in Nat
      BY <1>4, <3>2, <3>3, Limit
    <3>6. \A i \in 1 .. Len(handles') : i # Len(handles) + 1 => i \in 1 .. Len(handles)
      BY <1>4, <3>3
    <3>7. \A i \in 1 .. Len(handles) : i \in 1 .. Len(handles')
      BY <1>4, <3>3
    <3>8. Len(handles) + 1 \in 1 .. Len(handles) + 1
      BY <1>4
    <3>9. QED
      BY <3>3, <3>4, <3>5, <3>6, <3>7, <3>8
  <2>2. CASE ClosedSlots # {}
    <3> DEFINE slot == Min(ClosedSlots)
    <3>1. slot \in 1 .. Len(handles) /\ ~handles[slot].is_open
      <4>1. ClosedSlots \subseteq Nat
        BY <1>4 DEF ClosedSlots
      <4>2. Min(ClosedSlots) \in ClosedSlots
        BY <2>2, <4>1, MinInSet
      <4>3. QED
        BY <1>4, <4>2 DEF ClosedSlots
    <3>2. handles' = [handles EXCEPT ![slot] = new]
      BY <2>2 DEF allocate_handle, new
    <3> HIDE DEF slot
    <3>3. /\ handles' \in Seq(Entry(M)) /\ Len(handles') = Len(handles)
          /\ handles'[slot] = new
          /\ \A i \in 1 .. Len(handles) : i # slot => handles'[i] = handles[i]
      BY <1>3, <1>4, <3>1, <3>2
    <3>4. QED
      BY <1>4, <3>1, <3>3 DEF HInv
  <2>3. QED
    BY <2>1, <2>2
<1>6. \A i \in 1 .. Len(handles) : handles[i].handle_id < id /\ handles[i].handle_id \in Nat
  <2>1. \A i \in 1 .. Len(handles) : handles[i] \in Entry(M)
    BY <1>4, ElementOfSeq
  <2>2. QED
    BY <2>1 DEF HInv, Entry
<1>7. \A i \in 1 .. Len(handles') : handles'[i].handle_id < next_handle_id'
  BY <1>2, <1>3, <1>5, <1>6
<1>8. \A i, j \in 1 .. Len(handles') :
        handles'[i].is_open /\ handles'[j].is_open /\ handles'[i].handle_id = handles'[j].handle_id
          => i = j
  BY <1>2, <1>3, <1>5, <1>6 DEF HInv
<1>9. ASSUME NEW h \in held'
      PROVE  /\ h[1] \in Nat /\ h[1] < next_handle_id' /\ h[1] \notin closed'
             /\ \E i \in 1 .. Len(handles') :
                  handles'[i].is_open /\ handles'[i].handle_id = h[1] /\ handles'[i].inode_num = h[2]
             /\ \A g \in held' : g[1] = h[1] => g = h
  <2>1. \A g \in held : g[1] \in Nat /\ g[1] < id
    BY DEF HInv
  <2>2. CASE h \in held
    <3>1. PICK i \in 1 .. Len(handles) :
            handles[i].is_open /\ handles[i].handle_id = h[1] /\ handles[i].inode_num = h[2]
      BY <2>2 DEF HInv
    <3>2. i # slot /\ i \in 1 .. Len(handles') /\ handles'[i] = handles[i]
      BY <1>5, <3>1
    <3>3. \A g \in held' : g[1] = h[1] => g = h
      BY <1>2, <2>1, <2>2 DEF HInv
    <3>4. h[1] \in Nat /\ h[1] < id /\ h[1] \notin closed
      BY <2>1, <2>2 DEF HInv
    <3>5. h[1] < next_handle_id' /\ h[1] \notin closed'
      BY <1>2, <3>4
    <3>6. QED
      BY <3>1, <3>2, <3>3, <3>4, <3>5
  <2>3. CASE h = <<id, n>>
    <3>1. id \notin closed
      BY <1>2 DEF HInv
    <3>2. \A g \in held' : g[1] = h[1] => g = h
      BY <1>2, <2>1, <2>3
    <3>3. QED
      BY <1>2, <1>3, <1>5, <2>3, <3>1, <3>2
  <2>4. QED
    BY <1>2, <2>2, <2>3
<1>10. \A c \in closed' : c \in Nat /\ c < next_handle_id'
  BY <1>2 DEF HInv
<1>11. QED
  BY <1>2, <1>5, <1>7, <1>8, <1>9, <1>10 DEF HInv

\* Closing the entry of an id that no client holds any more: whoever holds another keeps
\* it.
LEMMA CloseStep ==
  ASSUME HInv, NEW id, CloseSlot(id), held' \subseteq held,
         \A h \in held' : h[1] # id, closed' \in {closed, closed \cup {id}},
         id \in closed \/ \E h \in held : h[1] = id
  PROVE  HInv'
<1> DEFINE slot == Min(find_handle(id))
<1>1. PICK N : handles \in Seq(Entry(N))
  BY DEF HInv
<1>2. Len(handles) \in Nat /\ DOMAIN handles = 1 .. Len(handles)
      /\ \A i \in 1 .. Len(handles) : handles[i] \in Entry(N)
  BY <1>1
<1>3. slot \in 1 .. Len(handles) /\ handles[slot].handle_id = id
  <2>1. find_handle(id) \subseteq Nat /\ find_handle(id) # {}
    BY <1>2 DEF find_handle, CloseSlot
  <2>2. Min(find_handle(id)) \in find_handle(id)
    BY <2>1, MinInSet
  <2>3. QED
    BY <1>2, <2>2 DEF find_handle
<1>4. handles' = [handles EXCEPT ![slot].is_open = FALSE] /\ next_handle_id' = next_handle_id
  BY DEF CloseSlot
<1> HIDE DEF slot
<1> DEFINE new == [handles[slot] EXCEPT !.is_open = FALSE]
<1>5. new \in Entry(N) /\ new.handle_id = id /\ ~new.is_open
  BY <1>2, <1>3 DEF Entry
<1>6. handles' = [handles EXCEPT ![slot] = new]
  BY <1>4
<1> HIDE DEF new
<1>7. /\ handles' \in Seq(Entry(N)) /\ Len(handles') = Len(handles)
      /\ handles'[slot] = new
      /\ \A i \in 1 .. Len(handles) : i # slot => handles'[i] = handles[i]
  BY <1>1, <1>2, <1>3, <1>5, <1>6
<1>8. ASSUME NEW h \in held'
      PROVE  \E i \in 1 .. Len(handles') :
               handles'[i].is_open /\ handles'[i].handle_id = h[1] /\ handles'[i].inode_num = h[2]
  <2>1. PICK i \in 1 .. Len(handles) :
          handles[i].is_open /\ handles[i].handle_id = h[1] /\ handles[i].inode_num = h[2]
    BY DEF HInv
  <2>2. i # slot
    BY <1>3, <2>1
  <2>3. QED
    BY <1>7, <2>1, <2>2
<1>9. \A i \in 1 .. Len(handles') : handles'[i].handle_id = handles[i].handle_id
                                    /\ (handles'[i].is_open => handles[i].is_open)
  BY <1>3, <1>5, <1>7
<1>10. id \in Nat /\ id < next_handle_id
  BY DEF HInv
<1>11. QED
  BY <1>4, <1>7, <1>8, <1>9, <1>10 DEF HInv

\* Steps that leave the table and the clients' handles alone.
LEMMA HandlesKept ==
  ASSUME HInv, UNCHANGED <<handles, next_handle_id, held, closed>>
  PROVE  HInv'
  BY DEF HInv

\* At the start no handle is given out.
LEMMA MemoryFsInitSound == MemoryFsInit => HInv
<1> SUFFICES ASSUME MemoryFsInit PROVE HInv
  OBVIOUS
<1>1. handles = <<>> /\ next_handle_id = 1 /\ held = {} /\ closed = {}
  BY DEF MemoryFsInit
<1>2. handles \in Seq(Entry({})) /\ Len(handles) = 0
  BY <1>1
<1>3. QED
  BY <1>1, <1>2, Limit DEF HInv

\* Every request, as far as handles go.
LEMMA MemoryFsNextSound == HInv /\ [MemoryFsNext]_memoryFsVars => HInv'
<1> SUFFICES ASSUME HInv, [MemoryFsNext]_memoryFsVars PROVE HInv'
  OBVIOUS
<1>1. ASSUME NEW path \in Paths, NEW flags \in FlagSets, Open(path, flags) PROVE HInv'
  <2>1. CASE OpenExisting(path, flags)
    BY <2>1, AllocateStep, HandlesKept DEF OpenExisting, TooManyOpenFiles
  <2>2. CASE OpenCreates(path, flags)
    BY <2>2, AllocateStep, HandlesKept DEF OpenCreates, TooManyOpenFiles
  <2>3. CASE OpenFails(path, flags)
    BY <2>3, HandlesKept DEF OpenFails, memoryFsVars
  <2>4. QED
    BY <1>1, <2>1, <2>2, <2>3 DEF Open
<1>2. ASSUME NEW path \in Paths,
             (\E type \in {"FILE", "DIRECTORY"} : Create(type, path))
               \/ DeleteFile(path) \/ DeleteDir(path)
      PROVE  HInv'
  BY <1>2, HandlesKept DEF Create, DeleteFile, DeleteDir
<1>3. ASSUME NEW h \in held, Close(h) PROVE HInv'
  <2>1. CloseSlot(h[1]) /\ held' = held \ {h} /\ closed' = closed \cup {h[1]}
    BY <1>3 DEF Close
  <2>2. \A g \in held' : g[1] # h[1]
    BY <2>1 DEF HInv
  <2>3. QED
    BY <2>1, <2>2, CloseStep
<1>4. ASSUME NEW h \in held, NEW offset \in 0 .. MaxSize - 1, NEW cell \in Cells,
             WriteFile(h[1], offset, cell)
      PROVE  HInv'
  BY <1>4, HandlesKept DEF WriteFile
<1>5. ASSUME NEW id \in closed, CloseAgain(id) PROVE HInv'
  <2>1. held' = held /\ closed' = closed /\ \A h \in held : h[1] # id
    BY <1>5 DEF CloseAgain, HInv
  <2>2. CASE CloseSlot(id)
    BY <2>1, <2>2, CloseStep
  <2>3. CASE UNCHANGED <<inodes, handles, next_handle_id>>
    BY <2>1, <2>3, HandlesKept
  <2>4. QED
    BY <1>5, <2>2, <2>3 DEF CloseAgain
<1>6. CASE UNCHANGED memoryFsVars
  BY <1>6, HandlesKept DEF memoryFsVars
<1>7. QED
  BY <1>1, <1>2, <1>3, <1>4, <1>5, <1>6 DEF MemoryFsNext

-----------------------------------------------------------------------------
\* A handle that a client holds is open and names the file the client opened, no two have
\* one handle, and the table keeps to its limit (allocate_handle, find_handle, handle_close).
THEOREM HandlesStayTrue == MemoryFsSpec => []HandlesNameTheirFile
<1>1. HInv => HandlesNameTheirFile
  <2> SUFFICES ASSUME HInv PROVE HandlesNameTheirFile
    OBVIOUS
  <2>1. DOMAIN handles = 1 .. Len(handles)
    BY DEF HInv
  <2>2. QED
    BY <2>1 DEF HInv, HandlesNameTheirFile, find_handle
<1>2. QED
  BY MemoryFsInitSound, MemoryFsNextSound, <1>1, PTL DEF MemoryFsSpec

-----------------------------------------------------------------------------
(***************************************************************************)
(* Directories: every inode that was not deleted is listed once, by its    *)
(* parent, and paths find what listings show.  TreeInv is inductive for    *)
(* any paths.  NamesInv is too while no path is spelled too long, since    *)
(* open with CREATE takes one that is for the path of a file that does not *)
(* exist.                                                                  *)
(***************************************************************************)
Kids(n) == inodes[n].children
NameOf(n) == inodes[n].name

\* The numbers are those up to next_inode_num, and an inode has its fields.
Numbered ==
  /\ \E N \in Nat \ {0} : DOMAIN inodes = 0 .. N - 1
  /\ \A n \in DOMAIN inodes :
       /\ DOMAIN inodes[n] = {"type", "name", "parent_inode", "data", "children"}
       /\ Kids(n) \in Seq(DOMAIN inodes \ {RootInode})
       /\ inodes[n].parent_inode \in DOMAIN inodes

\* Who lists c: its parent, a directory that was not deleted, in one place.
ListedBy(d, i) ==
  /\ IsDirectory(d)
  /\ d = RootInode \/ NameOf(d) # Deleted
  /\ inodes[Kids(d)[i]].parent_inode = d
  /\ NameOf(Kids(d)[i]) # Deleted
  /\ \A j \in 1 .. Len(Kids(d)) : Kids(d)[j] = Kids(d)[i] => i = j

Listed(n) ==
  \E i \in 1 .. Len(Kids(inodes[n].parent_inode)) : Kids(inodes[n].parent_inode)[i] = n

TreeInv ==
  /\ Numbered
  /\ IsDirectory(RootInode) /\ NameOf(RootInode) = Deleted
  /\ \A d \in DOMAIN inodes : \A i \in 1 .. Len(Kids(d)) : ListedBy(d, i)
  /\ \A n \in DOMAIN inodes \ {RootInode} : NameOf(n) # Deleted => Listed(n)

NamesInv ==
  \A d \in DOMAIN inodes : \A i, j \in 1 .. Len(Kids(d)) :
    NameOf(Kids(d)[i]) = NameOf(Kids(d)[j]) => i = j

-----------------------------------------------------------------------------
(* Walking along a path *)

IsWalk(parts, n, walk) ==
  walk = [i \in 0 .. n |-> IF i = 0 THEN RootInode ELSE ChildOf(walk[i - 1], parts[i])]
WalkOf(parts, n) == CHOOSE walk : IsWalk(parts, n, walk)

\* What the equation says, entry by entry.
LEMMA WalksAre ==
  ASSUME NEW parts, NEW n \in Nat, NEW walk, IsWalk(parts, n, walk)
  PROVE  /\ walk[0] = RootInode
         /\ \A i \in 1 .. n : walk[i] = ChildOf(walk[i - 1], parts[i])
<1>1. \A i \in 0 .. n : walk[i] = IF i = 0 THEN RootInode ELSE ChildOf(walk[i - 1], parts[i])
  BY Zenon DEF IsWalk
<1>2. 0 \in 0 .. n /\ \A i \in 1 .. n : i \in 0 .. n /\ i # 0
  OBVIOUS
<1> QED
  BY <1>1, <1>2, Zenon

\* There is a function that the recursion defines.
LEMMA WalksExist ==
  ASSUME NEW parts, NEW n \in Nat
  PROVE  IsWalk(parts, n, WalkOf(parts, n))
<1> DEFINE Off == {m \in Nat : ~ \E walk : IsWalk(parts, m, walk)}
<1>1. Off = {}
  <2> SUFFICES ASSUME Off # {} PROVE FALSE
    OBVIOUS
  <2> DEFINE m == Min(Off)
  <2>1. m \in Off /\ \A x \in Off : m <= x
    <3>1. Off \subseteq Nat
      OBVIOUS
    <3> QED
      BY <3>1, MinInSet
  <2> HIDE DEF m
  <2>2. m \in Nat /\ ~ \E walk : IsWalk(parts, m, walk)
    BY <2>1
  <2>3. CASE m = 0
    <3> DEFINE base == [i \in 0 .. 0 |-> RootInode]
    <3>1. \A i \in 0 .. 0 : i = 0
      OBVIOUS
    <3>2. IsWalk(parts, 0, base)
      BY <3>1, Zenon DEF IsWalk
    <3> QED
      BY <2>2, <2>3, <3>2
  <2>4. CASE m # 0
    <3> DEFINE j == m - 1
    <3>1. j \in Nat /\ ~(m <= j) /\ j = m - 1
      BY <2>2, <2>4
    <3> HIDE DEF j
    <3>2. j \notin Off
      BY <2>1, <3>1
    <3>3. PICK below : IsWalk(parts, j, below)
      BY <3>1, <3>2
    <3>4. /\ below[0] = RootInode
          /\ \A i \in 1 .. j : below[i] = ChildOf(below[i - 1], parts[i])
      <4> HIDE DEF Off
      <4> QED
        BY <3>1, <3>3, WalksAre
    <3> DEFINE walk == [i \in 0 .. m |-> IF i = m THEN ChildOf(below[m - 1], parts[m]) ELSE below[i]]
    <3>5. ASSUME NEW i \in 0 .. m
          PROVE  walk[i] = IF i = 0 THEN RootInode ELSE ChildOf(walk[i - 1], parts[i])
      <4>1. walk[i] = IF i = m THEN ChildOf(below[m - 1], parts[m]) ELSE below[i]
        OBVIOUS
      <4>2. i # 0 => i - 1 \in 0 .. m /\ i - 1 # m /\ (i # m => i \in 1 .. j)
        BY <2>2, <3>1
      <4>3. i # 0 => walk[i - 1] = below[i - 1]
        BY <4>2
      <4> HIDE DEF walk
      <4>4. CASE i = 0
        BY <2>4, <3>4, <4>1, <4>4
      <4>5. CASE i # 0 /\ i = m
        BY <4>1, <4>3, <4>5
      <4>6. CASE i # 0 /\ i # m
        BY <3>4, <4>1, <4>2, <4>3, <4>6
      <4> QED
        BY <4>4, <4>5, <4>6
    <3>6. walk = [i \in 0 .. m |-> walk[i]]
      OBVIOUS
    <3> HIDE DEF walk
    <3>7. IsWalk(parts, m, walk)
      BY <3>5, <3>6, Zenon DEF IsWalk
    <3> QED
      BY <2>2, <3>7
  <2> QED
    BY <2>3, <2>4
<1>2. \E walk : IsWalk(parts, n, walk)
  BY <1>1
<1> QED
  BY <1>2, Zenon DEF WalkOf

\* Paths with the same beginning walk alike along it.
LEMMA WalksAgree ==
  ASSUME NEW s, NEW t, NEW n \in Nat, NEW m \in Nat, NEW f, NEW g,
         IsWalk(s, n, f), IsWalk(t, m, g),
         NEW k \in Nat, k <= n, k <= m, \A i \in 1 .. k : s[i] = t[i]
  PROVE  f[k] = g[k]
<1> DEFINE Off == {i \in 0 .. k : f[i] # g[i]}
<1>1. Off = {}
  <2> SUFFICES ASSUME Off # {} PROVE FALSE
    OBVIOUS
  <2> DEFINE i == Min(Off)
  <2>1. i \in Off /\ \A x \in Off : i <= x
    <3>1. Off \subseteq Nat
      OBVIOUS
    <3> QED
      BY <3>1, MinInSet
  <2> HIDE DEF i
  <2>2. i \in 0 .. k /\ f[i] # g[i]
    BY <2>1
  <2>3. i # 0
    BY <2>2, WalksAre
  <2>4. i - 1 \in 0 .. k /\ ~(i <= i - 1) /\ i \in 1 .. k /\ i \in 1 .. n /\ i \in 1 .. m
    BY <2>2, <2>3
  <2>5. f[i - 1] = g[i - 1]
    BY <2>1, <2>4
  <2>6. f[i] = ChildOf(f[i - 1], s[i]) /\ g[i] = ChildOf(g[i - 1], t[i])
    BY <2>4, WalksAre
  <2>7. s[i] = t[i]
    BY <2>4
  <2> QED
    BY <2>2, <2>5, <2>6, <2>7
<1>2. k \in 0 .. k
  OBVIOUS
<1> QED
  BY <1>1, <1>2

\* Walk is the end of the walk.
LEMMA WalkIs == \A parts : Walk(parts) = WalkOf(parts, Len(parts))[Len(parts)]
  BY Zenon DEF Walk, WalkOf, IsWalk

\* A path is walked one component at a time.
LEMMA WalkStep ==
  /\ Walk(<<>>) = RootInode
  /\ \A S : \A parts \in Seq(S) : parts # <<>> =>
       Walk(parts) = ChildOf(Walk(Front(parts)), Last(parts))
<1>1. Walk(<<>>) = RootInode
  <2>1. Len(<<>>) = 0 /\ 0 \in Nat
    OBVIOUS
  <2> DEFINE f == WalkOf(<<>>, 0)
  <2>2. IsWalk(<<>>, 0, f)
    BY <2>1, WalksExist, Zenon
  <2>3. Walk(<<>>) = f[0]
    BY <2>1, WalkIs, Zenon
  <2> HIDE DEF f
  <2>4. f[0] = RootInode
    BY <2>1, <2>2, WalksAre
  <2> QED
    BY <2>3, <2>4
<1>2. ASSUME NEW S, NEW parts \in Seq(S), parts # <<>>
      PROVE  Walk(parts) = ChildOf(Walk(Front(parts)), Last(parts))
  <2> DEFINE n == Len(parts)
             front == Front(parts)
  <2>1. n \in Nat \ {0} /\ n - 1 \in Nat /\ n \in 1 .. n /\ n - 1 <= n
    BY <1>2
  <2>2. Len(front) = n - 1 /\ \A i \in 1 .. n - 1 : front[i] = parts[i]
    <3>1. front = SubSeq(parts, 1, n - 1)
      BY DEF Front
    <3>2. \A i \in 1 .. n - 1 : parts[i] \in S
      BY <2>1
    <3>3. /\ Len(SubSeq(parts, 1, n - 1)) = IF 1 <= n - 1 THEN n - 1 - 1 + 1 ELSE 0
          /\ \A i \in 1 .. n - 1 - 1 + 1 : SubSeq(parts, 1, n - 1)[i] = parts[1 + i - 1]
      BY <2>1, <3>2, SubSeqProperties
    <3> HIDE DEF n
    <3> QED
      BY <2>1, <3>1, <3>3
  <2>3. Last(parts) = parts[n]
    BY DEF Last
  <2> DEFINE f == WalkOf(parts, n)
             g == WalkOf(front, n - 1)
  <2> HIDE DEF n, front
  <2>4. IsWalk(parts, n, f) /\ IsWalk(front, n - 1, g)
    BY <2>1, WalksExist
  <2>5. Walk(parts) = f[n] /\ Walk(front) = g[n - 1]
    BY <2>2, WalkIs DEF n
  <2> HIDE DEF f, g
  <2>6. f[n] = ChildOf(f[n - 1], parts[n])
    BY <2>1, <2>4, WalksAre
  <2>7. f[n - 1] = g[n - 1]
    BY <2>1, <2>2, <2>4, WalksAgree
  <2> QED
    BY <2>3, <2>5, <2>6, <2>7 DEF front
<1> QED
  BY <1>1, <1>2

-----------------------------------------------------------------------------
(* What looking a name up finds *)

\* What is there: the root, and what has not been deleted.
Present(n) == n \in DOMAIN inodes /\ (n = RootInode \/ NameOf(n) # Deleted)

\* Numbers are naturals, and a directory's children are entries.
LEMMA Numbers ==
  ASSUME Numbered
  PROVE  /\ DOMAIN inodes \subseteq Nat /\ RootInode \in DOMAIN inodes /\ NotFound \notin DOMAIN inodes
         /\ next_inode_num \in Nat \ {0} /\ DOMAIN inodes = 0 .. next_inode_num - 1
         /\ \A d \in DOMAIN inodes :
              /\ Len(Kids(d)) \in Nat /\ DOMAIN inodes[d].children = 1 .. Len(Kids(d))
              /\ \A i \in 1 .. Len(Kids(d)) : Kids(d)[i] \in DOMAIN inodes \ {RootInode}
<1>1. PICK N \in Nat \ {0} : DOMAIN inodes = 0 .. N - 1
  BY DEF Numbered
<1>2. DOMAIN inodes \subseteq Nat /\ RootInode \in DOMAIN inodes /\ NotFound \notin DOMAIN inodes
  BY <1>1 DEF RootInode, NotFound
<1>3. next_inode_num = N
  <2>1. N - 1 \in Int /\ 0 \in Int
    OBVIOUS
  <2>2. Cardinality(0 .. N - 1) = IF 0 > N - 1 THEN 0 ELSE N - 1 - 0 + 1
    BY <2>1, FS_Interval, Zenon
  <2> QED
    BY <1>1, <2>2 DEF next_inode_num
<1>4. ASSUME NEW d \in DOMAIN inodes
      PROVE  /\ Len(Kids(d)) \in Nat /\ DOMAIN inodes[d].children = 1 .. Len(Kids(d))
             /\ \A i \in 1 .. Len(Kids(d)) : Kids(d)[i] \in DOMAIN inodes \ {RootInode}
  <2>1. Kids(d) \in Seq(DOMAIN inodes \ {RootInode})
    BY DEF Numbered
  <2>2. inodes[d].children = Kids(d)
    BY DEF Kids
  <2> QED
    BY <2>1, <2>2
<1> QED
  BY <1>1, <1>2, <1>3, <1>4

\* A name is found at a child of that name, and when it is not there is none.
LEMMA ChildIs ==
  ASSUME Numbered, NEW d \in DOMAIN inodes, NEW name
  PROVE  \/ /\ ChildOf(d, name) = NotFound
            /\ IsDirectory(d) => \A i \in 1 .. Len(Kids(d)) : NameOf(Kids(d)[i]) # name
         \/ /\ ChildOf(d, name) # NotFound
            /\ IsDirectory(d)
            /\ \E i \in 1 .. Len(Kids(d)) : Kids(d)[i] = ChildOf(d, name) /\ NameOf(Kids(d)[i]) = name
<1> DEFINE matches == {i \in 1 .. Len(Kids(d)) : NameOf(Kids(d)[i]) = name}
<1>1. d # NotFound /\ ChildOf(d, name) = IF ~IsDirectory(d) \/ matches = {} THEN NotFound
                                         ELSE Kids(d)[Min(matches)]
  BY Numbers DEF ChildOf, Kids, NameOf
<1>2. CASE ~IsDirectory(d) \/ matches = {}
  BY <1>1, <1>2
<1>3. CASE IsDirectory(d) /\ matches # {}
  <2>1. matches \subseteq Nat
    OBVIOUS
  <2>2. Min(matches) \in matches
    <3> HIDE DEF matches
    <3> QED
      BY <1>3, <2>1, MinInSet
  <2> DEFINE i == Min(matches)
  <2> HIDE DEF i
  <2>3. i \in 1 .. Len(Kids(d)) /\ NameOf(Kids(d)[i]) = name
    BY <2>2 DEF i
  <2>4. ChildOf(d, name) = Kids(d)[i]
    BY <1>1, <1>3 DEF i
  <2>5. Kids(d)[i] # NotFound
    BY <2>3, Numbers
  <2> QED
    BY <1>3, <2>3, <2>4, <2>5
<1> QED
  BY <1>2, <1>3

\* A walk that arrives arrives at something that is there.
LEMMA WalkFinds ==
  ASSUME TreeInv, NEW S, NEW parts \in Seq(S)
  PROVE  Walk(parts) = NotFound \/ Present(Walk(parts))
<1> DEFINE n == Len(parts)
           f == WalkOf(parts, n)
<1>1. n \in Nat
  OBVIOUS
<1>2. IsWalk(parts, n, f)
  BY <1>1, WalksExist
<1>3. Walk(parts) = f[n]
  BY WalkIs
<1> HIDE DEF n, f
<1>4. f[0] = RootInode /\ \A i \in 1 .. n : f[i] = ChildOf(f[i - 1], parts[i])
  BY <1>1, <1>2, WalksAre
<1> DEFINE Off == {i \in 0 .. n : ~(f[i] = NotFound \/ Present(f[i]))}
<1>5. Off = {}
  <2> SUFFICES ASSUME Off # {} PROVE FALSE
    OBVIOUS
  <2> DEFINE m == Min(Off)
  <2>1. m \in Off /\ \A x \in Off : m <= x
    <3>1. Off \subseteq Nat
      OBVIOUS
    <3> QED
      BY <3>1, MinInSet
  <2> HIDE DEF m
  <2>2. m \in 0 .. n /\ ~(f[m] = NotFound \/ Present(f[m]))
    BY <2>1
  <2>3. m # 0
    <3>1. Present(RootInode)
      BY Numbers DEF Present, TreeInv
    <3> QED
      BY <1>4, <2>2, <3>1
  <2>4. m - 1 \in 0 .. n /\ ~(m <= m - 1) /\ m \in 1 .. n
    BY <1>1, <2>2, <2>3
  <2>5. f[m - 1] = NotFound \/ Present(f[m - 1])
    BY <2>1, <2>4
  <2> DEFINE d == f[m - 1]
  <2>6. f[m] = ChildOf(d, parts[m])
    BY <1>4, <2>4
  <2> HIDE DEF d
  <2>7. CASE d = NotFound
    <3>1. ChildOf(NotFound, parts[m]) = NotFound
      BY DEF ChildOf
    <3> QED
      BY <2>2, <2>6, <2>7, <3>1
  <2>8. CASE Present(d)
    <3>1. d \in DOMAIN inodes /\ Numbered
      BY <2>8 DEF Present, TreeInv
    <3>2. ChildOf(d, parts[m]) # NotFound
      BY <2>2, <2>6
    <3>3. PICK i \in 1 .. Len(Kids(d)) : Kids(d)[i] = ChildOf(d, parts[m])
      BY <3>1, <3>2, ChildIs
    <3>4. ListedBy(d, i)
      BY <3>1 DEF TreeInv
    <3>5. Kids(d)[i] \in DOMAIN inodes /\ NameOf(Kids(d)[i]) # Deleted
      BY <3>1, <3>4, Numbers DEF ListedBy
    <3> QED
      BY <2>2, <2>6, <3>3, <3>5 DEF Present
  <2> QED
    BY <2>5, <2>7, <2>8 DEF d
<1>6. n \in 0 .. n
  BY <1>1
<1> QED
  BY <1>3, <1>5, <1>6

\* Paths are sequences of names.
LEMMA ComponentsAre == \A parts \in Components : parts \in Seq(Names)
<1> SUFFICES ASSUME NEW parts \in Components PROVE parts \in Seq(Names)
  OBVIOUS
<1>1. PICK m \in 0 .. MaxDepth : parts \in [1 .. m -> Names]
  BY DEF Components, BoundedSeq, SeqOf
<1>2. m \in Nat
  <2>1. MaxDepth \in Nat
    BY MemoryFsAssumption, Zenon
  <2> QED
    BY <2>1
<1> QED
  BY <1>1, <1>2

\* And are spelled as some path is.
LEMMA PathsAre == \A path \in Paths : path.parts \in Seq(Names) /\ path.spelling \in Spellings
  BY ComponentsAre DEF Paths

\* Where something new goes is a directory that is there, and the name is the path's last.
LEMMA ParentIs ==
  ASSUME TreeInv, NEW path \in Paths, Parent(path.parts) # NotFound
  PROVE  /\ path.parts # <<>> /\ Last(path.parts) \in Names /\ Last(path.parts) # Deleted
         /\ Present(Parent(path.parts)) /\ IsDirectory(Parent(path.parts))
         /\ Walk(path.parts) = ChildOf(Parent(path.parts), Last(path.parts))
<1> DEFINE parts == path.parts
           p == Parent(parts)
<1>1. parts \in Seq(Names)
  BY PathsAre
<1> HIDE DEF parts
<1>2. parts # <<>> /\ p = Walk(Front(parts)) /\ IsDirectory(p) /\ p # NotFound
  BY DEF Parent, parts
<1>3. Len(parts) \in 1 .. Len(parts) /\ parts[Len(parts)] \in Names
  BY <1>1, <1>2
<1>4. Last(parts) \in Names /\ Last(parts) # Deleted
  BY <1>3, MemoryFsAssumption DEF Last, Deleted
<1>5. Front(parts) \in Seq(Names)
  <2>1. Len(parts) - 1 \in Int /\ 1 \in Int /\ \A i \in 1 .. Len(parts) - 1 : parts[i] \in Names
    BY <1>1
  <2> QED
    BY <2>1, SubSeqProperties DEF Front
<1>6. Present(p)
  BY <1>2, <1>5, WalkFinds
<1>7. Walk(parts) = ChildOf(p, Last(parts))
  BY <1>1, <1>2, WalkStep
<1> QED
  BY <1>2, <1>4, <1>6, <1>7 DEF parts

-----------------------------------------------------------------------------
(* A file's data changes: by a write, or by open with TRUNCATE. *)

SameNode(n) ==
  /\ DOMAIN inodes'[n] = DOMAIN inodes[n]
  /\ inodes'[n].type = inodes[n].type
  /\ inodes'[n].name = inodes[n].name
  /\ inodes'[n].parent_inode = inodes[n].parent_inode

SameTree ==
  /\ DOMAIN inodes' = DOMAIN inodes
  /\ \A n \in DOMAIN inodes : SameNode(n) /\ inodes'[n].children = inodes[n].children

\* The rest of the inode stays, and so do the others.
LEMMA DataChanges ==
  ASSUME Numbered, NEW n, NEW data, inodes' = [inodes EXCEPT ![n].data = data]
  PROVE  SameTree
<1>1. DOMAIN inodes' = DOMAIN inodes
  OBVIOUS
<1>2. ASSUME NEW m \in DOMAIN inodes PROVE SameNode(m) /\ inodes'[m].children = inodes[m].children
  <2>1. DOMAIN inodes[m] = {"type", "name", "parent_inode", "data", "children"}
    BY DEF Numbered
  <2>2. CASE m = n
    <3>1. inodes'[m] = [inodes[m] EXCEPT !.data = data]
      BY <2>2
    <3> QED
      BY <2>1, <3>1 DEF SameNode
  <2>3. CASE m # n
    <3>1. inodes'[m] = inodes[m]
      BY <2>3
    <3> QED
      BY <3>1 DEF SameNode
  <2> QED
    BY <2>2, <2>3
<1> QED
  BY <1>1, <1>2 DEF SameTree

\* Which tells directories nothing.
LEMMA SameTreeKeeps ==
  ASSUME SameTree
  PROVE  /\ TreeInv => TreeInv'
         /\ Numbered /\ NamesInv => NamesInv'
<1>1. DOMAIN inodes' = DOMAIN inodes
  BY DEF SameTree
<1>2. \A n \in DOMAIN inodes :
        /\ DOMAIN inodes'[n] = DOMAIN inodes[n]
        /\ inodes'[n].type = inodes[n].type
        /\ inodes'[n].parent_inode = inodes[n].parent_inode
        /\ NameOf(n)' = NameOf(n) /\ Kids(n)' = Kids(n)
        /\ IsDirectory(n)' = IsDirectory(n)
  BY DEF SameTree, SameNode, NameOf, Kids, IsDirectory
<1>3. Numbered => Numbered'
  BY <1>1, <1>2 DEF Numbered
<1>4. ASSUME TreeInv PROVE TreeInv'
  <2>1. Numbered /\ Numbered'
    BY <1>3, <1>4 DEF TreeInv
  <2>2. IsDirectory(RootInode)' /\ NameOf(RootInode)' = Deleted
    BY <1>2, <1>4, <2>1, Numbers DEF TreeInv
  <2>3. ASSUME NEW d \in DOMAIN inodes, NEW i \in 1 .. Len(Kids(d)) PROVE ListedBy(d, i)'
    <3>1. ListedBy(d, i) /\ Kids(d)[i] \in DOMAIN inodes
      BY <1>4, <2>1, Numbers DEF TreeInv
    <3> QED
      BY <1>2, <3>1 DEF ListedBy
  <2>4. ASSUME NEW n \in DOMAIN inodes \ {RootInode}, NameOf(n) # Deleted PROVE Listed(n)'
    <3>1. Listed(n) /\ inodes[n].parent_inode \in DOMAIN inodes
      BY <1>4, <2>1, <2>4 DEF TreeInv, Numbered
    <3> QED
      BY <1>2, <3>1 DEF Listed
  <2> QED
    BY <1>1, <1>2, <2>1, <2>2, <2>3, <2>4 DEF TreeInv
<1>5. ASSUME NamesInv, Numbered PROVE NamesInv'
  <2> SUFFICES ASSUME NEW d \in DOMAIN inodes', NEW i \in 1 .. Len(Kids(d)'), NEW j \in 1 .. Len(Kids(d)'),
                      NameOf(Kids(d)[i])' = NameOf(Kids(d)[j])'
               PROVE  i = j
    BY DEF NamesInv
  <2>1. d \in DOMAIN inodes /\ Kids(d)' = Kids(d)
    BY <1>1, <1>2
  <2>2. Kids(d)[i] \in DOMAIN inodes /\ Kids(d)[j] \in DOMAIN inodes
    BY <1>5, <2>1, Numbers
  <2>3. inodes'[Kids(d)[i]].name = inodes'[Kids(d)[j]].name
    BY <2>1 DEF NameOf
  <2>4. inodes[Kids(d)[i]].name = inodes[Kids(d)[j]].name
    BY <2>2, <2>3 DEF SameTree, SameNode
  <2> QED
    BY <1>5, <2>1, <2>4 DEF NamesInv, NameOf
<1> QED
  BY <1>4, <1>5

-----------------------------------------------------------------------------
(* A file or a directory is made. *)

\* Added adds an inode, and its number to its parent's children.
LEMMA AddedIs ==
  ASSUME Numbered, NEW type, NEW parts, NEW p \in DOMAIN inodes, Parent(parts) = p,
         NEW N, N = next_inode_num, inodes' = Added(type, parts)
  PROVE  /\ DOMAIN inodes' = DOMAIN inodes \cup {N} /\ N \notin DOMAIN inodes
         /\ inodes'[N] = NewInode(type, Last(parts), p)
         /\ \A n \in DOMAIN inodes :
              /\ SameNode(n)
              /\ inodes'[n].children = IF n = p THEN Append(inodes[n].children, N)
                                       ELSE inodes[n].children
<1> DEFINE linked == [inodes EXCEPT ![p].children = Append(@, N)]
<1>1. inodes' = [x \in DOMAIN inodes \cup {N} |->
                   IF x = N THEN NewInode(type, Last(parts), p) ELSE linked[x]]
  BY Zenon DEF Added
<1>2. N \notin DOMAIN inodes
  BY Numbers
<1>4. ASSUME NEW n \in DOMAIN inodes
      PROVE  linked[n] = IF n = p THEN [inodes[n] EXCEPT !.children = Append(inodes[n].children, N)]
                         ELSE inodes[n]
  OBVIOUS
<1> HIDE DEF linked
<1>6. DOMAIN inodes' = DOMAIN inodes \cup {N} /\ inodes'[N] = NewInode(type, Last(parts), p)
      /\ \A n \in DOMAIN inodes : inodes'[n] = linked[n]
  BY <1>1, <1>2
<1>7. ASSUME NEW n \in DOMAIN inodes
      PROVE  /\ SameNode(n)
             /\ inodes'[n].children = IF n = p THEN Append(inodes[n].children, N)
                                      ELSE inodes[n].children
  <2>1. DOMAIN inodes[n] = {"type", "name", "parent_inode", "data", "children"}
    BY DEF Numbered
  <2>2. CASE n = p
    <3>1. inodes'[n] = [inodes[n] EXCEPT !.children = Append(inodes[n].children, N)]
      BY <1>4, <1>6, <2>2
    <3> QED
      BY <2>1, <2>2, <3>1 DEF SameNode
  <2>3. CASE n # p
    <3>1. inodes'[n] = inodes[n]
      BY <1>4, <1>6, <2>3
    <3> QED
      BY <2>3, <3>1 DEF SameNode
  <2> QED
    BY <2>2, <2>3
<1> QED
  BY <1>2, <1>6, <1>7

\* It is listed once, by a directory that is there, and the others as before.
LEMMA AddKeeps ==
  ASSUME TreeInv, NEW type, NEW name, name # Deleted, NEW p, Present(p), IsDirectory(p),
         NEW N, N = next_inode_num, DOMAIN inodes' = DOMAIN inodes \cup {N}, N \notin DOMAIN inodes,
         inodes'[N] = NewInode(type, name, p),
         \A n \in DOMAIN inodes :
              /\ SameNode(n)
              /\ inodes'[n].children = IF n = p THEN Append(inodes[n].children, N)
                                       ELSE inodes[n].children
  PROVE  /\ TreeInv'
         /\ NamesInv /\ (\A i \in 1 .. Len(Kids(p)) : NameOf(Kids(p)[i]) # name) => NamesInv'
<1>1. p \in DOMAIN inodes /\ (p = RootInode \/ NameOf(p) # Deleted) /\ Numbered
  BY DEF Present, TreeInv
<1> DEFINE kids(d) == inodes'[d].children
           D == DOMAIN inodes
<1>2. /\ inodes'[N].parent_inode = p /\ inodes'[N].name = name /\ kids(N) = <<>>
      /\ DOMAIN inodes'[N] = {"type", "name", "parent_inode", "data", "children"}
  BY DEF NewInode
<1>3. /\ N \in Nat \ {0} /\ D = 0 .. N - 1 /\ RootInode \in D /\ N # RootInode
      /\ \A d \in D : /\ Kids(d) \in Seq(D \ {RootInode}) /\ Len(Kids(d)) \in Nat
                      /\ \A i \in 1 .. Len(Kids(d)) : Kids(d)[i] \in D \ {RootInode}
  BY <1>1, Numbers DEF Numbered, RootInode
<1>4. /\ kids(p) \in Seq((D \cup {N}) \ {RootInode}) /\ Len(kids(p)) = Len(Kids(p)) + 1
      /\ kids(p)[Len(Kids(p)) + 1] = N
      /\ \A i \in 1 .. Len(Kids(p)) : kids(p)[i] = Kids(p)[i]
  <2>1. kids(p) = Append(Kids(p), N)
    BY <1>1 DEF Kids
  <2>2. Kids(p) \in Seq((D \cup {N}) \ {RootInode})
    <3>1. Kids(p) \in Seq(D \ {RootInode}) /\ D \ {RootInode} \subseteq (D \cup {N}) \ {RootInode}
      BY <1>1, <1>3
    <3> QED
      BY <3>1, SeqMonotonic
  <2>3. N \in (D \cup {N}) \ {RootInode}
    BY <1>3
  <2> HIDE DEF kids, D
  <2> QED
    BY <2>1, <2>2, <2>3, AppendProperties
<1>5. \A d \in D \ {p} : kids(d) = Kids(d)
  BY DEF Kids
<1> HIDE DEF kids, D
<1>6. ASSUME NEW d \in D \cup {N}
      PROVE  /\ kids(d) \in Seq((D \cup {N}) \ {RootInode})
             /\ \A i \in 1 .. Len(kids(d)) :
                  \/ d \in D /\ i \in 1 .. Len(Kids(d)) /\ kids(d)[i] = Kids(d)[i] /\ Kids(d)[i] \in D
                  \/ d = p /\ i = Len(Kids(p)) + 1 /\ kids(d)[i] = N
  <2>1. CASE d = N
    BY <1>2, <2>1
  <2>2. CASE d = p
    <3>1. \A i \in 1 .. Len(Kids(p)) + 1 : i \in 1 .. Len(Kids(p)) \/ i = Len(Kids(p)) + 1
      BY <1>1, <1>3 DEF D
    <3> QED
      BY <1>1, <1>3, <1>4, <2>2, <3>1 DEF D
  <2>3. CASE d \in D \ {p}
    <3>1. Kids(d) \in Seq(D \ {RootInode}) /\ D \ {RootInode} \subseteq (D \cup {N}) \ {RootInode}
      BY <1>3, <2>3
    <3>2. Kids(d) \in Seq((D \cup {N}) \ {RootInode})
      BY <3>1, SeqMonotonic
    <3> QED
      BY <1>3, <1>5, <2>3, <3>2
  <2> QED
    BY <2>1, <2>2, <2>3
<1>7. Numbered'
  <2>1. N + 1 \in Nat \ {0} /\ DOMAIN inodes' = 0 .. (N + 1) - 1
    BY <1>3 DEF D
  <2>2. ASSUME NEW n \in DOMAIN inodes'
        PROVE  /\ DOMAIN inodes'[n] = {"type", "name", "parent_inode", "data", "children"}
               /\ inodes'[n].children \in Seq(DOMAIN inodes' \ {RootInode})
               /\ inodes'[n].parent_inode \in DOMAIN inodes'
    <3>1. inodes'[n].children \in Seq(DOMAIN inodes' \ {RootInode})
      BY <1>6 DEF D, kids
    <3>2. CASE n = N
      BY <1>1, <1>2, <3>1, <3>2
    <3>3. CASE n \in DOMAIN inodes
      BY <1>1, <3>1, <3>3 DEF Numbered, SameNode
    <3> QED
      BY <3>2, <3>3
  <2> QED
    BY <2>1, <2>2 DEF Numbered, Kids
<1>8. ASSUME NEW d \in D \cup {N}, NEW i \in 1 .. Len(kids(d))
      PROVE  /\ inodes'[d].type = "DIRECTORY"
             /\ d = RootInode \/ inodes'[d].name # Deleted
             /\ inodes'[kids(d)[i]].parent_inode = d
             /\ inodes'[kids(d)[i]].name # Deleted
             /\ \A j \in 1 .. Len(kids(d)) : kids(d)[j] = kids(d)[i] => i = j
  <2>1. CASE /\ d \in D /\ i \in 1 .. Len(Kids(d)) /\ kids(d)[i] = Kids(d)[i] /\ Kids(d)[i] \in D
    <3>1. ListedBy(d, i)
      BY <2>1 DEF TreeInv, D
    <3>2. SameNode(d) /\ SameNode(Kids(d)[i])
      BY <2>1 DEF D
    <3>3. ASSUME NEW j \in 1 .. Len(kids(d)), kids(d)[j] = kids(d)[i] PROVE i = j
      <4>1. j \in 1 .. Len(Kids(d)) /\ kids(d)[j] = Kids(d)[j]
        BY <1>6, <2>1, <3>3 DEF D
      <4> QED
        BY <2>1, <3>1, <3>3, <4>1 DEF ListedBy
    <3> QED
      BY <2>1, <3>1, <3>2, <3>3 DEF ListedBy, SameNode, IsDirectory, NameOf
  <2>2. CASE d = p /\ i = Len(Kids(p)) + 1 /\ kids(d)[i] = N
    <3>1. SameNode(p)
      BY <1>1
    <3>2. \A j \in 1 .. Len(kids(d)) : kids(d)[j] = N => j = i
      BY <1>6, <2>2 DEF D
    <3> QED
      BY <1>1, <1>2, <2>2, <3>1, <3>2 DEF SameNode, IsDirectory, NameOf
  <2> QED
    BY <1>6, <2>1, <2>2
<1>9. ASSUME NEW n \in (D \cup {N}) \ {RootInode}, inodes'[n].name # Deleted
      PROVE  \E i \in 1 .. Len(kids(inodes'[n].parent_inode)) : kids(inodes'[n].parent_inode)[i] = n
  <2>1. CASE n = N
    <3>1. Len(Kids(p)) + 1 \in 1 .. Len(kids(p))
      BY <1>1, <1>3, <1>4 DEF D
    <3> QED
      BY <1>2, <1>4, <2>1, <3>1
  <2>2. CASE n \in D
    <3> DEFINE q == inodes[n].parent_inode
    <3>1. inodes'[n].parent_inode = q /\ NameOf(n) # Deleted /\ q \in D
      BY <1>1, <1>9, <2>2 DEF SameNode, NameOf, D, Numbered
    <3> HIDE DEF q
    <3>2. PICK i \in 1 .. Len(Kids(q)) : Kids(q)[i] = n
      BY <1>9, <2>2, <3>1 DEF TreeInv, Listed, D, q
    <3>3. i \in 1 .. Len(kids(q)) /\ kids(q)[i] = Kids(q)[i]
      <4>1. CASE q = p
        BY <1>1, <1>3, <1>4, <4>1 DEF D
      <4>2. CASE q # p
        BY <1>5, <3>1, <4>2
      <4> QED
        BY <4>1, <4>2
    <3> QED
      BY <3>1, <3>2, <3>3
  <2> QED
    BY <2>1, <2>2
<1>10. TreeInv'
  <2>1. inodes'[RootInode].type = "DIRECTORY" /\ inodes'[RootInode].name = Deleted
    BY <1>3 DEF TreeInv, IsDirectory, NameOf, SameNode, D
  <2> QED
    BY <1>7, <1>8, <1>9, <2>1 DEF TreeInv, ListedBy, Listed, IsDirectory, Kids, NameOf, kids, D
<1>11. ASSUME NamesInv, \A i \in 1 .. Len(Kids(p)) : NameOf(Kids(p)[i]) # name
       PROVE  NamesInv'
  <2>1. ASSUME NEW d \in D \cup {N}, NEW i \in 1 .. Len(kids(d)), NEW j \in 1 .. Len(kids(d)),
               inodes'[kids(d)[i]].name = inodes'[kids(d)[j]].name
        PROVE  i = j
    <3>1. \A k \in 1 .. Len(Kids(d)) : d \in D => inodes'[Kids(d)[k]].name = NameOf(Kids(d)[k])
      BY <1>3 DEF SameNode, NameOf, D
    <3>2. CASE i \in 1 .. Len(Kids(d)) /\ j \in 1 .. Len(Kids(d)) /\ d \in D
               /\ kids(d)[i] = Kids(d)[i] /\ kids(d)[j] = Kids(d)[j]
      BY <1>11, <2>1, <3>1, <3>2 DEF NamesInv, D
    <3>3. CASE d = p /\ i = Len(Kids(p)) + 1 /\ kids(d)[i] = N
      BY <1>1, <1>2, <1>6, <1>11, <2>1, <3>1, <3>3 DEF D
    <3>4. CASE d = p /\ j = Len(Kids(p)) + 1 /\ kids(d)[j] = N
      BY <1>1, <1>2, <1>6, <1>11, <2>1, <3>1, <3>4 DEF D
    <3> QED
      BY <1>6, <3>2, <3>3, <3>4
  <2> QED
    BY <2>1 DEF NamesInv, NameOf, Kids, kids, D
<1> QED
  BY <1>10, <1>11

-----------------------------------------------------------------------------
(* A file or an empty directory is deleted. *)

\* What is listed once is taken off, and the others close up.
LEMMA ChildrenWithoutIs ==
  ASSUME NEW S, NEW kids \in Seq(S), NEW n
  PROVE  /\ (\A j \in 1 .. Len(kids) : kids[j] # n) => ChildrenWithout(kids, n) = kids
         /\ \A i \in 1 .. Len(kids) :
              kids[i] = n /\ (\A j \in 1 .. Len(kids) : kids[j] = n => j = i) =>
                /\ ChildrenWithout(kids, n) \in Seq(S)
                /\ Len(ChildrenWithout(kids, n)) = Len(kids) - 1
                /\ \A j \in 1 .. Len(kids) - 1 :
                     ChildrenWithout(kids, n)[j] = kids[IF j < i THEN j ELSE j + 1]
<1> DEFINE I == {i \in 1 .. Len(kids) : kids[i] = n}
<1>1. ASSUME \A j \in 1 .. Len(kids) : kids[j] # n
      PROVE  ChildrenWithout(kids, n) = kids
  BY <1>1 DEF ChildrenWithout, RemoveFirstMatch
<1>2. ASSUME NEW i \in 1 .. Len(kids), kids[i] = n, \A j \in 1 .. Len(kids) : kids[j] = n => j = i
      PROVE  /\ ChildrenWithout(kids, n) \in Seq(S)
             /\ Len(ChildrenWithout(kids, n)) = Len(kids) - 1
             /\ \A j \in 1 .. Len(kids) - 1 :
                  ChildrenWithout(kids, n)[j] = kids[IF j < i THEN j ELSE j + 1]
  <2>1. I \subseteq Nat /\ I # {}
    BY <1>2
  <2>2. Min(I) = i
    <3>1. Min(I) \in I
      <4> HIDE DEF I
      <4> QED
        BY <2>1, MinInSet
    <3> QED
      BY <1>2, <3>1
  <2>3. ChildrenWithout(kids, n) = SubSeq(kids, 1, Min(I) - 1) \o SubSeq(kids, Min(I) + 1, Len(kids))
    BY <1>2 DEF ChildrenWithout, RemoveFirstMatch, RemoveAt, SelectInSeq
  <2> HIDE DEF I
  <2> DEFINE left == SubSeq(kids, 1, i - 1)
             right == SubSeq(kids, i + 1, Len(kids))
  <2>4. ChildrenWithout(kids, n) = left \o right
    BY <2>2, <2>3
  <2>5. Len(kids) \in Nat /\ \A j \in 1 .. Len(kids) : kids[j] \in S
    OBVIOUS
  <2>6. left \in Seq(S) /\ Len(left) = i - 1 /\ \A j \in 1 .. i - 1 : left[j] = kids[j]
    BY <2>5, SubSeqProperties
  <2>7. /\ right \in Seq(S) /\ Len(right) = Len(kids) - i
        /\ \A j \in 1 .. Len(kids) - i : right[j] = kids[i + j]
    BY <2>5, SubSeqProperties
  <2> HIDE DEF left, right
  <2>8. /\ left \o right \in Seq(S) /\ Len(left \o right) = Len(left) + Len(right)
        /\ \A j \in 1 .. Len(left) + Len(right) :
             (left \o right)[j] = IF j <= Len(left) THEN left[j] ELSE right[j - Len(left)]
    BY <2>6, <2>7, ConcatProperties
  <2>9. ASSUME NEW j \in 1 .. Len(kids) - 1
        PROVE  ChildrenWithout(kids, n)[j] = kids[IF j < i THEN j ELSE j + 1]
    <3>1. j \in 1 .. Len(left) + Len(right)
      BY <2>5, <2>6, <2>7
    <3>2. CASE j < i
      <4>1. j <= Len(left) /\ j \in 1 .. i - 1
        BY <2>6, <3>2
      <4>2. (left \o right)[j] = left[j]
        BY <2>8, <3>1, <4>1
      <4> QED
        BY <2>4, <2>6, <3>2, <4>1, <4>2
    <3>3. CASE ~(j < i)
      <4>1. ~(j <= Len(left)) /\ j - Len(left) \in 1 .. Len(kids) - i
            /\ i + (j - Len(left)) = j + 1
        BY <2>5, <2>6, <3>3
      <4>2. (left \o right)[j] = right[j - Len(left)]
        BY <2>8, <3>1, <4>1
      <4>3. right[j - Len(left)] = kids[i + (j - Len(left))]
        BY <2>7, <4>1
      <4> QED
        BY <2>4, <3>3, <4>1, <4>2, <4>3
    <3> QED
      BY <3>2, <3>3
  <2>10. Len(left) + Len(right) = Len(kids) - 1
    BY <2>5, <2>6, <2>7
  <2>11. ChildrenWithout(kids, n) \in Seq(S) /\ Len(ChildrenWithout(kids, n)) = Len(kids) - 1
    BY <2>4, <2>8, <2>10, Zenon
  <2> QED
    BY <2>9, <2>11, Zenon
<1> QED
  BY <1>1, <1>2

\* Removed changes n, and its parent's children.
LEMMA RemovedIs ==
  ASSUME Numbered, NEW n \in DOMAIN inodes, NEW p, p = inodes[n].parent_inode,
         n # p \/ Kids(n) = <<>>, inodes' = Removed(n)
  PROVE  /\ DOMAIN inodes' = DOMAIN inodes
         /\ \A m \in DOMAIN inodes :
              /\ DOMAIN inodes'[m] = DOMAIN inodes[m]
              /\ inodes'[m].type = inodes[m].type
              /\ inodes'[m].parent_inode = inodes[m].parent_inode
              /\ inodes'[m].name = IF m = n THEN Deleted ELSE inodes[m].name
              /\ inodes'[m].children = IF m = p THEN ChildrenWithout(inodes[m].children, n)
                                       ELSE inodes[m].children
<1> DEFINE unlinked == [inodes EXCEPT ![p].children = ChildrenWithout(@, n)]
<1>1. inodes' = [unlinked EXCEPT ![n].name = Deleted, ![n].data = <<>>]
  BY Zenon DEF Removed
<1>2. p \in DOMAIN inodes /\ \A m \in DOMAIN inodes :
        DOMAIN inodes[m] = {"type", "name", "parent_inode", "data", "children"}
  BY DEF Numbered
<1>3. DOMAIN unlinked = DOMAIN inodes
  OBVIOUS
<1>4. ASSUME NEW m \in DOMAIN inodes
      PROVE  unlinked[m] = IF m = p THEN [inodes[m] EXCEPT !.children = ChildrenWithout(inodes[m].children, n)]
                           ELSE inodes[m]
  OBVIOUS
<1> HIDE DEF unlinked
<1>5. DOMAIN inodes' = DOMAIN inodes
  BY <1>1, <1>3
<1>6. ASSUME NEW m \in DOMAIN inodes
      PROVE  inodes'[m] = IF m = n THEN [unlinked[m] EXCEPT !.name = Deleted, !.data = <<>>]
                          ELSE unlinked[m]
  BY <1>1, <1>3
<1>7. ASSUME NEW m \in DOMAIN inodes
      PROVE  /\ DOMAIN unlinked[m] = DOMAIN inodes[m]
             /\ unlinked[m].type = inodes[m].type
             /\ unlinked[m].parent_inode = inodes[m].parent_inode
             /\ unlinked[m].name = inodes[m].name
             /\ unlinked[m].children = IF m = p THEN ChildrenWithout(inodes[m].children, n)
                                       ELSE inodes[m].children
  BY <1>2, <1>4
<1>8. ASSUME NEW m \in DOMAIN inodes
      PROVE  /\ DOMAIN inodes'[m] = DOMAIN unlinked[m]
             /\ inodes'[m].type = unlinked[m].type
             /\ inodes'[m].parent_inode = unlinked[m].parent_inode
             /\ inodes'[m].name = IF m = n THEN Deleted ELSE unlinked[m].name
             /\ inodes'[m].children = unlinked[m].children
  <2>1. DOMAIN unlinked[m] = {"type", "name", "parent_inode", "data", "children"}
    BY <1>2, <1>7
  <2>2. CASE m = n
    <3> DEFINE node == unlinked[m]
    <3>1. inodes'[m] = [node EXCEPT !.name = Deleted, !.data = <<>>]
      BY <1>6, <2>2
    <3>2. DOMAIN node = {"type", "name", "parent_inode", "data", "children"}
      BY <2>1
    <3> HIDE DEF node
    <3>3. /\ DOMAIN inodes'[m] = DOMAIN node
          /\ inodes'[m].type = node.type
          /\ inodes'[m].parent_inode = node.parent_inode
          /\ inodes'[m].name = Deleted
          /\ inodes'[m].children = node.children
      BY <3>1, <3>2
    <3> QED
      BY <2>2, <3>3 DEF node
  <2>3. CASE m # n
    <3>1. inodes'[m] = unlinked[m]
      BY <1>6, <2>3
    <3> QED
      BY <2>3, <3>1
  <2> QED
    BY <2>2, <2>3
<1> QED
  BY <1>5, <1>7, <1>8

\* It is not listed any more, and the others as before.
LEMMA RemoveKeeps ==
  ASSUME TreeInv, NEW n, Present(n), Kids(n) = <<>>, inodes' = Removed(n)
  PROVE  TreeInv' /\ (NamesInv => NamesInv')
<1> DEFINE p == inodes[n].parent_inode
           D == DOMAIN inodes
           kids(d) == inodes'[d].children
<1>1. n \in D /\ Numbered /\ p \in D
  BY DEF Present, TreeInv, Numbered
<1>2. /\ DOMAIN inodes' = D
      /\ \A m \in D :
           /\ DOMAIN inodes'[m] = DOMAIN inodes[m]
           /\ inodes'[m].type = inodes[m].type
           /\ inodes'[m].parent_inode = inodes[m].parent_inode
           /\ inodes'[m].name = IF m = n THEN Deleted ELSE inodes[m].name
           /\ kids(m) = IF m = p THEN ChildrenWithout(Kids(m), n) ELSE Kids(m)
  BY <1>1, RemovedIs DEF Kids
<1>3. /\ RootInode \in D
      /\ \A d \in D : /\ Kids(d) \in Seq(D \ {RootInode}) /\ Len(Kids(d)) \in Nat
                      /\ \A i \in 1 .. Len(Kids(d)) : Kids(d)[i] \in D \ {RootInode}
  BY <1>1, Numbers DEF Numbered
<1> HIDE DEF p, D
<1>4. CASE n = RootInode
  <2>1. ChildrenWithout(Kids(p), n) = Kids(p)
    <3>1. Kids(p) \in Seq(D \ {RootInode}) /\ \A i \in 1 .. Len(Kids(p)) : Kids(p)[i] # n
      BY <1>1, <1>3, <1>4
    <3> QED
      BY <3>1, ChildrenWithoutIs
  <2>2. inodes[n].name = Deleted
    BY <1>4 DEF TreeInv, NameOf
  <2>3. ASSUME NEW m \in D PROVE SameNode(m) /\ inodes'[m].children = inodes[m].children
    BY <1>2, <2>1, <2>2 DEF SameNode, Kids
  <2>4. SameTree
    BY <1>2, <2>3 DEF SameTree, D
  <2> QED
    BY <1>1, <2>4, SameTreeKeeps
<1>5. CASE n # RootInode
  <2>1. NameOf(n) # Deleted /\ Listed(n)
    BY <1>1, <1>5 DEF Present, TreeInv, D
  <2>2. PICK k \in 1 .. Len(Kids(p)) : Kids(p)[k] = n
    BY <2>1 DEF Listed, p
  <2>3. \A j \in 1 .. Len(Kids(p)) : Kids(p)[j] = n => j = k
    BY <1>1, <2>2 DEF TreeInv, ListedBy, D
  <2>4. n # p
    BY <2>2
  <2>5. \A d \in D \ {p} : \A i \in 1 .. Len(Kids(d)) : Kids(d)[i] # n
    <3> SUFFICES ASSUME NEW d \in D \ {p}, NEW i \in 1 .. Len(Kids(d)), Kids(d)[i] = n PROVE FALSE
      OBVIOUS
    <3>1. inodes[Kids(d)[i]].parent_inode = d
      BY DEF TreeInv, ListedBy, D
    <3> QED
      BY <3>1 DEF p
  <2>6. /\ kids(p) \in Seq(D \ {RootInode}) /\ Len(kids(p)) = Len(Kids(p)) - 1
        /\ \A j \in 1 .. Len(Kids(p)) - 1 : kids(p)[j] = Kids(p)[IF j < k THEN j ELSE j + 1]
    <3>1. Kids(p) \in Seq(D \ {RootInode}) /\ kids(p) = ChildrenWithout(Kids(p), n)
      BY <1>1, <1>2, <1>3
    <3> HIDE DEF kids
    <3> QED
      BY <2>2, <2>3, <3>1, ChildrenWithoutIs
  <2>7. \A d \in D \ {p} : kids(d) = Kids(d)
    BY <1>2
  <2> HIDE DEF kids
  <2> DEFINE place(d, i) == IF d = p /\ ~(i < k) THEN i + 1 ELSE i
  <2>8. ASSUME NEW d \in D, NEW i \in 1 .. Len(kids(d))
        PROVE  /\ place(d, i) \in 1 .. Len(Kids(d)) /\ kids(d)[i] = Kids(d)[place(d, i)]
               /\ Kids(d)[place(d, i)] # n
    <3>1. CASE d = p
      <4>1. i \in 1 .. Len(Kids(p)) - 1 /\ Len(Kids(p)) \in Nat
        BY <1>1, <1>3, <2>6, <3>1
      <4>2. place(p, i) = (IF i < k THEN i ELSE i + 1) /\ place(p, i) \in 1 .. Len(Kids(p)) /\ place(p, i) # k
        BY <2>2, <4>1
      <4> QED
        BY <2>3, <2>6, <3>1, <4>1, <4>2
    <3>2. CASE d # p
      BY <2>5, <2>7, <3>2
    <3> QED
      BY <3>1, <3>2
  <2>9. ASSUME NEW d \in D, NEW i \in 1 .. Len(kids(d)), NEW j \in 1 .. Len(kids(d)), place(d, i) = place(d, j)
        PROVE  i = j
    BY <2>2, <2>9
  <2>10. ASSUME NEW d \in D, NEW j \in 1 .. Len(Kids(d)), Kids(d)[j] # n
         PROVE  \E i \in 1 .. Len(kids(d)) : kids(d)[i] = Kids(d)[j]
    <3>1. CASE d = p
      <4>1. j # k /\ Len(Kids(p)) \in Nat /\ Len(kids(p)) = Len(Kids(p)) - 1
        BY <1>1, <1>3, <2>2, <2>6, <2>10, <3>1
      <4> DEFINE i == IF j < k THEN j ELSE j - 1
      <4>2. i \in 1 .. Len(Kids(p)) - 1 /\ (IF i < k THEN i ELSE i + 1) = j
        BY <2>2, <3>1, <4>1
      <4> HIDE DEF i
      <4> QED
        BY <2>6, <3>1, <4>1, <4>2
    <3>2. CASE d # p
      BY <2>7, <3>2
    <3> QED
      BY <3>1, <3>2
  <2> HIDE DEF place
  <2>11. Numbered'
    <3>1. ASSUME NEW d \in D PROVE kids(d) \in Seq(D \ {RootInode})
      BY <1>3, <2>6, <2>7
    <3> QED
      BY <1>1, <1>2, <3>1 DEF Numbered, Kids, kids, D
  <2>12. ASSUME NEW d \in D, NEW i \in 1 .. Len(kids(d))
         PROVE  /\ inodes'[d].type = "DIRECTORY"
                /\ d = RootInode \/ inodes'[d].name # Deleted
                /\ inodes'[kids(d)[i]].parent_inode = d
                /\ inodes'[kids(d)[i]].name # Deleted
                /\ \A j \in 1 .. Len(kids(d)) : kids(d)[j] = kids(d)[i] => i = j
    <3> DEFINE at == place(d, i)
               c == Kids(d)[at]
    <3>1. at \in 1 .. Len(Kids(d)) /\ kids(d)[i] = c /\ c # n /\ c \in D
      BY <1>3, <2>8
    <3> HIDE DEF at
    <3>2. ListedBy(d, at)
      BY <3>1 DEF TreeInv, D
    <3>3. inodes[d].type = "DIRECTORY" /\ (d = RootInode \/ inodes[d].name # Deleted)
          /\ inodes[c].parent_inode = d /\ inodes[c].name # Deleted
      BY <3>2 DEF ListedBy, IsDirectory, NameOf
    <3>4. d # n
      <4>1. Kids(d) # <<>>
        BY <1>3, <3>1
      <4> QED
        BY <4>1
    <3>5. ASSUME NEW j \in 1 .. Len(kids(d)), kids(d)[j] = kids(d)[i] PROVE i = j
      <4>1. place(d, j) \in 1 .. Len(Kids(d)) /\ Kids(d)[place(d, j)] = Kids(d)[at]
        BY <2>8, <3>1, <3>5
      <4>2. place(d, j) = at
        BY <3>2, <4>1 DEF ListedBy
      <4> QED
        BY <2>9, <4>2 DEF at
    <3> HIDE DEF c
    <3> QED
      BY <1>2, <3>1, <3>3, <3>4, <3>5
  <2>13. ASSUME NEW m \in D \ {RootInode}, inodes'[m].name # Deleted
         PROVE  \E i \in 1 .. Len(kids(inodes'[m].parent_inode)) : kids(inodes'[m].parent_inode)[i] = m
    <3> DEFINE q == inodes[m].parent_inode
    <3>1. m # n /\ NameOf(m) # Deleted /\ inodes'[m].parent_inode = q /\ q \in D
      BY <1>1, <1>2, <2>13 DEF NameOf, D, Numbered
    <3> HIDE DEF q
    <3>2. PICK j \in 1 .. Len(Kids(q)) : Kids(q)[j] = m
      BY <3>1 DEF TreeInv, Listed, D, q
    <3> QED
      BY <2>10, <3>1, <3>2
  <2>14. inodes'[RootInode].type = "DIRECTORY" /\ inodes'[RootInode].name = Deleted
    BY <1>2, <1>3, <1>5 DEF TreeInv, IsDirectory, NameOf
  <2>15. TreeInv'
    BY <1>2, <2>11, <2>12, <2>13, <2>14 DEF TreeInv, ListedBy, Listed, IsDirectory, Kids, NameOf, kids, D
  <2>16. ASSUME NamesInv, NEW d \in D, NEW i \in 1 .. Len(kids(d)), NEW j \in 1 .. Len(kids(d)),
                inodes'[kids(d)[i]].name = inodes'[kids(d)[j]].name
         PROVE  i = j
    <3>1. /\ place(d, i) \in 1 .. Len(Kids(d)) /\ kids(d)[i] = Kids(d)[place(d, i)] /\ kids(d)[i] # n
          /\ place(d, j) \in 1 .. Len(Kids(d)) /\ kids(d)[j] = Kids(d)[place(d, j)] /\ kids(d)[j] # n
      BY <2>8
    <3>2. kids(d)[i] \in D /\ kids(d)[j] \in D
      BY <1>3, <3>1
    <3>3. inodes[kids(d)[i]].name = inodes[kids(d)[j]].name
      BY <1>2, <2>16, <3>1, <3>2
    <3>4. NameOf(Kids(d)[place(d, i)]) = NameOf(Kids(d)[place(d, j)])
      BY <3>1, <3>3 DEF NameOf
    <3>5. place(d, i) = place(d, j)
      BY <2>16, <3>1, <3>4 DEF NamesInv, D
    <3> QED
      BY <2>9, <3>5
  <2>17. NamesInv => NamesInv'
    BY <1>2, <2>16 DEF NamesInv, NameOf, Kids, kids, D
  <2> QED
    BY <2>15, <2>17
<1> QED
  BY <1>4, <1>5

-----------------------------------------------------------------------------
(* Directories stay sound. *)

\* The root is there, and nothing else.
LEMMA DirectoriesInit == MemoryFsInit => TreeInv /\ NamesInv
<1> SUFFICES ASSUME MemoryFsInit PROVE TreeInv /\ NamesInv
  OBVIOUS
<1>1. DOMAIN inodes = {RootInode} /\ inodes[RootInode] = NewInode("DIRECTORY", Deleted, RootInode)
  BY DEF MemoryFsInit
<1>2. /\ DOMAIN inodes[RootInode] = {"type", "name", "parent_inode", "data", "children"}
      /\ inodes[RootInode].type = "DIRECTORY" /\ NameOf(RootInode) = Deleted
      /\ inodes[RootInode].parent_inode = RootInode /\ Kids(RootInode) = <<>>
  BY <1>1 DEF NewInode, NameOf, Kids
<1>3. 1 \in Nat \ {0} /\ {RootInode} = 0 .. 1 - 1
  BY DEF RootInode
<1>4. Numbered
  BY <1>1, <1>2, <1>3 DEF Numbered
<1> QED
  BY <1>1, <1>2, <1>4 DEF TreeInv, NamesInv, IsDirectory

\* Only directories have children.
LEMMA FilesAreBare ==
  ASSUME TreeInv, NEW n \in DOMAIN inodes, ~IsDirectory(n)
  PROVE  Kids(n) = <<>>
<1>1. Numbered
  BY DEF TreeInv
<1>2. Kids(n) \in Seq(DOMAIN inodes \ {RootInode}) /\ Len(Kids(n)) \in Nat
  BY <1>1, Numbers DEF Numbered
<1>3. \A i \in 1 .. Len(Kids(n)) : FALSE
  BY DEF TreeInv, ListedBy
<1>4. Len(Kids(n)) = 0
  BY <1>2, <1>3
<1> QED
  BY <1>2, <1>4

\* open with CREATE, and the requests that create.
LEMMA CreationsKeep ==
  ASSUME TreeInv, NEW path \in Paths, NEW type, resolve_path(path) = NotFound,
         Parent(path.parts) # NotFound, inodes' = Added(type, path.parts)
  PROVE  TreeInv' /\ ("long" \notin Spellings /\ NamesInv => NamesInv')
<1> DEFINE parts == path.parts
           p == Parent(parts)
           name == Last(parts)
           N == next_inode_num
<1>1. /\ name # Deleted /\ Present(p) /\ IsDirectory(p) /\ p \in DOMAIN inodes /\ Numbered
      /\ Walk(parts) = ChildOf(p, name)
  BY ParentIs DEF Present, TreeInv
<1> HIDE DEF p, N
<1>2. /\ DOMAIN inodes' = DOMAIN inodes \cup {N} /\ N \notin DOMAIN inodes
      /\ inodes'[N] = NewInode(type, name, p)
      /\ \A n \in DOMAIN inodes :
           /\ SameNode(n)
           /\ inodes'[n].children = IF n = p THEN Append(inodes[n].children, N)
                                    ELSE inodes[n].children
  BY <1>1, AddedIs DEF p, N
<1> HIDE DEF name
<1>3. /\ TreeInv'
      /\ NamesInv /\ (\A i \in 1 .. Len(Kids(p)) : NameOf(Kids(p)[i]) # name) => NamesInv'
  BY <1>1, <1>2, AddKeeps DEF N
<1>4. ASSUME "long" \notin Spellings
      PROVE  \A i \in 1 .. Len(Kids(p)) : NameOf(Kids(p)[i]) # name
  <2>1. path.spelling # "long"
    BY <1>4, PathsAre
  <2>2. ChildOf(p, name) = NotFound
    BY <1>1, <2>1 DEF resolve_path
  <2> QED
    BY <1>1, <2>2, ChildIs
<1> QED
  BY <1>3, <1>4

\* Every request.
LEMMA DirectoriesNext ==
  TreeInv /\ [MemoryFsNext]_memoryFsVars =>
    TreeInv' /\ ("long" \notin Spellings /\ NamesInv => NamesInv')
<1> SUFFICES ASSUME TreeInv, [MemoryFsNext]_memoryFsVars
             PROVE  TreeInv' /\ ("long" \notin Spellings /\ NamesInv => NamesInv')
  OBVIOUS
<1>1. Numbered
  BY DEF TreeInv
<1>2. ASSUME UNCHANGED inodes
      PROVE  TreeInv' /\ (NamesInv => NamesInv')
  <2>1. SameTree
    BY <1>2 DEF SameTree, SameNode
  <2> QED
    BY <1>1, <2>1, SameTreeKeeps
<1>3. ASSUME NEW n, NEW data, inodes' = [inodes EXCEPT ![n].data = data]
      PROVE  TreeInv' /\ (NamesInv => NamesInv')
  BY <1>1, <1>3, DataChanges, SameTreeKeeps
<1>4. ASSUME NEW path \in Paths, resolve_path(path) # NotFound
      PROVE  Present(resolve_path(path))
  BY <1>4, PathsAre, WalkFinds DEF resolve_path
<1>5. ASSUME NEW path \in Paths, NEW flags \in FlagSets, OpenExisting(path, flags)
      PROVE  TreeInv' /\ (NamesInv => NamesInv')
  BY <1>2, <1>3, <1>5 DEF OpenExisting
<1>6. ASSUME NEW path \in Paths, NEW flags \in FlagSets, OpenCreates(path, flags)
      PROVE  TreeInv' /\ ("long" \notin Spellings /\ NamesInv => NamesInv')
  BY <1>6, CreationsKeep DEF OpenCreates
<1>7. ASSUME NEW path \in Paths, NEW type, Create(type, path)
      PROVE  TreeInv' /\ ("long" \notin Spellings /\ NamesInv => NamesInv')
  BY <1>7, CreationsKeep DEF Create
<1>8. ASSUME NEW path \in Paths, DeleteFile(path)
      PROVE  TreeInv' /\ (NamesInv => NamesInv')
  <2> DEFINE n == resolve_path(path)
  <2>1. Present(n) /\ ~IsDirectory(n) /\ inodes' = Removed(n)
    BY <1>4, <1>8 DEF DeleteFile
  <2> HIDE DEF n
  <2>2. Kids(n) = <<>>
    BY <2>1, FilesAreBare DEF Present
  <2> QED
    BY <2>1, <2>2, RemoveKeeps
<1>9. ASSUME NEW path \in Paths, DeleteDir(path)
      PROVE  TreeInv' /\ (NamesInv => NamesInv')
  <2> DEFINE n == resolve_path(path)
  <2>1. Present(n) /\ Kids(n) = <<>> /\ inodes' = Removed(n)
    BY <1>4, <1>9 DEF DeleteDir, Kids
  <2> HIDE DEF n
  <2> QED
    BY <2>1, RemoveKeeps
<1>10. ASSUME NEW h \in held, NEW offset, NEW cell, WriteFile(h[1], offset, cell)
       PROVE  TreeInv' /\ (NamesInv => NamesInv')
  <2>1. PICK i : inodes' = [inodes EXCEPT ![handles[i].inode_num].data =
                              Spliced(inodes[handles[i].inode_num].data, offset, cell)]
    BY <1>10 DEF WriteFile
  <2> QED
    BY <1>3, <2>1
<1>11. CASE MemoryFsNext
  <2>1. CASE \E path \in Paths :
               \/ \E flags \in FlagSets : Open(path, flags)
               \/ \E type \in {"FILE", "DIRECTORY"} : Create(type, path)
               \/ DeleteFile(path)
               \/ DeleteDir(path)
    <3>1. PICK path \in Paths :
               \/ \E flags \in FlagSets : Open(path, flags)
               \/ \E type \in {"FILE", "DIRECTORY"} : Create(type, path)
               \/ DeleteFile(path)
               \/ DeleteDir(path)
      BY <2>1
    <3>2. ASSUME NEW flags \in FlagSets, Open(path, flags)
          PROVE  TreeInv' /\ ("long" \notin Spellings /\ NamesInv => NamesInv')
      <4>1. CASE OpenFails(path, flags)
        BY <1>2, <4>1 DEF OpenFails, memoryFsVars
      <4> QED
        BY <1>5, <1>6, <3>2, <4>1 DEF Open
    <3> QED
      BY <1>7, <1>8, <1>9, <3>1, <3>2
  <2>2. CASE \E h \in held :
               \/ Close(h)
               \/ \E offset \in 0 .. MaxSize - 1, cell \in Cells : WriteFile(h[1], offset, cell)
    BY <1>2, <1>10, <2>2 DEF Close, CloseSlot
  <2>3. CASE \E id \in closed : CloseAgain(id)
    BY <1>2, <2>3 DEF CloseAgain, CloseSlot
  <2> QED
    BY <1>11, <2>1, <2>2, <2>3 DEF MemoryFsNext
<1>12. CASE UNCHANGED memoryFsVars
  BY <1>2, <1>12 DEF memoryFsVars
<1> QED
  BY <1>11, <1>12

\* The tree in its form for reading.
LEMMA TreeIsSound == TreeInv => TreeSound
<1> SUFFICES ASSUME TreeInv, NEW n \in DOMAIN inodes \ {RootInode}
             PROVE  /\ \A d \in DOMAIN inodes :
                         Cardinality({i \in DOMAIN inodes[d].children : inodes[d].children[i] = n})
                           = IF d = inodes[n].parent_inode /\ inodes[n].name # Deleted THEN 1 ELSE 0
                    /\ inodes[n].name # Deleted => IsDirectory(inodes[n].parent_inode)
                    /\ inodes[n].name = Deleted => inodes[n].children = <<>>
                    /\ ~IsDirectory(n) => inodes[n].children = <<>>
  BY DEF TreeSound
<1>1. Numbered
  BY DEF TreeInv
<1> DEFINE p == inodes[n].parent_inode
<1>2. p \in DOMAIN inodes
  BY <1>1 DEF Numbered
<1> HIDE DEF p
<1>3. ASSUME NameOf(n) # Deleted
      PROVE  \E k \in 1 .. Len(Kids(p)) :
               Kids(p)[k] = n /\ IsDirectory(p) /\ \A i \in 1 .. Len(Kids(p)) : Kids(p)[i] = n => i = k
  <2>1. PICK k \in 1 .. Len(Kids(p)) : Kids(p)[k] = n
    BY <1>3 DEF TreeInv, Listed, p
  <2>2. ListedBy(p, k)
    BY <1>2 DEF TreeInv
  <2> QED
    BY <2>1, <2>2 DEF ListedBy
<1>4. ASSUME NEW d \in DOMAIN inodes
      PROVE  Cardinality({i \in DOMAIN inodes[d].children : inodes[d].children[i] = n})
               = IF d = p /\ NameOf(n) # Deleted THEN 1 ELSE 0
  <2> DEFINE I == {i \in 1 .. Len(Kids(d)) : Kids(d)[i] = n}
  <2>1. I = {i \in DOMAIN inodes[d].children : inodes[d].children[i] = n}
    BY <1>1, Numbers DEF Kids
  <2>2. CASE d = p /\ NameOf(n) # Deleted
    <3>1. PICK k \in 1 .. Len(Kids(p)) :
               Kids(p)[k] = n /\ \A i \in 1 .. Len(Kids(p)) : Kids(p)[i] = n => i = k
      BY <1>3, <2>2
    <3>2. I = {k}
      BY <2>2, <3>1
    <3> HIDE DEF I
    <3> QED
      BY <2>1, <2>2, <3>2, FS_Singleton
  <2>3. CASE ~(d = p /\ NameOf(n) # Deleted)
    <3>1. ASSUME NEW i \in 1 .. Len(Kids(d)), Kids(d)[i] = n PROVE FALSE
      <4>1. ListedBy(d, i)
        BY DEF TreeInv
      <4> QED
        BY <2>3, <3>1, <4>1 DEF ListedBy, p
    <3>2. I = {}
      BY <3>1
    <3> HIDE DEF I
    <3> QED
      BY <2>1, <2>3, <3>2, FS_EmptySet
  <2> QED
    BY <2>2, <2>3
<1>5. ASSUME NameOf(n) = Deleted PROVE Kids(n) = <<>>
  <2>1. Kids(n) \in Seq(DOMAIN inodes \ {RootInode}) /\ Len(Kids(n)) \in Nat
    BY <1>1, Numbers DEF Numbered
  <2>2. \A i \in 1 .. Len(Kids(n)) : FALSE
    BY <1>5 DEF TreeInv, ListedBy
  <2>3. Len(Kids(n)) = 0
    BY <2>1, <2>2
  <2> QED
    BY <2>1, <2>3
<1>6. ~IsDirectory(n) => Kids(n) = <<>>
  BY FilesAreBare
<1> QED
  BY <1>3, <1>4, <1>5, <1>6 DEF NameOf, Kids, p

\* And what paths find.
LEMMA ListingsAgree == TreeInv /\ NamesInv => ListingAgrees
<1> SUFFICES ASSUME TreeInv, NamesInv, NEW parts \in Components, NEW d, d = Walk(parts), d # NotFound,
                    IsDirectory(d), NEW i \in DOMAIN inodes[d].children
             PROVE  ChildOf(d, list_dir(d)[i]) = inodes[d].children[i]
  BY DEF ListingAgrees
<1>1. d \in DOMAIN inodes /\ Numbered
  BY ComponentsAre, WalkFinds DEF Present, TreeInv
<1>2. i \in 1 .. Len(Kids(d)) /\ inodes[d].children[i] = Kids(d)[i]
  BY <1>1, Numbers DEF Kids
<1> DEFINE name == list_dir(d)[i]
<1>3. name = NameOf(Kids(d)[i])
  BY DEF list_dir, NameOf, Kids
<1> HIDE DEF name
<1>4. PICK j \in 1 .. Len(Kids(d)) : Kids(d)[j] = ChildOf(d, name) /\ NameOf(Kids(d)[j]) = name
  BY <1>1, <1>2, <1>3, ChildIs
<1>5. j = i
  BY <1>1, <1>2, <1>3, <1>4 DEF NamesInv
<1> QED
  BY <1>2, <1>4, <1>5 DEF name

\* After any sequence of creations and deletions, by any paths, every inode that was not
\* deleted is listed once, by the directory it names as its parent, and nothing is stranded
\* under one that was (handle_open, handle_create_file, handle_create_dir,
\* handle_delete_file, handle_delete_dir).
THEOREM DirectoriesKeepTheirTree == MemoryFsSpec => []TreeSound
<1>1. MemoryFsInit => TreeInv
  BY DirectoriesInit
<1>2. TreeInv /\ [MemoryFsNext]_memoryFsVars => TreeInv'
  BY DirectoriesNext
<1>3. TreeInv => TreeSound
  BY TreeIsSound
<1> QED
  BY <1>1, <1>2, <1>3, PTL DEF MemoryFsSpec

\* While no path is spelled too long, listings also show each entry once, under a name by
\* which paths find it.  (For one that is, open with CREATE makes a second file of the name:
\* resolve_path fails, and handle_open takes every failure for a file that does not exist.)
THEOREM DirectoriesStaySound ==
  ASSUME "long" \notin Spellings
  PROVE  MemoryFsSpec => []DirectoriesSound
<1>1. MemoryFsInit => TreeInv /\ NamesInv
  BY DirectoriesInit
<1>2. TreeInv /\ NamesInv /\ [MemoryFsNext]_memoryFsVars => (TreeInv /\ NamesInv)'
  BY DirectoriesNext
<1>3. TreeInv /\ NamesInv => DirectoriesSound
  BY TreeIsSound, ListingsAgree DEF DirectoriesSound
<1> QED
  BY <1>1, <1>2, <1>3, PTL DEF MemoryFsSpec
=============================================================================
