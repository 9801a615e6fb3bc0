---------------------------- MODULE DeviceProofs ----------------------------
(***************************************************************************)
(* The theorems about the virtio rings and the three drivers over them.    *)
(* The rings are followed through what lies between their counters: how    *)
(* many chains wait for the device and how many it has given back, and the *)
(* i-th of each.  Three lemmas say what submitting a chain, using one and  *)
(* taking one back do to these, wherever the counters stand and whether or *)
(* not they wrap; the drivers' invariants are about nothing else.          *)
(***************************************************************************)
EXTENDS Keyboard, Gpu, Disk, SetLemmas

-----------------------------------------------------------------------------
(* The counters *)

Idx == 0 .. IDX_MOD - 1

\* The counters wrap at a multiple of the queue's size, and not before a ring is full.
LEMMA Sizes ==
  /\ QUEUE_SIZE \in Nat /\ QUEUE_SIZE >= 1 /\ IDX_MOD \in Nat /\ QUEUE_SIZE < IDX_MOD
  /\ IDX_MOD \div QUEUE_SIZE \in Int
  /\ IDX_MOD = QUEUE_SIZE * (IDX_MOD \div QUEUE_SIZE)
<1> DEFINE k == IDX_MOD \div QUEUE_SIZE
<1>1. QUEUE_SIZE \in Nat \ {0} /\ IDX_MOD \in Nat \ {0} /\ IDX_MOD # QUEUE_SIZE /\ IDX_MOD % QUEUE_SIZE = 0
  BY VirtQueueAssumption
<1>2. k \in Int /\ IDX_MOD = QUEUE_SIZE * k
  <2>1. k \in Int /\ IDX_MOD = (QUEUE_SIZE * k) + 0
    BY <1>1, DivMod
  <2>2. QUEUE_SIZE * k \in Int
    BY <1>1, <2>1
  <2> QED
    BY <2>1, <2>2
<1> HIDE DEF k
<1>3. k >= 1
  <2> SUFFICES ASSUME k <= 0 PROVE FALSE
    BY <1>2
  <2>1. QUEUE_SIZE * k <= 0
    BY <1>1, <1>2
  <2> QED
    BY <1>1, <1>2, <2>1
<1>4. IDX_MOD >= QUEUE_SIZE
  BY <1>1, <1>2, <1>3, Multiples
<1> QED
  BY <1>1, <1>2, <1>4 DEF k

\* A counter that has wrapped is at the same ring entry as one that has not.
LEMMA RingWraps ==
  ASSUME NEW x \in Nat
  PROVE  RingIdx(x % IDX_MOD) = RingIdx(x) /\ RingIdx(x) \in Descs
<1> DEFINE k == IDX_MOD \div QUEUE_SIZE
<1>0. QUEUE_SIZE \in Nat \ {0} /\ IDX_MOD \in Nat \ {0}
  BY Sizes
<1>1. k \in Int /\ IDX_MOD = QUEUE_SIZE * k
  BY Sizes
<1> HIDE DEF k
<1>2. PICK q \in Int, r \in 0 .. IDX_MOD - 1 : x = (IDX_MOD * q) + r /\ r = x % IDX_MOD
  <2>1. x \div IDX_MOD \in Int /\ x % IDX_MOD \in 0 .. IDX_MOD - 1
    BY <1>0, DivMod
  <2>2. x = (IDX_MOD * (x \div IDX_MOD)) + (x % IDX_MOD)
    BY <1>0, DivMod
  <2> QED
    BY <2>1, <2>2, Zenon
<1>3. r \in Int
  BY <1>0
<1>4. PICK p \in Int, s \in 0 .. QUEUE_SIZE - 1 : r = (QUEUE_SIZE * p) + s /\ s = r % QUEUE_SIZE
  <2>1. r \div QUEUE_SIZE \in Int /\ r % QUEUE_SIZE \in 0 .. QUEUE_SIZE - 1
    BY <1>0, <1>3, DivMod
  <2>2. r = (QUEUE_SIZE * (r \div QUEUE_SIZE)) + (r % QUEUE_SIZE)
    BY <1>0, <1>3, DivMod
  <2> QED
    BY <2>1, <2>2, Zenon
<1>5. IDX_MOD * q = QUEUE_SIZE * (k * q) /\ k * q \in Int
  BY <1>0, <1>1
<1> DEFINE m == k * q
<1>6. m \in Int /\ x = (QUEUE_SIZE * m) + r
  BY <1>2, <1>5
<1> HIDE DEF m
<1>7. x = (QUEUE_SIZE * (m + p)) + s
  <2>1. m \in Int
    BY <1>6
  <2>2. QUEUE_SIZE * (m + p) = (QUEUE_SIZE * m) + (QUEUE_SIZE * p)
    BY <1>0, <2>1
  <2>3. QUEUE_SIZE * m \in Int /\ QUEUE_SIZE * p \in Int
    BY <1>0, <2>1
  <2> DEFINE mm == QUEUE_SIZE * m
             pp == QUEUE_SIZE * p
  <2>4. mm \in Int /\ pp \in Int /\ x = mm + r /\ r = pp + s /\ QUEUE_SIZE * (m + p) = mm + pp
    BY <1>4, <1>6, <2>2, <2>3
  <2> HIDE DEF mm, pp
  <2> QED
    BY <2>4
<1>8. x % QUEUE_SIZE = s
  <2>1. ((QUEUE_SIZE * (m + p)) + s) % QUEUE_SIZE = s
    <3>1. m + p \in Int
      BY <1>6
    <3> QED
      BY <1>0, <3>1, ModIs
  <2> QED
    BY <1>7, <2>1
<1> QED
  BY <1>0, <1>2, <1>4, <1>8 DEF RingIdx, Descs

\* As many entries as a ring has, counted from anywhere, are different entries.
LEMMA RingDistinct ==
  ASSUME NEW a \in Nat, NEW i \in 0 .. QUEUE_SIZE - 1, NEW j \in 0 .. QUEUE_SIZE - 1,
         RingIdx(a + i) = RingIdx(a + j)
  PROVE  i = j
<1> DEFINE N == QUEUE_SIZE
           q == (a + i) \div N
           p == (a + j) \div N
           r == (a + i) % N
<1>1. N \in Nat \ {0} /\ N = QUEUE_SIZE
  BY Sizes
<1>2. /\ q \in Int /\ p \in Int /\ r \in 0 .. N - 1
      /\ a + i = (N * q) + r /\ a + j = (N * p) + r
  <2>1. a + i \in Int /\ a + j \in Int
    BY <1>1
  <2>2. (a + j) % N = r
    BY <1>1 DEF RingIdx
  <2>3. q \in Int /\ r \in 0 .. N - 1 /\ a + i = (N * q) + r
    BY <1>1, <2>1, DivMod
  <2>4. p \in Int /\ a + j = (N * p) + ((a + j) % N)
    BY <1>1, <2>1, DivMod
  <2> QED
    BY <2>2, <2>3, <2>4
<1> HIDE DEF N, q, p, r
<1>3. N * (q - p) = i - j /\ N * (p - q) = j - i
  <2>1. N * (q - p) = (N * q) - (N * p) /\ N * (p - q) = (N * p) - (N * q)
    BY <1>1, <1>2
  <2>2. N * q \in Int /\ N * p \in Int
    BY <1>1, <1>2
  <2> QED
    BY <1>1, <1>2, <2>1, <2>2
<1>4. CASE q - p >= 1
  <2>1. N * (q - p) >= N
    BY <1>1, <1>2, <1>4, Multiples
  <2> QED
    BY <1>1, <1>3, <2>1
<1>5. CASE p - q >= 1
  <2>1. N * (p - q) >= N
    BY <1>1, <1>2, <1>5, Multiples
  <2> QED
    BY <1>1, <1>3, <2>1
<1>6. CASE q = p
  BY <1>1, <1>2, <1>6
<1> QED
  BY <1>2, <1>4, <1>5, <1>6

\* The next value of a counter, and the distance between two.
LEMMA Counters ==
  ASSUME NEW x \in Idx, NEW y \in Idx
  PROVE  /\ NextIdx(x) = IF x = IDX_MOD - 1 THEN 0 ELSE x + 1
         /\ NextIdx(x) \in Idx
         /\ (x + IDX_MOD) % IDX_MOD = x
         /\ (x - y) % IDX_MOD = IF x >= y THEN x - y ELSE x - y + IDX_MOD
<1> DEFINE M == IDX_MOD
<1>1. M \in Nat \ {0} /\ M > 1 /\ x \in 0 .. M - 1 /\ y \in 0 .. M - 1
  BY Sizes DEF Idx
<1> HIDE DEF M
<1>2. ASSUME NEW z \in 0 .. M - 1 PROVE z % M = z /\ (z - M) % M = z /\ (z + M) % M = z
  <2>1. ((M * 0) + z) % M = z /\ ((M * (-1)) + z) % M = z /\ ((M * 1) + z) % M = z
    BY <1>1, ModIs
  <2>2. (M * 0) + z = z /\ (M * (-1)) + z = z - M /\ (M * 1) + z = z + M
    BY <1>1
  <2> QED
    BY <2>1, <2>2
<1>3. (x + 1) % M = IF x = M - 1 THEN 0 ELSE x + 1
  <2>1. CASE x = M - 1
    <3>1. x + 1 = 0 + M /\ 0 \in 0 .. M - 1
      BY <1>1, <2>1
    <3> QED
      BY <1>2, <2>1, <3>1
  <2>2. CASE x # M - 1
    BY <1>1, <1>2, <2>2
  <2> QED
    BY <2>1, <2>2
<1>4. (x - y) % M = IF x >= y THEN x - y ELSE x - y + M
  <2>1. CASE x >= y
    <3>1. x - y \in 0 .. M - 1
      BY <1>1, <2>1
    <3> QED
      BY <1>2, <2>1, <3>1
  <2>2. CASE ~(x >= y)
    <3>1. x - y + M \in 0 .. M - 1 /\ (x - y + M) - M = x - y
      BY <1>1, <2>2
    <3> QED
      BY <1>2, <2>2, <3>1
  <2> QED
    BY <2>1, <2>2
<1> QED
  BY <1>1, <1>2, <1>3, <1>4 DEF NextIdx, Idx, M

-----------------------------------------------------------------------------
(* The rings *)

\* A queue as far as its rings go.
Queue(q) ==
  q \in [desc : {q.desc}, avail : [Descs -> Int], avail_idx : Idx, used : [Descs -> Int],
         used_idx : Idx, last_used_idx : Idx, last_avail_idx : Idx]

\* How many chains wait for the device, and which; how many it has given back, and which.
Waiting(q) == (q.avail_idx - q.last_avail_idx) % IDX_MOD
Done(q) == (q.used_idx - q.last_used_idx) % IDX_MOD
Avail(q, i) == q.avail[RingIdx(q.last_avail_idx + i)]
UsedAt(q, i) == q.used[RingIdx(q.last_used_idx + i)]

\* How far the counters are apart.
LEMMA Distances ==
  ASSUME NEW q, Queue(q)
  PROVE  /\ Waiting(q) = IF q.avail_idx >= q.last_avail_idx THEN q.avail_idx - q.last_avail_idx
                         ELSE q.avail_idx - q.last_avail_idx + IDX_MOD
         /\ Done(q) = IF q.used_idx >= q.last_used_idx THEN q.used_idx - q.last_used_idx
                      ELSE q.used_idx - q.last_used_idx + IDX_MOD
<1>1. /\ q.avail_idx \in Idx /\ q.last_avail_idx \in Idx
      /\ q.used_idx \in Idx /\ q.last_used_idx \in Idx
  BY DEF Queue
<1> QED
  BY <1>1, Counters DEF Waiting, Done

\* The counters, as seen by the tests of both sides.
LEMMA RingFacts ==
  ASSUME NEW q, Queue(q)
  PROVE  /\ Waiting(q) \in Nat /\ Done(q) \in Nat
         /\ has_avail(q) <=> Waiting(q) > 0
         /\ has_used(q) <=> Done(q) > 0
         /\ FirstAvail(q) = Avail(q, 0) /\ FirstUsed(q) = UsedAt(q, 0)
<1>1. /\ q.avail_idx \in Idx /\ q.last_avail_idx \in Idx
      /\ q.used_idx \in Idx /\ q.last_used_idx \in Idx
  BY DEF Queue
<1>2. IDX_MOD \in Nat
  BY Sizes
<1>3. Waiting(q) \in Nat /\ (has_avail(q) <=> Waiting(q) > 0)
  BY <1>1, <1>2, Distances DEF has_avail, Idx
<1>4. Done(q) \in Nat /\ (has_used(q) <=> Done(q) > 0)
  BY <1>1, <1>2, Distances DEF has_used, Idx
<1>5. q.last_avail_idx + 0 = q.last_avail_idx /\ q.last_used_idx + 0 = q.last_used_idx
  BY <1>1, <1>2 DEF Idx
<1> QED
  BY <1>3, <1>4, <1>5 DEF FirstAvail, FirstUsed, Avail, UsedAt

\* The chains of either side are those between its counters.
LEMMA Sides ==
  ASSUME NEW q, Queue(q)
  PROVE  /\ WithDevice(q) = {Avail(q, i) : i \in 0 .. Waiting(q) - 1}
         /\ GivenBack(q) = {UsedAt(q, i) : i \in 0 .. Done(q) - 1}
<1>1. /\ q.avail_idx \in Idx /\ q.last_avail_idx \in Idx
      /\ q.used_idx \in Idx /\ q.last_used_idx \in Idx
  BY DEF Queue
<1>2. Waiting(q) \in Nat /\ Done(q) \in Nat /\ IDX_MOD \in Nat
  BY RingFacts, Sizes
<1>3. \A from \in Idx, i \in Nat : RingIdx((from + i) % IDX_MOD) = RingIdx(from + i)
  <2> TAKE from \in Idx, i \in Nat
  <2>1. from + i \in Nat
    BY <1>2 DEF Idx
  <2> QED
    BY <2>1, RingWraps
<1>4. \A i \in 0 .. Waiting(q) - 1 :
        q.avail[RingIdx((q.last_avail_idx + i) % IDX_MOD)] = Avail(q, i)
  BY <1>1, <1>2, <1>3 DEF Avail
<1>5. \A i \in 0 .. Done(q) - 1 :
        q.used[RingIdx((q.last_used_idx + i) % IDX_MOD)] = UsedAt(q, i)
  BY <1>1, <1>2, <1>3 DEF UsedAt
<1>6. WithDevice(q) =
        {q.avail[e] : e \in {RingIdx((q.last_avail_idx + i) % IDX_MOD) : i \in 0 .. Waiting(q) - 1}}
  BY DEF WithDevice, Between, Waiting
<1>7. GivenBack(q) =
        {q.used[e] : e \in {RingIdx((q.last_used_idx + i) % IDX_MOD) : i \in 0 .. Done(q) - 1}}
  BY DEF GivenBack, Between, Done
<1>8. \A x : x \in WithDevice(q) <=> \E i \in 0 .. Waiting(q) - 1 : x = Avail(q, i)
  BY <1>4, <1>6, Zenon
<1>9. \A x : x \in GivenBack(q) <=> \E i \in 0 .. Done(q) - 1 : x = UsedAt(q, i)
  BY <1>5, <1>7, Zenon
<1> QED
  BY <1>8, <1>9

\* QueueSound, in these words.
LEMMA Sound ==
  ASSUME NEW q, Queue(q)
  PROVE  QueueSound(q) <=>
           /\ Waiting(q) + Done(q) <= QUEUE_SIZE
           /\ \A i, j \in 0 .. Waiting(q) - 1 : Avail(q, i) = Avail(q, j) => i = j
           /\ \A i, j \in 0 .. Done(q) - 1 : UsedAt(q, i) = UsedAt(q, j) => i = j
           /\ \A i \in 0 .. Waiting(q) - 1, j \in 0 .. Done(q) - 1 : Avail(q, i) # UsedAt(q, j)
<1>1. WithDevice(q) \cap GivenBack(q) = {} <=>
        \A i \in 0 .. Waiting(q) - 1, j \in 0 .. Done(q) - 1 : Avail(q, i) # UsedAt(q, j)
  BY Sides
<1> QED
  BY <1>1 DEF QueueSound, Waiting, Done, Avail, UsedAt

\* A submitted chain is the last that waits.
LEMMA SubmitAdds ==
  ASSUME NEW q, Queue(q), NEW d \in Int, Waiting(q) < QUEUE_SIZE
  PROVE  /\ Queue(Submit(q, d)) /\ Submit(q, d).desc = q.desc
         /\ Waiting(Submit(q, d)) = Waiting(q) + 1
         /\ \A i \in 0 .. Waiting(q) : Avail(Submit(q, d), i) = IF i = Waiting(q) THEN d ELSE Avail(q, i)
         /\ Done(Submit(q, d)) = Done(q)
         /\ \A i : UsedAt(Submit(q, d), i) = UsedAt(q, i)
<1> DEFINE new == Submit(q, d)
           e == RingIdx(q.avail_idx)
           w == Waiting(q)
<1>1. /\ q.avail_idx \in Idx /\ q.last_avail_idx \in Idx /\ q.avail \in [Descs -> Int]
  BY DEF Queue
<1>2. w \in Nat /\ IDX_MOD \in Nat /\ QUEUE_SIZE \in Nat /\ QUEUE_SIZE < IDX_MOD
  BY RingFacts, Sizes
<1>3. /\ NextIdx(q.avail_idx) \in Idx
      /\ NextIdx(q.avail_idx) = IF q.avail_idx = IDX_MOD - 1 THEN 0 ELSE q.avail_idx + 1
  BY <1>1, Counters
<1>4. e \in Descs
  BY <1>1, <1>2, RingWraps DEF Idx
<1>5. new = [q EXCEPT !.avail = [q.avail EXCEPT ![e] = d], !.avail_idx = NextIdx(q.avail_idx)]
  BY DEF Submit, Queue
<1>6. [q.avail EXCEPT ![e] = d] \in [Descs -> Int]
  BY <1>1, <1>4
<1> HIDE DEF new
<1>7. /\ new.desc = q.desc /\ new.avail = [q.avail EXCEPT ![e] = d]
      /\ new.avail_idx = NextIdx(q.avail_idx)
      /\ new.used = q.used /\ new.used_idx = q.used_idx
      /\ new.last_used_idx = q.last_used_idx /\ new.last_avail_idx = q.last_avail_idx
  BY <1>5 DEF Queue
<1>8. Queue(new)
  BY <1>3, <1>5, <1>6, <1>7 DEF Queue
<1>9. Waiting(new) = w + 1
  <2>1. w = IF q.avail_idx >= q.last_avail_idx THEN q.avail_idx - q.last_avail_idx
            ELSE q.avail_idx - q.last_avail_idx + IDX_MOD
    BY Distances
  <2>2. Waiting(new) = IF NextIdx(q.avail_idx) >= q.last_avail_idx
                       THEN NextIdx(q.avail_idx) - q.last_avail_idx
                       ELSE NextIdx(q.avail_idx) - q.last_avail_idx + IDX_MOD
    BY <1>7, <1>8, Distances
  <2> QED
    BY <1>1, <1>2, <1>3, <2>1, <2>2 DEF Idx
<1>10. RingIdx(q.last_avail_idx + w) = e
  <2>1. \/ q.last_avail_idx + w = q.avail_idx
        \/ q.last_avail_idx + w = q.avail_idx + IDX_MOD
    BY <1>1, <1>2, Distances DEF Idx
  <2>2. (q.avail_idx + IDX_MOD) % IDX_MOD = q.avail_idx
    BY <1>1, Counters
  <2>3. q.avail_idx + IDX_MOD \in Nat
    BY <1>1, <1>2 DEF Idx
  <2> QED
    BY <2>1, <2>2, <2>3, RingWraps
<1>11. \A i \in 0 .. w : Avail(new, i) = IF i = w THEN d ELSE Avail(q, i)
  <2> TAKE i \in 0 .. w
  <2>1. RingIdx(q.last_avail_idx + i) \in Descs
    <3>1. q.last_avail_idx + i \in Nat
      BY <1>1, <1>2 DEF Idx
    <3> QED
      BY <3>1, RingWraps
  <2>2. RingIdx(q.last_avail_idx + i) = e => i = w
    <3>1. q.last_avail_idx \in Nat /\ i \in 0 .. QUEUE_SIZE - 1 /\ w \in 0 .. QUEUE_SIZE - 1
      BY <1>1, <1>2 DEF Idx
    <3> QED
      BY <1>10, <3>1, RingDistinct
  <2> QED
    BY <1>1, <1>7, <1>10, <2>1, <2>2 DEF Avail
<1>12. Done(new) = Done(q) /\ \A i : UsedAt(new, i) = UsedAt(q, i)
  BY <1>7 DEF Done, UsedAt
<1> QED
  BY <1>7, <1>8, <1>9, <1>11, <1>12 DEF new

\* The next value of a counter is one further, as far as the rings go.
LEMMA OneFurther ==
  ASSUME NEW from \in Idx, NEW i \in Nat
  PROVE  RingIdx(NextIdx(from) + i) = RingIdx(from + (i + 1))
<1>1. IDX_MOD \in Nat /\ IDX_MOD > 0 /\ from \in Nat
  BY Sizes DEF Idx
<1>2. NextIdx(from) = IF from = IDX_MOD - 1 THEN 0 ELSE from + 1
  BY Counters
<1>3. CASE from = IDX_MOD - 1
  <2>1. from + (i + 1) = i + IDX_MOD /\ i + IDX_MOD \in Nat /\ NextIdx(from) + i = i
    BY <1>1, <1>2, <1>3
  <2>2. (i + IDX_MOD) % IDX_MOD = i % IDX_MOD
    <3>1. PICK q \in Int, r \in 0 .. IDX_MOD - 1 : i = (IDX_MOD * q) + r /\ r = i % IDX_MOD
      <4>1. i \div IDX_MOD \in Int /\ i % IDX_MOD \in 0 .. IDX_MOD - 1
        BY <1>1, DivMod
      <4>2. i = (IDX_MOD * (i \div IDX_MOD)) + (i % IDX_MOD)
        BY <1>1, DivMod
      <4> QED
        BY <4>1, <4>2, Zenon
    <3>2. i + IDX_MOD = (IDX_MOD * (q + 1)) + r
      <4>1. IDX_MOD * (q + 1) = (IDX_MOD * q) + IDX_MOD /\ IDX_MOD * q \in Int
        BY <1>1
      <4> QED
        BY <1>1, <3>1, <4>1
    <3>3. ((IDX_MOD * (q + 1)) + r) % IDX_MOD = r
      BY <1>1, ModIs
    <3> QED
      BY <3>1, <3>2, <3>3
  <2> QED
    BY <2>1, <2>2, RingWraps
<1>4. CASE from # IDX_MOD - 1
  <2>1. NextIdx(from) + i = from + (i + 1)
    BY <1>1, <1>2, <1>4
  <2> QED
    BY <2>1
<1> QED
  BY <1>3, <1>4

\* A chain that the device has used is the last that it has given back, and waits no longer.
LEMMA DeviceMoves ==
  ASSUME NEW q, Queue(q), Waiting(q) > 0, Done(q) < QUEUE_SIZE
  PROVE  /\ Queue(DeviceUses(q)) /\ DeviceUses(q).desc = q.desc
         /\ Waiting(DeviceUses(q)) = Waiting(q) - 1
         /\ \A i \in Nat : Avail(DeviceUses(q), i) = Avail(q, i + 1)
         /\ Done(DeviceUses(q)) = Done(q) + 1
         /\ \A i \in 0 .. Done(q) :
              UsedAt(DeviceUses(q), i) = IF i = Done(q) THEN Avail(q, 0) ELSE UsedAt(q, i)
<1> DEFINE new == DeviceUses(q)
           d == FirstAvail(q)
           e == RingIdx(q.used_idx)
           w == Done(q)
<1>1. /\ q.avail_idx \in Idx /\ q.last_avail_idx \in Idx /\ q.avail \in [Descs -> Int]
      /\ q.used_idx \in Idx /\ q.last_used_idx \in Idx /\ q.used \in [Descs -> Int]
  BY DEF Queue
<1>2. w \in Nat /\ IDX_MOD \in Nat /\ QUEUE_SIZE \in Nat /\ QUEUE_SIZE < IDX_MOD
  BY RingFacts, Sizes
<1>3. /\ NextIdx(q.used_idx) \in Idx
      /\ NextIdx(q.used_idx) = IF q.used_idx = IDX_MOD - 1 THEN 0 ELSE q.used_idx + 1
      /\ NextIdx(q.last_avail_idx) \in Idx
      /\ NextIdx(q.last_avail_idx) = IF q.last_avail_idx = IDX_MOD - 1 THEN 0 ELSE q.last_avail_idx + 1
  BY <1>1, Counters
<1>4. e \in Descs /\ d = Avail(q, 0) /\ d \in Int
  <2>1. q.used_idx \in Nat /\ q.last_avail_idx \in Nat
    BY <1>1, <1>2 DEF Idx
  <2>2. RingIdx(q.last_avail_idx) \in Descs /\ e \in Descs
    BY <2>1, RingWraps
  <2> QED
    BY <1>1, <2>2, RingFacts DEF FirstAvail
<1> HIDE DEF d
<1>5. new = [q EXCEPT !.used = [q.used EXCEPT ![e] = d], !.used_idx = NextIdx(q.used_idx),
                      !.last_avail_idx = NextIdx(q.last_avail_idx)]
  BY DEF DeviceUses, Queue, d
<1>6. [q.used EXCEPT ![e] = d] \in [Descs -> Int]
  BY <1>1, <1>4
<1> HIDE DEF new
<1>7. /\ new.desc = q.desc /\ new.avail = q.avail /\ new.avail_idx = q.avail_idx
      /\ new.used = [q.used EXCEPT ![e] = d] /\ new.used_idx = NextIdx(q.used_idx)
      /\ new.last_used_idx = q.last_used_idx
      /\ new.last_avail_idx = NextIdx(q.last_avail_idx)
  BY <1>5 DEF Queue
<1>8. Queue(new)
  BY <1>3, <1>5, <1>6, <1>7 DEF Queue
<1>9. Done(new) = w + 1
  <2>1. w = IF q.used_idx >= q.last_used_idx THEN q.used_idx - q.last_used_idx
            ELSE q.used_idx - q.last_used_idx + IDX_MOD
    BY Distances
  <2>2. Done(new) = IF NextIdx(q.used_idx) >= q.last_used_idx
                    THEN NextIdx(q.used_idx) - q.last_used_idx
                    ELSE NextIdx(q.used_idx) - q.last_used_idx + IDX_MOD
    BY <1>7, <1>8, Distances
  <2> QED
    BY <1>1, <1>2, <1>3, <2>1, <2>2 DEF Idx
<1>10. RingIdx(q.last_used_idx + w) = e
  <2>1. \/ q.last_used_idx + w = q.used_idx
        \/ q.last_used_idx + w = q.used_idx + IDX_MOD
    BY <1>1, <1>2, Distances DEF Idx
  <2>2. (q.used_idx + IDX_MOD) % IDX_MOD = q.used_idx
    BY <1>1, Counters
  <2>3. q.used_idx + IDX_MOD \in Nat
    BY <1>1, <1>2 DEF Idx
  <2> QED
    BY <2>1, <2>2, <2>3, RingWraps
<1>11. \A i \in 0 .. w : UsedAt(new, i) = IF i = w THEN d ELSE UsedAt(q, i)
  <2> TAKE i \in 0 .. w
  <2>1. RingIdx(q.last_used_idx + i) \in Descs
    <3>1. q.last_used_idx + i \in Nat
      BY <1>1, <1>2 DEF Idx
    <3> QED
      BY <3>1, RingWraps
  <2>2. RingIdx(q.last_used_idx + i) = e => i = w
    <3>1. q.last_used_idx \in Nat /\ i \in 0 .. QUEUE_SIZE - 1 /\ w \in 0 .. QUEUE_SIZE - 1
      BY <1>1, <1>2 DEF Idx
    <3> QED
      BY <1>10, <3>1, RingDistinct
  <2> QED
    BY <1>1, <1>7, <1>10, <2>1, <2>2 DEF UsedAt
<1>12. Waiting(new) = Waiting(q) - 1
  <2>1. Waiting(q) = IF q.avail_idx >= q.last_avail_idx THEN q.avail_idx - q.last_avail_idx
                     ELSE q.avail_idx - q.last_avail_idx + IDX_MOD
    BY Distances
  <2>2. Waiting(new) = IF q.avail_idx >= NextIdx(q.last_avail_idx)
                       THEN q.avail_idx - NextIdx(q.last_avail_idx)
                       ELSE q.avail_idx - NextIdx(q.last_avail_idx) + IDX_MOD
    BY <1>7, <1>8, Distances
  <2> QED
    BY <1>1, <1>2, <1>3, <2>1, <2>2 DEF Idx
<1>13. \A i \in Nat : Avail(new, i) = Avail(q, i + 1)
  BY <1>1, <1>7, OneFurther DEF Avail
<1> QED
  BY <1>4, <1>7, <1>8, <1>9, <1>11, <1>12, <1>13 DEF new

\* A chain that the driver takes back is the first that was given back.
LEMMA DriverTakes ==
  ASSUME NEW q, Queue(q), Done(q) > 0
  PROVE  /\ Queue(GetUsed(q)) /\ GetUsed(q).desc = q.desc
         /\ Waiting(GetUsed(q)) = Waiting(q)
         /\ \A i : Avail(GetUsed(q), i) = Avail(q, i)
         /\ Done(GetUsed(q)) = Done(q) - 1
         /\ \A i \in Nat : UsedAt(GetUsed(q), i) = UsedAt(q, i + 1)
<1> DEFINE new == GetUsed(q)
<1>1. q.used_idx \in Idx /\ q.last_used_idx \in Idx
  BY DEF Queue
<1>2. IDX_MOD \in Nat
  BY Sizes
<1>3. /\ NextIdx(q.last_used_idx) \in Idx
      /\ NextIdx(q.last_used_idx) = IF q.last_used_idx = IDX_MOD - 1 THEN 0 ELSE q.last_used_idx + 1
  BY <1>1, Counters
<1>4. new = [q EXCEPT !.last_used_idx = NextIdx(q.last_used_idx)]
  BY RingFacts DEF GetUsed, Queue
<1> HIDE DEF new
<1>5. /\ new.desc = q.desc /\ new.avail = q.avail /\ new.avail_idx = q.avail_idx
      /\ new.used = q.used /\ new.used_idx = q.used_idx
      /\ new.last_used_idx = NextIdx(q.last_used_idx)
      /\ new.last_avail_idx = q.last_avail_idx
  BY <1>4 DEF Queue
<1>6. Queue(new)
  BY <1>3, <1>4, <1>5 DEF Queue
<1>7. Done(new) = Done(q) - 1
  <2>1. Done(q) = IF q.used_idx >= q.last_used_idx THEN q.used_idx - q.last_used_idx
                  ELSE q.used_idx - q.last_used_idx + IDX_MOD
    BY Distances
  <2>2. Done(new) = IF q.used_idx >= NextIdx(q.last_used_idx)
                    THEN q.used_idx - NextIdx(q.last_used_idx)
                    ELSE q.used_idx - NextIdx(q.last_used_idx) + IDX_MOD
    BY <1>5, <1>6, Distances
  <2> QED
    BY <1>1, <1>2, <1>3, <2>1, <2>2 DEF Idx
<1>8. Waiting(new) = Waiting(q) /\ \A i : Avail(new, i) = Avail(q, i)
  BY <1>5 DEF Waiting, Avail
<1>9. \A i \in Nat : UsedAt(new, i) = UsedAt(q, i + 1)
  BY <1>1, <1>5, OneFurther DEF UsedAt
<1> QED
  BY <1>5, <1>6, <1>7, <1>8, <1>9 DEF new

\* A chain that is put together is not submitted yet: descriptors change, the rings do not.
LEMMA ChainKeeps ==
  ASSUME NEW q, Queue(q), NEW start, NEW bufs
  PROVE  /\ Queue(ChainFrom(q, start, bufs))
         /\ Waiting(ChainFrom(q, start, bufs)) = Waiting(q)
         /\ Done(ChainFrom(q, start, bufs)) = Done(q)
         /\ \A i : /\ Avail(ChainFrom(q, start, bufs), i) = Avail(q, i)
                   /\ UsedAt(ChainFrom(q, start, bufs), i) = UsedAt(q, i)
<1>1. \E table : ChainFrom(q, start, bufs) = [q EXCEPT !.desc = table]
  BY DEF ChainFrom
<1>2. PICK table : ChainFrom(q, start, bufs) = [q EXCEPT !.desc = table]
  BY <1>1
<1> QED
  BY <1>2 DEF Queue, Waiting, Done, Avail, UsedAt

\* The rings start empty.
LEMMA EmptyIs == Queue(EmptyQueue) /\ Waiting(EmptyQueue) = 0 /\ Done(EmptyQueue) = 0
<1>1. Queue(EmptyQueue)
  BY Sizes DEF Queue, EmptyQueue, Idx
<1>2. /\ EmptyQueue.avail_idx = 0 /\ EmptyQueue.last_avail_idx = 0
      /\ EmptyQueue.used_idx = 0 /\ EmptyQueue.last_used_idx = 0
  BY DEF EmptyQueue
<1> QED
  BY <1>1, <1>2, Distances

\* With one chain under way at most there is nothing to confuse, and with none both sides
\* are empty.
LEMMA OneChain ==
  ASSUME NEW q, Queue(q), Waiting(q) + Done(q) <= 1
  PROVE  /\ QueueSound(q)
         /\ Waiting(q) = 0 /\ Done(q) = 0 => WithDevice(q) \cup GivenBack(q) = {}
<1>1. Waiting(q) \in Nat /\ Done(q) \in Nat /\ QUEUE_SIZE \in Nat /\ QUEUE_SIZE >= 1
  BY RingFacts, Sizes
<1>2. \A i \in 0 .. Waiting(q) - 1 : i = 0
  BY <1>1
<1>3. \A i \in 0 .. Done(q) - 1 : i = 0
  BY <1>1
<1>4. \A i \in 0 .. Waiting(q) - 1, j \in 0 .. Done(q) - 1 : FALSE
  BY <1>1
<1>5. QueueSound(q)
  BY <1>1, <1>2, <1>3, <1>4, Sound
<1>6. Waiting(q) = 0 /\ Done(q) = 0 => WithDevice(q) \cup GivenBack(q) = {}
  BY Sides
<1> QED
  BY <1>5, <1>6

-----------------------------------------------------------------------------
(***************************************************************************)
(* The graphics driver, while the device answers in time.  GpuInv says     *)
(* where the command under way is - with the device, or answered and given *)
(* back - and how far the routine it belongs to has brought the device's   *)
(* resource; a set-up that was refused leaves it at an early stage.        *)
(***************************************************************************)
Accepted1 == Done(controlq) = 1 /\ resp_page = "RESP_OK_NODATA"

GpuRings ==
  /\ Queue(controlq)
  /\ timeout \in {NotWaiting} \cup 1 .. Patience
  /\ timeout = NotWaiting => Waiting(controlq) = 0 /\ Done(controlq) = 0
  /\ timeout # NotWaiting =>
       /\ script # <<>> /\ cmd_page = Head(script)
       /\ \/ Waiting(controlq) = 1 /\ Done(controlq) = 0
          \/ Waiting(controlq) = 0 /\ Done(controlq) = 1

\* The resource, with the commands that the routine has still to have answered.
Progress ==
  \/ script = SetUp /\ host.stage = (IF Accepted1 THEN 1 ELSE 0) /\ host.shown = asked
  \/ script = <<"ATTACH_BACKING", "SET_SCANOUT">>
       /\ host.stage = (IF Accepted1 THEN 2 ELSE 1) /\ host.shown = asked
  \/ script = <<"SET_SCANOUT">> /\ host.stage = (IF Accepted1 THEN 3 ELSE 2) /\ host.shown = asked
  \/ script = Transfer /\ frame = asked /\ (Accepted1 => host.copy = asked)
  \/ script = <<"RESOURCE_FLUSH">> /\ host.copy = asked
       /\ (Accepted1 /\ host.stage = 3 => host.shown = asked)
  \/ script = <<>> /\ (result = "RESP_OK_NODATA" /\ host.stage = 3 => host.shown = asked)

GpuInv ==
  /\ GpuRings
  /\ host = [stage |-> host.stage, copy |-> host.copy, shown |-> host.shown]
  /\ Progress

\* The commands of the two routines, and what is left of them after one.
LEMMA Scripts ==
  /\ SetUp # <<>> /\ Head(SetUp) = "CREATE_2D"
  /\ Tail(SetUp) = <<"ATTACH_BACKING", "SET_SCANOUT">>
  /\ <<"ATTACH_BACKING", "SET_SCANOUT">> # <<>>
  /\ Head(<<"ATTACH_BACKING", "SET_SCANOUT">>) = "ATTACH_BACKING"
  /\ Tail(<<"ATTACH_BACKING", "SET_SCANOUT">>) = <<"SET_SCANOUT">>
  /\ <<"SET_SCANOUT">> # <<>>
  /\ Head(<<"SET_SCANOUT">>) = "SET_SCANOUT" /\ Tail(<<"SET_SCANOUT">>) = <<>>
  /\ Transfer # <<>> /\ Head(Transfer) = "TRANSFER_TO_HOST_2D"
  /\ Tail(Transfer) = <<"RESOURCE_FLUSH">>
  /\ <<"RESOURCE_FLUSH">> # <<>>
  /\ Head(<<"RESOURCE_FLUSH">>) = "RESOURCE_FLUSH" /\ Tail(<<"RESOURCE_FLUSH">>) = <<>>
BY DEF SetUp, Transfer

\* A command is sent: the rings are empty, so it is the only one under way.
LEMMA SendKeeps == ASSUME GpuInv, Send PROVE GpuInv'
<1> DEFINE chained == ChainFrom(controlq, 0, <<Out("cmd"), In("resp")>>)
<1>1. /\ script # <<>> /\ timeout = NotWaiting /\ cmd_page' = Head(script)
      /\ controlq' = Submit(chained, 0) /\ timeout' = Patience
      /\ UNCHANGED <<script, result, frame, asked, host>>
  BY DEF Send
<1>2. Queue(controlq) /\ Waiting(controlq) = 0 /\ Done(controlq) = 0
  BY <1>1 DEF GpuInv, GpuRings
<1>3. Queue(chained) /\ Waiting(chained) = 0 /\ Done(chained) = 0
  BY <1>2, ChainKeeps
<1> HIDE DEF chained
<1>4. Queue(controlq') /\ Waiting(controlq') = 1 /\ Done(controlq') = 0
  BY <1>1, <1>3, SubmitAdds, Sizes
<1>5. Patience \in Nat \ {0}
  BY GpuAssumption
<1>6. GpuRings'
  BY <1>1, <1>4, <1>5 DEF GpuRings, NotWaiting
<1>7. Progress'
  BY <1>1, <1>2, <1>4 DEF GpuInv, Progress, Accepted1
<1> QED
  BY <1>1, <1>6, <1>7 DEF GpuInv

\* The device answers the command under way: a command that it refuses changes nothing.
LEMMA RunsKeeps == ASSUME GpuInv, GpuRuns PROVE GpuInv'
<1>1. PICK accepts \in BOOLEAN : GpuAnswers(accepts)
  BY DEF GpuRuns
<1>2. /\ has_avail(controlq)
      /\ accepts => Acceptable(cmd_page)
      /\ host' = IF accepts THEN Executed(cmd_page) ELSE host
      /\ resp_page' = IF accepts THEN "RESP_OK_NODATA" ELSE "RESP_ERR_UNSPEC"
      /\ controlq' = DeviceUses(controlq)
      /\ UNCHANGED <<cmd_page, script, timeout, result, frame, asked>>
  BY <1>1 DEF GpuAnswers
<1>3. /\ Queue(controlq) /\ Waiting(controlq) = 1 /\ Done(controlq) = 0
      /\ timeout # NotWaiting /\ script # <<>> /\ cmd_page = Head(script)
  BY <1>2, RingFacts DEF GpuInv, GpuRings
<1>4. Queue(controlq') /\ Waiting(controlq') = 0 /\ Done(controlq') = 1
  BY <1>2, <1>3, DeviceMoves, Sizes
<1>5. /\ host = [stage |-> host.stage, copy |-> host.copy, shown |-> host.shown]
      /\ Progress /\ ~Accepted1
  BY <1>3 DEF GpuInv, Accepted1
<1>6. GpuRings'
  BY <1>2, <1>3, <1>4 DEF GpuInv, GpuRings
<1>7. host' = [stage |-> host'.stage, copy |-> host'.copy, shown |-> host'.shown]
  BY <1>2, <1>5 DEF Executed
<1>8. CASE ~accepts
  <2>1. host' = host /\ ~Accepted1'
    BY <1>2, <1>8 DEF Accepted1
  <2>2. Progress'
    BY <1>2, <1>5, <2>1 DEF Progress
  <2> QED
    BY <1>6, <1>7, <2>2 DEF GpuInv
<1>9. CASE accepts
  <2>1. host' = Executed(cmd_page) /\ Acceptable(cmd_page) /\ Accepted1'
    BY <1>2, <1>4, <1>9 DEF Accepted1
  <2>2. Progress'
    <3>1. CASE script = SetUp
      BY <1>2, <1>3, <1>5, <2>1, <3>1, Scripts DEF Progress, Executed
    <3>2. CASE script = <<"ATTACH_BACKING", "SET_SCANOUT">>
      BY <1>2, <1>3, <1>5, <2>1, <3>2, Scripts DEF Progress, Executed
    <3>3. CASE script = <<"SET_SCANOUT">>
      BY <1>2, <1>3, <1>5, <2>1, <3>3, Scripts DEF Progress, Executed
    <3>4. CASE script = Transfer
      BY <1>2, <1>3, <1>5, <2>1, <3>4, Scripts DEF Progress, Executed
    <3>5. CASE script = <<"RESOURCE_FLUSH">>
      BY <1>2, <1>3, <1>5, <2>1, <3>5, Scripts DEF Progress, Executed
    <3> QED
      BY <1>3, <1>5, <3>1, <3>2, <3>3, <3>4, <3>5 DEF Progress
  <2> QED
    BY <1>6, <1>7, <2>2 DEF GpuInv
<1> QED
  BY <1>8, <1>9

\* The wait ends, with the answer to the command at hand.
LEMMA LoopEndsKeeps == ASSUME GpuInv, LoopEnds PROVE GpuInv'
<1>1. timeout # NotWaiting /\ timeout # 0
  BY DEF LoopEnds, GpuInv, GpuRings, NotWaiting
<1>2. has_used(controlq) /\ ReturnsResponse(timeout)
  BY <1>1 DEF LoopEnds, ReportsTimeout
<1>3. /\ Queue(controlq) /\ Waiting(controlq) = 0 /\ Done(controlq) = 1
      /\ script # <<>>
  BY <1>1, <1>2, RingFacts DEF GpuInv, GpuRings
<1>4. /\ controlq' = GetUsed(controlq)
      /\ result' = resp_page /\ timeout' = NotWaiting
      /\ script' = IF resp_page = "RESP_OK_NODATA" THEN Tail(script) ELSE <<>>
      /\ UNCHANGED <<cmd_page, resp_page, frame, asked, host>>
  BY <1>2, <1>3 DEF ReturnsResponse, Returns
<1>5. Queue(controlq') /\ Waiting(controlq') = 0 /\ Done(controlq') = 0
  BY <1>3, <1>4, DriverTakes
<1>6. GpuRings'
  BY <1>4, <1>5 DEF GpuRings
<1>7. (Accepted1 <=> resp_page = "RESP_OK_NODATA") /\ ~Accepted1'
  BY <1>3, <1>5 DEF Accepted1
<1>8. Progress'
  <2>1. CASE resp_page = "RESP_OK_NODATA"
    BY <1>3, <1>4, <1>7, <2>1, Scripts DEF GpuInv, Progress
  <2>2. CASE resp_page # "RESP_OK_NODATA"
    BY <1>4, <2>2 DEF Progress
  <2> QED
    BY <2>1, <2>2
<1> QED
  BY <1>4, <1>6, <1>8 DEF GpuInv

\* Waiting, drawing and asking for a flush.
LEMMA OthersKeep ==
  ASSUME GpuInv, Late = FALSE, Spin \/ Flush \/ Draw \/ UNCHANGED gpuVars
  PROVE  GpuInv'
<1>1. CASE Spin
  <2>1. timeout > 1 /\ timeout' = timeout - 1 /\ timeout \in 1 .. Patience
        /\ UNCHANGED <<controlq, cmd_page, resp_page, script, result, frame, asked, host>>
    BY <1>1, GpuAssumption DEF Spin, GpuInv, GpuRings, NotWaiting
  <2>2. timeout' \in 1 .. Patience /\ timeout' # NotWaiting /\ timeout # NotWaiting
    BY <2>1, GpuAssumption DEF NotWaiting
  <2>3. GpuRings'
    BY <2>1, <2>2 DEF GpuInv, GpuRings
  <2> QED
    BY <2>1, <2>3 DEF GpuInv, Progress, Accepted1
<1>2. CASE Flush
  <2>1. /\ script = <<>> /\ script' = Transfer /\ asked' = frame
        /\ UNCHANGED <<controlq, cmd_page, resp_page, timeout, result, frame, host>>
    BY <1>2 DEF Flush
  <2>2. timeout = NotWaiting
    BY <2>1 DEF GpuInv, GpuRings
  <2>3. GpuRings'
    BY <2>1, <2>2 DEF GpuInv, GpuRings
  <2>4. Progress'
    BY <2>1, <2>2, Scripts DEF GpuInv, GpuRings, Progress, Accepted1
  <2> QED
    BY <2>1, <2>3, <2>4 DEF GpuInv
<1>3. CASE Draw
  <2>1. /\ script = <<>>
        /\ UNCHANGED <<controlq, cmd_page, resp_page, script, timeout, result, asked, host>>
    BY <1>3 DEF Draw
  <2>2. GpuRings'
    BY <2>1 DEF GpuInv, GpuRings
  <2>3. Progress'
    BY <2>1, Scripts DEF GpuInv, Progress
  <2> QED
    BY <2>1, <2>2, <2>3 DEF GpuInv
<1>4. CASE UNCHANGED gpuVars
  BY <1>4 DEF gpuVars, GpuInv, GpuRings, Progress, Accepted1
<1> QED
  BY <1>1, <1>2, <1>3, <1>4

\* While the device answers in time, accepting commands or refusing them: the two pages are
\* the driver's whenever it writes them, one command is under way at most, a flush whose
\* commands were all accepted, those of the set-up included, has put on the screen what was
\* drawn, and one that is refused leaves nothing that a later one would show (send_command,
\* create_framebuffer, flush).
THEOREM FlushesShowTheFrame ==
  ASSUME Late = FALSE
  PROVE  GpuSpec => []FlushShowsTheFrame
<1>1. GpuInit => GpuInv
  <2> SUFFICES ASSUME GpuInit PROVE GpuInv
    OBVIOUS
  <2>1. GpuRings
    BY EmptyIs DEF GpuInit, GpuRings
  <2>2. /\ host = [stage |-> 0, copy |-> Blank, shown |-> Blank] /\ ~Accepted1
        /\ script = SetUp /\ asked = Blank
    BY EmptyIs DEF GpuInit, NoResource, Accepted1
  <2> QED
    BY <2>1, <2>2 DEF GpuInv, Progress
<1>2. GpuInv /\ [GpuNext]_gpuVars => GpuInv'
  BY SendKeeps, RunsKeeps, LoopEndsKeeps, OthersKeep DEF GpuNext
<1>3. GpuInv => FlushShowsTheFrame
  <2> SUFFICES ASSUME GpuInv PROVE FlushShowsTheFrame
    OBVIOUS
  <2>1. Queue(controlq) /\ Waiting(controlq) + Done(controlq) <= 1
    BY DEF GpuInv, GpuRings
  <2>2. timeout = NotWaiting => Waiting(controlq) = 0 /\ Done(controlq) = 0
    BY DEF GpuInv, GpuRings
  <2>3. /\ script = <<>> /\ result = "RESP_OK_NODATA" /\ host.stage = 3 => host.shown = asked
        /\ script = <<"RESOURCE_FLUSH">> => host.copy = asked
    BY Scripts DEF GpuInv, Progress, SetUp, Transfer
  <2> QED
    BY <2>1, <2>2, <2>3, OneChain DEF FlushShowsTheFrame
<1> QED
  BY <1>1, <1>2, <1>3, PTL DEF GpuSpec

-----------------------------------------------------------------------------
(***************************************************************************)
(* The disk driver.  While do_sector_request spins there is one request,   *)
(* with the device or given back, for the sector the loop is at; the       *)
(* storage is what the sectors moved so far make of it, but for that       *)
(* sector once the device has had the request.                             *)
(***************************************************************************)
\* What a write of the sectors moved so far makes of sector s; a read changes nothing.
Stored(s) == IF transfer.type = "WRITE" /\ s - transfer.sector \in 0 .. moved - 1
             THEN buff[s - transfer.sector + 1] ELSE before[s]

DiskTypes ==
  /\ Queue(diskq)
  /\ waiting \in BOOLEAN
  /\ res \in {"RES_OK", "RES_ERROR"}
  /\ storage = [s \in Sectors |-> storage[s]]
  /\ request = [type |-> request.type, sector |-> request.sector, data |-> request.data,
                status |-> request.status]

OneRequest == Waiting(diskq) + Done(diskq) = IF waiting THEN 1 ELSE 0

\* Where the transfer is, and what the request under way is for.
AtHand ==
  /\ transfer.type \in {"READ", "WRITE"} /\ transfer.sector \in Nat /\ transfer.count \in Nat
  /\ moved \in 0 .. transfer.count /\ Sector <= capacity_sectors
  /\ buff = [i \in 1 .. transfer.count |-> buff[i]]
  /\ ~waiting /\ res = "RES_OK" => \A s \in Sectors : storage[s] = Stored(s)
  /\ \A s \in Sectors : s # Sector => storage[s] = Stored(s)
  /\ transfer.type = "READ" =>
       /\ \A s \in Sectors : storage[s] = before[s]
       /\ \A i \in 1 .. moved : buff[i] = storage[transfer.sector + i - 1]
  /\ waiting =>
       /\ res = "RES_OK" /\ moved < transfer.count /\ Sector < capacity_sectors
       /\ request.type = transfer.type /\ request.sector = Sector
       /\ transfer.type = "WRITE" => request.data = buff[moved + 1]
       /\ Done(diskq) = 1 /\ request.status = 0 => storage[Sector] = request.data

DiskInv ==
  /\ DiskTypes
  /\ OneRequest
  /\ IF transfer = NoTransfer THEN ~waiting ELSE AtHand

\* FatFs asks for a transfer.
LEMMA CallDisk ==
  ASSUME DiskInv, NEW type \in {"READ", "WRITE"}, NEW sector \in 0 .. capacity_sectors,
         NEW count \in Counts, Call(type, sector, count)
  PROVE  DiskInv'
<1>1. /\ transfer = NoTransfer /\ buff' \in [1 .. count -> Contents]
      /\ transfer' = [type |-> type, sector |-> sector, count |-> count]
      /\ moved' = 0 /\ before' = storage /\ res' = "RES_OK"
      /\ UNCHANGED <<diskq, request, storage, waiting>>
  BY DEF Call
<1>2. count \in Nat /\ capacity_sectors \in Nat
  BY DiskAssumption
<1>3. /\ transfer'.type = type /\ transfer'.sector = sector /\ transfer'.count = count
      /\ transfer' # NoTransfer
  BY <1>1 DEF NoTransfer
<1>4. ~waiting /\ ~waiting'
  BY <1>1 DEF DiskInv
<1>5. DiskTypes' /\ OneRequest'
  BY <1>1 DEF DiskInv, DiskTypes, OneRequest
<1>6. \A s \in Sectors : storage'[s] = Stored(s)' /\ storage'[s] = before'[s]
  BY <1>1 DEF Stored
<1>7. Sector' = sector /\ sector \in Nat
  BY <1>1, <1>2, <1>3 DEF Sector
<1>8. AtHand'
  BY <1>1, <1>2, <1>3, <1>4, <1>6, <1>7 DEF AtHand
<1> QED
  BY <1>3, <1>5, <1>8 DEF DiskInv

\* A request is made.
LEMMA RequestDisk == ASSUME DiskInv, Request PROVE DiskInv'
<1> DEFINE chained == ChainFrom(diskq, 0,
             <<Out("header"), [buf |-> "data", writable |-> transfer.type = "READ"], In("status")>>)
<1>1. /\ AtSector /\ Sector < capacity_sectors
      /\ request' = [request EXCEPT !.type = transfer.type, !.sector = Sector,
                       !.data = IF transfer.type = "WRITE" THEN buff[moved + 1] ELSE @]
      /\ diskq' = Submit(chained, 0) /\ waiting' = TRUE
      /\ UNCHANGED <<storage, transfer, moved, buff, res, before>>
  BY DEF Request
<1>2. transfer # NoTransfer /\ ~waiting /\ moved < transfer.count /\ res = "RES_OK" /\ AtHand
  BY <1>1 DEF AtSector, DiskInv
<1>3. Queue(diskq) /\ Waiting(diskq) = 0 /\ Done(diskq) = 0
  BY <1>2, RingFacts DEF DiskInv, DiskTypes, OneRequest
<1>4. Queue(chained) /\ Waiting(chained) = 0 /\ Done(chained) = 0
  BY <1>3, ChainKeeps
<1> HIDE DEF chained
<1>5. Queue(diskq') /\ Waiting(diskq') = 1 /\ Done(diskq') = 0
  BY <1>1, <1>4, SubmitAdds, Sizes
<1>6. /\ request' = [type |-> request'.type, sector |-> request'.sector, data |-> request'.data,
                     status |-> request'.status]
      /\ request'.type = transfer.type /\ request'.sector = Sector
      /\ transfer.type = "WRITE" => request'.data = buff[moved + 1]
  <2> DEFINE d == IF transfer.type = "WRITE" THEN buff[moved + 1] ELSE request.data
  <2>1. request' = [type |-> transfer.type, sector |-> Sector, data |-> d, status |-> request.status]
    BY <1>1 DEF DiskInv, DiskTypes
  <2> QED
    BY <2>1
<1>7. DiskTypes' /\ OneRequest'
  BY <1>1, <1>5, <1>6 DEF DiskInv, DiskTypes, OneRequest
<1>8. Sector' = Sector /\ \A s \in Sectors : Stored(s)' = Stored(s)
  BY <1>1 DEF Sector, Stored
<1>9. AtHand'
  <2>1. /\ transfer.type \in {"READ", "WRITE"} /\ transfer.sector \in Nat /\ transfer.count \in Nat
        /\ moved \in 0 .. transfer.count /\ Sector <= capacity_sectors
        /\ buff = [i \in 1 .. transfer.count |-> buff[i]]
        /\ \A s \in Sectors : storage[s] = Stored(s)
        /\ transfer.type = "READ" =>
             /\ \A s \in Sectors : storage[s] = before[s]
             /\ \A i \in 1 .. moved : buff[i] = storage[transfer.sector + i - 1]
    BY <1>2 DEF AtHand
  <2>2. \A s \in Sectors : storage'[s] = Stored(s)'
    BY <1>1, <1>8, <2>1
  <2>3. Done(diskq') # 1 /\ waiting'
    BY <1>1, <1>5
  <2> QED
    BY <1>1, <1>2, <1>6, <1>8, <2>1, <2>2, <2>3 DEF AtHand
<1> QED
  BY <1>1, <1>2, <1>7, <1>9 DEF DiskInv

\* The device works on the request, or fails it.
LEMMA RunsDisk == ASSUME DiskInv, DiskRuns PROVE DiskInv'
<1>1. /\ has_avail(diskq) /\ diskq' = DeviceUses(diskq)
      /\ UNCHANGED <<transfer, moved, waiting, buff, res, before>>
  BY DEF DiskRuns
<1>2. \/ /\ request.type = "READ" /\ UNCHANGED storage
         /\ request' = [request EXCEPT !.data = storage[request.sector], !.status = 0]
      \/ /\ request.type = "WRITE"
         /\ storage' = [storage EXCEPT ![request.sector] = request.data]
         /\ request' = [request EXCEPT !.status = 0]
      \/ /\ request' = [request EXCEPT !.status = 1]
         /\ \/ UNCHANGED storage
            \/ /\ request.type = "WRITE"
               /\ storage' = [storage EXCEPT ![request.sector] = request.data]
  BY DEF DiskRuns
<1>3. Queue(diskq) /\ waiting /\ Waiting(diskq) = 1 /\ Done(diskq) = 0
  BY <1>1, RingFacts DEF DiskInv, DiskTypes, OneRequest
<1>4. Queue(diskq') /\ Waiting(diskq') = 0 /\ Done(diskq') = 1
  BY <1>1, <1>3, DeviceMoves, Sizes
<1>5. transfer # NoTransfer /\ AtHand
  BY <1>3 DEF DiskInv
<1>6. /\ res = "RES_OK" /\ moved < transfer.count /\ Sector < capacity_sectors
      /\ request.type = transfer.type /\ request.sector = Sector /\ Sector \in Sectors
      /\ transfer.type = "WRITE" => request.data = buff[moved + 1]
  BY <1>3, <1>5, DiskAssumption DEF AtHand, Sector, Sectors
<1>7. /\ request' = [type |-> request'.type, sector |-> request'.sector, data |-> request'.data,
                     status |-> request'.status]
      /\ request'.type = request.type /\ request'.sector = request.sector
      /\ transfer.type = "WRITE" => request'.data = request.data
  BY <1>2, <1>6 DEF DiskInv, DiskTypes
<1>8. /\ storage' = [s \in Sectors |-> storage'[s]]
      /\ \A s \in Sectors : s # Sector => storage'[s] = storage[s]
      /\ transfer.type = "READ" => storage' = storage
      /\ request'.status = 0 => storage'[Sector] = request'.data
  <2>1. /\ storage = [s \in Sectors |-> storage[s]]
        /\ request = [type |-> request.type, sector |-> request.sector, data |-> request.data,
                      status |-> request.status]
    BY DEF DiskInv, DiskTypes
  <2>2. CASE /\ request.type = "READ" /\ UNCHANGED storage
             /\ request' = [request EXCEPT !.data = storage[request.sector], !.status = 0]
    <3>1. request'.data = storage[Sector]
      BY <1>6, <2>1, <2>2
    <3> QED
      BY <1>6, <2>1, <2>2, <3>1
  <2>3. CASE /\ request.type = "WRITE"
             /\ storage' = [storage EXCEPT ![request.sector] = request.data]
             /\ request' = [request EXCEPT !.status = 0]
    <3>1. request'.data = request.data
      BY <2>1, <2>3
    <3> QED
      BY <1>6, <2>1, <2>3, <3>1
  <2>4. CASE /\ request' = [request EXCEPT !.status = 1]
             /\ \/ UNCHANGED storage
                \/ /\ request.type = "WRITE"
                   /\ storage' = [storage EXCEPT ![request.sector] = request.data]
    <3>1. request'.status = 1
      BY <2>1, <2>4
    <3> QED
      BY <1>6, <2>1, <2>4, <3>1
  <2> QED
    BY <1>2, <2>2, <2>3, <2>4
<1>9. DiskTypes' /\ OneRequest'
  BY <1>1, <1>4, <1>7, <1>8, <1>3 DEF DiskInv, DiskTypes, OneRequest
<1>10. Sector' = Sector /\ \A s \in Sectors : Stored(s)' = Stored(s)
  BY <1>1 DEF Sector, Stored
<1>11. AtHand'
  BY <1>1, <1>3, <1>5, <1>6, <1>7, <1>8, <1>10 DEF AtHand
<1> QED
  BY <1>1, <1>5, <1>9, <1>11 DEF DiskInv

\* The wait ends, with the sector done or the transfer failed.
LEMMA CompletesDisk == ASSUME DiskInv, Complete PROVE DiskInv'
<1>1. /\ waiting /\ has_used(diskq) /\ diskq' = GetUsed(diskq) /\ waiting' = FALSE
      /\ UNCHANGED <<request, storage, transfer, before>>
  BY DEF Complete
<1>2. Queue(diskq) /\ Waiting(diskq) = 0 /\ Done(diskq) = 1
  BY <1>1, RingFacts DEF DiskInv, DiskTypes, OneRequest
<1>3. Queue(diskq') /\ Waiting(diskq') = 0 /\ Done(diskq') = 0
  BY <1>1, <1>2, DriverTakes
<1>4. transfer # NoTransfer /\ AtHand /\ transfer' # NoTransfer
  BY <1>1 DEF DiskInv
<1>5. /\ res = "RES_OK" /\ moved \in Nat /\ moved < transfer.count /\ Sector < capacity_sectors
      /\ request.type = transfer.type /\ Sector \in Sectors /\ capacity_sectors \in Nat
      /\ transfer.type = "WRITE" => request.data = buff[moved + 1]
      /\ request.status = 0 => storage[Sector] = request.data
      /\ transfer.sector \in Nat /\ transfer.count \in Nat
  BY <1>1, <1>2, <1>4, DiskAssumption DEF AtHand, Sector, Sectors
<1>6. OneRequest'
  BY <1>1, <1>3 DEF OneRequest
<1>7. CASE request.status = 0
  <2>1. /\ moved' = moved + 1 /\ res' = res
        /\ buff' = IF transfer.type = "READ" THEN [buff EXCEPT ![moved + 1] = request.data]
                                             ELSE buff
    BY <1>7 DEF Complete
  <2>2. DiskTypes'
    BY <1>1, <1>3, <1>5, <2>1 DEF DiskInv, DiskTypes
  <2>3. Sector' = Sector + 1 /\ Sector \in Nat
    BY <1>1, <1>5, <2>1 DEF Sector
  <2>4. /\ buff' = [i \in 1 .. transfer.count |-> buff'[i]]
        /\ \A i \in 1 .. transfer.count : i # moved + 1 => buff'[i] = buff[i]
        /\ buff'[moved + 1] = request.data
    <3>1. buff = [i \in 1 .. transfer.count |-> buff[i]] /\ moved + 1 \in 1 .. transfer.count
      BY <1>4, <1>5 DEF AtHand
    <3>2. CASE transfer.type = "READ"
      <4>1. buff' = [buff EXCEPT ![moved + 1] = request.data]
        BY <2>1, <3>2
      <4> QED
        BY <3>1, <4>1
    <3>3. CASE transfer.type = "WRITE"
      <4>1. buff' = buff /\ request.data = buff[moved + 1]
        BY <1>5, <2>1, <3>3
      <4> QED
        BY <3>1, <4>1
    <3> QED
      BY <1>4, <3>2, <3>3 DEF AtHand
  <2>5. \A s \in Sectors : storage[s] = Stored(s)'
    <3> TAKE s \in Sectors
    <3>1. CASE transfer.type = "READ"
      BY <1>1, <1>4, <3>1 DEF AtHand, Stored
    <3>2. CASE transfer.type = "WRITE"
      <4>1. s \in Int
        BY <1>5 DEF Sectors
      <4>2. buff' = buff
        BY <2>1, <3>2
      <4>3. CASE s = Sector
        <5>1. s - transfer.sector = moved
          BY <1>5, <4>3 DEF Sector
        <5> QED
          BY <1>1, <1>5, <1>7, <2>1, <2>4, <3>2, <4>3, <5>1 DEF Stored
      <4>4. CASE s # Sector
        <5>1. s - transfer.sector # moved /\ s - transfer.sector \in Int
          BY <1>5, <4>1, <4>4 DEF Sector
        <5>2. s - transfer.sector \in 0 .. moved' - 1 <=> s - transfer.sector \in 0 .. moved - 1
          BY <1>5, <2>1, <5>1
        <5>3. storage[s] = Stored(s)
          BY <1>4, <4>4 DEF AtHand
        <5> QED
          BY <1>1, <4>2, <5>2, <5>3 DEF Stored
      <4> QED
        BY <4>3, <4>4
    <3> QED
      BY <1>4, <3>1, <3>2 DEF AtHand
  <2>6. transfer.type = "READ" => \A i \in 1 .. moved + 1 : buff'[i] = storage[transfer.sector + i - 1]
    <3> SUFFICES ASSUME transfer.type = "READ", NEW i \in 1 .. moved + 1
                 PROVE  buff'[i] = storage[transfer.sector + i - 1]
      OBVIOUS
    <3>1. CASE i = moved + 1
      <4>1. transfer.sector + i - 1 = Sector
        BY <1>5, <3>1 DEF Sector
      <4> QED
        BY <1>5, <1>7, <2>4, <3>1, <4>1
    <3>2. CASE i # moved + 1
      <4>1. i \in 1 .. moved /\ i \in 1 .. transfer.count
        BY <1>5, <3>2
      <4> QED
        BY <1>4, <2>4, <3>2, <4>1 DEF AtHand
    <3> QED
      BY <3>1, <3>2
  <2>7. AtHand'
    <3>1. moved' \in 0 .. transfer.count /\ Sector' <= capacity_sectors
      BY <1>5, <2>1, <2>3
    <3> QED
      BY <1>1, <1>4, <1>5, <2>1, <2>4, <2>5, <2>6, <3>1 DEF AtHand
  <2> QED
    BY <1>4, <1>6, <2>2, <2>7 DEF DiskInv
<1>8. CASE request.status # 0
  <2>1. moved' = moved /\ res' = "RES_ERROR" /\ buff' = buff
    BY <1>8 DEF Complete
  <2>2. DiskTypes'
    BY <1>1, <1>3, <2>1 DEF DiskInv, DiskTypes
  <2>3. Sector' = Sector /\ \A s \in Sectors : Stored(s)' = Stored(s)
    BY <1>1, <2>1 DEF Sector, Stored
  <2>4. AtHand'
    BY <1>1, <1>4, <1>5, <2>1, <2>3 DEF AtHand
  <2> QED
    BY <1>4, <1>6, <2>2, <2>4 DEF DiskInv
<1> QED
  BY <1>7, <1>8

\* A transfer beyond the end, the return from one, and what leaves the disk alone.
LEMMA OthersDisk == ASSUME DiskInv, OutOfBounds \/ Return \/ UNCHANGED diskVars PROVE DiskInv'
<1>1. CASE OutOfBounds
  <2>1. /\ AtSector /\ res' = "RES_ERROR"
        /\ UNCHANGED <<diskq, request, storage, transfer, moved, waiting, buff, before>>
    BY <1>1 DEF OutOfBounds
  <2>2. transfer # NoTransfer /\ ~waiting /\ AtHand
    BY <2>1 DEF AtSector, DiskInv
  <2>3. Sector' = Sector /\ \A s \in Sectors : Stored(s)' = Stored(s)
    BY <2>1 DEF Sector, Stored
  <2>4. DiskTypes' /\ OneRequest'
    BY <2>1 DEF DiskInv, DiskTypes, OneRequest
  <2>5. AtHand'
    BY <2>1, <2>2, <2>3 DEF AtHand
  <2> QED
    BY <2>1, <2>2, <2>4, <2>5 DEF DiskInv
<1>2. CASE Return
  BY <1>2 DEF Return, Over, DiskInv, DiskTypes, OneRequest
<1>3. CASE UNCHANGED diskVars
  <2>1. UNCHANGED <<diskq, request, storage, transfer, moved, waiting, buff, res, before>>
    BY <1>3 DEF diskVars
  <2>2. Sector' = Sector /\ \A s \in Sectors : Stored(s)' = Stored(s)
    BY <2>1 DEF Sector, Stored
  <2>3. (DiskTypes' <=> DiskTypes) /\ (OneRequest' <=> OneRequest)
    BY <2>1 DEF DiskTypes, OneRequest
  <2>4. AtHand => AtHand'
    BY <2>1, <2>2 DEF AtHand
  <2> QED
    BY <2>1, <2>3, <2>4 DEF DiskInv
<1> QED
  BY <1>1, <1>2, <1>3

\* A transfer that returns RES_OK has moved every sector and touched no other, one that
\* fails has moved a prefix, and the request buffer is the driver's whenever it fills it:
\* for disks, transfers and queues of any size, whatever the device fails (disk_read,
\* disk_write, do_sector_request).
THEOREM TransfersWhole == DiskSpec => []TransfersAreWhole
<1>1. DiskInit => DiskInv
  <2> SUFFICES ASSUME DiskInit PROVE DiskInv
    OBVIOUS
  <2>1. /\ diskq = EmptyQueue /\ waiting = FALSE /\ res = "RES_OK"
        /\ storage \in [Sectors -> Contents]
        /\ request = [type |-> "READ", sector |-> 0, data |-> Empty, status |-> 0]
    BY DEF DiskInit
  <2>2. storage = [s \in Sectors |-> storage[s]]
    BY <2>1
  <2>3. request = [type |-> request.type, sector |-> request.sector, data |-> request.data,
                   status |-> request.status]
    BY <2>1
  <2>4. Queue(diskq) /\ Waiting(diskq) = 0 /\ Done(diskq) = 0
    BY <2>1, EmptyIs
  <2>5. DiskTypes /\ OneRequest
    <3>1. waiting \in BOOLEAN /\ ~waiting /\ res \in {"RES_OK", "RES_ERROR"}
      BY <2>1, Zenon
    <3>2. OneRequest
      BY <2>4, <3>1 DEF OneRequest
    <3> QED
      BY <2>2, <2>3, <2>4, <3>1, <3>2, Zenon DEF DiskTypes
  <2> QED
    BY <2>5 DEF DiskInit, DiskInv
<1>2. DiskInv /\ [DiskNext]_diskVars => DiskInv'
  BY CallDisk, RequestDisk, RunsDisk, CompletesDisk, OthersDisk DEF DiskNext
<1>3. DiskInv => TransfersAreWhole
  <2> SUFFICES ASSUME DiskInv PROVE TransfersAreWhole
    OBVIOUS
  <2>1. Queue(diskq) /\ Waiting(diskq) + Done(diskq) <= 1
    BY DEF DiskInv, DiskTypes, OneRequest
  <2>2. ~waiting => Waiting(diskq) = 0 /\ Done(diskq) = 0
    BY RingFacts DEF DiskInv, DiskTypes, OneRequest
  <2>3. Over =>
          /\ res = "RES_OK" => moved = transfer.count
          /\ \A s \in Sectors : storage[s] # Stored(s) => res = "RES_ERROR" /\ s = Sector
          /\ transfer.type = "READ" =>
               \A i \in 1 .. moved : buff[i] = storage[transfer.sector + i - 1]
    BY DEF Over, DiskInv, DiskTypes, AtHand
  <2> DEFINE stored == [s \in Sectors |->
               IF transfer.type = "WRITE" /\ s - transfer.sector \in 0 .. moved - 1
               THEN buff[s - transfer.sector + 1] ELSE before[s]]
  <2>4. \A s \in Sectors : stored[s] = Stored(s)
    BY DEF Stored
  <2> QED
    BY <2>1, <2>2, <2>3, <2>4, OneChain DEF TransfersAreWhole
<1> QED
  BY <1>1, <1>2, <1>3, PTL DEF DiskSpec

-----------------------------------------------------------------------------
(***************************************************************************)
(* The keyboard driver.  Every event buffer has its descriptor for ever,   *)
(* and is in one place: the i-th that waits for the device, the i-th given *)
(* back, or in the hands of poll_key.                                      *)
(***************************************************************************)
Chain(b) == [buf |-> b, writable |-> TRUE, chained |-> FALSE, next |-> 0]

InHand == IF polling = NoDesc THEN 0 ELSE 1

Rings ==
  /\ Queue(eventq)
  /\ \A b \in Buffers : eventq.desc[b] = Chain(b)
  /\ event_buffers = [b \in Buffers |-> event_buffers[b]]
  /\ polling \in Buffers \cup {NoDesc}
  /\ Waiting(eventq) + Done(eventq) + InHand = KEYBOARD_EVENT_BUFFERS

\* No buffer is in two places, and one that waits is cleared.
Apart ==
  /\ \A i \in 0 .. Waiting(eventq) - 1 :
       /\ Avail(eventq, i) \in Buffers /\ Avail(eventq, i) # polling
       /\ event_buffers[Avail(eventq, i)] = Cleared
  /\ \A i \in 0 .. Done(eventq) - 1 : UsedAt(eventq, i) \in Buffers /\ UsedAt(eventq, i) # polling
  /\ \A i, j \in 0 .. Waiting(eventq) - 1 : Avail(eventq, i) = Avail(eventq, j) => i = j
  /\ \A i, j \in 0 .. Done(eventq) - 1 : UsedAt(eventq, i) = UsedAt(eventq, j) => i = j
  /\ \A i \in 0 .. Waiting(eventq) - 1, j \in 0 .. Done(eventq) - 1 :
       Avail(eventq, i) # UsedAt(eventq, j)

\* Every buffer is somewhere.
Somewhere ==
  \A b \in Buffers : \/ b = polling
                     \/ \E i \in 0 .. Waiting(eventq) - 1 : b = Avail(eventq, i)
                     \/ \E i \in 0 .. Done(eventq) - 1 : b = UsedAt(eventq, i)

KeyboardInv == Rings /\ Apart /\ Somewhere

\* The bound on the buffers, in numbers.
LEMMA Numbers ==
  /\ KEYBOARD_EVENT_BUFFERS \in Nat /\ KEYBOARD_EVENT_BUFFERS >= 1
  /\ KEYBOARD_EVENT_BUFFERS <= QUEUE_SIZE /\ QUEUE_SIZE \in Nat /\ NoDesc \notin Buffers
  /\ Buffers \subseteq Nat /\ Buffers \subseteq Descs
BY KeyboardAssumption, Sizes DEF Buffers, NoDesc, Descs

\* A poll takes the first buffer that was given back.
LEMMA TakeKeeps == ASSUME KeyboardInv, PollTake PROVE KeyboardInv'
<1> DEFINE W == Waiting(eventq)
           D == Done(eventq)
<1>1. /\ polling = NoDesc /\ has_used(eventq) /\ polling' = FirstUsed(eventq)
      /\ eventq' = GetUsed(eventq) /\ UNCHANGED event_buffers
  BY DEF PollTake
<1>2. Rings /\ Apart /\ Somewhere /\ Queue(eventq)
  BY DEF KeyboardInv, Rings
<1>3. W \in Nat /\ D \in Nat /\ D > 0 /\ polling' = UsedAt(eventq, 0)
  BY <1>1, <1>2, RingFacts
<1>4. /\ Queue(eventq') /\ eventq'.desc = eventq.desc
      /\ Waiting(eventq') = W /\ \A i : Avail(eventq', i) = Avail(eventq, i)
      /\ Done(eventq') = D - 1 /\ \A i \in Nat : UsedAt(eventq', i) = UsedAt(eventq, i + 1)
  BY <1>1, <1>2, <1>3, DriverTakes
<1> HIDE DEF W, D
<1>5. /\ \A i \in 0 .. W - 1 : /\ Avail(eventq, i) \in Buffers
                              /\ event_buffers[Avail(eventq, i)] = Cleared
      /\ \A i \in 0 .. D - 1 : UsedAt(eventq, i) \in Buffers
      /\ \A i, j \in 0 .. W - 1 : Avail(eventq, i) = Avail(eventq, j) => i = j
      /\ \A i, j \in 0 .. D - 1 : UsedAt(eventq, i) = UsedAt(eventq, j) => i = j
      /\ \A i \in 0 .. W - 1, j \in 0 .. D - 1 : Avail(eventq, i) # UsedAt(eventq, j)
  BY <1>2 DEF Apart, W, D
<1>6. 0 \in 0 .. D - 1 /\ \A i \in 0 .. (D - 1) - 1 : i \in Nat /\ i + 1 \in 0 .. D - 1 /\ i + 1 # 0
  BY <1>3
<1>7. polling' \in Buffers /\ polling' # NoDesc
  BY <1>3, <1>5, <1>6, Numbers
<1>8. Rings'
  <2>1. W + D + 0 = KEYBOARD_EVENT_BUFFERS
    BY <1>1, <1>2 DEF Rings, InHand, W, D
  <2>2. Waiting(eventq') + Done(eventq') + 1 = KEYBOARD_EVENT_BUFFERS
    BY <1>3, <1>4, <2>1
  <2> QED
    BY <1>1, <1>2, <1>4, <1>7, <2>2 DEF Rings, InHand
<1>9. Apart'
  <2>1. \A i \in 0 .. W - 1 : /\ Avail(eventq', i) \in Buffers /\ Avail(eventq', i) # polling'
                              /\ event_buffers'[Avail(eventq', i)] = Cleared
    BY <1>1, <1>3, <1>4, <1>5, <1>6
  <2>2. \A i \in 0 .. (D - 1) - 1 : UsedAt(eventq', i) \in Buffers /\ UsedAt(eventq', i) # polling'
    BY <1>3, <1>4, <1>5, <1>6
  <2>3. \A i, j \in 0 .. (D - 1) - 1 : UsedAt(eventq', i) = UsedAt(eventq', j) => i = j
    BY <1>3, <1>4, <1>5, <1>6
  <2>4. \A i \in 0 .. W - 1, j \in 0 .. (D - 1) - 1 : Avail(eventq', i) # UsedAt(eventq', j)
    BY <1>4, <1>5, <1>6
  <2> QED
    BY <1>4, <1>5, <2>1, <2>2, <2>3, <2>4 DEF Apart
<1>10. Somewhere'
  <2> SUFFICES ASSUME NEW b \in Buffers
               PROVE  \/ b = polling'
                      \/ \E i \in 0 .. Waiting(eventq') - 1 : b = Avail(eventq', i)
                      \/ \E i \in 0 .. Done(eventq') - 1 : b = UsedAt(eventq', i)
    BY DEF Somewhere
  <2>1. b # polling
    BY <1>1, Numbers
  <2>2. CASE \E i \in 0 .. W - 1 : b = Avail(eventq, i)
    BY <1>4, <2>2
  <2>3. CASE \E i \in 0 .. D - 1 : b = UsedAt(eventq, i)
    <3>1. PICK i \in 0 .. D - 1 : b = UsedAt(eventq, i)
      BY <2>3
    <3>2. CASE i = 0
      BY <1>3, <3>1, <3>2
    <3>3. CASE i # 0
      <4>1. i - 1 \in 0 .. (D - 1) - 1 /\ i - 1 \in Nat /\ (i - 1) + 1 = i
        BY <1>3, <3>3
      <4>2. b = UsedAt(eventq', i - 1)
        BY <1>4, <3>1, <4>1
      <4> QED
        BY <1>4, <4>1, <4>2
    <3> QED
      BY <3>2, <3>3
  <2> QED
    BY <1>2, <2>1, <2>2, <2>3 DEF Somewhere, W, D
<1> QED
  BY <1>8, <1>9, <1>10 DEF KeyboardInv

\* The buffer in hand is posted again, as the last.
LEMMA RepostKeeps == ASSUME KeyboardInv, PollRepost PROVE KeyboardInv'
<1> DEFINE W == Waiting(eventq)
           D == Done(eventq)
           d == polling
           chained == ChainFrom(eventq, d, <<In(d)>>)
<1>1. /\ d # NoDesc /\ event_buffers' = [event_buffers EXCEPT ![d] = Cleared]
      /\ eventq' = Submit(chained, d) /\ polling' = NoDesc
  BY DEF PollRepost, Post
<1>2. Rings /\ Apart /\ Somewhere /\ Queue(eventq)
  BY DEF KeyboardInv, Rings
<1>3. W \in Nat /\ D \in Nat /\ d \in Buffers /\ W + D + 1 = KEYBOARD_EVENT_BUFFERS
  <2>1. d \in Buffers /\ W + D + 1 = KEYBOARD_EVENT_BUFFERS
    BY <1>1, <1>2 DEF Rings, InHand
  <2> QED
    BY <1>2, <2>1, RingFacts
<1>4. d \in Nat /\ W < QUEUE_SIZE
  BY <1>3, Numbers
<1>5. /\ Queue(chained) /\ Waiting(chained) = W /\ Done(chained) = D
      /\ \A i : Avail(chained, i) = Avail(eventq, i) /\ UsedAt(chained, i) = UsedAt(eventq, i)
  BY <1>2, ChainKeeps
<1>6. \A b \in Buffers : chained.desc[b] = Chain(b)
  <2> TAKE b \in Buffers
  <2>1. /\ DOMAIN <<In(d)>> = {1} /\ Len(<<In(d)>>) = 1 /\ <<In(d)>>[1] = In(d)
        /\ b \in Nat /\ b \in Descs
    BY Numbers
  <2>2. chained.desc[b] = IF b - d + 1 \in DOMAIN <<In(d)>>
          THEN [buf |-> <<In(d)>>[b - d + 1].buf, writable |-> <<In(d)>>[b - d + 1].writable,
                chained |-> b - d + 1 < Len(<<In(d)>>),
                next |-> IF b - d + 1 < Len(<<In(d)>>) THEN b + 1 ELSE 0]
          ELSE eventq.desc[b]
    BY <1>2, <2>1 DEF ChainFrom, Queue
  <2>3. CASE b = d
    <3>1. b - d + 1 = 1
      BY <2>1, <2>3
    <3>2. chained.desc[b] = [buf |-> In(d).buf, writable |-> In(d).writable, chained |-> 1 < 1, next |-> IF 1 < 1 THEN b + 1 ELSE 0]
      BY <2>1, <2>2, <3>1
    <3>3. In(d).buf = d /\ In(d).writable = TRUE /\ (1 < 1) = FALSE
      BY DEF In
    <3> QED
      BY <2>3, <3>2, <3>3 DEF Chain
  <2>4. CASE b # d
    <3>1. b - d + 1 # 1
      BY <1>4, <2>1, <2>4
    <3> QED
      BY <1>2, <2>1, <2>2, <3>1 DEF Rings
  <2> QED
    BY <2>3, <2>4
<1> HIDE DEF W, D, chained
<1>7. /\ Queue(eventq') /\ \A b \in Buffers : eventq'.desc[b] = Chain(b)
      /\ Waiting(eventq') = W + 1 /\ Done(eventq') = D
      /\ \A i \in 0 .. W : Avail(eventq', i) = IF i = W THEN d ELSE Avail(eventq, i)
      /\ \A i : UsedAt(eventq', i) = UsedAt(eventq, i)
  <2>1. d \in Int
    BY <1>4
  <2> QED
    BY <1>1, <1>4, <1>5, <1>6, <2>1, SubmitAdds
<1>8. /\ \A i \in 0 .. W - 1 : /\ Avail(eventq, i) \in Buffers /\ Avail(eventq, i) # d
                              /\ event_buffers[Avail(eventq, i)] = Cleared
      /\ \A i \in 0 .. D - 1 : UsedAt(eventq, i) \in Buffers /\ UsedAt(eventq, i) # d
      /\ \A i, j \in 0 .. W - 1 : Avail(eventq, i) = Avail(eventq, j) => i = j
      /\ \A i, j \in 0 .. D - 1 : UsedAt(eventq, i) = UsedAt(eventq, j) => i = j
      /\ \A i \in 0 .. W - 1, j \in 0 .. D - 1 : Avail(eventq, i) # UsedAt(eventq, j)
  BY <1>2 DEF Apart, W, D
<1>9. \A i \in 0 .. (W + 1) - 1 : i \in 0 .. W /\ (i # W => i \in 0 .. W - 1)
  BY <1>3
<1>10. /\ event_buffers' = [b \in Buffers |-> event_buffers'[b]]
       /\ event_buffers'[d] = Cleared
       /\ \A b \in Buffers : b # d => event_buffers'[b] = event_buffers[b]
  BY <1>1, <1>2, <1>3 DEF Rings
<1>11. Rings'
  <2>1. Waiting(eventq') + Done(eventq') + 0 = KEYBOARD_EVENT_BUFFERS
    BY <1>3, <1>7
  <2> QED
    BY <1>1, <1>7, <1>10, <2>1 DEF Rings, InHand
<1>12. Apart'
  <2>1. \A i \in 0 .. (W + 1) - 1 : /\ Avail(eventq', i) \in Buffers /\ Avail(eventq', i) # polling'
                                    /\ event_buffers'[Avail(eventq', i)] = Cleared
    <3> TAKE i \in 0 .. (W + 1) - 1
    <3>1. CASE i = W
      BY <1>1, <1>3, <1>7, <1>9, <1>10, <3>1
    <3>2. CASE i # W
      BY <1>1, <1>7, <1>8, <1>9, <1>10, <3>2, Numbers
    <3> QED
      BY <3>1, <3>2
  <2>2. \A i \in 0 .. D - 1 : UsedAt(eventq', i) \in Buffers /\ UsedAt(eventq', i) # polling'
    BY <1>1, <1>7, <1>8, Numbers
  <2>3. \A i, j \in 0 .. (W + 1) - 1 : Avail(eventq', i) = Avail(eventq', j) => i = j
    BY <1>7, <1>8, <1>9
  <2>4. \A i \in 0 .. (W + 1) - 1, j \in 0 .. D - 1 : Avail(eventq', i) # UsedAt(eventq', j)
    BY <1>7, <1>8, <1>9
  <2> QED
    BY <1>7, <1>8, <2>1, <2>2, <2>3, <2>4 DEF Apart
<1>13. Somewhere'
  <2> SUFFICES ASSUME NEW b \in Buffers
               PROVE  \/ b = polling'
                      \/ \E i \in 0 .. Waiting(eventq') - 1 : b = Avail(eventq', i)
                      \/ \E i \in 0 .. Done(eventq') - 1 : b = UsedAt(eventq', i)
    BY DEF Somewhere
  <2>1. CASE b = d
    <3>1. W \in 0 .. (W + 1) - 1 /\ W \in 0 .. W
      BY <1>3
    <3> QED
      BY <1>7, <2>1, <3>1
  <2>2. CASE \E i \in 0 .. W - 1 : b = Avail(eventq, i)
    <3>1. PICK i \in 0 .. W - 1 : b = Avail(eventq, i)
      BY <2>2
    <3>2. i \in 0 .. (W + 1) - 1 /\ i # W /\ i \in 0 .. W
      BY <1>3
    <3> QED
      BY <1>7, <3>1, <3>2
  <2>3. CASE \E i \in 0 .. D - 1 : b = UsedAt(eventq, i)
    BY <1>7, <2>3
  <2> QED
    BY <1>2, <2>1, <2>2, <2>3 DEF Somewhere, W, D
<1> QED
  BY <1>11, <1>12, <1>13 DEF KeyboardInv

\* The device fills the first buffer that waits.
LEMMA EventKeeps ==
  ASSUME KeyboardInv, NEW ev \in InputEvents, DeviceEvent(ev)
  PROVE  KeyboardInv'
<1> DEFINE W == Waiting(eventq)
           D == Done(eventq)
           d == Avail(eventq, 0)
<1>1. /\ has_avail(eventq) /\ eventq' = DeviceUses(eventq)
      /\ event_buffers' = [event_buffers EXCEPT ![eventq.desc[FirstAvail(eventq)].buf] = ev]
      /\ polling' = polling
  BY DEF DeviceEvent
<1>2. Rings /\ Apart /\ Somewhere /\ Queue(eventq)
  BY DEF KeyboardInv, Rings
<1>3. /\ W \in Nat /\ D \in Nat /\ W > 0 /\ FirstAvail(eventq) = d
      /\ InHand \in 0 .. 1 /\ InHand' = InHand /\ W + D + InHand = KEYBOARD_EVENT_BUFFERS
  BY <1>1, <1>2, RingFacts DEF Rings, InHand
<1>4. D < QUEUE_SIZE
  BY <1>3, Numbers
<1>5. /\ Queue(eventq') /\ eventq'.desc = eventq.desc
      /\ Waiting(eventq') = W - 1 /\ \A i \in Nat : Avail(eventq', i) = Avail(eventq, i + 1)
      /\ Done(eventq') = D + 1
      /\ \A i \in 0 .. D : UsedAt(eventq', i) = IF i = D THEN d ELSE UsedAt(eventq, i)
  BY <1>1, <1>2, <1>3, <1>4, DeviceMoves
<1> HIDE DEF W, D
<1>6. /\ \A i \in 0 .. W - 1 : /\ Avail(eventq, i) \in Buffers /\ Avail(eventq, i) # polling
                              /\ event_buffers[Avail(eventq, i)] = Cleared
      /\ \A i \in 0 .. D - 1 : UsedAt(eventq, i) \in Buffers /\ UsedAt(eventq, i) # polling
      /\ \A i, j \in 0 .. W - 1 : Avail(eventq, i) = Avail(eventq, j) => i = j
      /\ \A i, j \in 0 .. D - 1 : UsedAt(eventq, i) = UsedAt(eventq, j) => i = j
      /\ \A i \in 0 .. W - 1, j \in 0 .. D - 1 : Avail(eventq, i) # UsedAt(eventq, j)
  BY <1>2 DEF Apart, W, D
<1>7. 0 \in 0 .. W - 1 /\ \A i \in 0 .. (W - 1) - 1 : i \in Nat /\ i + 1 \in 0 .. W - 1 /\ i + 1 # 0
  BY <1>3
<1>8. \A i \in 0 .. (D + 1) - 1 : i \in 0 .. D /\ (i # D => i \in 0 .. D - 1)
  BY <1>3
<1>9. d \in Buffers /\ d # polling
  BY <1>6, <1>7
<1>10. \A i \in 0 .. (W - 1) - 1 : Avail(eventq, i + 1) # d
  BY <1>6, <1>7
<1> HIDE DEF d
<1>11. /\ event_buffers' = [b \in Buffers |-> event_buffers'[b]]
       /\ \A b \in Buffers : b # d => event_buffers'[b] = event_buffers[b]
  <2>1. eventq.desc[FirstAvail(eventq)].buf = d
    <3>1. eventq.desc[d] = Chain(d)
      BY <1>2, <1>9 DEF Rings
    <3> QED
      BY <1>3, <3>1 DEF Chain
  <2> QED
    BY <1>1, <1>2, <2>1 DEF Rings
<1>12. Rings'
  <2>1. Waiting(eventq') + Done(eventq') + InHand' = KEYBOARD_EVENT_BUFFERS
    BY <1>3, <1>5
  <2> QED
    BY <1>1, <1>2, <1>5, <1>11, <2>1 DEF Rings
<1>13. Apart'
  <2>1. \A i \in 0 .. (W - 1) - 1 : /\ Avail(eventq', i) \in Buffers /\ Avail(eventq', i) # polling'
                                    /\ event_buffers'[Avail(eventq', i)] = Cleared
    BY <1>1, <1>5, <1>6, <1>7, <1>10, <1>11
  <2>2. \A i \in 0 .. (D + 1) - 1 : UsedAt(eventq', i) \in Buffers /\ UsedAt(eventq', i) # polling'
    BY <1>1, <1>5, <1>6, <1>8, <1>9
  <2>3. \A i, j \in 0 .. (W - 1) - 1 : Avail(eventq', i) = Avail(eventq', j) => i = j
    BY <1>3, <1>5, <1>6, <1>7
  <2>4. \A i, j \in 0 .. (D + 1) - 1 : UsedAt(eventq', i) = UsedAt(eventq', j) => i = j
    <3>1. \A j \in 0 .. D - 1 : UsedAt(eventq, j) # d
      BY <1>6, <1>7 DEF d
    <3> QED
      BY <1>5, <1>6, <1>8, <3>1
  <2>5. \A i \in 0 .. (W - 1) - 1, j \in 0 .. (D + 1) - 1 : Avail(eventq', i) # UsedAt(eventq', j)
    BY <1>5, <1>6, <1>7, <1>8, <1>10
  <2> QED
    BY <1>5, <2>1, <2>2, <2>3, <2>4, <2>5 DEF Apart
<1>14. Somewhere'
  <2> SUFFICES ASSUME NEW b \in Buffers
               PROVE  \/ b = polling'
                      \/ \E i \in 0 .. Waiting(eventq') - 1 : b = Avail(eventq', i)
                      \/ \E i \in 0 .. Done(eventq') - 1 : b = UsedAt(eventq', i)
    BY DEF Somewhere
  <2>1. CASE b = polling
    BY <1>1, <2>1
  <2>2. CASE \E i \in 0 .. W - 1 : b = Avail(eventq, i)
    <3>1. PICK i \in 0 .. W - 1 : b = Avail(eventq, i)
      BY <2>2
    <3>2. CASE i = 0
      <4>1. D \in 0 .. D /\ D \in 0 .. (D + 1) - 1
        BY <1>3
      <4>2. b = UsedAt(eventq', D)
        BY <1>5, <3>1, <3>2, <4>1 DEF d
      <4> QED
        BY <1>5, <4>1, <4>2
    <3>3. CASE i # 0
      <4>1. i - 1 \in 0 .. (W - 1) - 1 /\ i - 1 \in Nat /\ (i - 1) + 1 = i
        BY <1>3, <3>3
      <4>2. b = Avail(eventq', i - 1)
        BY <1>5, <3>1, <4>1
      <4> QED
        BY <1>5, <4>1, <4>2
    <3> QED
      BY <3>2, <3>3
  <2>3. CASE \E i \in 0 .. D - 1 : b = UsedAt(eventq, i)
    <3>1. PICK i \in 0 .. D - 1 : b = UsedAt(eventq, i)
      BY <2>3
    <3>2. i \in 0 .. (D + 1) - 1 /\ i # D /\ i \in 0 .. D
      BY <1>3
    <3> QED
      BY <1>5, <3>1, <3>2
  <2> QED
    BY <1>2, <2>1, <2>2, <2>3 DEF Somewhere, W, D
<1> QED
  BY <1>12, <1>13, <1>14 DEF KeyboardInv

\* The queue once the first n buffers are posted.
PostedSoFar(n) ==
  [desc |-> [d \in Descs |-> IF d < n THEN Chain(d) ELSE NoBuf],
   avail |-> [i \in Descs |-> IF i < n THEN i ELSE 0], avail_idx |-> n,
   used |-> [i \in Descs |-> 0], used_idx |-> 0, last_used_idx |-> 0, last_avail_idx |-> 0]

\* One more is posted.
LEMMA PostOne ==
  ASSUME NEW n \in 1 .. KEYBOARD_EVENT_BUFFERS
  PROVE  Post(PostedSoFar(n - 1), n - 1) = PostedSoFar(n)
<1> DEFINE m == n - 1
           q == PostedSoFar(m)
           desc == [d \in Descs |-> IF d < n THEN Chain(d) ELSE NoBuf]
           avail == [i \in Descs |-> IF i < n THEN i ELSE 0]
<1>1. m \in Nat /\ n \in Nat /\ m < QUEUE_SIZE /\ n < IDX_MOD /\ m \in Descs /\ n = m + 1
  BY Numbers, Sizes DEF Descs
<1>2. RingIdx(m) = m /\ NextIdx(m) = n
  <2>1. RingIdx(m) = m
    <3>1. QUEUE_SIZE \in Nat \ {0} /\ m \in 0 .. QUEUE_SIZE - 1 /\ (QUEUE_SIZE * 0) + m = m
      BY <1>1, Numbers, Sizes
    <3>2. ((QUEUE_SIZE * 0) + m) % QUEUE_SIZE = m
      BY <3>1, ModIs
    <3> QED
      BY <3>1, <3>2 DEF RingIdx
  <2>2. m \in Idx /\ m # IDX_MOD - 1
    BY <1>1, Sizes DEF Idx
  <2> QED
    BY <1>1, <2>1, <2>2, Counters
<1> HIDE DEF m
<1>3. ChainFrom(q, m, <<In(m)>>) = [q EXCEPT !.desc = desc]
  <2>1. ChainFrom(q, m, <<In(m)>>) = [q EXCEPT !.desc =
          [d \in Descs |->
            IF d - m + 1 \in DOMAIN <<In(m)>>
            THEN [buf |-> <<In(m)>>[d - m + 1].buf, writable |-> <<In(m)>>[d - m + 1].writable,
                  chained |-> d - m + 1 < Len(<<In(m)>>),
                  next |-> IF d - m + 1 < Len(<<In(m)>>) THEN d + 1 ELSE 0]
            ELSE q.desc[d]]]
    BY DEF ChainFrom
  <2>2. ASSUME NEW d \in Descs
        PROVE  (IF d - m + 1 \in DOMAIN <<In(m)>>
                THEN [buf |-> <<In(m)>>[d - m + 1].buf, writable |-> <<In(m)>>[d - m + 1].writable,
                      chained |-> d - m + 1 < Len(<<In(m)>>),
                      next |-> IF d - m + 1 < Len(<<In(m)>>) THEN d + 1 ELSE 0]
                ELSE q.desc[d]) = desc[d]
    <3>1. DOMAIN <<In(m)>> = {1} /\ Len(<<In(m)>>) = 1 /\ <<In(m)>>[1] = In(m) /\ d \in Nat
      BY Numbers DEF Descs
    <3>2. CASE d = m
      <4>1. d - m + 1 = 1 /\ d < n
        BY <1>1, <3>2
      <4>2. In(m).buf = m /\ In(m).writable = TRUE /\ (1 < 1) = FALSE
        BY DEF In
      <4> QED
        BY <3>1, <3>2, <4>1, <4>2 DEF Chain
    <3>3. CASE d # m
      <4>1. d - m + 1 # 1 /\ (d < n <=> d < m)
        BY <1>1, <3>1, <3>3
      <4>2. q.desc[d] = IF d < m THEN Chain(d) ELSE NoBuf
        BY DEF PostedSoFar
      <4> QED
        BY <3>1, <4>1, <4>2
    <3> QED
      BY <3>2, <3>3
  <2> HIDE DEF q, desc
  <2>3. [d \in Descs |->
            IF d - m + 1 \in DOMAIN <<In(m)>>
            THEN [buf |-> <<In(m)>>[d - m + 1].buf, writable |-> <<In(m)>>[d - m + 1].writable,
                  chained |-> d - m + 1 < Len(<<In(m)>>),
                  next |-> IF d - m + 1 < Len(<<In(m)>>) THEN d + 1 ELSE 0]
            ELSE q.desc[d]] = [d \in Descs |-> desc[d]]
    BY <2>2, Zenon
  <2>4. [d \in Descs |-> desc[d]] = desc
    BY DEF desc
  <2> QED
    BY <2>1, <2>3, <2>4, Zenon
<1>4. [q.avail EXCEPT ![m] = m] = avail
  <2>1. q.avail = [i \in Descs |-> IF i < m THEN i ELSE 0]
    BY DEF PostedSoFar
  <2>2. \A i \in Descs : i # m => (i < n <=> i < m)
    BY <1>1 DEF Descs
  <2>3. m < n
    BY <1>1
  <2> HIDE DEF q
  <2> QED
    BY <1>1, <2>1, <2>2, <2>3
<1>5. Post(q, m) = [[q EXCEPT !.desc = desc] EXCEPT !.avail[RingIdx(m)] = m, !.avail_idx = NextIdx(@)]
  BY <1>3 DEF Post, Submit, PostedSoFar
<1>6. Post(q, m) = PostedSoFar(n)
  BY <1>2, <1>4, <1>5 DEF PostedSoFar
<1> QED
  BY <1>6 DEF m

\* All of them are posted at the start.
LEMMA AllPosted == KeyboardInit => eventq = PostedSoFar(KEYBOARD_EVENT_BUFFERS)
<1> DEFINE total == KEYBOARD_EVENT_BUFFERS
           posted == CHOOSE f : f = [n \in 0 .. total |-> IF n = 0 THEN EmptyQueue
                                                      ELSE Post(f[n - 1], n - 1)]
           closed == [n \in 0 .. total |-> PostedSoFar(n)]
<1>1. total \in Nat
  BY Numbers
<1>2. PostedSoFar(0) = EmptyQueue
  <2>1. \A d \in Descs : ~(d < 0)
    BY Numbers DEF Descs
  <2> QED
    BY <2>1 DEF PostedSoFar, EmptyQueue
<1>3. closed = [n \in 0 .. total |-> IF n = 0 THEN EmptyQueue ELSE Post(closed[n - 1], n - 1)]
  <2>1. ASSUME NEW n \in 0 .. total
        PROVE  PostedSoFar(n) = IF n = 0 THEN EmptyQueue ELSE Post(closed[n - 1], n - 1)
    <3>1. CASE n = 0
      BY <1>2, <3>1
    <3>2. CASE n # 0
      <4>1. n \in 1 .. total /\ n - 1 \in 0 .. total
        BY <1>1, <3>2
      <4>2. closed[n - 1] = PostedSoFar(n - 1)
        BY <4>1
      <4> QED
        BY <3>2, <4>1, <4>2, PostOne
    <3> QED
      BY <3>1, <3>2
  <2> QED
    BY <2>1, Zenon
<1> HIDE DEF closed
<1>4. posted = [n \in 0 .. total |-> IF n = 0 THEN EmptyQueue ELSE Post(posted[n - 1], n - 1)]
  BY <1>3, Zenon
<1> HIDE DEF posted
<1>5. \A n \in 0 .. total : posted[n] = IF n = 0 THEN EmptyQueue ELSE Post(posted[n - 1], n - 1)
  BY <1>4, Zenon
<1> DEFINE Off == {n \in 0 .. total : posted[n] # PostedSoFar(n)}
<1>6. Off = {}
  <2> SUFFICES ASSUME Off # {} PROVE FALSE
    OBVIOUS
  <2>1. Off \subseteq Nat
    OBVIOUS
  <2> DEFINE n == Min(Off)
  <2>2. n \in Off /\ \A x \in Off : n <= x
    BY <2>1, MinInSet
  <2> HIDE DEF n
  <2>3. n \in 0 .. total /\ posted[n] # PostedSoFar(n)
    BY <2>2
  <2>4. n # 0
    BY <1>2, <1>5, <2>3
  <2>5. n - 1 \in 0 .. total /\ ~(n <= n - 1) /\ n \in 1 .. total
    BY <1>1, <2>3, <2>4
  <2>6. n - 1 \notin Off
    BY <2>2, <2>5
  <2>7. posted[n - 1] = PostedSoFar(n - 1)
    BY <2>5, <2>6
  <2>8. posted[n] = Post(PostedSoFar(n - 1), n - 1)
    BY <1>5, <2>3, <2>4, <2>7
  <2> QED
    BY <2>3, <2>5, <2>8, PostOne
<1>7. posted[total] = PostedSoFar(total)
  <2>1. total \in 0 .. total
    BY <1>1
  <2> QED
    BY <1>6, <2>1
<1>8. KeyboardInit => eventq = posted[total]
  BY DEF KeyboardInit, posted
<1> QED
  BY <1>7, <1>8

\* So every buffer waits for the device.
LEMMA KeyboardStarts == KeyboardInit => KeyboardInv
<1> SUFFICES ASSUME KeyboardInit PROVE KeyboardInv
  OBVIOUS
<1> DEFINE total == KEYBOARD_EVENT_BUFFERS
<1>1. /\ eventq = PostedSoFar(total) /\ event_buffers = [b \in Buffers |-> Cleared]
      /\ polling = NoDesc
  BY AllPosted DEF KeyboardInit
<1>2. /\ total \in Nat /\ total >= 1 /\ total <= QUEUE_SIZE /\ total < IDX_MOD
      /\ QUEUE_SIZE \in Nat /\ IDX_MOD \in Nat
  BY Numbers, Sizes
<1> HIDE DEF total
<1>3. /\ eventq.desc = [d \in Descs |-> IF d < total THEN Chain(d) ELSE NoBuf]
      /\ eventq.avail = [i \in Descs |-> IF i < total THEN i ELSE 0] /\ eventq.avail_idx = total
      /\ eventq.used_idx = 0 /\ eventq.last_used_idx = 0 /\ eventq.last_avail_idx = 0
  BY <1>1 DEF PostedSoFar
<1>4. Queue(eventq)
  <2>1. total \in Idx /\ 0 \in Idx
    BY <1>2 DEF Idx
  <2>2. [i \in Descs |-> IF i < total THEN i ELSE 0] \in [Descs -> Int] /\ [i \in Descs |-> 0] \in [Descs -> Int]
    BY <1>2 DEF Descs
  <2> QED
    BY <1>1, <2>1, <2>2 DEF Queue, PostedSoFar
<1>5. Waiting(eventq) = total /\ Done(eventq) = 0
  BY <1>2, <1>3, <1>4, Distances
<1>6. \A i \in 0 .. total - 1 : i \in Buffers /\ i \in Descs /\ i < total
  BY <1>2 DEF Buffers, Descs, total
<1>7. \A i \in 0 .. total - 1 : Avail(eventq, i) = i
  <2> TAKE i \in 0 .. total - 1
  <2>1. 0 + i = i /\ i \in Nat /\ i \in 0 .. QUEUE_SIZE - 1 /\ QUEUE_SIZE \in Nat \ {0}
        /\ (QUEUE_SIZE * 0) + i = i
    BY <1>2
  <2>2. ((QUEUE_SIZE * 0) + i) % QUEUE_SIZE = i
    BY <2>1, ModIs
  <2>3. RingIdx(0 + i) = i
    BY <2>1, <2>2 DEF RingIdx
  <2> QED
    BY <1>3, <1>6, <2>3 DEF Avail
<1>8. \A b \in Buffers : b \in 0 .. total - 1
  BY DEF Buffers, total
<1>9. Rings
  <2>1. Waiting(eventq) + Done(eventq) + 0 = KEYBOARD_EVENT_BUFFERS
    BY <1>2, <1>5 DEF total
  <2>2. \A b \in Buffers : eventq.desc[b] = Chain(b)
    BY <1>3, <1>6, <1>8
  <2>3. event_buffers = [b \in Buffers |-> event_buffers[b]]
    BY <1>1
  <2> QED
    BY <1>1, <1>4, <2>1, <2>2, <2>3 DEF Rings, InHand
<1>10. Apart
  <2>1. \A i \in 0 .. total - 1 : /\ Avail(eventq, i) \in Buffers /\ Avail(eventq, i) # polling
                              /\ event_buffers[Avail(eventq, i)] = Cleared
    BY <1>1, <1>6, <1>7, Numbers
  <2>2. \A i \in 0 .. 0 - 1 : FALSE
    OBVIOUS
  <2>3. \A i, j \in 0 .. total - 1 : Avail(eventq, i) = Avail(eventq, j) => i = j
    BY <1>7
  <2> QED
    BY <1>5, <2>1, <2>2, <2>3 DEF Apart
<1>11. Somewhere
  BY <1>5, <1>7, <1>8 DEF Somewhere
<1> QED
  BY <1>9, <1>10, <1>11 DEF KeyboardInv

\* The other steps leave the rings alone.
LEMMA KeyboardKeeps == KeyboardInv /\ [KeyboardNext]_keyboardVars => KeyboardInv'
<1> SUFFICES ASSUME KeyboardInv, [KeyboardNext]_keyboardVars PROVE KeyboardInv'
  OBVIOUS
<1>1. CASE UNCHANGED <<eventq, event_buffers, polling>>
  BY <1>1 DEF KeyboardInv, Rings, InHand, Apart, Somewhere
<1>2. PollNothing \/ DeviceLoses \/ UNCHANGED keyboardVars => UNCHANGED <<eventq, event_buffers, polling>>
  BY DEF PollNothing, DeviceLoses, keyboardVars
<1> QED
  BY <1>1, <1>2, TakeKeeps, RepostKeeps, EventKeeps DEF KeyboardNext

\* Every event buffer is posted, given back or in the hands of poll_key, one of the three
\* and once, and what the device has is cleared: for any number of buffers that the queue
\* has room for, however often the indices wrap (post_buffers, poll_key, submit, get_used).
THEOREM BuffersAccounted == KeyboardSpec => []EventBuffersAccounted
<1>1. KeyboardInit => KeyboardInv
  BY KeyboardStarts
<1>2. KeyboardInv /\ [KeyboardNext]_keyboardVars => KeyboardInv'
  BY KeyboardKeeps
<1>3. KeyboardInv => EventBuffersAccounted
  <2> SUFFICES ASSUME KeyboardInv PROVE EventBuffersAccounted
    OBVIOUS
  <2> DEFINE W == Waiting(eventq)
             D == Done(eventq)
             taken == IF polling = NoDesc THEN {} ELSE {polling}
  <2>1. Rings /\ Apart /\ Somewhere /\ Queue(eventq)
    BY DEF KeyboardInv, Rings
  <2>2. /\ WithDevice(eventq) = {Avail(eventq, i) : i \in 0 .. W - 1}
        /\ GivenBack(eventq) = {UsedAt(eventq, i) : i \in 0 .. D - 1}
    BY <2>1, Sides
  <2>3. W \in Nat /\ D \in Nat /\ W + D <= QUEUE_SIZE
    <3>1. W \in Nat /\ D \in Nat
      BY <2>1, RingFacts
    <3>2. W + D <= KEYBOARD_EVENT_BUFFERS
      BY <2>1, <3>1, Numbers DEF Rings, InHand
    <3> QED
      BY <3>1, <3>2, Numbers
  <2>4. QueueSound(eventq)
    BY <2>1, <2>3, Sound DEF Apart
  <2>5. \A b \in Buffers : b \in WithDevice(eventq) \cup GivenBack(eventq) \cup taken
    BY <2>1, <2>2, Numbers DEF Somewhere
  <2>6. \A b \in WithDevice(eventq) : b \in Buffers /\ b # polling /\ event_buffers[b] = Cleared
    BY <2>1, <2>2 DEF Apart
  <2>7. \A b \in GivenBack(eventq) : b \in Buffers /\ b # polling
    BY <2>1, <2>2 DEF Apart
  <2>8. taken \subseteq Buffers /\ \A b \in taken : b = polling
    BY <2>1 DEF Rings
  <2>9. \A b \in WithDevice(eventq) : eventq.desc[b] =
          [buf |-> b, writable |-> TRUE, chained |-> FALSE, next |-> 0]
    BY <2>1, <2>6 DEF Rings, Chain
  <2> HIDE DEF W, D, taken
  <2>10. /\ WithDevice(eventq) \cup GivenBack(eventq) \cup taken = Buffers
         /\ taken \cap (WithDevice(eventq) \cup GivenBack(eventq)) = {}
    BY <2>5, <2>6, <2>7, <2>8
  <2> QED
    BY <2>4, <2>6, <2>9, <2>10, Zenon DEF EventBuffersAccounted, taken
<1> QED
  BY <1>1, <1>2, <1>3, PTL DEF KeyboardSpec

-----------------------------------------------------------------------------
(***************************************************************************)
(* The keyboard as a stream.  What a poll takes is the head of the events  *)
(* the device has given back, and what the device gives back is appended;  *)
(* the modifiers of each event are computed from the first on, so that     *)
(* taking the first shifts them and appending one leaves them.             *)
(***************************************************************************)
Turns(evs, down, f) ==
  f = [i \in 0 .. Len(evs) |-> IF i = 0 THEN down ELSE HeldAfter(f[i - 1], evs[i])]

\* What the recursion says of a function.
LEMMA TurnsAre ==
  ASSUME NEW evs, Len(evs) \in Nat, NEW down, NEW f, Turns(evs, down, f)
  PROVE  /\ f[0] = down
         /\ \A i \in 1 .. Len(evs) : f[i] = HeldAfter(f[i - 1], evs[i])
<1>1. \A i \in 0 .. Len(evs) : f[i] = IF i = 0 THEN down ELSE HeldAfter(f[i - 1], evs[i])
  BY Zenon DEF Turns
<1>2. 0 \in 0 .. Len(evs) /\ \A i \in 1 .. Len(evs) : i \in 0 .. Len(evs) /\ i # 0
  OBVIOUS
<1> QED
  BY <1>1, <1>2, Zenon

Steps(evs, down, m, f) ==
  f = [i \in 0 .. m |-> IF i = 0 THEN down ELSE HeldAfter(f[i - 1], evs[i])]

\* There is a function that the recursion defines.
LEMMA TurnsExist ==
  ASSUME NEW evs, Len(evs) \in Nat, NEW down
  PROVE  \E f : Turns(evs, down, f)
<1> DEFINE Off == {m \in Nat : ~ \E f : Steps(evs, down, m, f)}
<1>1. Off = {}
  <2> SUFFICES ASSUME Off # {} PROVE FALSE
    OBVIOUS
  <2> DEFINE m == Min(Off)
  <2>1. m \in Off /\ \A x \in Off : m <= x
    <3>1. Off \subseteq Nat
      OBVIOUS
    <3> QED
      BY <3>1, MinInSet
  <2> HIDE DEF m
  <2>2. m \in Nat /\ ~ \E f : Steps(evs, down, m, f)
    BY <2>1
  <2>3. CASE m = 0
    <3> DEFINE base == [i \in 0 .. 0 |-> down]
    <3>1. \A i \in 0 .. 0 : i = 0
      OBVIOUS
    <3>2. Steps(evs, down, 0, base)
      BY <3>1, Zenon DEF Steps
    <3> QED
      BY <2>2, <2>3, <3>2
  <2>4. CASE m # 0
    <3> DEFINE j == m - 1
    <3>1. j \in Nat /\ ~(m <= j) /\ j = m - 1
      BY <2>2, <2>4
    <3> HIDE DEF j
    <3>2. j \notin Off
      BY <2>1, <3>1
    <3>3. PICK below : Steps(evs, down, j, below)
      BY <3>1, <3>2
    <3> HIDE DEF Off
    <3>4. \A i \in 0 .. j : below[i] = IF i = 0 THEN down ELSE HeldAfter(below[i - 1], evs[i])
      BY <3>3, Zenon DEF Steps
    <3> DEFINE last == HeldAfter(below[m - 1], evs[m])
               f == [i \in 0 .. m |-> IF i = m THEN last ELSE below[i]]
    <3>5. ASSUME NEW i \in 0 .. m
          PROVE  f[i] = IF i = 0 THEN down ELSE HeldAfter(f[i - 1], evs[i])
      <4>1. f[i] = IF i = m THEN last ELSE below[i]
        OBVIOUS
      <4>2. (i # 0 => i - 1 \in 0 .. m /\ i - 1 # m) /\ (i # m => i \in 0 .. j)
        BY <2>2, <3>1
      <4>3. i # 0 => f[i - 1] = below[i - 1]
        BY <4>2
      <4> HIDE DEF f
      <4>4. CASE i = m
        <5>1. f[i] = last /\ f[i - 1] = below[m - 1] /\ i # 0
          BY <2>4, <4>1, <4>3, <4>4
        <5> QED
          BY <4>4, <5>1, Zenon
      <4>5. CASE i # m
        <5>1. f[i] = below[i] /\ i \in 0 .. j
          BY <4>1, <4>2, <4>5
        <5> QED
          BY <3>4, <4>3, <5>1, Zenon
      <4> QED
        BY <4>4, <4>5
    <3>6. f = [i \in 0 .. m |-> f[i]]
      OBVIOUS
    <3> HIDE DEF f
    <3>7. Steps(evs, down, m, f)
      BY <3>5, <3>6, Zenon DEF Steps
    <3> QED
      BY <2>2, <3>7
  <2> QED
    BY <2>3, <2>4
<1>2. Len(evs) \notin Off
  BY <1>1
<1> HIDE DEF Off
<1>3. \E f : Steps(evs, down, Len(evs), f)
  BY <1>2 DEF Off
<1> QED
  BY <1>3, Zenon DEF Turns, Steps

\* HeldThrough is such a function.
LEMMA Through ==
  ASSUME NEW evs, Len(evs) \in Nat, NEW down
  PROVE  /\ HeldThrough(down, evs)[0] = down
         /\ \A i \in 1 .. Len(evs) :
              HeldThrough(down, evs)[i] = HeldAfter(HeldThrough(down, evs)[i - 1], evs[i])
<1> DEFINE f == CHOOSE f : Turns(evs, down, f)
<1>1. HeldThrough(down, evs) = f
  BY Zenon DEF HeldThrough, Turns
<1>2. Turns(evs, down, f)
  BY TurnsExist
<1> HIDE DEF f
<1> QED
  BY <1>1, <1>2, TurnsAre

\* And there is no other.
LEMMA ThroughOnce ==
  ASSUME NEW evs, Len(evs) \in Nat, NEW down, NEW f, f[0] = down,
         \A i \in 1 .. Len(evs) : f[i] = HeldAfter(f[i - 1], evs[i])
  PROVE  \A i \in 0 .. Len(evs) : HeldThrough(down, evs)[i] = f[i]
<1> DEFINE h == HeldThrough(down, evs)
           Off == {i \in 0 .. Len(evs) : h[i] # f[i]}
<1>1. h[0] = down /\ \A i \in 1 .. Len(evs) : h[i] = HeldAfter(h[i - 1], evs[i])
  BY Through
<1> HIDE DEF h
<1> SUFFICES ASSUME Off # {} PROVE FALSE
  BY DEF h
<1> DEFINE i == Min(Off)
<1>2. i \in Off /\ \A x \in Off : i <= x
  <2>1. Off \subseteq Nat
    OBVIOUS
  <2> QED
    BY <2>1, MinInSet
<1> HIDE DEF i
<1>3. i \in 0 .. Len(evs) /\ h[i] # f[i]
  BY <1>2
<1>4. i # 0
  BY <1>1, <1>3
<1> DEFINE j == i - 1
<1>5. j \in 0 .. Len(evs) /\ ~(i <= j) /\ i \in 1 .. Len(evs)
  BY <1>3, <1>4
<1>6. h[j] = f[j]
  <2> HIDE DEF j
  <2> QED
    BY <1>2, <1>5
<1>7. h[i] = HeldAfter(h[j], evs[i]) /\ f[i] = HeldAfter(f[j], evs[i])
  BY <1>1, <1>5
<1> QED
  BY <1>3, <1>6, <1>7

\* One more event leaves what the events before it left.
LEMMA ThroughAppend ==
  ASSUME NEW S, NEW evs \in Seq(S), NEW ev \in S, NEW down
  PROVE  /\ \A i \in 0 .. Len(evs) : HeldThrough(down, Append(evs, ev))[i] = HeldThrough(down, evs)[i]
         /\ HeldThrough(down, Append(evs, ev))[Len(evs) + 1] =
              HeldAfter(HeldThrough(down, evs)[Len(evs)], ev)
<1> DEFINE more == Append(evs, ev)
           h == HeldThrough(down, more)
<1>1. /\ Len(evs) \in Nat /\ Len(more) = Len(evs) + 1 /\ more[Len(evs) + 1] = ev
      /\ \A i \in 1 .. Len(evs) : more[i] = evs[i]
  OBVIOUS
<1> HIDE DEF more
<1>2. h[0] = down /\ \A i \in 1 .. Len(more) : h[i] = HeldAfter(h[i - 1], more[i])
  BY <1>1, Through
<1> HIDE DEF h
<1>3. \A i \in 1 .. Len(evs) : h[i] = HeldAfter(h[i - 1], evs[i])
  BY <1>1, <1>2
<1>4. \A i \in 0 .. Len(evs) : HeldThrough(down, evs)[i] = h[i]
  BY <1>1, <1>2, <1>3, ThroughOnce
<1>5. h[Len(evs) + 1] = HeldAfter(h[Len(evs)], ev)
  <2>1. Len(evs) + 1 \in 1 .. Len(more) /\ (Len(evs) + 1) - 1 = Len(evs)
    BY <1>1
  <2> QED
    BY <1>1, <1>2, <2>1
<1>6. h[Len(evs)] = HeldThrough(down, evs)[Len(evs)]
  BY <1>1, <1>4
<1> QED
  BY <1>4, <1>5, <1>6 DEF h, more

\* The first event taken into account, the others leave what they left.
LEMMA ThroughTail ==
  ASSUME NEW S, NEW evs \in Seq(S), evs # <<>>, NEW down
  PROVE  \A i \in 0 .. Len(Tail(evs)) :
           HeldThrough(HeldAfter(down, evs[1]), Tail(evs))[i] = HeldThrough(down, evs)[i + 1]
<1> DEFINE rest == Tail(evs)
           h == HeldThrough(down, evs)
           n == Len(rest)
           f == [i \in 0 .. n |-> h[i + 1]]
<1>1. /\ Len(evs) \in Nat /\ n \in Nat /\ Len(evs) = n + 1
      /\ \A i \in 1 .. n : rest[i] = evs[i + 1]
  OBVIOUS
<1>2. h[0] = down /\ \A i \in 1 .. Len(evs) : h[i] = HeldAfter(h[i - 1], evs[i])
  BY <1>1, Through
<1> HIDE DEF h, rest
<1>3. f[0] = HeldAfter(down, evs[1])
  <2>1. f[0] = h[0 + 1] /\ 0 + 1 = 1 /\ 1 \in 1 .. Len(evs) /\ 1 - 1 = 0
    BY <1>1
  <2>2. h[1] = HeldAfter(h[1 - 1], evs[1])
    BY <1>2, <2>1
  <2> QED
    BY <1>2, <2>1, <2>2
<1>4. ASSUME NEW i \in 1 .. n PROVE f[i] = HeldAfter(f[i - 1], rest[i])
  <2>1. f[i] = h[i + 1] /\ f[i - 1] = h[(i - 1) + 1] /\ (i - 1) + 1 = i
    BY <1>1
  <2>2. i + 1 \in 1 .. Len(evs) /\ (i + 1) - 1 = i
    BY <1>1
  <2>3. h[i + 1] = HeldAfter(h[i], evs[i + 1])
    BY <1>2, <2>2
  <2> QED
    BY <1>1, <2>1, <2>3
<1>5. \A i \in 0 .. n : f[i] = h[i + 1]
  OBVIOUS
<1> HIDE DEF f
<1>6. \A i \in 0 .. n : HeldThrough(HeldAfter(down, evs[1]), rest)[i] = f[i]
  BY <1>1, <1>3, <1>4, ThroughOnce
<1> QED
  BY <1>5, <1>6 DEF h, rest

\* A function on the naturals from 1 to n.
Firsts(s, n) == s = [i \in 1 .. n |-> s[i]]

\* The events given back, by their place in the ring.
Given ==
  /\ Done(eventq) \in Nat
  /\ Firsts(Delivered, Done(eventq))
  /\ \A i \in 1 .. Done(eventq) : Delivered[i] = event_buffers[UsedAt(eventq, i - 1)]

\* What Delivered is.
LEMMA DeliveredIs == Queue(eventq) => Given
<1> SUFFICES ASSUME Queue(eventq) PROVE Given
  OBVIOUS
<1> DEFINE n == Done(eventq)
           from == eventq.last_used_idx
<1>1. n \in Nat /\ from \in Nat
  BY RingFacts, Sizes DEF Queue, Idx
<1>2. Delivered = [i \in 1 .. n |-> event_buffers[eventq.used[RingIdx((from + i - 1) % IDX_MOD)]]]
  BY Zenon DEF Delivered, Done
<1> HIDE DEF n
<1>3. ASSUME NEW i \in 1 .. n PROVE Delivered[i] = event_buffers[UsedAt(eventq, i - 1)]
  <2>1. Delivered[i] = event_buffers[eventq.used[RingIdx((from + i - 1) % IDX_MOD)]]
    BY <1>2, Zenon
  <2>2. from + i - 1 \in Nat /\ from + i - 1 = from + (i - 1)
    BY <1>1
  <2>3. RingIdx((from + i - 1) % IDX_MOD) = RingIdx(from + (i - 1))
    <3>1. RingIdx((from + i - 1) % IDX_MOD) = RingIdx(from + i - 1)
      BY <2>2, RingWraps
    <3> QED
      BY <2>2, <3>1, Zenon
  <2> QED
    BY <2>1, <2>3, Zenon DEF UsedAt
<1>4. Delivered = [i \in 1 .. n |-> Delivered[i]]
  BY <1>2, Zenon
<1> QED
  BY <1>1, <1>3, <1>4 DEF Given, Firsts, n

\* The same after a step.
LEMMA DeliveredNext == (Queue(eventq) => Given)'
BY DeliveredIs, PTL

\* A function on the first naturals is a sequence.
LEMMA FirstsAreSeq ==
  ASSUME NEW s, NEW n \in Nat, Firsts(s, n), NEW S, \A i \in 1 .. n : s[i] \in S
  PROVE  s \in Seq(S) /\ Len(s) = n
<1>1. s \in [1 .. n -> S]
  BY DEF Firsts
<1> QED
  BY <1>1

\* A function on the first naturals that adds one element to a sequence.
LEMMA IsAppend ==
  ASSUME NEW S, NEW s \in Seq(S), NEW n \in Nat, Len(s) = n, NEW e \in S, NEW t,
         Firsts(t, n + 1), \A i \in 1 .. n : t[i] = s[i], t[n + 1] = e
  PROVE  t = Append(s, e)
<1> DEFINE a == Append(s, e)
<1>1. /\ a \in Seq(S) /\ Len(a) = n + 1
      /\ \A i \in 1 .. n : a[i] = s[i]
      /\ a[n + 1] = e
  OBVIOUS
<1> HIDE DEF a
<1>2. a = [i \in 1 .. n + 1 |-> a[i]]
  BY <1>1
<1>3. ASSUME NEW i \in 1 .. n + 1 PROVE t[i] = a[i]
  <2>1. i \in 1 .. n \/ i = n + 1
    OBVIOUS
  <2> QED
    BY <1>1, <2>1
<1>4. t = a
  BY <1>2, <1>3, Zenon DEF Firsts
<1> QED
  BY <1>4 DEF a

\* A function on the first naturals that leaves out the first element of a sequence.
LEMMA IsTail ==
  ASSUME NEW S, NEW s \in Seq(S), NEW n \in Nat, Len(s) = n + 1, NEW t,
         Firsts(t, n), \A i \in 1 .. n : t[i] = s[i + 1]
  PROVE  t = Tail(s)
<1> DEFINE a == Tail(s)
<1>1. /\ a \in Seq(S) /\ Len(a) = n
      /\ \A i \in 1 .. n : a[i] = s[i + 1]
  OBVIOUS
<1> HIDE DEF a
<1>2. a = [i \in 1 .. n |-> a[i]]
  BY <1>1
<1>3. \A i \in 1 .. n : t[i] = a[i]
  BY <1>1
<1>4. t = a
  BY <1>2, <1>3, Zenon DEF Firsts
<1> QED
  BY <1>4 DEF a

\* The stream grows by the event that the device gives back.
LEMMA EventHappens ==
  ASSUME KeyboardInv, NEW ev \in InputEvents, DeviceEvent(ev)
  PROVE  K!Happens(ev.key, ev.pressed)
<1> DEFINE D == Done(eventq)
           d == Avail(eventq, 0)
           S == {Delivered[i] : i \in 1 .. D} \cup {ev}
<1>1. /\ has_avail(eventq) /\ eventq' = DeviceUses(eventq)
      /\ event_buffers' = [event_buffers EXCEPT ![eventq.desc[FirstAvail(eventq)].buf] = ev]
      /\ polling' = polling /\ mods' = mods /\ key_event' = key_event
  BY DEF DeviceEvent
<1>2. Rings /\ Apart /\ Queue(eventq)
  BY DEF KeyboardInv, Rings
<1>3. /\ Waiting(eventq) \in Nat /\ D \in Nat /\ Waiting(eventq) > 0 /\ FirstAvail(eventq) = d
      /\ InHand \in 0 .. 1 /\ Waiting(eventq) + D + InHand = KEYBOARD_EVENT_BUFFERS
  BY <1>1, <1>2, RingFacts DEF Rings, InHand
<1>4. D < QUEUE_SIZE
  BY <1>3, Numbers
<1>5. /\ Queue(eventq') /\ Done(eventq') = D + 1
      /\ \A i \in 0 .. D : UsedAt(eventq', i) = IF i = D THEN d ELSE UsedAt(eventq, i)
  BY <1>1, <1>2, <1>3, <1>4, DeviceMoves
<1>6. d \in Buffers /\ \A i \in 0 .. D - 1 : UsedAt(eventq, i) \in Buffers /\ UsedAt(eventq, i) # d
  <2>1. 0 \in 0 .. Waiting(eventq) - 1
    BY <1>3
  <2> QED
    BY <1>2, <2>1 DEF Apart
<1>7. event_buffers'[d] = ev /\ \A b \in Buffers : b # d => event_buffers'[b] = event_buffers[b]
  <2>1. eventq.desc[FirstAvail(eventq)].buf = d
    <3>1. eventq.desc[d] = Chain(d)
      BY <1>2, <1>6 DEF Rings
    <3> QED
      BY <1>3, <3>1 DEF Chain
  <2> QED
    BY <1>1, <1>2, <1>6, <2>1 DEF Rings
<1>8. Given /\ Given'
  BY <1>2, <1>5, DeliveredIs, DeliveredNext
<1> HIDE DEF d
<1>9. /\ Firsts(Delivered', D + 1)
      /\ \A i \in 1 .. D + 1 : Delivered'[i] = event_buffers'[UsedAt(eventq', i - 1)]
      /\ Firsts(Delivered, D)
      /\ \A i \in 1 .. D : Delivered[i] = event_buffers[UsedAt(eventq, i - 1)]
  BY <1>5, <1>8 DEF Given
<1>10. Delivered \in Seq(S) /\ Len(Delivered) = D /\ ev \in S
  <2>1. ev \in S /\ \A i \in 1 .. D : Delivered[i] \in S
    OBVIOUS
  <2> HIDE DEF D, S
  <2> QED
    BY <1>3, <1>9, <2>1, FirstsAreSeq
<1> HIDE DEF D, S
<1>11. Delivered' = Append(Delivered, ev)
  <2>1. Delivered'[D + 1] = ev
    <3>1. D + 1 \in 1 .. D + 1 /\ (D + 1) - 1 = D /\ D \in 0 .. D
      BY <1>3
    <3> QED
      BY <1>5, <1>7, <1>9, <3>1
  <2>2. ASSUME NEW i \in 1 .. D PROVE Delivered'[i] = Delivered[i]
    <3>1. i \in 1 .. D + 1 /\ i - 1 \in 0 .. D - 1 /\ i - 1 \in 0 .. D /\ i - 1 # D
      BY <1>3
    <3>2. UsedAt(eventq', i - 1) = UsedAt(eventq, i - 1)
      BY <1>5, <3>1
    <3> QED
      BY <1>6, <1>7, <1>9, <3>1, <3>2
  <2> DEFINE given == Delivered'
  <2>3. Firsts(given, D + 1) /\ given[D + 1] = ev /\ \A i \in 1 .. D : given[i] = Delivered[i]
    BY <1>9, <2>1, <2>2
  <2> HIDE DEF given
  <2>4. given = Append(Delivered, ev)
    BY <1>3, <1>10, <2>3, IsAppend
  <2> QED
    BY <2>4 DEF given
<1> DEFINE h == HeldThrough(mods, Delivered)
           more == Append(Delivered, ev)
           hh == HeldThrough(mods, more)
<1>12. hh[D + 1] = HeldAfter(h[D], ev) /\ \A i \in 0 .. D : hh[i] = h[i]
  BY <1>10, ThroughAppend
<1>13. Len(more) = D + 1 /\ more[D + 1] = ev /\ \A i \in 1 .. D : more[i] = Delivered[i]
  BY <1>3, <1>10
<1>14. /\ streamBar = [i \in 1 .. D |-> KeyEvent(h[i - 1], Delivered[i])] /\ heldBar = h[D]
  BY <1>10, Zenon DEF streamBar, heldBar
<1>15. /\ streamBar' = [i \in 1 .. D + 1 |-> KeyEvent(hh[i - 1], more[i])] /\ heldBar' = hh[D + 1]
  <2>1. streamBar' = [i \in 1 .. Len(more) |-> KeyEvent(hh[i - 1], more[i])]
    BY <1>1, <1>11, Zenon DEF streamBar
  <2>2. heldBar' = hh[Len(more)]
    BY <1>1, <1>11, Zenon DEF heldBar
  <2> QED
    BY <1>13, <2>1, <2>2, Zenon
<1> HIDE DEF h, hh, more
<1>16. streamBar' = Append(streamBar, KeyEvent(h[D], ev))
  <2> DEFINE s == streamBar
             t == streamBar'
             T == {s[i] : i \in 1 .. D} \cup {KeyEvent(h[D], ev)}
  <2>1. /\ Firsts(s, D) /\ \A i \in 1 .. D : s[i] = KeyEvent(h[i - 1], Delivered[i])
        /\ Firsts(t, D + 1) /\ \A i \in 1 .. D + 1 : t[i] = KeyEvent(hh[i - 1], more[i])
    BY <1>14, <1>15, Zenon DEF Firsts
  <2> HIDE DEF s, t
  <2>2. s \in Seq(T) /\ Len(s) = D /\ KeyEvent(h[D], ev) \in T
    <3>1. KeyEvent(h[D], ev) \in T /\ \A i \in 1 .. D : s[i] \in T
      OBVIOUS
    <3> HIDE DEF T
    <3> QED
      BY <1>3, <2>1, <3>1, FirstsAreSeq
  <2>3. ASSUME NEW i \in 1 .. D PROVE t[i] = s[i]
    <3>1. i \in 1 .. D + 1 /\ i - 1 \in 0 .. D
      BY <1>3
    <3>2. t[i] = KeyEvent(hh[i - 1], more[i]) /\ hh[i - 1] = h[i - 1] /\ more[i] = Delivered[i]
      BY <1>12, <1>13, <2>1, <3>1
    <3> QED
      BY <2>1, <3>2
  <2>4. t[D + 1] = KeyEvent(h[D], ev)
    <3>1. D + 1 \in 1 .. D + 1 /\ (D + 1) - 1 = D /\ D \in 0 .. D
      BY <1>3
    <3> QED
      BY <1>12, <1>13, <2>1, <3>1
  <2> HIDE DEF T
  <2>5. t = Append(s, KeyEvent(h[D], ev))
    BY <1>3, <2>1, <2>2, <2>3, <2>4, IsAppend
  <2> QED
    BY <2>5 DEF s, t
<1>17. streamBar' = Append(streamBar, [key |-> ev.key, pressed |-> ev.pressed, mods |-> heldBar])
  BY <1>14, <1>16, Zenon DEF KeyEvent
<1>18. heldBar' = HeldAfter(heldBar, ev)
  BY <1>12, <1>14, <1>15, Zenon
<1> QED
  BY <1>1, <1>17, <1>18, Zenon DEF K!Happens, HeldAfter

\* A poll that takes an event takes the head of the stream.
LEMMA TakePolls == ASSUME KeyboardInv, PollTake PROVE K!Poll
<1> DEFINE D == Done(eventq)
           m == D - 1
           S == {Delivered[i] : i \in 1 .. D}
<1>1. /\ has_used(eventq) /\ eventq' = GetUsed(eventq) /\ event_buffers' = event_buffers
      /\ mods' = HeldAfter(mods, event_buffers[FirstUsed(eventq)])
      /\ key_event' = IF event_buffers[FirstUsed(eventq)].key \in Keys
                      THEN KeyEvent(mods, event_buffers[FirstUsed(eventq)]) ELSE NoKey
  BY DEF PollTake
<1>2. Queue(eventq)
  BY DEF KeyboardInv, Rings
<1>3. D \in Nat /\ D > 0 /\ m \in Nat /\ D = m + 1 /\ FirstUsed(eventq) = UsedAt(eventq, 0)
  <2>1. D \in Nat /\ D > 0 /\ FirstUsed(eventq) = UsedAt(eventq, 0)
    BY <1>1, <1>2, RingFacts
  <2> HIDE DEF D
  <2> QED
    BY <2>1
<1>4. /\ Queue(eventq') /\ Done(eventq') = m
      /\ \A i \in Nat : UsedAt(eventq', i) = UsedAt(eventq, i + 1)
  BY <1>1, <1>2, <1>3, DriverTakes
<1>5. Given /\ Given'
  BY <1>2, <1>4, DeliveredIs, DeliveredNext
<1>6. /\ Firsts(Delivered', m)
      /\ \A i \in 1 .. m : Delivered'[i] = event_buffers'[UsedAt(eventq', i - 1)]
      /\ Firsts(Delivered, D)
      /\ \A i \in 1 .. D : Delivered[i] = event_buffers[UsedAt(eventq, i - 1)]
  BY <1>4, <1>5 DEF Given
<1>7. Delivered \in Seq(S) /\ Len(Delivered) = D
  <2>1. \A i \in 1 .. D : Delivered[i] \in S
    OBVIOUS
  <2> HIDE DEF D, S
  <2> QED
    BY <1>3, <1>6, <2>1, FirstsAreSeq
<1> HIDE DEF D, m, S
<1> DEFINE ev == Delivered[1]
           rest == Tail(Delivered)
<1>8. ev = event_buffers[FirstUsed(eventq)]
  <2>1. 1 \in 1 .. D /\ 1 - 1 = 0
    BY <1>3
  <2> QED
    BY <1>3, <1>6, <2>1
<1>9. Delivered' = rest
  <2> DEFINE given == Delivered'
  <2>1. ASSUME NEW i \in 1 .. m PROVE given[i] = Delivered[i + 1]
    <3>1. i - 1 \in Nat /\ i + 1 \in 1 .. D /\ (i - 1) + 1 = i /\ (i + 1) - 1 = i
      BY <1>3
    <3>2. UsedAt(eventq', i - 1) = UsedAt(eventq, i)
      BY <1>4, <3>1
    <3>3. Delivered'[i] = event_buffers'[UsedAt(eventq', i - 1)]
      BY <1>6
    <3>4. Delivered[i + 1] = event_buffers[UsedAt(eventq, (i + 1) - 1)]
      BY <1>6, <3>1
    <3> QED
      BY <1>1, <3>1, <3>2, <3>3, <3>4, Zenon
  <2>2. Firsts(given, m)
    BY <1>6
  <2> HIDE DEF given
  <2>3. given = Tail(Delivered)
    BY <1>3, <1>7, <2>1, <2>2, IsTail
  <2> QED
    BY <2>3 DEF given
<1>10. Delivered # <<>> /\ Len(rest) = m /\ \A i \in 1 .. m : rest[i] = Delivered[i + 1]
  BY <1>3, <1>7
<1> DEFINE h == HeldThrough(mods, Delivered)
           hh == HeldThrough(HeldAfter(mods, ev), rest)
<1>11. \A i \in 0 .. m : hh[i] = h[i + 1]
  BY <1>7, <1>10, ThroughTail
<1>12. h[0] = mods
  BY <1>3, <1>7, Through
<1>13. /\ streamBar = [i \in 1 .. D |-> KeyEvent(h[i - 1], Delivered[i])] /\ heldBar = h[D]
  BY <1>7, Zenon DEF streamBar, heldBar
<1>14. /\ streamBar' = [i \in 1 .. m |-> KeyEvent(hh[i - 1], rest[i])] /\ heldBar' = hh[m]
  <2>1. mods' = HeldAfter(mods, ev)
    BY <1>1, <1>8
  <2>2. streamBar' = [i \in 1 .. Len(rest) |-> KeyEvent(hh[i - 1], rest[i])]
    BY <1>9, <2>1, Zenon DEF streamBar
  <2>3. heldBar' = hh[Len(rest)]
    BY <1>9, <2>1, Zenon DEF heldBar
  <2> QED
    BY <1>10, <2>2, <2>3, Zenon
<1> HIDE DEF h, hh, rest, ev
<1> DEFINE s == streamBar
           t == streamBar'
           T == {s[i] : i \in 1 .. D}
<1>15. /\ Firsts(s, D) /\ \A i \in 1 .. D : s[i] = KeyEvent(h[i - 1], Delivered[i])
       /\ Firsts(t, m) /\ \A i \in 1 .. m : t[i] = KeyEvent(hh[i - 1], rest[i])
  BY <1>13, <1>14, Zenon DEF Firsts
<1>16. s \in Seq(T) /\ Len(s) = D
  <2>1. \A i \in 1 .. D : s[i] \in T
    OBVIOUS
  <2> HIDE DEF T, s, t
  <2> QED
    BY <1>3, <1>15, <2>1, FirstsAreSeq
<1> HIDE DEF s, t, T
<1>17. t = Tail(s)
  <2>1. ASSUME NEW i \in 1 .. m PROVE t[i] = s[i + 1]
    <3>1. i + 1 \in 1 .. D /\ (i + 1) - 1 = i /\ i - 1 \in 0 .. m /\ (i - 1) + 1 = i
      BY <1>3
    <3>2. t[i] = KeyEvent(hh[i - 1], rest[i]) /\ rest[i] = Delivered[i + 1]
      BY <1>10, <1>15
    <3>3. s[i + 1] = KeyEvent(h[(i + 1) - 1], Delivered[i + 1])
      BY <1>15, <3>1
    <3>4. hh[i - 1] = h[(i - 1) + 1]
      BY <1>11, <3>1
    <3> QED
      BY <3>1, <3>2, <3>3, <3>4, Zenon
  <2> QED
    BY <1>3, <1>15, <1>16, <2>1, IsTail
<1>18. s # <<>> /\ Head(s) = KeyEvent(mods, ev)
  <2>1. 1 \in 1 .. D /\ 1 - 1 = 0
    BY <1>3
  <2>2. s[1] = KeyEvent(mods, ev)
    BY <1>12, <1>15, <2>1 DEF ev
  <2> QED
    BY <1>3, <1>16, <2>2
<1>19. heldBar' = heldBar
  <2>1. m \in 0 .. m
    BY <1>3
  <2> QED
    BY <1>3, <1>11, <1>13, <1>14, <2>1
<1>20. key_event' = IF Head(s).key \in Keys THEN Head(s) ELSE NoKey
  <2>1. KeyEvent(mods, ev).key = ev.key
    BY DEF KeyEvent
  <2> QED
    BY <1>1, <1>8, <1>18, <2>1, Zenon
<1> QED
  BY <1>17, <1>18, <1>19, <1>20, Zenon DEF K!Poll, s, t

\* What gives no event back and takes none leaves the stream.
LEMMA StreamStays ==
  ASSUME Queue(eventq), Queue(eventq'), Done(eventq') = Done(eventq), mods' = mods,
         \A i \in 0 .. Done(eventq) - 1 :
           event_buffers'[UsedAt(eventq', i)] = event_buffers[UsedAt(eventq, i)]
  PROVE  streamBar' = streamBar /\ heldBar' = heldBar
<1> DEFINE D == Done(eventq)
           given == Delivered
           after == Delivered'
<1>1. Given /\ Given'
  BY DeliveredIs, DeliveredNext
<1>2. /\ D \in Nat /\ Firsts(given, D) /\ Firsts(after, D)
      /\ \A i \in 1 .. D : given[i] = event_buffers[UsedAt(eventq, i - 1)]
      /\ \A i \in 1 .. D : after[i] = event_buffers'[UsedAt(eventq', i - 1)]
  BY <1>1 DEF Given
<1>3. \A i \in 1 .. D : i - 1 \in 0 .. D - 1
  BY <1>2
<1>4. \A i \in 1 .. D : after[i] = given[i]
  BY <1>2, <1>3
<1> HIDE DEF D, given, after
<1>5. after = given
  BY <1>2, <1>4, Zenon DEF Firsts
<1> QED
  BY <1>5, Zenon DEF streamBar, heldBar, given, after

\* Clearing and posting the buffer in hand does not show.
LEMMA RepostStays ==
  ASSUME KeyboardInv, PollRepost
  PROVE  streamBar' = streamBar /\ heldBar' = heldBar /\ key_event' = key_event
<1> DEFINE d == polling
           D == Done(eventq)
           chained == ChainFrom(eventq, d, <<In(d)>>)
<1>1. /\ d # NoDesc /\ event_buffers' = [event_buffers EXCEPT ![d] = Cleared]
      /\ eventq' = Submit(chained, d) /\ mods' = mods /\ key_event' = key_event
  BY DEF PollRepost, Post
<1>2. Rings /\ Apart /\ Queue(eventq)
  BY DEF KeyboardInv, Rings
<1>3. Waiting(eventq) \in Nat /\ d \in Buffers /\ Waiting(eventq) + D + 1 = KEYBOARD_EVENT_BUFFERS /\ D \in Nat
  <2>1. d \in Buffers /\ Waiting(eventq) + D + 1 = KEYBOARD_EVENT_BUFFERS
    BY <1>1, <1>2 DEF Rings, InHand
  <2> QED
    BY <1>2, <2>1, RingFacts
<1>4. d \in Int /\ Waiting(eventq) < QUEUE_SIZE
  BY <1>3, Numbers
<1>5. /\ Queue(chained) /\ Waiting(chained) = Waiting(eventq) /\ Done(chained) = D
      /\ \A i : UsedAt(chained, i) = UsedAt(eventq, i)
  BY <1>2, ChainKeeps
<1> HIDE DEF chained
<1>6. /\ Queue(eventq') /\ Done(eventq') = D
      /\ \A i : UsedAt(eventq', i) = UsedAt(eventq, i)
  BY <1>1, <1>4, <1>5, SubmitAdds
<1>7. \A i \in 0 .. D - 1 : UsedAt(eventq, i) \in Buffers /\ UsedAt(eventq, i) # d
  BY <1>2 DEF Apart
<1>8. \A b \in Buffers : b # d => event_buffers'[b] = event_buffers[b]
  BY <1>1, <1>2 DEF Rings
<1>9. \A i \in 0 .. D - 1 : event_buffers'[UsedAt(eventq', i)] = event_buffers[UsedAt(eventq, i)]
  BY <1>6, <1>7, <1>8
<1> QED
  BY <1>1, <1>2, <1>6, <1>9, StreamStays

\* Without an event the stream is empty.
LEMMA EmptyStream ==
  ASSUME Queue(eventq), Done(eventq) = 0
  PROVE  streamBar = <<>> /\ heldBar = mods
<1>1. Given
  BY DeliveredIs
<1>2. Firsts(Delivered, 0)
  BY <1>1 DEF Given
<1>3. Len(Delivered) = 0
  <2>1. \A i \in 1 .. 0 : Delivered[i] \in {}
    OBVIOUS
  <2> QED
    BY <1>2, <2>1, FirstsAreSeq
<1>4. streamBar = [i \in 1 .. 0 |-> KeyEvent(HeldThrough(mods, Delivered)[i - 1], Delivered[i])]
  BY <1>3, Zenon DEF streamBar
<1>5. streamBar = <<>>
  <2> DEFINE s == streamBar
  <2>1. Firsts(s, 0)
    BY <1>4, Zenon DEF Firsts
  <2>2. \A i \in 1 .. 0 : s[i] \in {}
    OBVIOUS
  <2> HIDE DEF s
  <2>3. s \in Seq({}) /\ Len(s) = 0
    BY <2>1, <2>2, FirstsAreSeq
  <2>4. s = <<>>
    BY <2>3
  <2> QED
    BY <2>4 DEF s
<1>6. heldBar = HeldThrough(mods, Delivered)[0]
  BY <1>3, Zenon DEF heldBar
<1> QED
  BY <1>3, <1>5, <1>6, Through

\* Polls report what the device delivered, in its order, once, with the modifiers that
\* the deliveries before it left down: for any number of buffers, keys and modifier keys,
\* wherever the device delivers and however often the indices wrap (poll_key,
\* process_raw_event, get_used).
THEOREM KeyboardIsStream == KeyboardSpec => KeyboardImplementsStream
<1>1. KeyboardInit => K!Init
  <2> SUFFICES ASSUME KeyboardInit PROVE K!Init
    OBVIOUS
  <2>1. mods = {} /\ key_event = NoKey /\ polling = NoDesc
    BY DEF KeyboardInit
  <2>2. Queue(eventq) /\ Done(eventq) = 0
    <3>1. Queue(eventq) /\ eventq = PostedSoFar(KEYBOARD_EVENT_BUFFERS)
      BY KeyboardStarts, AllPosted DEF KeyboardInv, Rings
    <3>2. ~has_used(eventq)
      BY <3>1 DEF PostedSoFar, has_used
    <3> QED
      BY <3>1, <3>2, RingFacts
  <2> QED
    BY <2>1, <2>2, EmptyStream DEF K!Init
<1>2. KeyboardInv /\ [KeyboardNext]_keyboardVars => [K!Next]_(K!vars)
  <2> SUFFICES ASSUME KeyboardInv, [KeyboardNext]_keyboardVars
               PROVE  K!Next \/ UNCHANGED K!vars
    OBVIOUS
  <2>1. CASE PollTake
    BY <2>1, TakePolls DEF K!Next
  <2>2. CASE PollRepost
    BY <2>2, RepostStays DEF K!vars
  <2>3. CASE PollNothing
    <3>1. /\ key_event' = NoKey /\ Queue(eventq) /\ Done(eventq) = 0
          /\ eventq' = eventq /\ event_buffers' = event_buffers /\ mods' = mods
      BY <2>3, RingFacts DEF PollNothing, KeyboardInv, Rings
    <3>2. streamBar' = streamBar /\ heldBar' = heldBar
      BY <3>1, StreamStays
    <3> QED
      BY <3>1, <3>2, EmptyStream DEF K!Next, K!PollNothing
  <2>4. CASE \E ev \in InputEvents : DeviceEvent(ev)
    <3>1. PICK ev \in InputEvents : DeviceEvent(ev)
      BY <2>4
    <3>2. ev.key \in Keys \cup ModifierKeys \cup {"sync"} /\ ev.pressed \in BOOLEAN
      BY DEF InputEvents
    <3> QED
      BY <3>1, <3>2, EventHappens DEF K!Next
  <2>5. CASE DeviceLoses \/ UNCHANGED keyboardVars
    <3>1. /\ eventq' = eventq /\ event_buffers' = event_buffers /\ mods' = mods
          /\ key_event' = key_event /\ Queue(eventq)
      BY <2>5 DEF DeviceLoses, keyboardVars, KeyboardInv, Rings
    <3> QED
      BY <3>1, StreamStays DEF K!vars
  <2> QED
    BY <2>1, <2>2, <2>3, <2>4, <2>5 DEF KeyboardNext
<1> QED
  BY <1>1, <1>2, KeyboardStarts, KeyboardKeeps, PTL DEF KeyboardSpec, KeyboardImplementsStream, K!Spec
=============================================================================
