----------------------------- MODULE VirtQueue -----------------------------
(***************************************************************************)
(* The split virtqueue (os/ot/user/virtio/virtio.hpp): a table of          *)
(* descriptors, a ring of chains made available to the device and a ring   *)
(* of chains the device has used, both indexed by free-running counters.   *)
(* The counters are 16 bits wide in the code; here they count modulo       *)
(* IDX_MOD.  The device's half is the virtio specification's, as the       *)
(* driver relies on it.                                                    *)
(***************************************************************************)
EXTENDS Integers, Sequences

CONSTANTS
  QUEUE_SIZE,   \* descriptors, and entries of each ring
  IDX_MOD       \* 2^16 in the code

ASSUME VirtQueueAssumption ==
  /\ QUEUE_SIZE \in Nat \ {0}
  /\ IDX_MOD \in Nat \ {0, QUEUE_SIZE}
  /\ IDX_MOD % QUEUE_SIZE = 0

Descs == 0 .. QUEUE_SIZE - 1

\* Mutant: the index of the ring entry is taken from a counter that wraps at a
\* number of its own.
RingIdxUneven(idx) == (idx % (IDX_MOD - 1)) % QUEUE_SIZE
RingIdx(idx) == idx % QUEUE_SIZE
NextIdx(idx) == (idx + 1) % IDX_MOD

NoBuf == [buf |-> "none", writable |-> FALSE, chained |-> FALSE, next |-> 0]

\* VirtQueue::init; last_avail_idx is the device's.
EmptyQueue ==
  [desc |-> [d \in Descs |-> NoBuf],
   avail |-> [i \in Descs |-> 0], avail_idx |-> 0,
   used |-> [i \in Descs |-> 0], used_idx |-> 0,
   last_used_idx |-> 0, last_avail_idx |-> 0]

-----------------------------------------------------------------------------
(* The driver *)

Out(buf) == [buf |-> buf, writable |-> FALSE]
In(buf) == [buf |-> buf, writable |-> TRUE]

\* VirtQueueChain: one descriptor for each buffer, from start on, each but the last
\* linked to the next.
ChainFrom(q, start, bufs) ==
  [q EXCEPT !.desc =
    [d \in Descs |->
      LET i == d - start + 1
      IN IF i \in DOMAIN bufs
         THEN [buf |-> bufs[i].buf, writable |-> bufs[i].writable,
               chained |-> i < Len(bufs), next |-> IF i < Len(bufs) THEN d + 1 ELSE 0]
         ELSE q.desc[d]]]

\* Mutant: advances the index and leaves the entry for the next submission.
SubmitIdxFirst(q, d) ==
  [q EXCEPT !.avail[RingIdx(NextIdx(q.avail_idx))] = d, !.avail_idx = NextIdx(@)]

Submit(q, d) == [q EXCEPT !.avail[RingIdx(q.avail_idx)] = d, !.avail_idx = NextIdx(@)]

has_used(q) == q.last_used_idx # q.used_idx

\* The descriptor get_used returns.
FirstUsed(q) == q.used[RingIdx(q.last_used_idx)]
\* Mutant: looks at the used entry and leaves it.
GetUsedPeeks(q) == q
\* Without a used entry get_used returns 0xFFFFFFFF and changes nothing.
GetUsed(q) == IF has_used(q) THEN [q EXCEPT !.last_used_idx = NextIdx(@)] ELSE q

-----------------------------------------------------------------------------
(* The device *)

has_avail(q) == q.last_avail_idx # q.avail_idx
FirstAvail(q) == q.avail[RingIdx(q.last_avail_idx)]

\* The device is done with the chain it was to use next.
DeviceUses(q) ==
  [q EXCEPT !.used[RingIdx(q.used_idx)] = FirstAvail(q), !.used_idx = NextIdx(@),
            !.last_avail_idx = NextIdx(@)]

\* The buffers of the chain that starts at d.
ChainBufs(q, d) ==
  LET last == CHOOSE e \in d .. QUEUE_SIZE - 1 :
                ~q.desc[e].chained /\ \A f \in d .. e - 1 : q.desc[f].chained
  IN [i \in 1 .. last - d + 1 |-> q.desc[d + i - 1]]

-----------------------------------------------------------------------------
(* Who has a chain *)

\* Entries of a ring between two values of its counter.
Between(from, to) == {RingIdx((from + i) % IDX_MOD) : i \in 0 .. ((to - from) % IDX_MOD) - 1}

\* The chains the device may still read or write, and those it has given back.
WithDevice(q) == {q.avail[i] : i \in Between(q.last_avail_idx, q.avail_idx)}
GivenBack(q) == {q.used[i] : i \in Between(q.last_used_idx, q.used_idx)}

\* No more chains are underway than the rings have entries, and each is with the device
\* or given back, once.
QueueSound(q) ==
  LET waiting == (q.avail_idx - q.last_avail_idx) % IDX_MOD
      done == (q.used_idx - q.last_used_idx) % IDX_MOD
  IN /\ waiting + done <= QUEUE_SIZE
     /\ \A i, j \in 0 .. waiting - 1 :
          q.avail[RingIdx(q.last_avail_idx + i)] = q.avail[RingIdx(q.last_avail_idx + j)] => i = j
     /\ \A i, j \in 0 .. done - 1 :
          q.used[RingIdx(q.last_used_idx + i)] = q.used[RingIdx(q.last_used_idx + j)] => i = j
     /\ WithDevice(q) \cap GivenBack(q) = {}
=============================================================================
