----------------------------- MODULE OrderedMap -----------------------------
(***************************************************************************)
(* What a table promises (spec.md 2.3): keys have one value each and keep  *)
(* the order in which they were first put.                                 *)
(***************************************************************************)
EXTENDS Integers, SequencesExt

CONSTANTS
  Keys,
  Values,
  Nil      \* no value: what a missing key has, and what deletes one

VARIABLE map   \* the pairs of key and value, in order

Has(k) == \E i \in DOMAIN map : map[i][1] = k
ValueOf(k) == IF Has(k) THEN (CHOOSE p \in Range(map) : p[1] = k)[2] ELSE Nil

\* An update keeps the key's place, a new key goes to the end.
Put(k, v) ==
  map' = IF Has(k) THEN [i \in DOMAIN map |-> IF map[i][1] = k THEN <<k, v>> ELSE map[i]]
         ELSE Append(map, <<k, v>>)

Delete(k) == \E i \in DOMAIN map : map[i][1] = k /\ map' = RemoveAt(map, i)

Init == map = <<>>

Next == \E k \in Keys : Delete(k) \/ \E v \in Values : Put(k, v)

Spec == Init /\ [][Next]_map
=============================================================================
