------------------------------- MODULE Table -------------------------------
(***************************************************************************)
(* The language's table (lang/src/otium.c): entries in the order of their  *)
(* insertion, and an index with open addressing that holds the entries'    *)
(* positions.  Keys that are buffers, functions, natives or host objects   *)
(* hash by their address, which a collection changes.                      *)
(***************************************************************************)
EXTENDS Integers, SequencesExt, FiniteSetsExt

CONSTANTS
  TableKeys,
  AddressKeys,   \* the keys that hash by address
  TableValues,
  Hashes,
  HashOf,        \* value_hash of each key, to begin with
  MinCapacity,   \* the smallest number of entries
  MaxCapacity    \* bound on the number of entries

ASSUME TableAssumption ==
  /\ AddressKeys \subseteq TableKeys
  /\ Hashes \subseteq Nat
  /\ HashOf \in [TableKeys -> Hashes]
  /\ MinCapacity \in Nat \ {0} /\ MaxCapacity \in Nat

VARIABLES
  table,    \* its entries, the index and the number of keys
  hash      \* value_hash of each key

tableVars == <<table, hash>>

\* ot_nil; index entries that were never used, and whose key was deleted.
Nil == "nil"
EmptySlot == 0
Tombstone == -1

Index(capacity) == [s \in 0 .. 2 * capacity - 1 |-> EmptySlot]
TableNew == [entries |-> <<>>, index |-> Index(MinCapacity), length |-> 0]

Used(t) == Len(t.entries)
Live(t) == {i \in DOMAIN t.entries : t.entries[i].live}

\* The entries at the positions in S, in their order.
Nth(S, n) == CHOOSE i \in S : Cardinality({x \in S : x <= i}) = n
Kept(entries, S) == [n \in 1 .. Cardinality(S) |-> entries[Nth(S, n)]]

IndexCapacity(t) == Cardinality(DOMAIN t.index)
Capacity(t) == IndexCapacity(t) \div 2

-----------------------------------------------------------------------------
(* Probing: from the hash on, around the index *)

SlotAt(t, h, probes) == (h + probes) % IndexCapacity(t)

Holds(t, slot, k) ==
  /\ t.index[slot] \notin {EmptySlot, Tombstone}
  /\ LET entry == t.entries[t.index[slot]]
     IN entry.live /\ entry.hash = hash[k] /\ entry.key = k

\* The number of probes until the key, or an empty slot, is met.
Probes(t, k) ==
  Min({p \in DOMAIN t.index :
         LET s == SlotAt(t, hash[k], p) IN t.index[s] = EmptySlot \/ Holds(t, s, k)})

FreedBefore(t, k, probes) ==
  {p \in 0 .. probes - 1 : t.index[SlotAt(t, hash[k], p)] = Tombstone}

Found(t, k) == Holds(t, SlotAt(t, hash[k], Probes(t, k)), k)

\* table_lookup's slot_out: the key's slot, or where to put it.
SlotFor(t, k) ==
  LET p == Probes(t, k)
      freed == FreedBefore(t, k, p)
  IN SlotAt(t, hash[k], IF Found(t, k) \/ freed = {} THEN p ELSE Min(freed))

EntryOf(t, k) == t.index[SlotFor(t, k)]

ot_table_get(t, k) == IF Found(t, k) THEN t.entries[EntryOf(t, k)].value ELSE Nil

-----------------------------------------------------------------------------
(* Growing, and dropping the entries of deleted keys *)

FirstEmpty(index, h) ==
  LET n == Cardinality(DOMAIN index)
      p == Min({q \in DOMAIN index : index[(h + q) % n] = EmptySlot})
  IN (h + p) % n

Indexed(index, entries, i) == [index EXCEPT ![FirstEmpty(index, entries[i].hash)] = i]

RebuiltIndex(entries, capacity) ==
  LET index[i \in 0 .. Len(entries)] ==
        IF i = 0 THEN Index(capacity) ELSE Indexed(index[i - 1], entries, i)
  IN index[Len(entries)]

Crowded(t) == Used(t) > 2 * t.length

CompactOrGrow(t) ==
  LET live == Kept(t.entries, Live(t))
      capacity == IF Crowded(t) THEN Capacity(t) ELSE 2 * Capacity(t)
  IN IF Used(t) < Capacity(t) /\ ~Crowded(t) THEN t
     ELSE [t EXCEPT !.entries = live, !.index = RebuiltIndex(live, capacity)]

-----------------------------------------------------------------------------
(* ot_table_put *)

\* Mutant: the slot is free again, and the keys beyond it are out of reach.
DeletedToEmpty(t, k) ==
  [t EXCEPT !.entries[EntryOf(t, k)] = [@ EXCEPT !.live = FALSE, !.key = Nil, !.value = Nil],
            !.index[SlotFor(t, k)] = EmptySlot,
            !.length = @ - 1]
Deleted(t, k) ==
  [t EXCEPT !.entries[EntryOf(t, k)] = [@ EXCEPT !.live = FALSE, !.key = Nil, !.value = Nil],
            !.index[SlotFor(t, k)] = Tombstone,
            !.length = @ - 1]

Updated(t, k, v) == [t EXCEPT !.entries[EntryOf(t, k)].value = v]

\* Mutant: keeps the slot that was found before the index was rebuilt.
InsertedAtOldSlot(t, k, v) ==
  LET room == CompactOrGrow(t)
      entry == [key |-> k, value |-> v, hash |-> hash[k], live |-> TRUE]
  IN [room EXCEPT !.entries = Append(@, entry), !.index[SlotFor(t, k)] = Used(room) + 1,
                  !.length = @ + 1]
Inserted(t, k, v) ==
  LET room == CompactOrGrow(t)
      entry == [key |-> k, value |-> v, hash |-> hash[k], live |-> TRUE]
  IN [room EXCEPT !.entries = Append(@, entry), !.index[SlotFor(room, k)] = Used(room) + 1,
                  !.length = @ + 1]

Put(k, v) ==
  /\ table' = CASE Found(table, k) /\ v = Nil  -> Deleted(table, k)
                [] Found(table, k) /\ v # Nil  -> Updated(table, k, v)
                [] ~Found(table, k) /\ v = Nil -> table
                [] OTHER                       -> Inserted(table, k, v)
  /\ Capacity(table') <= MaxCapacity
  /\ UNCHANGED hash

\* The collector moves the key's object.
Moves(k) ==
  /\ \E h \in Hashes \ {hash[k]} : hash' = [hash EXCEPT ![k] = h]
  /\ UNCHANGED table

TableInit == table = TableNew /\ hash = HashOf

TableNext ==
  \/ \E k \in TableKeys, v \in TableValues \cup {Nil} : Put(k, v)
  \/ \E k \in AddressKeys : Moves(k)

TableSpec == TableInit /\ [][TableNext]_tableVars

-----------------------------------------------------------------------------
StableKeys == TableKeys \ AddressKeys

mapBar ==
  LET kept == Kept(table.entries, {i \in Live(table) : table.entries[i].key \in StableKeys})
  IN [i \in DOMAIN kept |-> <<kept[i].key, kept[i].value>>]

M == INSTANCE OrderedMap WITH Keys <- StableKeys, Values <- TableValues, map <- mapBar

\* The index leads from its hash to every entry that is live, past the tombstones and the
\* entries of other keys, over growth and compaction and around the end; and there is
\* always an empty slot, at which a search for a missing key ends.  So every key
\* is found that has an identity of its own, and no other (table_lookup,
\* table_rebuild_index, table_compact_or_grow).
KeysAreFound ==
  /\ \E s \in DOMAIN table.index : table.index[s] = EmptySlot
  /\ \A i \in Live(table) :
       \E p \in DOMAIN table.index :
         /\ table.index[SlotAt(table, table.entries[i].hash, p)] = i
         /\ \A q \in 0 .. p - 1 : table.index[SlotAt(table, table.entries[i].hash, q)] # EmptySlot
  /\ table.length = Cardinality(Live(table))
  /\ \A k \in StableKeys : ot_table_get(table, k) = M!ValueOf(k)

\* The keys that have an identity of their own make an ordered map: whatever the
\* collisions, they stay in the order of their first insertion, whatever other keys do,
\* those that the collector moves among them (ot_table_put, table_compact_or_grow).
\* (M!Spec; where the table does not change the map does not either, and the disjunct
\* saves comparing it.)
ImplementsOrderedMap == M!Init /\ [][UNCHANGED table \/ M!Next]_mapBar

\* spec.md 2.4: mutable keys compare by an identity that is stable across collections, so
\* what was put under a key is found under it.
IdentityIsStable ==
  \A i \in DOMAIN table.entries :
    LET e == table.entries[i]
    IN e.live => Found(table, e.key) /\ EntryOf(table, e.key) = i
=============================================================================
