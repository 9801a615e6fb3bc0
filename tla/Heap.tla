-------------------------------- MODULE Heap --------------------------------
(***************************************************************************)
(* The generation-scavenging collector of the language                     *)
(* (lang/src/ot-gc-gsgc.c).  Objects are born young and age by a year in   *)
(* every minor collection, which copies those it finds and promotes the    *)
(* oldest to old space; a full collection promotes all.  Old objects that  *)
(* may refer to young ones are remembered, and the minor collection looks  *)
(* at no others.                                                           *)
(*                                                                         *)
(* An object keeps its name when it is copied.  A slot that a collection   *)
(* does not look at keeps the old address, so what matters is that there   *)
(* is none with an object that moves or goes.  Sizes are left out: a       *)
(* collection may come whenever the program runs, and whether old space    *)
(* has room for a minor one is left open.                                  *)
(***************************************************************************)
EXTENDS Integers, FiniteSets

CONSTANTS
  Objects,
  Exts,             \* those of them that wrap objects of the host, and refer to nothing
  MAX_AGE,
  MAX_REMEMBERED

ASSUME HeapAssumption ==
  /\ Exts \subseteq Objects
  /\ MAX_AGE \in Nat /\ MAX_REMEMBERED \in Nat \ {0}

VARIABLES
  state,        \* of each object: its age, old, old and remembered, or free
  slots,        \* the objects that each refers to
  roots,        \* the objects that the program refers to
  remembered,   \* the list of remembered objects
  exts          \* the weak list of the wrappers

heapVars == <<state, slots, roots, remembered, exts>>

FREE == -1
OLD == MAX_AGE + 1
REMEMBERED == MAX_AGE + 2

Young == {o \in Objects : state[o] \in 0 .. MAX_AGE}
Old == {o \in Objects : state[o] \in {OLD, REMEMBERED}}
Allocated == Young \cup Old

\* What is found from start, going on through the objects in within.
FoundFrom(start, within) ==
  {o \in within : \A S \in SUBSET within :
     start \cap within \subseteq S /\ (\A p \in S : slots[p] \cap within \subseteq S) => o \in S}

Reachable == FoundFrom(roots, Allocated)

-----------------------------------------------------------------------------
(* The program *)

HeapAlloc(o) ==
  /\ state[o] = FREE
  /\ Cardinality(remembered) <= MAX_REMEMBERED
  /\ state' = [state EXCEPT ![o] = 0]
  /\ roots' = roots \cup {o}
  /\ exts' = IF o \in Exts THEN exts \cup {o} ELSE exts
  /\ UNCHANGED <<slots, remembered>>

ot_gc_write_barrier(owner, value) ==
  IF owner \in Old /\ value \in Young
  THEN /\ remembered' = remembered \cup {owner}
       /\ state' = [state EXCEPT ![owner] = REMEMBERED]
  ELSE UNCHANGED <<remembered, state>>

\* ot_store: the value takes the place of another object, or of none (before).
Store(owner, value, before) ==
  /\ owner \in Reachable \ Exts /\ value \in Reachable
  /\ slots' = [slots EXCEPT ![owner] = (@ \ before) \cup {value}]
  /\ ot_gc_write_barrier(owner, value)
  /\ UNCHANGED <<roots, exts>>

\* A slot is set to a value that is no object.
Clear(owner, before) ==
  /\ owner \in Reachable /\ before \in slots[owner]
  /\ slots' = [slots EXCEPT ![owner] = @ \ {before}]
  /\ UNCHANGED <<state, roots, remembered, exts>>

Refer(o) ==
  /\ o \in Reachable
  /\ roots' = roots \cup {o}
  /\ UNCHANGED <<state, slots, remembered, exts>>

Forget(o) ==
  /\ o \in roots
  /\ roots' = roots \ {o}
  /\ UNCHANGED <<state, slots, remembered, exts>>

-----------------------------------------------------------------------------
(* Collections *)

Referents(owners) == UNION {slots[o] : o \in owners}

\* Objects not in kept are gone, with the slots they had.  Of the wrappers that are gone
\* the host's objects are finalized.
Keep(kept) ==
  /\ slots' = [o \in Objects |-> IF o \in kept THEN slots[o] ELSE {}]
  /\ exts' = exts \cap kept
  /\ UNCHANGED roots

\* The young objects that a minor collection copies: those found from the roots and from
\* the remembered objects.  The promoted ones are remembered, and so looked at as well.
Copied == FoundFrom(roots \cup Referents(remembered), Young)
Promoted == {o \in Copied : state[o] >= MAX_AGE}

\* Mutant: what is promoted is forgotten at once.
StillRememberedOld == {o \in remembered : slots[o] \cap Young # {}}
\* Objects stay remembered while they refer to one that was young when the collection
\* began.
StillRemembered == {o \in remembered \cup Promoted : slots[o] \cap Young # {}}

minor_collect ==
  /\ Keep(Copied \cup Old)
  /\ remembered' = StillRemembered
  /\ state' = [o \in Objects |->
                 CASE o \in StillRemembered                           -> REMEMBERED
                   [] o \in (remembered \cup Promoted) \ StillRemembered -> OLD
                   [] o \in Copied \ Promoted                          -> state[o] + 1
                   [] o \in Young \ Copied                             -> FREE
                   [] OTHER                                            -> state[o]]

full_collect ==
  /\ Keep(Reachable)
  /\ remembered' = {}
  /\ state' = [o \in Objects |-> IF o \in Reachable THEN OLD ELSE FREE]

HeapInit ==
  /\ state = [o \in Objects |-> FREE]
  /\ slots = [o \in Objects |-> {}]
  /\ roots = {} /\ remembered = {} /\ exts = {}

HeapNext ==
  \/ \E o \in Objects : HeapAlloc(o) \/ Refer(o) \/ Forget(o)
  \/ \E o, value \in Objects : Clear(o, value)
  \/ \E o, value \in Objects :
       \E before \in {{}} \cup {{p} : p \in slots[o]} : Store(o, value, before)
  \/ minor_collect
  \/ full_collect

HeapSpec == HeapInit /\ [][HeapNext]_heapVars

-----------------------------------------------------------------------------
HeapTypeOK ==
  /\ state \in [Objects -> FREE .. REMEMBERED]
  /\ slots \in [Objects -> SUBSET Objects]
  /\ roots \subseteq Objects /\ remembered \subseteq Objects /\ exts \subseteq Objects

\* No root and no slot, of a garbage object either, refers to an object that is gone, as
\* validate_heap checks after each collection.
PointersLive == roots \cup Referents(Objects) \subseteq Allocated

\* Old objects that refer to young ones are in the list, and marked so (ot_gc_write_barrier,
\* minor_copy_object, minor_collect).
OldToYoungRemembered ==
  /\ remembered = {o \in Objects : state[o] = REMEMBERED}
  /\ \A o \in Old : slots[o] \cap Young # {} => o \in remembered

\* The wrappers in the list are those that are allocated: the host's objects are finalized
\* when their wrappers go (process_extension_weaks).
ExtsListed == exts = Exts \cap Allocated

\* Whatever the program stores and whenever it is collected, the heap is sound.
HeapSound == PointersLive /\ OldToYoungRemembered /\ ExtsListed
=============================================================================
