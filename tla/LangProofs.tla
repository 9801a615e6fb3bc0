----------------------------- MODULE LangProofs -----------------------------
(***************************************************************************)
(* The theorems about the language: the heap of the gsgc collector, the    *)
(* namespaces and the symbol cache, and the condition system.  The three   *)
(* share no state, and each has an inductive invariant of its own.        *)
(***************************************************************************)
EXTENDS Heap, Namespaces, Conditions, SetLemmas, SequenceTheorems, TLAPS

-----------------------------------------------------------------------------
(***************************************************************************)
(* The heap of the gsgc collector is sound, for any number of objects, any *)
(* age of promotion and any limit on the remembered ones: HeapSound with   *)
(* the type invariant is inductive.  What a collection finds is defined as *)
(* the least closed set, so that it is closed needs no induction           *)
(* (FoundIsClosed), and the rest of the argument is about one generation   *)
(* at a time.                                                              *)
(***************************************************************************)

HeapInv == HeapTypeOK /\ HeapSound

-----------------------------------------------------------------------------
(* Lemmas *)

\* Tracing (gsgc_trace_slot) finds where it starts, and with an object those that it
\* refers to, and looks at nothing else.
LEMMA FoundIsClosed ==
  ASSUME NEW start, NEW within
  PROVE  /\ FoundFrom(start, within) \subseteq within
         /\ start \cap within \subseteq FoundFrom(start, within)
         /\ \A p \in FoundFrom(start, within) :
              slots[p] \cap within \subseteq FoundFrom(start, within)
  BY Zenon DEF FoundFrom

\* The states tell the generations apart (header_is_old).
LEMMA Generations ==
  ASSUME HeapTypeOK
  PROVE  /\ Young \cap Old = {}
         /\ \A o \in Objects : o \in Allocated <=> state[o] # FREE
         /\ Young \subseteq Objects /\ Old \subseteq Objects
  BY HeapAssumption DEF HeapTypeOK, Young, Old, Allocated, FREE, OLD, REMEMBERED

\* A step that changes no more than what the program refers to by itself, or that drops a
\* reference, keeps the heap sound.
LEMMA FewerPointers ==
  ASSUME HeapInv,
         UNCHANGED <<state, remembered, exts>>,
         slots' \in [Objects -> SUBSET Objects],
         \A o \in Objects : slots'[o] \subseteq slots[o],
         roots' \subseteq Allocated
  PROVE  HeapInv'
<1>1. Young' = Young /\ Old' = Old /\ Allocated' = Allocated
  BY DEF Young, Old, Allocated
<1>2. HeapTypeOK'
  BY Generations DEF HeapInv, HeapTypeOK, Allocated
<1>3. PointersLive'
  BY <1>1 DEF HeapInv, HeapSound, PointersLive, Referents
<1>4. OldToYoungRemembered'
  <2>1. \A o \in Old : slots'[o] \cap Young # {} => slots[o] \cap Young # {}
    BY DEF Old
  <2>2. QED
    BY <1>1, <2>1 DEF HeapInv, HeapSound, OldToYoungRemembered
<1>5. ExtsListed'
  BY <1>1 DEF HeapInv, HeapSound, ExtsListed
<1>6. QED
  BY <1>2, <1>3, <1>4, <1>5 DEF HeapInv, HeapSound

\* What is found is allocated.
LEMMA ReachableLive == Reachable \subseteq Allocated
  BY FoundIsClosed DEF Reachable

-----------------------------------------------------------------------------
(* The program's steps *)

\* A new object is young and nothing points to it yet.
LEMMA HeapAllocSound ==
  ASSUME HeapInv, NEW o \in Objects, HeapAlloc(o)
  PROVE  HeapInv'
<1>1. /\ state' = [state EXCEPT ![o] = 0] /\ state[o] = FREE
      /\ roots' = roots \cup {o}
      /\ exts' = IF o \in Exts THEN exts \cup {o} ELSE exts
      /\ slots' = slots /\ remembered' = remembered
  BY DEF HeapAlloc
<1>2. HeapTypeOK'
  BY <1>1, HeapAssumption DEF HeapInv, HeapTypeOK, FREE, REMEMBERED
<1>3. Young' = Young \cup {o} /\ Old' = Old /\ Allocated' = Allocated \cup {o}
  BY <1>1, HeapAssumption DEF HeapInv, HeapTypeOK, Young, Old, Allocated, FREE, OLD, REMEMBERED
<1>4. o \notin Allocated
  BY <1>1, Generations DEF HeapInv
<1>5. PointersLive'
  BY <1>1, <1>3 DEF HeapInv, HeapSound, PointersLive, Referents
<1>6. OldToYoungRemembered'
  <2>1. remembered' = {p \in Objects : state'[p] = REMEMBERED}
    BY <1>1, HeapAssumption
    DEF HeapInv, HeapTypeOK, HeapSound, OldToYoungRemembered, FREE, REMEMBERED
  <2>2. \A p \in Old : o \notin slots[p]
    BY <1>4 DEF HeapInv, HeapSound, PointersLive, Referents, Old
  <2>3. QED
    BY <1>1, <1>3, <2>1, <2>2 DEF HeapInv, HeapSound, OldToYoungRemembered
<1>7. ExtsListed'
  BY <1>1, <1>3 DEF HeapInv, HeapSound, ExtsListed
<1>8. QED
  BY <1>2, <1>5, <1>6, <1>7 DEF HeapInv, HeapSound

\* A store goes through the write barrier, which remembers an old object.
LEMMA StoreSound ==
  ASSUME HeapInv, NEW owner \in Objects, NEW value \in Objects, NEW before,
         Store(owner, value, before)
  PROVE  HeapInv'
<1>1. /\ owner \in Allocated /\ value \in Allocated
      /\ slots' = [slots EXCEPT ![owner] = (@ \ before) \cup {value}]
      /\ ot_gc_write_barrier(owner, value)
      /\ roots' = roots /\ exts' = exts
  BY ReachableLive DEF Store
<1>2. /\ remembered' \subseteq Objects /\ state' \in [Objects -> FREE .. REMEMBERED]
      /\ remembered' = {p \in Objects : state'[p] = REMEMBERED}
      /\ remembered \subseteq remembered'
      /\ owner \in Old /\ value \in Young => owner \in remembered'
      /\ Young' = Young /\ Old' = Old
  <2>1. CASE owner \in Old /\ value \in Young
    <3>1. /\ remembered' = remembered \cup {owner}
          /\ state' = [state EXCEPT ![owner] = REMEMBERED]
      BY <1>1, <2>1 DEF ot_gc_write_barrier
    <3>2. REMEMBERED \in FREE .. REMEMBERED /\ REMEMBERED \notin 0 .. MAX_AGE
      BY HeapAssumption DEF FREE, REMEMBERED
    <3>3. state[owner] \in {OLD, REMEMBERED} /\ state[owner] \notin 0 .. MAX_AGE
      BY <2>1, HeapAssumption DEF Old, OLD, REMEMBERED
    <3>4. Young' = Young /\ Old' = Old
      BY <3>1, <3>2, <3>3 DEF HeapInv, HeapTypeOK, Young, Old
    <3>5. QED
      BY <3>1, <3>2, <3>4 DEF HeapInv, HeapSound, HeapTypeOK, OldToYoungRemembered
  <2>2. CASE ~(owner \in Old /\ value \in Young)
    <3>1. remembered' = remembered /\ state' = state
      BY <1>1, <2>2 DEF ot_gc_write_barrier
    <3>2. QED
      BY <2>2, <3>1 DEF HeapInv, HeapSound, HeapTypeOK, OldToYoungRemembered, Young, Old
  <2>3. QED
    BY <2>1, <2>2
<1>3. Allocated' = Allocated
  BY <1>2 DEF Allocated
<1>4. HeapTypeOK'
  BY <1>1, <1>2 DEF HeapInv, HeapTypeOK
<1>5. \A p \in Objects : slots'[p] \subseteq slots[p] \cup (IF p = owner THEN {value} ELSE {})
  BY <1>1 DEF HeapInv, HeapTypeOK
<1>6. PointersLive'
  BY <1>1, <1>3, <1>5 DEF HeapInv, HeapSound, PointersLive, Referents
<1>7. OldToYoungRemembered'
  <2>1. ASSUME NEW p \in Old, slots'[p] \cap Young # {}
        PROVE  p \in remembered'
    <3>1. slots[p] \cap Young # {} \/ (p = owner /\ value \in Young)
      BY <1>5, <2>1 DEF Old
    <3>2. QED
      BY <1>2, <2>1, <3>1 DEF HeapInv, HeapSound, OldToYoungRemembered
  <2>2. QED
    BY <1>2, <2>1 DEF OldToYoungRemembered
<1>8. ExtsListed'
  BY <1>1, <1>3 DEF HeapInv, HeapSound, ExtsListed
<1>9. QED
  BY <1>4, <1>6, <1>7, <1>8 DEF HeapInv, HeapSound

-----------------------------------------------------------------------------
(* Collections *)

\* A full collection keeps everything that the roots reach.
LEMMA FullCollectSound ==
  ASSUME HeapInv, full_collect
  PROVE  HeapInv'
<1>1. /\ slots' = [o \in Objects |-> IF o \in Reachable THEN slots[o] ELSE {}]
      /\ exts' = exts \cap Reachable /\ roots' = roots /\ remembered' = {}
      /\ state' = [o \in Objects |-> IF o \in Reachable THEN OLD ELSE FREE]
  BY DEF full_collect, Keep
<1>2. /\ Reachable \subseteq Allocated
      /\ roots \cap Allocated \subseteq Reachable
      /\ \A p \in Reachable : slots[p] \cap Allocated \subseteq Reachable
  BY FoundIsClosed DEF Reachable
<1>3. Allocated \subseteq Objects
  BY DEF Allocated, Young, Old
<1>4. /\ OLD \in FREE .. REMEMBERED /\ FREE \in FREE .. REMEMBERED
      /\ OLD # REMEMBERED /\ FREE \notin {OLD, REMEMBERED}
      /\ OLD \notin 0 .. MAX_AGE /\ FREE \notin 0 .. MAX_AGE
  BY HeapAssumption DEF FREE, OLD, REMEMBERED
<1>5. HeapTypeOK'
  BY <1>1, <1>4 DEF HeapInv, HeapTypeOK
<1>6. Young' = {} /\ Old' = Reachable /\ Allocated' = Reachable
  BY <1>1, <1>2, <1>3, <1>4 DEF Young, Old, Allocated
<1>7. PointersLive'
  BY <1>1, <1>2, <1>6 DEF HeapInv, HeapSound, PointersLive, Referents
<1>8. OldToYoungRemembered'
  BY <1>1, <1>4, <1>6 DEF OldToYoungRemembered
<1>9. ExtsListed'
  BY <1>1, <1>2, <1>6 DEF HeapInv, HeapSound, ExtsListed
<1>10. QED
  BY <1>5, <1>7, <1>8, <1>9 DEF HeapInv, HeapSound

\* A minor collection keeps what the roots and the remembered objects reach.
LEMMA MinorCollectSound ==
  ASSUME HeapInv, minor_collect
  PROVE  HeapInv'
<1> DEFINE K == Copied \cup Old
<1>1. /\ slots' = [o \in Objects |-> IF o \in K THEN slots[o] ELSE {}]
      /\ exts' = exts \cap K /\ roots' = roots
      /\ remembered' = StillRemembered
  BY DEF minor_collect, Keep
\* What is copied: the young objects that the roots, the remembered and the copied find.
<1>2. /\ Copied \subseteq Young
      /\ (roots \cup Referents(remembered)) \cap Young \subseteq Copied
      /\ \A p \in Copied : slots[p] \cap Young \subseteq Copied
  BY FoundIsClosed DEF Copied
<1>3. /\ Young \subseteq Objects /\ Old \subseteq Objects /\ Young \cap Old = {}
      /\ K \subseteq Allocated /\ Copied \subseteq Objects
  BY <1>2, Generations DEF HeapInv, Allocated
<1>4. /\ remembered \subseteq Old /\ Promoted \subseteq Copied
      /\ StillRemembered \subseteq remembered \cup Promoted
  BY DEF HeapInv, HeapSound, OldToYoungRemembered, Old, Promoted, StillRemembered
\* The states afterwards, of the three that stay and of the ones that go.
<1>5. \A o \in Objects :
        /\ o \in StillRemembered => state'[o] = REMEMBERED
        /\ o \in (Old \cup Promoted) \ StillRemembered => state'[o] = OLD
        /\ o \in Copied \ Promoted => state'[o] \in 0 .. MAX_AGE
        /\ o \notin K => state'[o] = FREE
  <2> SUFFICES ASSUME NEW o \in Objects
               PROVE  /\ o \in StillRemembered => state'[o] = REMEMBERED
                      /\ o \in (Old \cup Promoted) \ StillRemembered => state'[o] = OLD
                      /\ o \in Copied \ Promoted => state'[o] \in 0 .. MAX_AGE
                      /\ o \notin K => state'[o] = FREE
    OBVIOUS
  <2>1. state'[o] =
          CASE o \in StillRemembered                           -> REMEMBERED
            [] o \in (remembered \cup Promoted) \ StillRemembered -> OLD
            [] o \in Copied \ Promoted                          -> state[o] + 1
            [] o \in Young \ Copied                             -> FREE
            [] OTHER                                            -> state[o]
    BY DEF minor_collect
  <2>2. CASE o \in StillRemembered
    BY <1>2, <1>3, <1>4, <2>1, <2>2
  <2>3. CASE o \in (remembered \cup Promoted) \ StillRemembered
    BY <1>2, <1>3, <1>4, <2>1, <2>3
  <2>4. CASE o \in Copied \ Promoted
    <3>1. o \notin remembered \cup Promoted /\ o \notin StillRemembered /\ o \notin Old
      BY <1>2, <1>3, <1>4, <2>4
    <3>2. state'[o] = state[o] + 1
      BY <2>1, <2>4, <3>1
    <3>3. state[o] \in 0 .. MAX_AGE /\ ~(state[o] >= MAX_AGE)
      BY <1>2, <2>4 DEF Promoted, Young
    <3>4. QED
      BY <2>4, <3>1, <3>2, <3>3, HeapAssumption
  <2>5. CASE o \in Young \ Copied
    <3>1. o \notin remembered \cup Promoted /\ o \notin StillRemembered /\ o \notin Old
      BY <1>3, <1>4, <2>5
    <3>2. QED
      BY <2>1, <2>5, <3>1
  <2>6. CASE o \in Old \ remembered
    <3>1. o \notin remembered \cup Promoted /\ o \notin StillRemembered /\ o \notin Young
      BY <1>2, <1>3, <1>4, <2>6
    <3>2. state'[o] = state[o] /\ state[o] = OLD
      BY <1>2, <1>3, <2>1, <2>6, <3>1
      DEF HeapInv, HeapSound, OldToYoungRemembered, Old
    <3>3. QED
      BY <1>2, <2>6, <3>1, <3>2
  <2>7. CASE o \notin Young \cup Old
    <3>1. o \notin remembered \cup Promoted /\ o \notin StillRemembered /\ o \notin Copied
      BY <1>2, <1>4, <2>7
    <3>2. state'[o] = state[o]
      BY <2>1, <2>7, <3>1
    <3>3. state[o] = FREE
      BY <2>7, Generations DEF HeapInv, Allocated
    <3>4. QED
      BY <2>7, <3>1, <3>2, <3>3
  <2>8. QED
    BY <1>3, <1>4, <2>2, <2>3, <2>4, <2>5, <2>6, <2>7
<1>6. /\ OLD \in FREE .. REMEMBERED /\ FREE \in FREE .. REMEMBERED
      /\ REMEMBERED \in FREE .. REMEMBERED /\ 0 .. MAX_AGE \subseteq FREE .. REMEMBERED
      /\ OLD # REMEMBERED /\ FREE \notin {OLD, REMEMBERED}
      /\ OLD \notin 0 .. MAX_AGE /\ REMEMBERED \notin 0 .. MAX_AGE /\ FREE \notin 0 .. MAX_AGE
  BY HeapAssumption DEF FREE, OLD, REMEMBERED
<1>7. \A o \in Objects : \/ o \in StillRemembered
                         \/ o \in (Old \cup Promoted) \ StillRemembered
                         \/ o \in Copied \ Promoted
                         \/ o \notin K
  OBVIOUS
<1>8. HeapTypeOK'
  <2>1. \A o \in Objects : state'[o] \in FREE .. REMEMBERED
    BY <1>5, <1>6, <1>7
  <2>2. state' = [o \in Objects |-> state'[o]]
    BY DEF minor_collect
  <2>3. state' \in [Objects -> FREE .. REMEMBERED]
    BY <2>1, <2>2
  <2>4. StillRemembered \subseteq Objects
    BY <1>3, <1>4
  <2>5. QED
    BY <1>1, <2>3, <2>4 DEF HeapInv, HeapTypeOK
<1>9. Young' = Copied \ Promoted /\ Old' = Old \cup Promoted /\ Allocated' = K
  <2>1. \A o \in Objects : state'[o] \in 0 .. MAX_AGE <=> o \in Copied \ Promoted
    BY <1>2, <1>3, <1>4, <1>5, <1>6, <1>7
  <2>2. \A o \in Objects : state'[o] \in {OLD, REMEMBERED} <=> o \in Old \cup Promoted
    BY <1>2, <1>3, <1>4, <1>5, <1>6, <1>7
  <2>3. Young' = Copied \ Promoted /\ Old' = Old \cup Promoted
    BY <1>3, <1>4, <2>1, <2>2 DEF Young, Old
  <2>4. QED
    BY <1>4, <2>3 DEF Allocated
\* The pointers of an object that stays: to old objects, which stay, or to young ones that
\* the collection found with it.
<1>10. PointersLive'
  <2>1. roots \subseteq K
    BY <1>2 DEF HeapInv, HeapSound, PointersLive, Allocated
  <2>2. ASSUME NEW o \in K
        PROVE  slots[o] \subseteq K
    <3>1. slots[o] \subseteq Young \cup Old
      BY <1>3, <2>2 DEF HeapInv, HeapSound, PointersLive, Allocated, Referents
    <3>2. slots[o] \cap Young \subseteq Copied
      <4>1. CASE o \in Copied
        BY <1>2, <4>1
      <4>2. CASE o \in Old
        <5>1. o \in remembered \/ slots[o] \cap Young = {}
          BY <4>2 DEF HeapInv, HeapSound, OldToYoungRemembered
        <5>2. o \in remembered => slots[o] \subseteq Referents(remembered)
          BY DEF Referents
        <5>3. QED
          BY <1>2, <5>1, <5>2
      <4>3. QED
        BY <2>2, <4>1, <4>2
    <3>3. QED
      BY <3>1, <3>2
  <2>3. \A o \in Objects : slots'[o] \subseteq K
    BY <1>1, <2>2
  <2>4. QED
    BY <1>1, <1>9, <2>1, <2>3 DEF PointersLive, Referents
<1>11. OldToYoungRemembered'
  <2>1. remembered' = {o \in Objects : state'[o] = REMEMBERED}
    <3>1. \A o \in Objects : state'[o] = REMEMBERED <=> o \in StillRemembered
      BY <1>5, <1>6, <1>7
    <3>2. QED
      BY <1>1, <1>3, <1>4, <3>1
  <2>2. ASSUME NEW o \in Old', slots'[o] \cap Young' # {}
        PROVE  o \in remembered'
    <3>1. o \in Objects /\ o \in Old \cup Promoted
      BY <1>3, <1>4, <1>9
    <3>2. slots[o] \cap Young # {}
      BY <1>1, <1>2, <1>9, <2>2, <3>1
    <3>3. o \in remembered \cup Promoted
      BY <3>1, <3>2 DEF HeapInv, HeapSound, OldToYoungRemembered
    <3>4. QED
      BY <1>1, <3>2, <3>3 DEF StillRemembered
  <2>3. QED
    BY <2>1, <2>2 DEF OldToYoungRemembered
<1>12. ExtsListed'
  BY <1>1, <1>3, <1>9 DEF HeapInv, HeapSound, ExtsListed
<1>13. QED
  BY <1>8, <1>10, <1>11, <1>12 DEF HeapInv, HeapSound

-----------------------------------------------------------------------------
(* The theorem *)

\* The heap begins empty.
LEMMA HeapInitSound == HeapInit => HeapInv
<1> SUFFICES ASSUME HeapInit PROVE HeapInv
  OBVIOUS
<1>1. Young = {} /\ Old = {} /\ Allocated = {}
  BY HeapAssumption DEF HeapInit, Young, Old, Allocated, FREE, OLD, REMEMBERED
<1>2. HeapTypeOK
  BY HeapAssumption DEF HeapInit, HeapTypeOK, FREE, REMEMBERED
<1>3. PointersLive
  BY DEF HeapInit, PointersLive, Referents
<1>4. OldToYoungRemembered
  BY <1>1, HeapAssumption DEF HeapInit, OldToYoungRemembered, FREE, REMEMBERED
<1>5. ExtsListed
  BY <1>1 DEF HeapInit, ExtsListed
<1>6. QED
  BY <1>2, <1>3, <1>4, <1>5 DEF HeapInv, HeapSound

\* Every step of the program and the collector.
LEMMA HeapNextSound == HeapInv /\ [HeapNext]_heapVars => HeapInv'
<1> SUFFICES ASSUME HeapInv, [HeapNext]_heapVars PROVE HeapInv'
  OBVIOUS
<1>0. HeapTypeOK /\ roots \subseteq Allocated /\ Reachable \subseteq Allocated
  BY ReachableLive DEF HeapInv, HeapSound, PointersLive
<1>1. ASSUME NEW o \in Objects, HeapAlloc(o) PROVE HeapInv'
  BY <1>1, HeapAllocSound
<1>2. ASSUME NEW o \in Objects, Refer(o) PROVE HeapInv'
  <2>1. /\ UNCHANGED <<state, remembered, exts, slots>>
        /\ roots' \subseteq Allocated
    BY <1>0, <1>2 DEF Refer
  <2>2. QED
    BY <1>0, <2>1, FewerPointers DEF HeapTypeOK
<1>3. ASSUME NEW o \in Objects, Forget(o) PROVE HeapInv'
  <2>1. /\ UNCHANGED <<state, remembered, exts, slots>>
        /\ roots' \subseteq Allocated
    BY <1>0, <1>3 DEF Forget
  <2>2. QED
    BY <1>0, <2>1, FewerPointers DEF HeapTypeOK
<1>4. ASSUME NEW o \in Objects, NEW value \in Objects, Clear(o, value) PROVE HeapInv'
  <2>1. /\ UNCHANGED <<state, remembered, exts>> /\ roots' = roots
        /\ slots' = [slots EXCEPT ![o] = @ \ {value}]
    BY <1>4 DEF Clear
  <2>2. /\ slots' \in [Objects -> SUBSET Objects]
        /\ \A p \in Objects : slots'[p] \subseteq slots[p]
    BY <1>0, <2>1 DEF HeapTypeOK
  <2>3. QED
    BY <1>0, <2>1, <2>2, FewerPointers
<1>5. ASSUME NEW o \in Objects, NEW value \in Objects, NEW before, Store(o, value, before)
      PROVE  HeapInv'
  BY <1>5, StoreSound
<1>6. ASSUME minor_collect PROVE HeapInv'
  BY <1>6, MinorCollectSound
<1>7. ASSUME full_collect PROVE HeapInv'
  BY <1>7, FullCollectSound
<1>8. CASE UNCHANGED heapVars
  BY <1>8 DEF heapVars, HeapInv, HeapTypeOK, HeapSound, PointersLive, OldToYoungRemembered,
              ExtsListed, Referents, Young, Old, Allocated
<1>9. QED
  BY <1>1, <1>2, <1>3, <1>4, <1>5, <1>6, <1>7, <1>8 DEF HeapNext

\* Whatever the program stores and whenever it is collected, no root and no slot refers to an
\* object that is gone, old objects with young referents are remembered, and the wrappers
\* that are left are those in the weak list.
THEOREM HeapAlwaysSound == HeapSpec => []HeapSound
<1>1. HeapInv => HeapSound
  BY DEF HeapInv
<1>2. QED
  BY HeapInitSound, HeapNextSound, <1>1, PTL DEF HeapSpec

-----------------------------------------------------------------------------
(***************************************************************************)
(* Whatever is defined, referred and loaded, for any number of namespaces  *)
(* and symbols: the symbol cache never lies, the loading flags are those   *)
(* of the loads under way, and private definitions stay private.  NInv is  *)
(* inductive: it adds to CacheIsFresh and LoadsSound that every namespace  *)
(* named by a cache entry, by a load or as the current one exists.         *)
(***************************************************************************)

Load == [target : Spaces, caller : Spaces]

NShape ==
  /\ DOMAIN vars_of \subseteq Spaces /\ DOMAIN refers = DOMAIN vars_of
  /\ CoreSpace \in DOMAIN vars_of
  /\ current_namespace \in DOMAIN vars_of
  /\ DOMAIN cache = Symbols
  /\ \A s \in Symbols : cache[s].space \in {"none"} \cup DOMAIN vars_of
  /\ \A s \in Symbols : cache[s].space = "none" => cache[s].var = NoVar
  /\ loads \in Seq(Load)
  /\ \A i \in 1 .. Len(loads) : loads[i].caller \in DOMAIN vars_of

NLoads ==
  /\ \A n \in Spaces : n \in loading => \E i \in 1 .. Len(loads) : loads[i].target = n
  /\ \A i \in 1 .. Len(loads) : loads[i].target \in loading
  /\ \A i, j \in 1 .. Len(loads) : loads[i].target = loads[j].target => i = j
  /\ \A i \in 1 .. Len(loads) : loads[i].target \in DOMAIN vars_of
  /\ loading \subseteq Spaces

NInv == NShape /\ CacheIsFresh /\ NLoads

-----------------------------------------------------------------------------
(* What the steps keep *)

\* f with y for x.
LEMMA EnteredIs ==
  ASSUME NEW f, NEW x, NEW y
  PROVE  /\ DOMAIN Entered(f, x, y) = DOMAIN f \cup {x}
         /\ Entered(f, x, y)[x] = y
         /\ \A z \in DOMAIN f : z # x => Entered(f, x, y)[z] = f[z]
  BY DEF Entered

\* A namespace that is created starts with references to what is public in the core, and
\* changes nothing for the others.
LEMMA CreatedKeeps ==
  ASSUME NInv, NEW n \in Spaces, Created(n)
  PROVE  /\ DOMAIN vars_of' = DOMAIN vars_of \cup {n} /\ DOMAIN refers' = DOMAIN vars_of'
         /\ \A m \in DOMAIN vars_of : vars_of'[m] = vars_of[m] /\ refers'[m] = refers[m]
         /\ n \notin DOMAIN vars_of =>
              /\ DOMAIN vars_of'[n] = {}
              /\ \A s \in DOMAIN refers'[n] :
                   /\ s \in DOMAIN vars_of[CoreSpace] /\ ~vars_of[CoreSpace][s]
                   /\ refers'[n][s] = Var(CoreSpace, s)
<1>1. CASE Exists(n)
  BY <1>1 DEF Created, Exists, NInv, NShape
<1>2. CASE ~Exists(n)
  <2> DEFINE public == [s \in {c \in DOMAIN vars_of[CoreSpace] : ~Private(Var(CoreSpace, c))} |->
                          Var(CoreSpace, s)]
  <2>1. vars_of' = Entered(vars_of, n, <<>>) /\ refers' = Entered(refers, n, public)
    BY <1>2 DEF Created
  <2>2. \A s \in DOMAIN public :
          /\ s \in DOMAIN vars_of[CoreSpace] /\ ~vars_of[CoreSpace][s]
          /\ public[s] = Var(CoreSpace, s)
    BY DEF Private, Var
  <2> HIDE DEF public
  <2>3. n \notin DOMAIN vars_of /\ DOMAIN refers = DOMAIN vars_of
    BY <1>2 DEF Exists, NInv, NShape
  <2>4. DOMAIN vars_of' = DOMAIN vars_of \cup {n} /\ vars_of'[n] = <<>>
        /\ \A m \in DOMAIN vars_of : vars_of'[m] = vars_of[m]
    BY <2>1, <2>3 DEF Entered
  <2>5. DOMAIN refers' = DOMAIN refers \cup {n} /\ refers'[n] = public
        /\ \A m \in DOMAIN refers : refers'[m] = refers[m]
    BY <2>1, <2>3 DEF Entered
  <2>6. DOMAIN <<>> = {}
    OBVIOUS
  <2>7. QED
    BY <2>2, <2>3, <2>4, <2>5, <2>6
<1>3. QED
  BY <1>1, <1>2

\* A symbol means the same in the namespaces that were there.
LEMMA CreatedKeepsMeanings ==
  ASSUME NInv, NEW n \in Spaces, Created(n), NEW m \in DOMAIN vars_of, NEW s
  PROVE  namespace_var(m, s)' = namespace_var(m, s)
  BY CreatedKeeps DEF namespace_var

\* With the meanings and the cache as they were, the cache is as fresh.
LEMMA CacheStaysFresh ==
  ASSUME NInv, cache' = cache,
         \A m \in DOMAIN vars_of, s \in Symbols : namespace_var(m, s)' = namespace_var(m, s)
  PROVE  CacheIsFresh'
<1> SUFFICES ASSUME NEW s \in Symbols, cache[s].space # "none"
             PROVE  cache[s].var = namespace_var(cache[s].space, s)'
  BY DEF CacheIsFresh
<1>1. cache[s].space \in DOMAIN vars_of
  BY DEF NInv, NShape
<1>2. namespace_var(cache[s].space, s)' = namespace_var(cache[s].space, s)
  BY <1>1
<1>3. QED
  BY <1>2 DEF NInv, CacheIsFresh

\* What a definition changes about what symbols mean.
LEMMA DefineMeans ==
  ASSUME NInv, NEW s \in Symbols, NEW private \in BOOLEAN, Define(s, private)
  PROVE  /\ DOMAIN vars_of' = DOMAIN vars_of
         /\ \A m \in DOMAIN vars_of, t \in Symbols :
              namespace_var(m, t)' = IF m = current_namespace /\ t = s THEN Var(m, s)
                                     ELSE namespace_var(m, t)
<1>1. vars_of' = [vars_of EXCEPT ![current_namespace] = Entered(@, s, private)]
      /\ refers' = refers /\ current_namespace \in DOMAIN vars_of
  BY DEF Define, NInv, NShape
<1>2. /\ DOMAIN vars_of' = DOMAIN vars_of
      /\ vars_of'[current_namespace] = Entered(vars_of[current_namespace], s, private)
      /\ \A m \in DOMAIN vars_of : m # current_namespace => vars_of'[m] = vars_of[m]
  BY <1>1
<1>3. DOMAIN Entered(vars_of[current_namespace], s, private)
        = DOMAIN vars_of[current_namespace] \cup {s}
  BY DEF Entered
<1>4. ASSUME NEW m \in DOMAIN vars_of, NEW t \in Symbols
      PROVE  namespace_var(m, t)' = IF m = current_namespace /\ t = s THEN Var(m, s)
                                     ELSE namespace_var(m, t)
  <2>1. DOMAIN vars_of'[m] = IF m = current_namespace THEN DOMAIN vars_of[m] \cup {s}
                             ELSE DOMAIN vars_of[m]
    BY <1>2, <1>3
  <2>2. namespace_var(m, t)' = CASE t \in DOMAIN vars_of'[m] -> Var(m, t)
           [] t \notin DOMAIN vars_of'[m] /\ t \in DOMAIN refers[m] -> refers[m][t]
           [] OTHER -> NoVar
    BY <1>1 DEF namespace_var, Var, NoVar
  <2>3. QED
    BY <2>1, <2>2 DEF namespace_var
<1>5. QED
  BY <1>2, <1>4

\* A definition makes a var in the namespace it is in.
LEMMA DefineStep ==
  ASSUME NInv, NEW s \in Symbols, NEW private \in BOOLEAN, Define(s, private)
  PROVE  NInv'
<1>1. /\ refers' = refers /\ loaded' = loaded /\ loading' = loading /\ loads' = loads
      /\ current_namespace' = current_namespace
      /\ cache' = [cache EXCEPT ![s] =
           [space |-> current_namespace, var |-> Var(current_namespace, s)]]
  BY DEF Define
<1>2. /\ DOMAIN vars_of' = DOMAIN vars_of
      /\ \A m \in DOMAIN vars_of, t \in Symbols :
           namespace_var(m, t)' = IF m = current_namespace /\ t = s THEN Var(m, s)
                                  ELSE namespace_var(m, t)
  BY DefineMeans
<1>3. \A t \in Symbols :
        cache'[t] = IF t = s
                    THEN [space |-> current_namespace, var |-> Var(current_namespace, s)]
                    ELSE cache[t]
  BY <1>1 DEF NInv, NShape
<1>4. "none" \notin DOMAIN vars_of
  BY NamespacesAssumption DEF NInv, NShape
<1>5. NShape'
  BY <1>1, <1>2, <1>3, <1>4 DEF NInv, NShape
<1>6. CacheIsFresh'
  <2> SUFFICES ASSUME NEW t \in Symbols, cache'[t].space # "none"
               PROVE  cache'[t].var = namespace_var(cache[t].space, t)'
    BY DEF CacheIsFresh
  <2>1. CASE t = s
    <3>1. /\ cache'[t].space = current_namespace
          /\ cache'[t].var = Var(current_namespace, s)
      BY <1>3, <2>1
    <3>2. ASSUME NEW m, m = current_namespace
          PROVE  namespace_var(m, t)' = Var(m, s)
      BY <1>2, <2>1, <3>2 DEF NInv, NShape
    <3>3. QED
      BY <3>1, <3>2 DEF namespace_var
  <2>2. CASE t # s
    <3>1. cache'[t] = cache[t] /\ cache[t].space \in DOMAIN vars_of
      BY <1>3, <2>2 DEF NInv, NShape
    <3>2. ASSUME NEW m, m = cache[t].space
          PROVE  namespace_var(m, t)' = namespace_var(m, t)
      BY <1>2, <2>2, <3>1, <3>2
    <3>3. cache[t].var = namespace_var(cache[t].space, t)
      BY <3>1 DEF NInv, CacheIsFresh
    <3>4. QED
      BY <3>1, <3>2, <3>3 DEF namespace_var
  <2>3. QED
    BY <2>1, <2>2
<1>7. NLoads'
  BY <1>1, <1>2 DEF NInv, NLoads
<1>8. QED
  BY <1>5, <1>6, <1>7 DEF NInv

\* Code that refers to a symbol finds what the cache remembers or would remember.
LEMMA ResolvedIsMeant ==
  ASSUME NInv, NEW n \in DOMAIN vars_of, NEW s \in Symbols
  PROVE  Resolved(n, s) = namespace_var(n, s)
<1>1. n # "none"
  BY NamespacesAssumption DEF NInv, NShape
<1>2. cache[s].space = n => cache[s].var = namespace_var(n, s)
  BY <1>1 DEF NInv, CacheIsFresh
<1>3. QED
  BY <1>2 DEF Resolved

\* A lookup may fill the cache of its symbol.
LEMMA ResolveStep ==
  ASSUME NInv, NEW n \in Spaces, NEW s \in Symbols, Resolve(n, s)
  PROVE  NInv'
<1>1. n \in DOMAIN vars_of /\ n # "none"
  BY NamespacesAssumption DEF Resolve, Exists
<1>2. /\ UNCHANGED <<vars_of, refers, loaded, loading, current_namespace, loads>>
      /\ cache' = [cache EXCEPT ![s] = [space |-> n, var |-> namespace_var(n, s)]]
  BY <1>1, ResolvedIsMeant DEF Resolve
<1>3. \A t \in Symbols : cache'[t] = IF t = s THEN [space |-> n, var |-> namespace_var(n, s)]
                                     ELSE cache[t]
  BY <1>2 DEF NInv, NShape
<1>4. NShape'
  BY <1>1, <1>2, <1>3 DEF NInv, NShape
<1>5. CacheIsFresh'
  <2> SUFFICES ASSUME NEW t \in Symbols, cache'[t].space # "none"
               PROVE  cache'[t].var = namespace_var(cache[t].space, t)'
    BY DEF CacheIsFresh
  <2>1. \A m : namespace_var(m, t)' = namespace_var(m, t)
    BY <1>2 DEF namespace_var
  <2>2. CASE t = s
    BY <1>3, <2>1, <2>2 DEF namespace_var
  <2>3. CASE t # s
    <3>1. cache'[t] = cache[t] /\ cache[t].var = namespace_var(cache[t].space, t)
      BY <1>3, <2>3 DEF NInv, CacheIsFresh
    <3>2. QED
      BY <1>2, <3>1 DEF namespace_var
  <2>4. QED
    BY <2>2, <2>3
<1>6. NLoads'
  BY <1>2 DEF NInv, NLoads
<1>7. QED
  BY <1>4, <1>5, <1>6 DEF NInv

\* A reference that is added changes what one symbol means in the caller, and the cache
\* forgets it.
LEMMA OptionsKeep ==
  ASSUME NInv, NEW caller \in DOMAIN vars_of, NEW n \in Spaces, Options(caller, n),
         UNCHANGED vars_of
  PROVE  /\ DOMAIN refers' = DOMAIN vars_of /\ DOMAIN cache' = Symbols
         /\ \A t \in Symbols : cache'[t] \in {cache[t], NotCached}
         /\ CacheIsFresh'
<1>0. "none" \notin DOMAIN vars_of /\ DOMAIN refers = DOMAIN vars_of /\ DOMAIN cache = Symbols
  BY NamespacesAssumption DEF NInv, NShape
<1>1. CASE UNCHANGED <<refers, cache>>
  <2>1. \A m \in DOMAIN vars_of, t \in Symbols : namespace_var(m, t)' = namespace_var(m, t)
    BY <1>1 DEF namespace_var
  <2>2. CacheIsFresh'
    BY <1>1, <2>1, CacheStaysFresh
  <2>3. QED
    BY <1>0, <1>1, <2>2
<1>2. ASSUME NEW s \in Symbols, Referred(caller, n, s)
      PROVE  /\ DOMAIN refers' = DOMAIN vars_of /\ DOMAIN cache' = Symbols
             /\ \A t \in Symbols : cache'[t] \in {cache[t], NotCached}
             /\ CacheIsFresh'
  <2>1. \A t \in Symbols : cache'[t] = IF t = s /\ cache[t].space = caller THEN NotCached
                                       ELSE cache[t]
    BY <1>0, <1>2 DEF Referred
  <2>2. DOMAIN refers' = DOMAIN vars_of /\ DOMAIN cache' = Symbols
    BY <1>0, <1>2 DEF Referred
  <2>3. refers' = [refers EXCEPT ![caller] = Entered(@, s, Var(n, s))]
    BY <1>2 DEF Referred
  <2>4. ASSUME NEW m \in DOMAIN vars_of, NEW t \in Symbols, m # caller \/ t # s
        PROVE  namespace_var(m, t)' = namespace_var(m, t)
    <3>1. CASE m # caller
      BY <1>0, <2>3, <3>1 DEF namespace_var
    <3>2. CASE m = caller
      <4>1. refers'[m] = Entered(refers[m], s, Var(n, s))
        BY <1>0, <2>3, <3>2
      <4>2. /\ t \in DOMAIN refers'[m] <=> t \in DOMAIN refers[m]
            /\ t \in DOMAIN refers[m] => refers'[m][t] = refers[m][t]
        BY <2>4, <3>2, <4>1 DEF Entered
      <4>3. QED
        BY <4>2 DEF namespace_var
    <3>3. QED
      BY <3>1, <3>2
  <2>5. CacheIsFresh'
    <3> SUFFICES ASSUME NEW t \in Symbols, cache'[t].space # "none"
                 PROVE  cache'[t].var = namespace_var(cache[t].space, t)'
      BY DEF CacheIsFresh
    <3>1. cache'[t] = cache[t] /\ ~(t = s /\ cache[t].space = caller)
      BY <2>1 DEF NotCached
    <3>2. cache[t].space \in DOMAIN vars_of
      BY <3>1 DEF NInv, NShape
    <3>3. ASSUME NEW m, m = cache[t].space
          PROVE  namespace_var(m, t)' = namespace_var(m, t)
      BY <2>4, <3>1, <3>2, <3>3
    <3>4. cache[t].var = namespace_var(cache[t].space, t)
      BY <3>1 DEF NInv, CacheIsFresh
    <3>5. QED
      BY <3>1, <3>3, <3>4 DEF namespace_var
  <2>6. QED
    BY <2>1, <2>2, <2>5
<1>3. QED
  BY <1>1, <1>2 DEF Options

\* The last load is left, by its end or by a failure.
LEMMA LoadPopped ==
  ASSUME NInv, loads # <<>>, loads' = Front(loads),
         loading' = loading \ {Last(loads).target}, UNCHANGED vars_of
  PROVE  /\ NLoads'
         /\ loads' \in Seq(Load)
         /\ \A i \in 1 .. Len(loads') : loads'[i].caller \in DOMAIN vars_of
         /\ Last(loads).caller \in DOMAIN vars_of /\ Last(loads).target \in Spaces
<1>1. loads \in Seq(Load) /\ Len(loads) \in Nat \ {0} /\ Last(loads) = loads[Len(loads)]
  BY DEF NInv, NShape, Last
<1>2. /\ loads' \in Seq(Load) /\ Len(loads') = Len(loads) - 1
      /\ \A i \in 1 .. Len(loads) - 1 : loads'[i] = loads[i]
  <2>1. loads' = SubSeq(loads, 1, Len(loads) - 1) /\ Len(loads) - 1 \in Nat
    BY <1>1 DEF Front
  <2>2. \A i \in 1 .. Len(loads) - 1 : loads[i] \in Load
    BY <1>1
  <2>3. /\ SubSeq(loads, 1, Len(loads) - 1) \in Seq(Load)
        /\ Len(SubSeq(loads, 1, Len(loads) - 1))
             = IF 1 <= Len(loads) - 1 THEN Len(loads) - 1 - 1 + 1 ELSE 0
        /\ \A i \in 1 .. Len(loads) - 1 - 1 + 1 :
             SubSeq(loads, 1, Len(loads) - 1)[i] = loads[1 + i - 1]
    BY <2>1, <2>2, SubSeqProperties
  <2>4. ASSUME NEW i \in 1 .. Len(loads) - 1 PROVE loads'[i] = loads[i]
    <3>1. i \in 1 .. Len(loads) - 1 - 1 + 1 /\ 1 + i - 1 = i
      BY <1>1
    <3>2. QED
      BY <2>1, <2>3, <3>1
  <2>5. (IF 1 <= Len(loads) - 1 THEN Len(loads) - 1 - 1 + 1 ELSE 0) = Len(loads) - 1
    <3>1. ASSUME NEW k \in Nat \ {0}
          PROVE  (IF 1 <= k - 1 THEN k - 1 - 1 + 1 ELSE 0) = k - 1
      OBVIOUS
    <3>2. QED
      BY <1>1, <3>1
  <2>6. Len(loads') = Len(loads) - 1
    BY <2>1, <2>3, <2>5
  <2>7. QED
    BY <2>1, <2>3, <2>4, <2>6
<1>3. \A i \in 1 .. Len(loads) : loads[i] \in Load
  BY <1>1
<1>4. /\ Last(loads).caller \in DOMAIN vars_of /\ Last(loads).target \in Spaces
      /\ \A i \in 1 .. Len(loads') : loads'[i].caller \in DOMAIN vars_of
  BY <1>1, <1>2, <1>3 DEF NInv, NShape, Load
<1>5. NLoads'
  <2>1. ASSUME NEW m \in Spaces, m \in loading'
        PROVE  \E i \in 1 .. Len(loads') : loads'[i].target = m
    <3>1. PICK i \in 1 .. Len(loads) : loads[i].target = m
      BY <2>1 DEF NInv, NLoads
    <3>2. i # Len(loads)
      BY <1>1, <2>1, <3>1
    <3>3. QED
      BY <1>1, <1>2, <3>1, <3>2
  <2>2. \A i \in 1 .. Len(loads') : loads'[i].target \in loading'
    <3> SUFFICES ASSUME NEW i \in 1 .. Len(loads') PROVE loads'[i].target \in loading'
      OBVIOUS
    <3>1. i \in 1 .. Len(loads) /\ Len(loads) \in 1 .. Len(loads) /\ i # Len(loads)
          /\ loads'[i] = loads[i]
      BY <1>1, <1>2
    <3>2. loads[i].target \in loading /\ loads[i].target # loads[Len(loads)].target
      BY <3>1 DEF NInv, NLoads
    <3>3. QED
      BY <1>1, <3>1, <3>2
  <2>3. \A i, j \in 1 .. Len(loads') : loads'[i].target = loads'[j].target => i = j
    BY <1>1, <1>2 DEF NInv, NLoads
  <2>4. \A i \in 1 .. Len(loads') : loads'[i].target \in DOMAIN vars_of
    BY <1>1, <1>2 DEF NInv, NLoads
  <2>5. QED
    BY <2>1, <2>2, <2>3, <2>4 DEF NInv, NLoads
<1>6. QED
  BY <1>2, <1>4, <1>5

\* A load starts.
LEMMA LoadPushed ==
  ASSUME NInv, NEW n \in Spaces, n \notin loading, loading' = loading \cup {n},
         loads' = Append(loads, [target |-> n, caller |-> current_namespace]),
         DOMAIN vars_of' = DOMAIN vars_of \cup {n}
  PROVE  /\ NLoads'
         /\ loads' \in Seq(Load)
         /\ \A i \in 1 .. Len(loads') : loads'[i].caller \in DOMAIN vars_of'
<1> DEFINE l == [target |-> n, caller |-> current_namespace]
<1>1. loads \in Seq(Load) /\ Len(loads) \in Nat /\ l \in Load
  BY DEF NInv, NShape, Load
<1>2. l.target = n /\ l.caller = current_namespace
  OBVIOUS
<1>3. loads' = Append(loads, l)
  OBVIOUS
<1> HIDE DEF l
<1>4. /\ loads' \in Seq(Load) /\ Len(loads') = Len(loads) + 1
      /\ loads'[Len(loads) + 1] = l
      /\ \A i \in 1 .. Len(loads) : loads'[i] = loads[i]
  BY <1>1, <1>3
<1>5. \A i \in 1 .. Len(loads') : i \in 1 .. Len(loads) \/ i = Len(loads) + 1
  BY <1>1, <1>4
<1>6. \A i \in 1 .. Len(loads) : /\ loads[i].target \in loading
                                 /\ loads[i].target # n
                                 /\ loads[i].target \in DOMAIN vars_of
                                 /\ loads[i].caller \in DOMAIN vars_of
  BY DEF NInv, NLoads, NShape
<1>7. \A i \in 1 .. Len(loads') : loads'[i].caller \in DOMAIN vars_of'
  BY <1>2, <1>4, <1>5, <1>6 DEF NInv, NShape
<1>8. NLoads'
  <2>1. ASSUME NEW m \in Spaces, m \in loading'
        PROVE  \E i \in 1 .. Len(loads') : loads'[i].target = m
    <3>1. CASE m = n
      BY <1>1, <1>2, <1>4, <3>1
    <3>2. CASE m \in loading
      <4>1. PICK i \in 1 .. Len(loads) : loads[i].target = m
        BY <3>2 DEF NInv, NLoads
      <4>2. QED
        BY <1>1, <1>4, <4>1
    <3>3. QED
      BY <2>1, <3>1, <3>2
  <2>2. \A i \in 1 .. Len(loads') :
          loads'[i].target \in loading' /\ loads'[i].target \in DOMAIN vars_of'
    BY <1>2, <1>4, <1>5, <1>6
  <2>3. ASSUME NEW i \in 1 .. Len(loads'), NEW j \in 1 .. Len(loads'),
               loads'[i].target = loads'[j].target
        PROVE  i = j
    <3>1. CASE i = Len(loads) + 1
      BY <1>2, <1>4, <1>5, <1>6, <2>3, <3>1
    <3>2. CASE j = Len(loads) + 1
      BY <1>2, <1>4, <1>5, <1>6, <2>3, <3>2
    <3>3. CASE i \in 1 .. Len(loads) /\ j \in 1 .. Len(loads)
      BY <1>4, <2>3, <3>3 DEF NInv, NLoads
    <3>4. QED
      BY <1>5, <3>1, <3>2, <3>3
  <2>4. loading' \subseteq Spaces
    BY DEF NInv, NLoads
  <2>5. QED
    BY <2>1, <2>2, <2>3, <2>4 DEF NLoads
<1>9. QED
  BY <1>4, <1>7, <1>8

-----------------------------------------------------------------------------
(* The steps *)

\* A namespace is found or created, and nothing else is remembered or forgotten.
LEMMA CreatedStaysFresh ==
  ASSUME NInv, NEW n \in Spaces, Created(n), UNCHANGED cache
  PROVE  /\ CacheIsFresh'
         /\ DOMAIN vars_of' = DOMAIN vars_of \cup {n} /\ DOMAIN refers' = DOMAIN vars_of'
         /\ CoreSpace \in DOMAIN vars_of' /\ DOMAIN vars_of' \subseteq Spaces
<1>1. \A m \in DOMAIN vars_of, s \in Symbols : namespace_var(m, s)' = namespace_var(m, s)
  BY CreatedKeepsMeanings
<1>2. CacheIsFresh'
  BY <1>1, CacheStaysFresh
<1>3. QED
  BY <1>2, CreatedKeeps DEF NInv, NShape

\* in-ns, and a require of what does not exist, which creates the namespace.
LEMMA SwitchStep ==
  ASSUME NInv, NEW n \in Spaces, InNs(n) \/ RequireNotFound(n)
  PROVE  NInv'
<1>1. /\ Created(n) /\ UNCHANGED <<loaded, loading, cache, loads>>
      /\ current_namespace' \in {n, current_namespace}
  BY DEF InNs, RequireNotFound
<1>2. /\ CacheIsFresh'
      /\ DOMAIN vars_of' = DOMAIN vars_of \cup {n} /\ DOMAIN refers' = DOMAIN vars_of'
      /\ CoreSpace \in DOMAIN vars_of' /\ DOMAIN vars_of' \subseteq Spaces
  BY <1>1, CreatedStaysFresh
<1>3. NShape' /\ NLoads'
  BY <1>1, <1>2 DEF NInv, NShape, NLoads
<1>4. QED
  BY <1>2, <1>3 DEF NInv

\* A load begins.
LEMMA RequireLoadsStep ==
  ASSUME NInv, NEW n \in Spaces, NEW reload \in BOOLEAN, RequireLoads(n, reload)
  PROVE  NInv'
<1>1. /\ Created(n) /\ UNCHANGED cache /\ n \notin loading
      /\ loading' = loading \cup {n} /\ current_namespace' = n
      /\ loads' = Append(loads, [target |-> n, caller |-> current_namespace])
  BY DEF RequireLoads
<1>2. /\ CacheIsFresh'
      /\ DOMAIN vars_of' = DOMAIN vars_of \cup {n} /\ DOMAIN refers' = DOMAIN vars_of'
      /\ CoreSpace \in DOMAIN vars_of' /\ DOMAIN vars_of' \subseteq Spaces
  BY <1>1, CreatedStaysFresh
<1>3. /\ NLoads' /\ loads' \in Seq(Load)
      /\ \A i \in 1 .. Len(loads') : loads'[i].caller \in DOMAIN vars_of'
  BY <1>1, <1>2, LoadPushed
<1>4. NShape'
  BY <1>1, <1>2, <1>3 DEF NInv, NShape
<1>5. QED
  BY <1>2, <1>3, <1>4 DEF NInv

\* A require of what is loaded takes its options at once.
LEMMA RequireLoadedStep ==
  ASSUME NInv, NEW n \in Spaces, RequireLoaded(n)
  PROVE  NInv'
<1>1. /\ current_namespace \in DOMAIN vars_of /\ Options(current_namespace, n)
      /\ UNCHANGED <<vars_of, loaded, loading, current_namespace, loads>>
  BY DEF RequireLoaded, NInv, NShape
<1>2. /\ DOMAIN refers' = DOMAIN vars_of /\ DOMAIN cache' = Symbols
      /\ \A t \in Symbols : cache'[t] \in {cache[t], NotCached}
      /\ CacheIsFresh'
  BY <1>1, OptionsKeep
<1>3. NShape' /\ NLoads'
  BY <1>1, <1>2 DEF NInv, NShape, NLoads, NotCached
<1>4. QED
  BY <1>2, <1>3 DEF NInv

\* A load ends well.
LEMMA LoadEndsStep == ASSUME NInv, LoadEnds PROVE NInv'
<1> DEFINE l == Last(loads)
<1>1. /\ loads # <<>> /\ loads' = Front(loads) /\ UNCHANGED vars_of
      /\ loading' = loading \ {Last(loads).target} /\ current_namespace' = l.caller
      /\ Options(l.caller, l.target)
  BY DEF LoadEnds
<1>2. /\ NLoads' /\ loads' \in Seq(Load)
      /\ \A i \in 1 .. Len(loads') : loads'[i].caller \in DOMAIN vars_of
      /\ l.caller \in DOMAIN vars_of /\ l.target \in Spaces
  BY <1>1, LoadPopped
<1> HIDE DEF l
<1>3. /\ DOMAIN refers' = DOMAIN vars_of /\ DOMAIN cache' = Symbols
      /\ \A t \in Symbols : cache'[t] \in {cache[t], NotCached}
      /\ CacheIsFresh'
  BY <1>1, <1>2, OptionsKeep
<1>4. NShape'
  BY <1>1, <1>2, <1>3 DEF NInv, NShape, NotCached
<1>5. QED
  BY <1>2, <1>3, <1>4 DEF NInv

\* A load fails, which leaves its namespace unloaded.
LEMMA LoadFailsStep == ASSUME NInv, LoadFails PROVE NInv'
<1>1. /\ loads # <<>> /\ loads' = Front(loads)
      /\ UNCHANGED <<vars_of, refers, loaded, cache>>
      /\ loading' = loading \ {Last(loads).target}
      /\ current_namespace' = Last(loads).caller
  BY DEF LoadFails
<1>2. /\ NLoads' /\ loads' \in Seq(Load)
      /\ \A i \in 1 .. Len(loads') : loads'[i].caller \in DOMAIN vars_of
      /\ Last(loads).caller \in DOMAIN vars_of
  BY <1>1, LoadPopped
<1>3. CacheIsFresh'
  BY <1>1, CacheStaysFresh DEF namespace_var
<1>4. NShape'
  BY <1>1, <1>2 DEF NInv, NShape
<1>5. QED
  BY <1>2, <1>3, <1>4 DEF NInv

\* At the start each namespace has what it was made with.
LEMMA NamespacesInitSound == NamespacesInit => NInv
<1> SUFFICES ASSUME NamespacesInit PROVE NInv
  OBVIOUS
<1>1. /\ DOMAIN vars_of = {CoreSpace, UserSpace} /\ DOMAIN refers = {CoreSpace, UserSpace}
      /\ \A s \in CoreVars : s \in DOMAIN vars_of[CoreSpace]
      /\ DOMAIN cache = Symbols
  BY DEF NamespacesInit
<1>2. \A s \in Symbols : cache[s] = IF s \in CoreVars
                                    THEN [space |-> CoreSpace, var |-> Var(CoreSpace, s)]
                                    ELSE NotCached
  BY DEF NamespacesInit
<1>3. CacheIsFresh
  BY <1>1, <1>2 DEF CacheIsFresh, namespace_var, NotCached
<1>4. CoreSpace # "none" /\ {CoreSpace, UserSpace} \subseteq Spaces
  BY NamespacesAssumption
<1>5. loads = <<>> /\ loading = {} /\ current_namespace = UserSpace
  BY DEF NamespacesInit
<1>6. NLoads
  BY <1>5 DEF NLoads
<1>7. NShape
  BY <1>1, <1>2, <1>4, <1>5 DEF NShape, NotCached
<1>8. QED
  BY <1>3, <1>6, <1>7 DEF NInv

\* Every step of a program over its namespaces.
LEMMA NamespacesNextSound == NInv /\ [NamespacesNext]_namespaceVars => NInv'
<1> SUFFICES ASSUME NInv, [NamespacesNext]_namespaceVars PROVE NInv'
  OBVIOUS
<1>1. CASE NamespacesNext
  BY <1>1, SwitchStep, ResolveStep, RequireLoadedStep, RequireLoadsStep, DefineStep,
     LoadEndsStep, LoadFailsStep DEF NamespacesNext
<1>2. CASE UNCHANGED namespaceVars
  BY <1>2 DEF namespaceVars, NInv, NShape, NLoads, CacheIsFresh, namespace_var
<1>3. QED
  BY <1>1, <1>2

-----------------------------------------------------------------------------
(* What becomes known *)

\* v is what s means in n from this step on.
NewMeaning(n, s, v) ==
  /\ n \in DOMAIN vars_of' /\ v[1] # n /\ v \in Spaces \X Symbols
  /\ namespace_var(n, s)' = v
  /\ n \in DOMAIN vars_of => namespace_var(n, s) # v

\* What a new namespace means by a symbol is a public var of the core.
LEMMA CreatedPublic ==
  ASSUME NInv, NEW m \in Spaces, Created(m),
         NEW n, NEW s \in Symbols, NEW v, NewMeaning(n, s, v)
  PROVE  ~vars_of'[v[1]][v[2]]
<1>1. n = m /\ m \notin DOMAIN vars_of
  <2>1. n \notin DOMAIN vars_of
    <3> SUFFICES ASSUME n \in DOMAIN vars_of PROVE FALSE
      OBVIOUS
    <3>1. namespace_var(n, s)' = namespace_var(n, s)
      BY CreatedKeepsMeanings
    <3>2. QED
      BY <3>1 DEF NewMeaning
  <2>2. n \in DOMAIN vars_of \cup {m}
    BY CreatedKeeps DEF NewMeaning
  <2>3. QED
    BY <2>1, <2>2
<1>2. /\ DOMAIN vars_of'[n] = {}
      /\ \A t \in DOMAIN refers'[n] :
           /\ t \in DOMAIN vars_of[CoreSpace] /\ ~vars_of[CoreSpace][t]
           /\ refers'[n][t] = Var(CoreSpace, t)
      /\ vars_of'[CoreSpace] = vars_of[CoreSpace]
  BY <1>1, CreatedKeeps DEF NInv, NShape
<1>3. v # NoVar
  BY DEF NewMeaning, NoVar
<1>4. s \in DOMAIN refers'[n] /\ v = refers'[n][s]
  BY <1>2, <1>3 DEF NewMeaning, namespace_var, NoVar
<1>5. v = Var(CoreSpace, s) /\ ~vars_of'[CoreSpace][s]
  BY <1>2, <1>4
<1>6. QED
  BY <1>5 DEF Var

\* What :refer adds to a namespace is a public var.
LEMMA OptionsPublic ==
  ASSUME NInv, NEW caller \in DOMAIN vars_of, NEW m \in Spaces, Options(caller, m),
         UNCHANGED vars_of, NEW n, NEW s \in Symbols, NEW v, NewMeaning(n, s, v)
  PROVE  ~vars_of'[v[1]][v[2]]
<1>1. ~UNCHANGED <<refers, cache>>
  BY DEF NewMeaning, namespace_var
<1>2. PICK t \in Symbols : Referable(m, t) /\ Referred(caller, m, t)
  BY <1>1 DEF Options
<1>3. refers' = [refers EXCEPT ![caller] = Entered(@, t, Var(m, t))]
  BY <1>2 DEF Referred
<1>4. n \in DOMAIN refers /\ caller \in DOMAIN refers
  BY DEF NewMeaning, NInv, NShape
<1>5. n = caller
  BY <1>3, <1>4 DEF NewMeaning, namespace_var, NInv, NShape
<1>6. refers'[n] = Entered(refers[n], t, Var(m, t))
  BY <1>3, <1>4, <1>5
<1>7. s = t /\ v = Var(m, t)
  BY <1>6 DEF NewMeaning, namespace_var, Entered
<1>8. ~vars_of[m][t]
  BY <1>2 DEF Referable, Private, Var
<1>9. QED
  BY <1>7, <1>8 DEF Var

\* A definition gives no namespace a meaning of another one.
LEMMA DefinePublic ==
  ASSUME NInv, NEW t \in Symbols, NEW private \in BOOLEAN, Define(t, private),
         NEW n, NEW s \in Symbols, NEW v, NewMeaning(n, s, v)
  PROVE  FALSE
<1>1. n \in DOMAIN vars_of /\ namespace_var(n, s)' # namespace_var(n, s)
  BY DefineMeans DEF NewMeaning
<1>2. namespace_var(n, s)' = Var(n, s)
  BY <1>1, DefineMeans
<1>3. QED
  BY <1>2 DEF NewMeaning, Var

\* So whatever namespace comes to mean a var of another one, it is public.
LEMMA NewMeaningsPublic ==
  ASSUME NInv, [NamespacesNext]_namespaceVars,
         NEW n, NEW s \in Symbols, NEW v, NewMeaning(n, s, v)
  PROVE  ~vars_of'[v[1]][v[2]]
<1>1. ~UNCHANGED <<vars_of, refers>>
  BY DEF NewMeaning, namespace_var
<1>2. CASE \E m \in Spaces : InNs(m) \/ RequireNotFound(m)
  BY <1>2, CreatedPublic DEF InNs, RequireNotFound
<1>3. CASE \E m \in Spaces, reload \in BOOLEAN : RequireLoads(m, reload)
  BY <1>3, CreatedPublic DEF RequireLoads
<1>4. CASE \E m \in Spaces : RequireLoaded(m)
  <2>1. current_namespace \in DOMAIN vars_of
    BY DEF NInv, NShape
  <2>2. QED
    BY <1>4, <2>1, OptionsPublic DEF RequireLoaded
<1>5. CASE \E t \in Symbols, private \in BOOLEAN : Define(t, private)
  BY <1>5, DefinePublic
<1>6. CASE LoadEnds
  <2>1. Last(loads).caller \in DOMAIN vars_of /\ Last(loads).target \in Spaces
    BY <1>6, LoadPopped DEF LoadEnds
  <2>2. QED
    BY <1>6, <2>1, OptionsPublic DEF LoadEnds
<1>7. QED
  BY <1>1, <1>2, <1>3, <1>4, <1>5, <1>6
     DEF NamespacesNext, Resolve, LoadFails, namespaceVars

-----------------------------------------------------------------------------
(* The theorems *)

\* What a symbol remembers is what would be found without (define_var, resolve_var,
\* require_one).
THEOREM CacheNeverLies == NamespacesSpec => []CacheIsFresh
<1>1. NInv => CacheIsFresh
  BY DEF NInv
<1>2. QED
  BY NamespacesInitSound, NamespacesNextSound, <1>1, PTL DEF NamespacesSpec

\* The namespaces marked as loading are those whose load is under way, and none is loaded
\* inside its own load, however loads end (require_one).
THEOREM LoadsAreSound == NamespacesSpec => []LoadsSound
<1>1. NInv => LoadsSound
  <2> SUFFICES ASSUME NInv PROVE LoadsSound
    OBVIOUS
  <2>1. DOMAIN loads = 1 .. Len(loads)
    BY DEF NInv, NShape
  <2>2. loading = {loads[i].target : i \in DOMAIN loads}
    BY <2>1 DEF NInv, NLoads
  <2>3. IsInjective([i \in DOMAIN loads |-> loads[i].target])
    BY <2>1 DEF NInv, NLoads, IsInjective
  <2>4. QED
    BY <2>2, <2>3 DEF LoadsSound
<1>2. QED
  BY NamespacesInitSound, NamespacesNextSound, <1>1, PTL DEF NamespacesSpec

\* No step makes a private var known to another namespace than its own (namespace_find,
\* define_var, require_one).
THEOREM PrivateStaysPrivate == NamespacesSpec => PrivateStaysOut
<1> DEFINE Out == \A known \in KnownAbroad' \ KnownAbroad :
                    ~vars_of'[known[2][1]][known[2][2]]
<1>1. NInv /\ NInv' /\ [NamespacesNext]_namespaceVars => Out
  <2> SUFFICES ASSUME NInv, NInv', [NamespacesNext]_namespaceVars,
                      NEW known \in KnownAbroad' \ KnownAbroad
               PROVE  ~vars_of'[known[2][1]][known[2][2]]
    OBVIOUS
  <2> DEFINE n == known[1]
             v == known[2]
  <2>1. PICK s \in Symbols : Resolved(n, s)' = v
    BY DEF KnownAbroad
  <2>2. n \in DOMAIN vars_of' /\ v[1] # n /\ v \in Spaces \X Symbols
    BY DEF KnownAbroad, Exists
  <2>3. namespace_var(n, s)' = v
    <3>1. n # "none"
      BY <2>2, NamespacesAssumption DEF NInv, NShape
    <3>2. cache'[s].space = n => cache'[s].var = namespace_var(n, s)'
      BY <3>1 DEF NInv, CacheIsFresh, namespace_var
    <3>3. QED
      BY <2>1, <3>2 DEF Resolved
  <2>4. n \in DOMAIN vars_of => namespace_var(n, s) # v
    BY <2>2, ResolvedIsMeant DEF KnownAbroad, Exists
  <2>5. NewMeaning(n, s, v)
    BY <2>2, <2>3, <2>4 DEF NewMeaning
  <2>6. QED
    BY <2>5, NewMeaningsPublic
<1>2. QED
  BY NamespacesInitSound, NamespacesNextSound, <1>1, PTL DEF NamespacesSpec, PrivateStaysOut

-----------------------------------------------------------------------------
(***************************************************************************)
(* Code never runs with an unwinding noted, and the break loop knows that  *)
(* it runs, however deep forms nest and whichever way they are left.  CInv *)
(* is inductive: it adds that what cleanups put off is sound as well, and  *)
(* that there is one break loop at most.                                   *)
(***************************************************************************)

UnwindOK(u) == (~u.active => u = Running) /\ (u.active => u.kind # "NONE")

\* A form under way has a name, and a cleanup one that puts something off.
FormOK(f) ==
  /\ "form" \in DOMAIN f
  /\ f.form = "unwind-protect" => "saved" \in DOMAIN f /\ UnwindOK(f.saved)

CInv ==
  /\ \E F : stack \in Seq(F)
  /\ \A i \in 1 .. Len(stack) : FormOK(stack[i])
  /\ UnwindOK(unwind)
  /\ in_interrupt_hook <=> \E i \in 1 .. Len(stack) : stack[i].form = "hook"
  /\ \A i, j \in 1 .. Len(stack) : stack[i].form = "hook" /\ stack[j].form = "hook" => i = j

-----------------------------------------------------------------------------
(* What can happen to the stack *)

\* The form on top, when forms are under way.
LEMMA Tops ==
  ASSUME CInv, stack # <<>>
  PROVE  Len(stack) \in 1 .. Len(stack) /\ Top = stack[Len(stack)] /\ FormOK(Top)
<1>1. Len(stack) \in Nat /\ Len(stack) # 0
  BY DEF CInv
<1>2. Top = stack[Len(stack)]
  BY DEF Top, Last
<1>3. QED
  BY <1>1, <1>2 DEF CInv

\* A form is entered, and those below stay.
LEMMA Pushed ==
  ASSUME CInv, NEW f, Push(f)
  PROVE  /\ \E F : stack' \in Seq(F)
         /\ Len(stack') = Len(stack) + 1 /\ Len(stack) \in Nat
         /\ stack'[Len(stack) + 1] = f
         /\ \A i \in 1 .. Len(stack) : stack'[i] = stack[i]
<1>1. PICK F : stack \in Seq(F)
  BY DEF CInv
<1>2. stack \in Seq(F \cup {f})
  BY <1>1, SeqMonotonic
<1>3. stack' = Append(stack, f)
  BY DEF Push
<1>4. QED
  BY <1>2, <1>3, AppendProperties

\* Which keeps the invariant unless it is the hook, for which more is needed.
LEMMA PushKeeps ==
  ASSUME CInv, NEW f, Push(f), FormOK(f), f.form # "hook",
         UNCHANGED in_interrupt_hook, UnwindOK(unwind')
  PROVE  CInv'
<1>1. /\ \E F : stack' \in Seq(F)
      /\ Len(stack') = Len(stack) + 1 /\ Len(stack) \in Nat
      /\ stack'[Len(stack) + 1] = f
      /\ \A i \in 1 .. Len(stack) : stack'[i] = stack[i]
  BY Pushed
<1>2. \A i \in 1 .. Len(stack') : i \in 1 .. Len(stack) \/ i = Len(stack) + 1
  BY <1>1
<1>3. \A i \in 1 .. Len(stack) : i \in 1 .. Len(stack')
  BY <1>1
<1>4. \A i \in 1 .. Len(stack') : FormOK(stack'[i])
  BY <1>1, <1>2 DEF CInv
<1>5. \A i \in 1 .. Len(stack') : stack'[i].form = "hook" =>
        i \in 1 .. Len(stack) /\ stack[i].form = "hook"
  BY <1>1, <1>2
<1>6. in_interrupt_hook' <=> \E i \in 1 .. Len(stack') : stack'[i].form = "hook"
  BY <1>1, <1>3, <1>5 DEF CInv
<1>7. \A i, j \in 1 .. Len(stack') :
        stack'[i].form = "hook" /\ stack'[j].form = "hook" => i = j
  BY <1>5 DEF CInv
<1>8. QED
  BY <1>1, <1>4, <1>6, <1>7 DEF CInv, UnwindOK, FormOK, Running

\* A form is left, and those below stay.
LEMMA Popped ==
  ASSUME CInv, stack # <<>>, Pop
  PROVE  /\ \E F : stack' \in Seq(F)
         /\ Len(stack') = Len(stack) - 1 /\ Len(stack) \in Nat \ {0}
         /\ \A i \in 1 .. Len(stack) - 1 : stack'[i] = stack[i]
<1>1. PICK F : stack \in Seq(F)
  BY DEF CInv
<1>2. Len(stack) \in Nat \ {0} /\ Len(stack) - 1 \in Nat
  BY <1>1
<1>3. stack' = SubSeq(stack, 1, Len(stack) - 1)
  BY DEF Pop, Front
<1>4. \A i \in 1 .. Len(stack) - 1 : stack[i] \in F
  BY <1>1, <1>2
<1>5. /\ SubSeq(stack, 1, Len(stack) - 1) \in Seq(F)
      /\ Len(SubSeq(stack, 1, Len(stack) - 1))
           = IF 1 <= Len(stack) - 1 THEN Len(stack) - 1 - 1 + 1 ELSE 0
      /\ \A i \in 1 .. Len(stack) - 1 - 1 + 1 :
           SubSeq(stack, 1, Len(stack) - 1)[i] = stack[1 + i - 1]
  BY <1>2, <1>4, SubSeqProperties
<1>6. ASSUME NEW k \in Nat \ {0}
      PROVE  /\ (IF 1 <= k - 1 THEN k - 1 - 1 + 1 ELSE 0) = k - 1
             /\ k - 1 - 1 + 1 = k - 1
  OBVIOUS
<1>7. \A i \in 1 .. Len(stack) - 1 : 1 + i - 1 = i
  BY <1>2
<1>8. Len(stack') = Len(stack) - 1
  BY <1>2, <1>3, <1>5, <1>6
<1>9. \A i \in 1 .. Len(stack) - 1 : stack'[i] = stack[i]
  BY <1>2, <1>3, <1>5, <1>6, <1>7
<1>10. QED
  BY <1>2, <1>3, <1>5, <1>8, <1>9

\* Which keeps the invariant when the hook's mark goes with the hook.
LEMMA PopKeeps ==
  ASSUME CInv, stack # <<>>, Pop, UnwindOK(unwind'),
         \/ Top.form # "hook" /\ UNCHANGED in_interrupt_hook
         \/ Top.form = "hook" /\ in_interrupt_hook' = FALSE
  PROVE  CInv'
<1>1. /\ \E F : stack' \in Seq(F)
      /\ Len(stack') = Len(stack) - 1 /\ Len(stack) \in Nat \ {0}
      /\ \A i \in 1 .. Len(stack) - 1 : stack'[i] = stack[i]
  BY Popped
<1>2. Len(stack) \in 1 .. Len(stack) /\ Top = stack[Len(stack)]
  BY Tops
<1>3. \A i \in 1 .. Len(stack') :
        i \in 1 .. Len(stack) /\ i # Len(stack) /\ stack'[i] = stack[i]
  BY <1>1
<1>4. \A i \in 1 .. Len(stack) : i # Len(stack) => i \in 1 .. Len(stack')
  BY <1>1
<1>5. \A i \in 1 .. Len(stack') : FormOK(stack'[i])
  BY <1>3 DEF CInv
<1>6. \A i, j \in 1 .. Len(stack') :
        stack'[i].form = "hook" /\ stack'[j].form = "hook" => i = j
  BY <1>3 DEF CInv
<1>7. in_interrupt_hook' <=> \E i \in 1 .. Len(stack') : stack'[i].form = "hook"
  <2>1. CASE Top.form # "hook" /\ UNCHANGED in_interrupt_hook
    <3>1. \A i \in 1 .. Len(stack) : stack[i].form = "hook" =>
            i \in 1 .. Len(stack') /\ stack'[i].form = "hook"
      BY <1>2, <1>3, <1>4, <2>1
    <3>2. QED
      BY <1>3, <2>1, <3>1 DEF CInv
  <2>2. CASE Top.form = "hook" /\ in_interrupt_hook' = FALSE
    <3>1. \A i \in 1 .. Len(stack') : stack'[i].form # "hook"
      BY <1>2, <1>3, <2>2 DEF CInv
    <3>2. QED
      BY <2>2, <3>1
  <2>3. QED
    BY <2>1, <2>2
<1>8. QED
  BY <1>1, <1>5, <1>6, <1>7 DEF CInv, UnwindOK, FormOK, Running

\* The form on top goes on.
LEMMA TopKeeps ==
  ASSUME CInv, stack # <<>>, NEW f, stack' = [stack EXCEPT ![Len(stack)] = f],
         FormOK(f), f.form = Top.form, UNCHANGED in_interrupt_hook, UnwindOK(unwind')
  PROVE  CInv'
<1>1. PICK F : stack \in Seq(F)
  BY DEF CInv
<1>2. Len(stack) \in 1 .. Len(stack) /\ Top = stack[Len(stack)]
  BY Tops
<1>3. stack \in Seq(F \cup {f})
  BY <1>1, SeqMonotonic
<1>4. /\ stack' \in Seq(F \cup {f}) /\ Len(stack') = Len(stack)
      /\ \A i \in 1 .. Len(stack) : stack'[i] = IF i = Len(stack) THEN f ELSE stack[i]
  BY <1>2, <1>3
<1>5. \A i \in 1 .. Len(stack) : FormOK(stack'[i]) /\ stack'[i].form = stack[i].form
  BY <1>2, <1>4 DEF CInv
<1>6. \E G : stack' \in Seq(G)
  BY <1>4
<1>7. in_interrupt_hook' <=> \E i \in 1 .. Len(stack') : stack'[i].form = "hook"
  BY <1>4, <1>5 DEF CInv
<1>8. \A i, j \in 1 .. Len(stack') :
        stack'[i].form = "hook" /\ stack'[j].form = "hook" => i = j
  BY <1>4, <1>5 DEF CInv
<1>9. QED
  BY <1>4, <1>5, <1>6, <1>7, <1>8 DEF CInv, UnwindOK, FormOK, Running

\* Noting an unwinding, or dropping one, leaves the stack alone.
LEMMA StackKept ==
  ASSUME CInv, UNCHANGED <<stack, in_interrupt_hook>>, UnwindOK(unwind')
  PROVE  CInv'
  BY DEF CInv, UnwindOK, FormOK, Running

-----------------------------------------------------------------------------
(* The steps, form by form *)

\* The unwindings that are noted are ones that can be taken up again.
LEMMA UnwindsOK ==
  /\ UnwindOK(Running)
  /\ \A kind, id : kind # "NONE" => UnwindOK(Unwinding(kind, id))
  BY DEF UnwindOK, Running, Unwinding

\* try, and how it is left.
LEMMA TryStep ==
  ASSUME CInv, Try \/ TryCatches \/ TryNoMatch \/ TryReturns \/ TryUnwinds
  PROVE  CInv'
<1>1. UnwindOK(unwind)
  BY DEF CInv
<1>2. CASE Try
  <2> DEFINE f == [form |-> "try", at |-> "body"]
  <2>1. Push(f) /\ UNCHANGED <<unwind, in_interrupt_hook>>
    BY <1>2 DEF Try
  <2>2. FormOK(f) /\ f.form # "hook"
    BY DEF FormOK
  <2> HIDE DEF f
  <2>3. QED
    BY <1>1, <2>1, <2>2, PushKeeps
<1>3. CASE TryCatches
  <2> DEFINE f == [Top EXCEPT !.at = "catching"]
  <2>1. stack # <<>> /\ Top.form = "try" /\ unwind' = Running /\ UNCHANGED in_interrupt_hook
    BY <1>3 DEF TryCatches, TopIs
  <2>2. FormOK(Top) /\ Top = stack[Len(stack)]
    BY <2>1, Tops
  <2>3. stack' = [stack EXCEPT ![Len(stack)] = f]
    BY <1>3, <2>2 DEF TryCatches, TopGoesTo
  <2>4. FormOK(f) /\ f.form = Top.form
    BY <2>1, <2>2 DEF FormOK
  <2> HIDE DEF f
  <2>5. QED
    BY <2>1, <2>3, <2>4, UnwindsOK, TopKeeps
<1>4. CASE TryNoMatch \/ TryReturns \/ TryUnwinds
  <2>1. stack # <<>> /\ Pop /\ Top.form = "try" /\ UNCHANGED in_interrupt_hook
    BY <1>4 DEF TryNoMatch, TryReturns, TryUnwinds, TopIs
  <2>2. unwind' \in {unwind, Unwinding("CONDITION", NoId)}
    BY <1>4 DEF TryNoMatch, TryReturns, TryUnwinds
  <2>3. QED
    BY <1>1, <2>1, <2>2, UnwindsOK, PopKeeps
<1>5. QED
  BY <1>2, <1>3, <1>4

\* handler-bind and with-params.
LEMMA BindStep ==
  ASSUME CInv, \/ HandlerBind \/ InstallHandler \/ HandlerBindEnds
               \/ WithParams \/ InstallParam \/ WithParamsEnds \/ RunBody
  PROVE  CInv'
<1>1. UnwindOK(unwind') /\ UNCHANGED <<unwind, in_interrupt_hook>>
  BY DEF CInv, HandlerBind, InstallHandler, HandlerBindEnds, WithParams, InstallParam,
         WithParamsEnds, RunBody
<1>2. ASSUME NEW form \in {"handler-bind", "with-params"}, NEW old,
             Push([form |-> form, at |-> "binding", bound |-> 0, old |-> old])
      PROVE  CInv'
  <2> DEFINE f == [form |-> form, at |-> "binding", bound |-> 0, old |-> old]
  <2>1. FormOK(f) /\ f.form # "hook" /\ Push(f)
    BY <1>2 DEF FormOK
  <2> HIDE DEF f
  <2>2. QED
    BY <1>1, <2>1, PushKeeps
<1>3. CASE HandlerBind \/ WithParams
  BY <1>2, <1>3 DEF HandlerBind, WithParams
<1>4. CASE InstallHandler \/ InstallParam \/ RunBody
  <2>1. stack # <<>> /\ Top.form \in {"handler-bind", "with-params"}
    BY <1>4 DEF InstallHandler, InstallParam, RunBody, TopIs
  <2>2. FormOK(Top) /\ Top = stack[Len(stack)]
    BY <2>1, Tops
  <2>3. ASSUME NEW f, f = [Top EXCEPT !.bound = @ + 1] \/ f = [Top EXCEPT !.at = "body"]
        PROVE  FormOK(f) /\ f.form = Top.form
    BY <2>1, <2>2, <2>3 DEF FormOK
  <2>4. \/ stack' = [stack EXCEPT ![Len(stack)] = [Top EXCEPT !.bound = @ + 1]]
        \/ stack' = [stack EXCEPT ![Len(stack)] = [Top EXCEPT !.at = "body"]]
    BY <1>4, <2>2 DEF InstallHandler, InstallParam, RunBody, Bound, TopGoesTo
  <2>5. QED
    BY <1>1, <2>1, <2>3, <2>4, TopKeeps
<1>5. CASE HandlerBindEnds \/ WithParamsEnds
  <2>1. stack # <<>> /\ Pop /\ Top.form # "hook"
    BY <1>5 DEF HandlerBindEnds, WithParamsEnds
  <2>2. QED
    BY <1>1, <2>1, PopKeeps
<1>6. QED
  BY <1>3, <1>4, <1>5

\* signal, error and string->number, and their walk over the handlers.
LEMMA SignalStep ==
  ASSUME CInv, \/ \E by \in Walks : Signal(by)
               \/ Raise \/ Matches \/ NextHandler \/ AllDecline \/ SignalUnwinds \/ StringNumberClears
  PROVE  CInv'
<1>1. UnwindOK(unwind) /\ UNCHANGED in_interrupt_hook
  BY DEF CInv, Signal, Raise, Matches, NextHandler, AllDecline, SignalUnwinds, StringNumberClears
<1>2. unwind' \in {unwind, Unwinding("CONDITION", NoId), Running}
  BY DEF Signal, Raise, Matches, NextHandler, AllDecline, SignalUnwinds, StringNumberClears
<1>3. UnwindOK(unwind')
  BY <1>1, <1>2, UnwindsOK
<1>4. ASSUME NEW by \in Walks, Signal(by) PROVE CInv'
  <2> DEFINE f == [form |-> "signal", at |-> "predicate", by |-> by, nth |-> 1,
                   saved |-> handlers]
  <2>1. FormOK(f) /\ f.form # "hook"
    BY DEF FormOK
  <2>2. Push(f)
    BY <1>4 DEF Signal
  <2> HIDE DEF f
  <2>3. QED
    BY <1>1, <1>3, <2>1, <2>2, PushKeeps
<1>5. CASE Raise
  BY <1>1, <1>3, <1>5, StackKept DEF Raise
<1>6. CASE Matches \/ NextHandler
  <2>1. stack # <<>> /\ Top.form = "signal"
    BY <1>6 DEF Matches, NextHandler, TopIs
  <2>2. FormOK(Top) /\ Top = stack[Len(stack)] /\ Len(stack) \in DOMAIN stack
    BY <2>1, Tops DEF CInv
  <2>3. ASSUME NEW f, \/ f = [Top EXCEPT !.at = "handler"]
                      \/ f = [Top EXCEPT !.nth = @ + 1, !.at = "predicate"]
        PROVE  FormOK(f) /\ f.form = Top.form
    BY <2>1, <2>2, <2>3 DEF FormOK
  <2>4. \/ stack' = [stack EXCEPT ![Len(stack)] = [Top EXCEPT !.at = "handler"]]
        \/ stack' = [stack EXCEPT ![Len(stack)] = [Top EXCEPT !.nth = @ + 1, !.at = "predicate"]]
    BY <1>6, <2>2 DEF Matches, NextHandler, TopGoesTo
  <2>5. QED
    BY <1>1, <1>3, <2>1, <2>3, <2>4, TopKeeps
<1>7. CASE AllDecline \/ SignalUnwinds \/ StringNumberClears
  <2>1. stack # <<>> /\ Pop /\ Top.form # "hook"
    BY <1>7 DEF AllDecline, SignalUnwinds, StringNumberClears
  <2>2. QED
    BY <1>1, <1>3, <2>1, PopKeeps
<1>8. QED
  BY <1>4, <1>5, <1>6, <1>7

\* restart-case, and invoking a restart.
LEMMA RestartStep ==
  ASSUME CInv, RestartCase \/ RestartLands \/ RestartCaseEnds \/ \E id \in Ids : InvokeRestart(id)
  PROVE  CInv'
<1>1. UnwindOK(unwind) /\ UNCHANGED in_interrupt_hook
  BY DEF CInv, RestartCase, RestartLands, RestartCaseEnds, InvokeRestart
<1>2. CASE RestartCase
  <2> DEFINE f == [form |-> "restart-case", at |-> "expr", id |-> FreshId, prev |-> restarts]
  <2>1. FormOK(f) /\ f.form # "hook"
    BY DEF FormOK
  <2>2. Push(f) /\ unwind' = unwind
    BY <1>2 DEF RestartCase
  <2> HIDE DEF f
  <2>3. QED
    BY <1>1, <2>1, <2>2, PushKeeps
<1>3. CASE RestartLands
  <2> DEFINE f == [Top EXCEPT !.at = "clause"]
  <2>1. stack # <<>> /\ Top.form = "restart-case" /\ unwind' = Running
    BY <1>3 DEF RestartLands
  <2>2. FormOK(Top) /\ Top = stack[Len(stack)]
    BY <2>1, Tops
  <2>3. stack' = [stack EXCEPT ![Len(stack)] = f]
    BY <1>3, <2>2 DEF RestartLands, TopGoesTo
  <2>4. FormOK(f) /\ f.form = Top.form
    BY <2>1, <2>2 DEF FormOK
  <2> HIDE DEF f
  <2>5. QED
    BY <1>1, <2>1, <2>3, <2>4, UnwindsOK, TopKeeps
<1>4. CASE RestartCaseEnds
  <2>1. stack # <<>> /\ Pop /\ Top.form # "hook" /\ unwind' = unwind
    BY <1>4 DEF RestartCaseEnds
  <2>2. QED
    BY <1>1, <2>1, PopKeeps
<1>5. ASSUME NEW id \in Ids, InvokeRestart(id) PROVE CInv'
  BY <1>1, <1>5, UnwindsOK, StackKept DEF InvokeRestart
<1>6. QED
  BY <1>2, <1>3, <1>4, <1>5

\* unwind-protect and its cleanup.
LEMMA ProtectStep ==
  ASSUME CInv, UnwindProtect \/ RunCleanup \/ CleanupReturns \/ CleanupUnwinds
  PROVE  CInv'
<1>1. UnwindOK(unwind) /\ UNCHANGED in_interrupt_hook
  BY DEF CInv, UnwindProtect, RunCleanup, CleanupReturns, CleanupUnwinds
<1>2. CASE UnwindProtect
  <2> DEFINE f == [form |-> "unwind-protect", at |-> "expr", saved |-> Running]
  <2>1. FormOK(f) /\ f.form # "hook"
    BY UnwindsOK DEF FormOK
  <2>2. Push(f) /\ unwind' = unwind
    BY <1>2 DEF UnwindProtect
  <2> HIDE DEF f
  <2>3. QED
    BY <1>1, <2>1, <2>2, PushKeeps
<1>3. CASE RunCleanup
  <2> DEFINE f == [Top EXCEPT !.at = "cleanup", !.saved = unwind]
  <2>1. stack # <<>> /\ Top.form = "unwind-protect" /\ unwind' = Running
    BY <1>3 DEF RunCleanup, TopIs
  <2>2. FormOK(Top) /\ Top = stack[Len(stack)] /\ Len(stack) \in DOMAIN stack
    BY <2>1, Tops DEF CInv
  <2>3. stack' = [stack EXCEPT ![Len(stack)] = f]
    BY <1>3, <2>2 DEF RunCleanup
  <2>4. FormOK(f) /\ f.form = Top.form
    BY <1>1, <2>1, <2>2 DEF FormOK
  <2> HIDE DEF f
  <2>5. QED
    BY <1>1, <2>1, <2>3, <2>4, UnwindsOK, TopKeeps
<1>4. CASE CleanupReturns \/ CleanupUnwinds
  <2>1. stack # <<>> /\ Pop /\ Top.form = "unwind-protect" /\ unwind' \in {unwind, Top.saved}
    BY <1>4 DEF CleanupReturns, CleanupUnwinds, TopIs
  <2>2. UnwindOK(Top.saved)
    BY <2>1, Tops DEF FormOK
  <2>3. QED
    BY <1>1, <2>1, <2>2, PopKeeps
<1>5. QED
  BY <1>2, <1>3, <1>4

\* The break loop starts only where there is none.
LEMMA PollBreaksStep == ASSUME CInv, PollBreaks PROVE CInv'
<1> DEFINE f == [form |-> "hook", at |-> "hook", continue |-> FreshId, abort |-> FreshId2,
                 prev |-> restarts]
<1>1. /\ ~in_interrupt_hook /\ in_interrupt_hook' = TRUE /\ unwind' = unwind
      /\ Push(f)
  BY DEF PollBreaks
<1>2. FormOK(f) /\ f.form = "hook"
  BY DEF FormOK
<1> HIDE DEF f
<1>3. /\ \E F : stack' \in Seq(F)
      /\ Len(stack') = Len(stack) + 1 /\ Len(stack) \in Nat
      /\ stack'[Len(stack) + 1] = f
      /\ \A i \in 1 .. Len(stack) : stack'[i] = stack[i]
  BY <1>1, Pushed
<1>4. \A i \in 1 .. Len(stack) : stack[i].form # "hook"
  BY <1>1 DEF CInv
<1>5. \A i \in 1 .. Len(stack') : i \in 1 .. Len(stack) \/ i = Len(stack) + 1
  BY <1>3
<1>6. Len(stack) + 1 \in 1 .. Len(stack')
  BY <1>3
<1>7. \A i \in 1 .. Len(stack') : FormOK(stack'[i])
  BY <1>2, <1>3, <1>5 DEF CInv
<1>8. in_interrupt_hook' <=> \E i \in 1 .. Len(stack') : stack'[i].form = "hook"
  BY <1>1, <1>2, <1>3, <1>6
<1>9. \A i, j \in 1 .. Len(stack') :
        stack'[i].form = "hook" /\ stack'[j].form = "hook" => i = j
  BY <1>3, <1>4, <1>5
<1>10. QED
  BY <1>1, <1>3, <1>7, <1>8, <1>9 DEF CInv, UnwindOK, FormOK, Running

\* An interrupt and the host's break loop.
LEMMA InterruptStep ==
  ASSUME CInv, \/ Quit \/ Interrupt \/ PollUnwinds \/ PollBreaks \/ HookShows
               \/ \E continues \in BOOLEAN : HookEnds(continues)
  PROVE  CInv'
<1>1. UnwindOK(unwind)
  BY DEF CInv
<1>2. CASE Quit \/ PollUnwinds
  BY <1>2, UnwindsOK, StackKept DEF Quit, PollUnwinds
<1>3. CASE Interrupt
  BY <1>1, <1>3, StackKept DEF Interrupt
<1>4. CASE HookShows
  BY <1>4, UnwindsOK, StackKept DEF HookShows
<1>5. ASSUME NEW continues \in BOOLEAN, HookEnds(continues) PROVE CInv'
  <2>1. stack # <<>> /\ Top.form = "hook" /\ Pop /\ in_interrupt_hook' = FALSE
    BY <1>5 DEF HookEnds, TopIs
  <2>2. unwind' \in {unwind, Running, Unwinding("QUIT", NoId)}
    BY <1>5 DEF HookEnds
  <2>3. QED
    BY <1>1, <2>1, <2>2, UnwindsOK, PopKeeps
<1>6. QED
  BY <1>2, <1>3, <1>4, <1>5, PollBreaksStep

\* At the start no form is under way.
LEMMA ConditionsInitSound == ConditionsInit => CInv
<1> SUFFICES ASSUME ConditionsInit PROVE CInv
  OBVIOUS
<1>1. stack = <<>> /\ unwind = Running /\ in_interrupt_hook = FALSE
  BY DEF ConditionsInit
<1>2. stack \in Seq({}) /\ Len(stack) = 0
  BY <1>1
<1>3. QED
  BY <1>1, <1>2, UnwindsOK DEF CInv

\* Every step of the machine over its forms.
LEMMA ConditionsNextSound == CInv /\ [ConditionsNext]_conditionVars => CInv'
<1> SUFFICES ASSUME CInv, [ConditionsNext]_conditionVars PROVE CInv'
  OBVIOUS
<1>1. CASE Collect
  BY <1>1, StackKept DEF Collect, CInv
<1>2. CASE HostClears
  BY <1>2, UnwindsOK, StackKept DEF HostClears
<1>3. CASE UNCHANGED conditionVars
  BY <1>3, StackKept DEF conditionVars, CInv
<1>4. QED
  BY <1>1, <1>2, <1>3, TryStep, BindStep, SignalStep, RestartStep, ProtectStep, InterruptStep
     DEF ConditionsNext

-----------------------------------------------------------------------------
\* Code never runs with an unwinding noted, cleanups and handlers included, what is noted is
\* one of the ways to unwind, and the hook's flag is up while the break loop runs
\* (vm_execute_try, vm_execute_unwind_protect, run_interrupt_hook).
THEOREM UnwindingIsSound == ConditionsSpec => []UnwindSound
<1>1. CInv => UnwindSound
  <2> SUFFICES ASSUME CInv PROVE UnwindSound
    OBVIOUS
  <2>1. DOMAIN stack = 1 .. Len(stack)
    BY DEF CInv
  <2>2. QED
    BY <2>1 DEF CInv, UnwindOK, UnwindSound
<1>2. QED
  BY ConditionsInitSound, ConditionsNextSound, <1>1, PTL DEF ConditionsSpec

-----------------------------------------------------------------------------
(***************************************************************************)
(* The three lists follow the stack.  They are put together by a           *)
(* recursion over the forms under way: Layer is what one form does to a    *)
(* list, and At the list below which the forms from the (n + 1)-th on lie. *)
(* LayersExist, LayersAgree and LayersStep take the place of an induction: *)
(* they look at the smallest number of forms for which they would fail.    *)
(***************************************************************************)
Layer(list, f, i, below) ==
  CASE list = "handlers" /\ f.form = "handler-bind" ->
         [k \in 1 .. f.bound |-> [owner |-> i, nth |-> f.bound + 1 - k]] \o below
    [] list = "handlers" /\ f.form = "signal" -> Beyond(below, f.nth)
    [] list = "params" /\ f.form = "with-params" ->
         Reverse([k \in 1 .. f.bound |-> [owner |-> i, nth |-> k]]) \o below
    [] list = "restarts" /\ f.form \in {"restart-case", "hook"} ->
         <<[owner |-> i, ids |-> IdsOf(f)]>> \o below
    [] OTHER -> below

IsLayers(list, s, n, layers) ==
  layers = [i \in 0 .. n |-> IF i = 0 THEN <<>> ELSE Layer(list, s[i], i, layers[i - 1])]
Layers(list, s, n) == CHOOSE layers : IsLayers(list, s, n, layers)
At(list, s, n) == Layers(list, s, n)[n]

\* What the equation says, entry by entry.
LEMMA LayersAre ==
  ASSUME NEW list, NEW s, NEW n \in Nat, NEW layers, IsLayers(list, s, n, layers)
  PROVE  /\ layers[0] = <<>>
         /\ \A i \in 1 .. n : layers[i] = Layer(list, s[i], i, layers[i - 1])
<1>1. \A i \in 0 .. n : layers[i] = IF i = 0 THEN <<>> ELSE Layer(list, s[i], i, layers[i - 1])
  BY Zenon DEF IsLayers
<1>2. 0 \in 0 .. n /\ \A i \in 1 .. n : i \in 0 .. n /\ i # 0
  OBVIOUS
<1> QED
  BY <1>1, <1>2, Zenon

\* There is a function that the recursion defines.
LEMMA LayersExist ==
  ASSUME NEW list, NEW s, NEW n \in Nat
  PROVE  IsLayers(list, s, n, Layers(list, s, n))
<1> DEFINE Off == {m \in Nat : ~ \E layers : IsLayers(list, s, m, layers)}
<1>1. Off = {}
  <2> SUFFICES ASSUME Off # {} PROVE FALSE
    OBVIOUS
  <2> DEFINE m == Min(Off)
  <2>1. m \in Off /\ \A x \in Off : m <= x
    <3>1. Off \subseteq Nat
      OBVIOUS
    <3> QED
      BY <3>1, MinInSet
  <2> HIDE DEF m
  <2>2. m \in Nat /\ ~ \E layers : IsLayers(list, s, m, layers)
    BY <2>1
  <2>3. CASE m = 0
    <3> DEFINE base == [i \in 0 .. 0 |-> <<>>]
    <3>1. \A i \in 0 .. 0 : i = 0
      OBVIOUS
    <3>2. IsLayers(list, s, 0, base)
      BY <3>1, Zenon DEF IsLayers
    <3> QED
      BY <2>2, <2>3, <3>2
  <2>4. CASE m # 0
    <3> DEFINE j == m - 1
    <3>1. j \in Nat /\ ~(m <= j) /\ j = m - 1
      BY <2>2, <2>4
    <3> HIDE DEF j
    <3>2. j \notin Off
      BY <2>1, <3>1
    <3>3. PICK below : IsLayers(list, s, j, below)
      BY <3>1, <3>2
    <3>4. /\ below[0] = <<>>
          /\ \A i \in 1 .. j : below[i] = Layer(list, s[i], i, below[i - 1])
      <4> HIDE DEF Off
      <4> QED
        BY <3>1, <3>3, LayersAre
    <3> DEFINE layers == [i \in 0 .. m |->
                 IF i = m THEN Layer(list, s[m], m, below[m - 1]) ELSE below[i]]
    <3>5. ASSUME NEW i \in 0 .. m
          PROVE  layers[i] = IF i = 0 THEN <<>> ELSE Layer(list, s[i], i, layers[i - 1])
      <4>1. layers[i] = IF i = m THEN Layer(list, s[m], m, below[m - 1]) ELSE below[i]
        OBVIOUS
      <4>2. i # 0 => i - 1 \in 0 .. m /\ i - 1 # m /\ (i # m => i \in 1 .. j)
        BY <2>2, <3>1
      <4>3. i # 0 => layers[i - 1] = below[i - 1]
        BY <4>2
      <4> HIDE DEF layers
      <4>4. CASE i = 0
        BY <2>4, <3>4, <4>1, <4>4
      <4>5. CASE i # 0 /\ i = m
        BY <4>1, <4>3, <4>5
      <4>6. CASE i # 0 /\ i # m
        BY <3>4, <4>1, <4>2, <4>3, <4>6
      <4> QED
        BY <4>4, <4>5, <4>6
    <3>6. layers = [i \in 0 .. m |-> layers[i]]
      OBVIOUS
    <3> HIDE DEF layers
    <3>7. IsLayers(list, s, m, layers)
      BY <3>5, <3>6, Zenon DEF IsLayers
    <3> QED
      BY <2>2, <3>7
  <2> QED
    BY <2>3, <2>4
<1>2. \E layers : IsLayers(list, s, n, layers)
  BY <1>1
<1> QED
  BY <1>2, Zenon DEF Layers

\* Where two stacks have the same forms, the lists are the same.
LEMMA LayersAgree ==
  ASSUME NEW list, NEW s, NEW t, NEW n \in Nat, NEW m \in Nat, NEW f, NEW g,
         IsLayers(list, s, n, f), IsLayers(list, t, m, g),
         NEW k \in Nat, k <= n, k <= m, \A i \in 1 .. k : s[i] = t[i]
  PROVE  f[k] = g[k]
<1> DEFINE Off == {i \in 0 .. k : f[i] # g[i]}
<1>1. Off = {}
  <2> SUFFICES ASSUME Off # {} PROVE FALSE
    OBVIOUS
  <2> DEFINE i == Min(Off)
  <2>1. i \in Off /\ \A x \in Off : i <= x
    <3>1. Off \subseteq Nat
      OBVIOUS
    <3> QED
      BY <3>1, MinInSet
  <2> HIDE DEF i
  <2>2. i \in 0 .. k /\ f[i] # g[i]
    BY <2>1
  <2>3. i # 0
    BY <2>2, LayersAre
  <2>4. i - 1 \in 0 .. k /\ ~(i <= i - 1) /\ i \in 1 .. k /\ i \in 1 .. n /\ i \in 1 .. m
    BY <2>2, <2>3
  <2>5. f[i - 1] = g[i - 1]
    BY <2>1, <2>4
  <2>6. f[i] = Layer(list, s[i], i, f[i - 1]) /\ g[i] = Layer(list, t[i], i, g[i - 1])
    BY <2>4, LayersAre
  <2>7. s[i] = t[i]
    BY <2>4
  <2> QED
    BY <2>2, <2>5, <2>6, <2>7
<1>2. k \in 0 .. k
  OBVIOUS
<1> QED
  BY <1>1, <1>2

\* The list below the first form is empty, each form adds its layer, and only the forms
\* below count.
LEMMA AtStep ==
  ASSUME NEW list, NEW s
  PROVE  /\ At(list, s, 0) = <<>>
         /\ \A n \in Nat \ {0} : At(list, s, n) = Layer(list, s[n], n, At(list, s, n - 1))
<1>1. At(list, s, 0) = <<>>
  BY LayersExist, LayersAre DEF At
<1>2. ASSUME NEW n \in Nat \ {0} PROVE At(list, s, n) = Layer(list, s[n], n, At(list, s, n - 1))
  <2>1. n - 1 \in Nat /\ n \in 1 .. n /\ n - 1 <= n
    OBVIOUS
  <2> DEFINE f == Layers(list, s, n)
             g == Layers(list, s, n - 1)
  <2>2. IsLayers(list, s, n, f) /\ IsLayers(list, s, n - 1, g)
    BY <2>1, LayersExist
  <2> HIDE DEF f, g
  <2>3. f[n] = Layer(list, s[n], n, f[n - 1])
    BY <2>1, <2>2, LayersAre
  <2>4. f[n - 1] = g[n - 1]
    BY <2>1, <2>2, LayersAgree
  <2> QED
    BY <2>3, <2>4 DEF At, f, g
<1> QED
  BY <1>1, <1>2

\* What n forms put together depends on those n alone.
LEMMA AtSame ==
  ASSUME NEW list, NEW s, NEW t, NEW n \in Nat, \A i \in 1 .. n : s[i] = t[i]
  PROVE  At(list, s, n) = At(list, t, n)
BY LayersExist, LayersAgree DEF At

-----------------------------------------------------------------------------
(***************************************************************************)
(* LInv: the lists are those that the stack says, and each form has put by *)
(* the list that is to come back when it is left.                          *)
(***************************************************************************)
IsSeq(x) == \E F : x \in Seq(F)

\* f as the i-th form of s.
Shape(f, i, s) ==
  \/ f = [form |-> "try", at |-> f.at]
  \/ /\ f = [form |-> "handler-bind", at |-> f.at, bound |-> f.bound, old |-> f.old]
     /\ f.bound \in Nat /\ f.old = At("handlers", s, i - 1)
  \/ /\ f = [form |-> "with-params", at |-> f.at, bound |-> f.bound, old |-> f.old]
     /\ f.bound \in Nat /\ f.old = At("params", s, i - 1)
  \/ /\ f = [form |-> "signal", at |-> f.at, by |-> f.by, nth |-> f.nth, saved |-> f.saved]
     /\ f.nth \in Nat \ {0} /\ f.nth <= Len(f.saved) /\ f.saved = At("handlers", s, i - 1)
  \/ /\ f = [form |-> "restart-case", at |-> f.at, id |-> f.id, prev |-> f.prev]
     /\ f.prev = At("restarts", s, i - 1)
  \/ f = [form |-> "unwind-protect", at |-> f.at, saved |-> f.saved]
  \/ /\ f = [form |-> "hook", at |-> f.at, continue |-> f.continue, abort |-> f.abort, prev |-> f.prev]
     /\ f.prev = At("restarts", s, i - 1)

LInv ==
  /\ CInv
  /\ handlers = At("handlers", stack, Len(stack))
  /\ params = At("params", stack, Len(stack))
  /\ restarts = At("restarts", stack, Len(stack))
  /\ \A i \in 1 .. Len(stack) : Shape(stack[i], i, stack)
  /\ \A i \in 0 .. Len(stack) : IsSeq(At("handlers", stack, i)) /\ IsSeq(At("params", stack, i))

\* The frames that the i-th form has installed when b of its bindings are.
HandlersOf(i, b) == [k \in 1 .. b |-> [owner |-> i, nth |-> b + 1 - k]]
Offered(i, f) == <<[owner |-> i, ids |-> IdsOf(f)]>>
ParamsOf(i, b) == Reverse([k \in 1 .. b |-> [owner |-> i, nth |-> k]])

\* What each form does to each list.
LEMMA HandlersPass ==
  ASSUME NEW f, NEW i, NEW x, f.form # "handler-bind", f.form # "signal"
  PROVE  Layer("handlers", f, i, x) = x
BY DEF Layer

\* Forms other than with-params leave the params as they are.
LEMMA ParamsPass ==
  ASSUME NEW f, NEW i, NEW x, f.form # "with-params"
  PROVE  Layer("params", f, i, x) = x
BY DEF Layer

\* Forms other than restart-case and the break loop leave the restarts.
LEMMA RestartsPass ==
  ASSUME NEW f, NEW i, NEW x, f.form # "restart-case", f.form # "hook"
  PROVE  Layer("restarts", f, i, x) = x
BY DEF Layer

\* handler-bind puts its handlers before those of the forms below.
LEMMA HandlersBound ==
  ASSUME NEW f, NEW i, NEW x, f.form = "handler-bind"
  PROVE  Layer("handlers", f, i, x) = HandlersOf(i, f.bound) \o x
BY DEF Layer, HandlersOf

\* While a handler runs the list is what comes after it.
LEMMA HandlersWalked ==
  ASSUME NEW f, NEW i, NEW x, f.form = "signal"
  PROVE  Layer("handlers", f, i, x) = Beyond(x, f.nth)
BY DEF Layer

\* with-params puts its params before those of the forms below.
LEMMA ParamsBound ==
  ASSUME NEW f, NEW i, NEW x, f.form = "with-params"
  PROVE  Layer("params", f, i, x) = ParamsOf(i, f.bound) \o x
BY DEF Layer, ParamsOf

\* restart-case and the break loop put their restarts first.
LEMMA RestartsAdded ==
  ASSUME NEW f, NEW i, NEW x, f.form \in {"restart-case", "hook"}
  PROVE  Layer("restarts", f, i, x) = Offered(i, f) \o x
BY DEF Layer, Offered

\* The forms below are what the shape of one is about.
LEMMA ShapeSame ==
  ASSUME NEW f, NEW s, NEW t, NEW i \in Nat \ {0}, \A j \in 1 .. i - 1 : s[j] = t[j], Shape(f, i, s)
  PROVE  Shape(f, i, t)
<1>1. i - 1 \in Nat
  OBVIOUS
<1>2. \A list : At(list, s, i - 1) = At(list, t, i - 1)
  BY <1>1, AtSame
<1> QED
  BY <1>2 DEF Shape

\* Functions from an initial segment are sequences.
LEMMA AreSeqs ==
  ASSUME NEW S, NEW n \in Nat, NEW f \in [1 .. n -> S]
  PROVE  f \in Seq(S)
OBVIOUS

\* Nothing bound yet, and one more binding.
LEMMA Bindings ==
  ASSUME NEW x, IsSeq(x), NEW b \in Nat, NEW i
  PROVE  /\ HandlersOf(i, 0) \o x = x
         /\ ParamsOf(i, 0) \o x = x
         /\ <<[owner |-> i, nth |-> b + 1]>> \o (HandlersOf(i, b) \o x) = HandlersOf(i, b + 1) \o x
         /\ <<[owner |-> i, nth |-> b + 1]>> \o (ParamsOf(i, b) \o x) = ParamsOf(i, b + 1) \o x
         /\ IsSeq(<<[owner |-> i, nth |-> b + 1]>> \o x)
<1>1. PICK F : x \in Seq(F)
  BY DEF IsSeq
<1> DEFINE S == F \cup [owner : {i}, nth : Int]
           one == <<[owner |-> i, nth |-> b + 1]>>
           old == [k \in 1 .. b |-> [owner |-> i, nth |-> b + 1 - k]]
           new == [k \in 1 .. b + 1 |-> [owner |-> i, nth |-> b + 1 + 1 - k]]
           oldP == [k \in 1 .. b |-> [owner |-> i, nth |-> k]]
           newP == [k \in 1 .. b + 1 |-> [owner |-> i, nth |-> k]]
<1>2. x \in Seq(S) /\ one \in Seq(S)
  <2>1. x \in Seq(S)
    BY <1>1, SeqMonotonic
  <2> QED
    BY <2>1
<1>3. old \in Seq(S) /\ new \in Seq(S) /\ oldP \in Seq(S) /\ newP \in Seq(S)
  <2>1. \A k \in 1 .. b : old[k] \in S /\ oldP[k] \in S
    OBVIOUS
  <2>2. \A k \in 1 .. b + 1 : new[k] \in S /\ newP[k] \in S
    OBVIOUS
  <2>3. b + 1 \in Nat
    OBVIOUS
  <2> HIDE DEF S
  <2>4. /\ old \in [1 .. b -> S] /\ oldP \in [1 .. b -> S]
        /\ new \in [1 .. b + 1 -> S] /\ newP \in [1 .. b + 1 -> S]
    BY <2>1, <2>2
  <2> HIDE DEF old, oldP, new, newP
  <2> QED
    BY <2>3, <2>4, AreSeqs
<1>4. Len(old) = b /\ Len(new) = b + 1 /\ Len(oldP) = b /\ Len(newP) = b + 1 /\ Len(one) = 1
  OBVIOUS
<1>5. one \o old \in Seq(S) /\ Len(one \o old) = 1 + b
      /\ \A k \in 1 .. 1 + b : (one \o old)[k] = IF k <= 1 THEN one[k] ELSE old[k - 1]
  <2> HIDE DEF S, one, old, new, oldP, newP
  <2>1. /\ one \o old \in Seq(S) /\ Len(one \o old) = Len(one) + Len(old)
        /\ \A k \in 1 .. Len(one) + Len(old) :
             (one \o old)[k] = IF k <= Len(one) THEN one[k] ELSE old[k - Len(one)]
    BY <1>2, <1>3, ConcatProperties
  <2> QED
    BY <1>4, <2>1
<1>6. one \o old = new
  <2>1. Len(one \o old) = Len(new)
    BY <1>4, <1>5
  <2>2. ASSUME NEW k \in 1 .. Len(one \o old) PROVE (one \o old)[k] = new[k]
    <3>1. k \in 1 .. b + 1 /\ k \in 1 .. 1 + b
      BY <1>5
    <3>2. new[k] = [owner |-> i, nth |-> b + 1 + 1 - k]
      BY <3>1
    <3>3. CASE k = 1
      <4>1. (one \o old)[k] = one[1] /\ b + 1 + 1 - k = b + 1
        BY <1>5, <3>1, <3>3
      <4> QED
        BY <3>2, <4>1
    <3>4. CASE k # 1
      <4>1. k - 1 \in 1 .. b /\ ~(k <= 1) /\ b + 1 - (k - 1) = b + 1 + 1 - k
        BY <3>1, <3>4
      <4>2. (one \o old)[k] = old[k - 1]
        BY <1>5, <3>1, <4>1
      <4>3. old[k - 1] = [owner |-> i, nth |-> b + 1 - (k - 1)]
        BY <4>1
      <4> QED
        BY <3>2, <4>1, <4>2, <4>3
    <3> QED
      BY <3>3, <3>4
  <2> HIDE DEF S, one, old, new
  <2> QED
    BY <1>3, <1>5, <2>1, <2>2, SeqEqual
<1>7. Reverse(oldP) = old /\ Reverse(newP) = new
  <2>1. Reverse(oldP) = [k \in 1 .. b |-> oldP[(b - k) + 1]]
    BY <1>4 DEF Reverse
  <2>2. \A k \in 1 .. b : oldP[(b - k) + 1] = old[k]
    <3> TAKE k \in 1 .. b
    <3>1. (b - k) + 1 \in 1 .. b /\ (b - k) + 1 = b + 1 - k
      OBVIOUS
    <3> QED
      BY <3>1
  <2>3. Reverse(newP) = [k \in 1 .. b + 1 |-> newP[(b + 1 - k) + 1]]
    BY <1>4 DEF Reverse
  <2>4. \A k \in 1 .. b + 1 : newP[(b + 1 - k) + 1] = new[k]
    <3> TAKE k \in 1 .. b + 1
    <3>1. (b + 1 - k) + 1 \in 1 .. b + 1 /\ (b + 1 - k) + 1 = b + 1 + 1 - k
      OBVIOUS
    <3> QED
      BY <3>1
  <2>5. old = [k \in 1 .. b |-> old[k]] /\ new = [k \in 1 .. b + 1 |-> new[k]]
    OBVIOUS
  <2> HIDE DEF old, new, oldP, newP
  <2>6. Reverse(oldP) = old
    BY <2>1, <2>2, <2>5, Zenon
  <2>7. Reverse(newP) = new
    BY <2>3, <2>4, <2>5, Zenon
  <2> QED
    BY <2>6, <2>7
<1>8. (one \o old) \o x = one \o (old \o x) /\ one \o x \in Seq(S) /\ <<>> \o x = x
  <2> HIDE DEF S, one, old
  <2>1. (one \o old) \o x = one \o (old \o x)
    BY <1>2, <1>3, ConcatAssociative
  <2>2. one \o x \in Seq(S)
    BY <1>2, <1>3, ConcatProperties
  <2>3. <<>> \o x = x
    BY <1>2, ConcatEmptySeq
  <2> QED
    BY <2>1, <2>2, <2>3
<1>9. [k \in 1 .. 0 |-> [owner |-> i, nth |-> 0 + 1 - k]] = <<>>
  <2>1. \A k \in 1 .. 0 : FALSE
    OBVIOUS
  <2> QED
    BY <2>1
<1>10. Reverse([k \in 1 .. 0 |-> [owner |-> i, nth |-> k]]) = <<>>
  <2>1. [k \in 1 .. 0 |-> [owner |-> i, nth |-> k]] = <<>>
    OBVIOUS
  <2>2. Reverse(<<>>) = <<>>
    BY DEF Reverse
  <2> QED
    BY <2>1, <2>2
<1>11. /\ HandlersOf(i, 0) = <<>> /\ ParamsOf(i, 0) = <<>>
       /\ HandlersOf(i, b) = old /\ ParamsOf(i, b) = old
       /\ HandlersOf(i, b + 1) = new /\ ParamsOf(i, b + 1) = new
  BY <1>7, <1>9, <1>10 DEF HandlersOf, ParamsOf
<1>12. IsSeq(one \o x)
  BY <1>8 DEF IsSeq
<1> HIDE DEF old, new
<1> QED
  BY <1>6, <1>8, <1>11, <1>12

\* The layers of a form that binds: with nothing bound yet, and with one binding more.
LEMMA NothingBound ==
  ASSUME NEW f, NEW i, NEW x, IsSeq(x), f.bound = 0
  PROVE  /\ f.form = "handler-bind" => Layer("handlers", f, i, x) = x
         /\ f.form = "with-params" => Layer("params", f, i, x) = x
<1>1. HandlersOf(i, 0) \o x = x /\ ParamsOf(i, 0) \o x = x
  <2>1. 0 \in Nat
    OBVIOUS
  <2> QED
    BY <2>1, Bindings, Zenon
<1> QED
  BY <1>1, HandlersBound, ParamsBound, Zenon

\* One more binding of a form is one more entry in front.
LEMMA OneMoreBound ==
  ASSUME NEW f, NEW g, NEW i, NEW x, IsSeq(x), f.bound \in Nat, g.form = f.form,
         g.bound = f.bound + 1
  PROVE  /\ f.form = "handler-bind" =>
              <<[owner |-> i, nth |-> f.bound + 1]>> \o Layer("handlers", f, i, x)
                = Layer("handlers", g, i, x)
         /\ f.form = "with-params" =>
              <<[owner |-> i, nth |-> f.bound + 1]>> \o Layer("params", f, i, x)
                = Layer("params", g, i, x)
<1> DEFINE b == f.bound
<1>1. /\ <<[owner |-> i, nth |-> b + 1]>> \o (HandlersOf(i, b) \o x) = HandlersOf(i, b + 1) \o x
      /\ <<[owner |-> i, nth |-> b + 1]>> \o (ParamsOf(i, b) \o x) = ParamsOf(i, b + 1) \o x
  BY Bindings, Zenon
<1>2. f.form = "handler-bind" =>
        /\ Layer("handlers", f, i, x) = HandlersOf(i, b) \o x
        /\ Layer("handlers", g, i, x) = HandlersOf(i, b + 1) \o x
  BY HandlersBound, Zenon
<1>3. f.form = "with-params" =>
        /\ Layer("params", f, i, x) = ParamsOf(i, b) \o x
        /\ Layer("params", g, i, x) = ParamsOf(i, b + 1) \o x
  BY ParamsBound, Zenon
<1> QED
  BY <1>1, <1>2, <1>3, Zenon

\* And the list stays a sequence.
LEMMA OneMoreIsSeq ==
  ASSUME NEW x, IsSeq(x), NEW b \in Nat, NEW i
  PROVE  IsSeq(<<[owner |-> i, nth |-> b + 1]>> \o x)
BY Bindings, Zenon

\* A form is entered: it adds its layer.
LEMMA ListsPushed ==
  ASSUME LInv, CInv', NEW f, Push(f), Shape(f, Len(stack) + 1, stack),
         handlers' = Layer("handlers", f, Len(stack) + 1, handlers),
         params' = Layer("params", f, Len(stack) + 1, params),
         restarts' = Layer("restarts", f, Len(stack) + 1, restarts),
         IsSeq(handlers'), IsSeq(params')
  PROVE  LInv'
<1> DEFINE n == Len(stack)
           m == n + 1
<1>1. /\ Len(stack') = m /\ n \in Nat /\ stack'[m] = f
      /\ \A i \in 1 .. n : stack'[i] = stack[i]
  BY Pushed DEF LInv
<1>2. m \in Nat \ {0} /\ m - 1 = n /\ n \in 0 .. n
  BY <1>1
<1>3. \A list : \A i \in 0 .. n : At(list, stack', i) = At(list, stack, i)
  <2> TAKE list
  <2> TAKE i \in 0 .. n
  <2>1. i \in Nat /\ \A j \in 1 .. i : stack'[j] = stack[j]
    BY <1>1
  <2> QED
    BY <2>1, AtSame
<1>4. \A list : At(list, stack', m) = Layer(list, f, m, At(list, stack, n))
  <2> TAKE list
  <2>1. At(list, stack', m) = Layer(list, stack'[m], m, At(list, stack', m - 1))
    BY <1>2, AtStep
  <2> QED
    BY <1>1, <1>2, <1>3, <2>1
<1>5. /\ handlers' = At("handlers", stack', m)
      /\ params' = At("params", stack', m)
      /\ restarts' = At("restarts", stack', m)
  BY <1>4 DEF LInv
<1>6. ASSUME NEW i \in 1 .. m PROVE Shape(stack'[i], i, stack')
  <2>1. CASE i = m
    <3>1. \A j \in 1 .. m - 1 : stack[j] = stack'[j]
      BY <1>1, <1>2
    <3> QED
      BY <1>1, <1>2, <2>1, <3>1, ShapeSame
  <2>2. CASE i # m
    <3>1. i \in 1 .. n /\ i \in Nat \ {0} /\ \A j \in 1 .. i - 1 : stack[j] = stack'[j]
      BY <1>1, <1>2, <2>2
    <3>2. Shape(stack[i], i, stack)
      BY <3>1 DEF LInv
    <3> QED
      BY <1>1, <3>1, <3>2, ShapeSame
  <2> QED
    BY <2>1, <2>2
<1>7. ASSUME NEW i \in 0 .. m
      PROVE  IsSeq(At("handlers", stack', i)) /\ IsSeq(At("params", stack', i))
  <2>1. CASE i = m
    BY <1>5, <2>1
  <2>2. CASE i # m
    <3>1. i \in 0 .. n
      BY <1>1, <2>2
    <3> QED
      BY <1>3, <3>1 DEF LInv
  <2> QED
    BY <2>1, <2>2
<1> QED
  BY <1>1, <1>5, <1>6, <1>7 DEF LInv, IsSeq, Shape

\* A form is left: its layer is taken off.
LEMMA ListsPopped ==
  ASSUME LInv, CInv', stack # <<>>, Pop,
         handlers' = At("handlers", stack, Len(stack) - 1),
         params' = At("params", stack, Len(stack) - 1),
         restarts' = At("restarts", stack, Len(stack) - 1)
  PROVE  LInv'
<1> DEFINE n == Len(stack)
           m == n - 1
<1>1. /\ Len(stack') = m /\ n \in Nat \ {0}
      /\ \A i \in 1 .. m : stack'[i] = stack[i]
  BY Popped DEF LInv
<1>2. m \in Nat /\ m \in 0 .. m
  BY <1>1
<1>3. \A list : \A i \in 0 .. m : At(list, stack', i) = At(list, stack, i)
  <2> TAKE list
  <2> TAKE i \in 0 .. m
  <2>1. i \in Nat /\ \A j \in 1 .. i : stack'[j] = stack[j]
    BY <1>1
  <2> QED
    BY <2>1, AtSame
<1>4. /\ handlers' = At("handlers", stack', m)
      /\ params' = At("params", stack', m)
      /\ restarts' = At("restarts", stack', m)
  BY <1>2, <1>3
<1>5. ASSUME NEW i \in 1 .. m PROVE Shape(stack'[i], i, stack')
  <2>1. i \in 1 .. n /\ i \in Nat \ {0} /\ \A j \in 1 .. i - 1 : stack[j] = stack'[j]
    BY <1>1
  <2>2. Shape(stack[i], i, stack)
    BY <2>1 DEF LInv
  <2> QED
    BY <1>1, <2>1, <2>2, ShapeSame
<1>6. ASSUME NEW i \in 0 .. m
      PROVE  IsSeq(At("handlers", stack', i)) /\ IsSeq(At("params", stack', i))
  <2>1. i \in 0 .. n
    BY <1>1
  <2> QED
    BY <1>3, <2>1 DEF LInv
<1> QED
  BY <1>1, <1>4, <1>5, <1>6 DEF LInv, IsSeq, Shape

\* The innermost form is f now.
LEMMA TopReplaced ==
  ASSUME CInv, stack # <<>>, NEW f, stack' = [stack EXCEPT ![Len(stack)] = f]
  PROVE  /\ Len(stack') = Len(stack) /\ stack'[Len(stack)] = f
         /\ \A i \in 1 .. Len(stack) - 1 : stack'[i] = stack[i]
<1>1. PICK F : stack \in Seq(F)
  BY DEF CInv
<1>2. Len(stack) \in Nat \ {0} /\ Len(stack) \in 1 .. Len(stack)
  BY <1>1
<1>3. stack \in Seq(F \cup {f})
  BY <1>1, SeqMonotonic
<1>4. \A i \in 1 .. Len(stack) - 1 : i \in 1 .. Len(stack) /\ i # Len(stack)
  BY <1>2
<1> QED
  BY <1>2, <1>3, <1>4, ExceptSeq

\* The innermost form goes on, with another layer perhaps.
LEMMA ListsGoOn ==
  ASSUME LInv, CInv', stack # <<>>, NEW f, Len(stack') = Len(stack), stack'[Len(stack)] = f,
         \A i \in 1 .. Len(stack) - 1 : stack'[i] = stack[i],
         Shape(f, Len(stack), stack),
         handlers' = Layer("handlers", f, Len(stack), At("handlers", stack, Len(stack) - 1)),
         params' = Layer("params", f, Len(stack), At("params", stack, Len(stack) - 1)),
         restarts' = Layer("restarts", f, Len(stack), At("restarts", stack, Len(stack) - 1)),
         IsSeq(handlers'), IsSeq(params')
  PROVE  LInv'
<1> DEFINE n == Len(stack)
           m == n - 1
<1>1. stack # <<>> /\ CInv
  BY DEF LInv
<1>2. n \in Nat \ {0} /\ m \in Nat /\ m \in 0 .. m /\ n \in 1 .. n
  <2>1. Len(stack) \in Nat /\ Len(stack) \in 1 .. Len(stack)
    BY <1>1, Tops DEF CInv
  <2> QED
    BY <2>1
<1>3. /\ Len(stack') = n /\ stack'[n] = f
      /\ \A i \in 1 .. m : stack'[i] = stack[i]
  OBVIOUS
<1>4. \A list : \A i \in 0 .. m : At(list, stack', i) = At(list, stack, i)
  <2> TAKE list
  <2> TAKE i \in 0 .. m
  <2>1. i \in Nat /\ \A j \in 1 .. i : stack'[j] = stack[j]
    BY <1>2, <1>3
  <2> QED
    BY <2>1, AtSame
<1>5. \A list : At(list, stack', n) = Layer(list, f, n, At(list, stack, m))
  <2> TAKE list
  <2>1. At(list, stack', n) = Layer(list, stack'[n], n, At(list, stack', m))
    BY <1>2, AtStep
  <2> QED
    BY <1>2, <1>3, <1>4, <2>1
<1>6. /\ handlers' = At("handlers", stack', n)
      /\ params' = At("params", stack', n)
      /\ restarts' = At("restarts", stack', n)
  BY <1>5
<1>7. ASSUME NEW i \in 1 .. n PROVE Shape(stack'[i], i, stack')
  <2>1. i \in Nat \ {0} /\ \A j \in 1 .. i - 1 : stack[j] = stack'[j]
    BY <1>2, <1>3
  <2>2. CASE i = n
    BY <1>3, <2>1, <2>2, ShapeSame
  <2>3. CASE i # n
    <3>1. i \in 1 .. m
      BY <1>2, <2>3
    <3>2. Shape(stack[i], i, stack)
      BY DEF LInv
    <3> QED
      BY <1>3, <2>1, <3>1, <3>2, ShapeSame
  <2> QED
    BY <2>2, <2>3
<1>8. ASSUME NEW i \in 0 .. n
      PROVE  IsSeq(At("handlers", stack', i)) /\ IsSeq(At("params", stack', i))
  <2>1. CASE i = n
    BY <1>6, <2>1
  <2>2. CASE i # n
    <3>1. i \in 0 .. m
      BY <1>2, <2>2
    <3> QED
      BY <1>4, <3>1 DEF LInv
  <2> QED
    BY <2>1, <2>2
<1> QED
  BY <1>3, <1>6, <1>7, <1>8 DEF LInv, IsSeq, Shape

\* Nothing of it changes.
LEMMA ListsStay ==
  ASSUME LInv, CInv', UNCHANGED <<stack, handlers, params, restarts>>
  PROVE  LInv'
<1>1. stack' = stack /\ handlers' = handlers /\ params' = params /\ restarts' = restarts
  OBVIOUS
<1>2. \A i \in 1 .. Len(stack) : Shape(stack'[i], i, stack')
  BY <1>1, Zenon DEF LInv
<1>3. \A i \in 0 .. Len(stack) :
        IsSeq(At("handlers", stack', i)) /\ IsSeq(At("params", stack', i))
  BY <1>1, Zenon DEF LInv
<1>4. /\ handlers' = At("handlers", stack', Len(stack')) /\ params' = At("params", stack', Len(stack'))
      /\ restarts' = At("restarts", stack', Len(stack'))
  BY <1>1, Zenon DEF LInv
<1> QED
  BY <1>1, <1>2, <1>3, <1>4 DEF LInv

\* The innermost form, and the layer that it is.
LEMMA TopShape ==
  ASSUME LInv, stack # <<>>
  PROVE  /\ Len(stack) \in Nat \ {0} /\ Top = stack[Len(stack)] /\ Len(stack) \in DOMAIN stack
         /\ Shape(Top, Len(stack), stack)
         /\ handlers = Layer("handlers", Top, Len(stack), At("handlers", stack, Len(stack) - 1))
         /\ params = Layer("params", Top, Len(stack), At("params", stack, Len(stack) - 1))
         /\ restarts = Layer("restarts", Top, Len(stack), At("restarts", stack, Len(stack) - 1))
         /\ IsSeq(At("handlers", stack, Len(stack) - 1)) /\ IsSeq(At("params", stack, Len(stack) - 1))
         /\ IsSeq(handlers) /\ IsSeq(params)
<1> DEFINE n == Len(stack)
<1>1. Len(stack) \in 1 .. Len(stack) /\ Top = stack[Len(stack)]
  BY Tops DEF LInv
<1>2. n \in Nat /\ DOMAIN stack = 1 .. n
  BY DEF LInv, CInv
<1>3. n \in Nat \ {0} /\ n \in 0 .. n /\ n - 1 \in 0 .. n
  BY <1>1, <1>2
<1>4. \A list : At(list, stack, n) = Layer(list, Top, n, At(list, stack, n - 1))
  BY <1>1, <1>3, AtStep
<1> QED
  BY <1>1, <1>2, <1>3, <1>4 DEF LInv

\* The lists that it leaves alone are those below it.
LEMMA TopPasses ==
  ASSUME LInv, stack # <<>>
  PROVE  /\ Top.form \notin {"handler-bind", "signal"} =>
              handlers = At("handlers", stack, Len(stack) - 1)
         /\ Top.form # "with-params" => params = At("params", stack, Len(stack) - 1)
         /\ Top.form \notin {"restart-case", "hook"} =>
              restarts = At("restarts", stack, Len(stack) - 1)
<1> DEFINE n == Len(stack)
           h == At("handlers", stack, n - 1)
           p == At("params", stack, n - 1)
           r == At("restarts", stack, n - 1)
<1>1. /\ handlers = Layer("handlers", Top, n, h)
      /\ params = Layer("params", Top, n, p)
      /\ restarts = Layer("restarts", Top, n, r)
  BY TopShape, Zenon
<1> HIDE DEF h, p, r
<1>2. Top.form \notin {"handler-bind", "signal"} => Layer("handlers", Top, n, h) = h
  BY HandlersPass
<1>3. Top.form # "with-params" => Layer("params", Top, n, p) = p
  BY ParamsPass
<1>4. Top.form \notin {"restart-case", "hook"} => Layer("restarts", Top, n, r) = r
  BY RestartsPass
<1> QED
  BY <1>1, <1>2, <1>3, <1>4, Zenon DEF h, p, r

\* handlers and params are sequences.
LEMMA ListsAreSeqs == ASSUME LInv PROVE IsSeq(handlers) /\ IsSeq(params)
<1>1. Len(stack) \in 0 .. Len(stack)
  BY DEF LInv, CInv
<1> QED
  BY <1>1 DEF LInv

\* A form that binds nothing is left.
LEMMA ListsPoppedPlain ==
  ASSUME LInv, CInv', stack # <<>>, Pop, Top.form \in {"try", "unwind-protect"},
         UNCHANGED <<handlers, params, restarts>>
  PROVE  LInv'
<1> DEFINE n == Len(stack)
<1>1. /\ handlers = At("handlers", stack, n - 1)
      /\ params = At("params", stack, n - 1)
      /\ restarts = At("restarts", stack, n - 1)
  <2>1. Top.form \notin {"handler-bind", "signal", "with-params", "restart-case", "hook"}
    OBVIOUS
  <2> QED
    BY <2>1, TopPasses
<1> QED
  BY <1>1, ListsPopped

\* The form goes on elsewhere in it.
LEMMA ListsAtOther ==
  ASSUME LInv, CInv', stack # <<>>, NEW where, TopGoesTo(where),
         UNCHANGED <<handlers, params, restarts>>
  PROVE  LInv'
<1> DEFINE f == [Top EXCEPT !.at = where]
           n == Len(stack)
<1>1. /\ n \in Nat \ {0} /\ Top = stack[n] /\ n \in DOMAIN stack /\ Shape(Top, n, stack)
      /\ handlers = Layer("handlers", Top, n, At("handlers", stack, n - 1))
      /\ params = Layer("params", Top, n, At("params", stack, n - 1))
      /\ restarts = Layer("restarts", Top, n, At("restarts", stack, n - 1))
      /\ IsSeq(handlers) /\ IsSeq(params)
  BY TopShape
<1>2. Shape(f, n, stack) /\ \A list, x : Layer(list, f, n, x) = Layer(list, Top, n, x)
  <2>1. Shape(f, n, stack)
    BY <1>1 DEF Shape
  <2>2. /\ f.form = Top.form
        /\ Top.form \in {"handler-bind", "with-params"} => f.bound = Top.bound
        /\ Top.form = "signal" => f.nth = Top.nth
        /\ Top.form \in {"restart-case", "hook"} => IdsOf(f) = IdsOf(Top)
    BY <1>1 DEF Shape, IdsOf
  <2> HIDE DEF f
  <2> QED
    BY <2>1, <2>2 DEF Layer
<1>3. stack' = [stack EXCEPT ![n] = f]
  BY <1>1 DEF TopGoesTo
<1> HIDE DEF f
<1>4. /\ Len(stack') = Len(stack) /\ stack'[Len(stack)] = f
      /\ \A i \in 1 .. Len(stack) - 1 : stack'[i] = stack[i]
  BY <1>3, TopReplaced DEF LInv
<1>5. /\ handlers' = Layer("handlers", f, n, At("handlers", stack, n - 1))
      /\ params' = Layer("params", f, n, At("params", stack, n - 1))
      /\ restarts' = Layer("restarts", f, n, At("restarts", stack, n - 1))
      /\ IsSeq(handlers') /\ IsSeq(params')
  BY <1>1, <1>2 DEF IsSeq
<1> QED
  BY <1>2, <1>4, <1>5, ListsGoOn

\* The steps of try keep the lists.
LEMMA ListsTry ==
  ASSUME LInv, CInv', Try \/ TryCatches \/ TryNoMatch \/ TryReturns \/ TryUnwinds
  PROVE  LInv'
<1>1. UNCHANGED <<handlers, params, restarts>>
  BY DEF Try, TryCatches, TryNoMatch, TryReturns, TryUnwinds
<1>2. CASE Try
  <2> DEFINE f == [form |-> "try", at |-> "body"]
  <2>1. Push(f)
    BY <1>2 DEF Try
  <2>2. f.form = "try" /\ Shape(f, Len(stack) + 1, stack)
    BY DEF Shape
  <2> HIDE DEF f
  <2>3. /\ Layer("handlers", f, Len(stack) + 1, handlers) = handlers
        /\ Layer("params", f, Len(stack) + 1, params) = params
        /\ Layer("restarts", f, Len(stack) + 1, restarts) = restarts
    BY <2>2, HandlersPass, ParamsPass, RestartsPass
  <2>4. IsSeq(handlers') /\ IsSeq(params')
    BY <1>1, ListsAreSeqs
  <2> QED
    BY <1>1, <2>1, <2>2, <2>3, <2>4, ListsPushed
<1>3. CASE TryCatches
  BY <1>1, <1>3, ListsAtOther DEF TryCatches, TopIs
<1>4. CASE TryNoMatch \/ TryReturns \/ TryUnwinds
  <2>1. stack # <<>> /\ Pop /\ Top.form = "try"
    BY <1>4 DEF TryNoMatch, TryReturns, TryUnwinds, TopIs
  <2> QED
    BY <1>1, <2>1, ListsPoppedPlain
<1> QED
  BY <1>2, <1>3, <1>4

\* So do those of handler-bind and with-params.
LEMMA ListsBind ==
  ASSUME LInv, CInv', \/ HandlerBind \/ InstallHandler \/ HandlerBindEnds
                      \/ WithParams \/ InstallParam \/ WithParamsEnds \/ RunBody
  PROVE  LInv'
<1> DEFINE n == Len(stack)
<1>1. CASE HandlerBind
  <2> DEFINE f == [form |-> "handler-bind", at |-> "binding", bound |-> 0, old |-> handlers]
  <2>1. Push(f) /\ UNCHANGED <<handlers, params, restarts>>
    BY <1>1 DEF HandlerBind
  <2>2. f.form = "handler-bind" /\ f.bound = 0 /\ Shape(f, n + 1, stack)
    <3>1. handlers = At("handlers", stack, (n + 1) - 1)
      BY DEF LInv, CInv
    <3> QED
      BY <3>1 DEF Shape
  <2> HIDE DEF f
  <2>3. IsSeq(handlers) /\ IsSeq(params) /\ IsSeq(handlers') /\ IsSeq(params')
    BY <2>1, ListsAreSeqs
  <2>4. /\ Layer("handlers", f, n + 1, handlers) = handlers
        /\ Layer("params", f, n + 1, params) = params
        /\ Layer("restarts", f, n + 1, restarts) = restarts
    BY <2>2, <2>3, NothingBound, ParamsPass, RestartsPass
  <2> QED
    BY <2>1, <2>2, <2>3, <2>4, ListsPushed
<1>2. CASE WithParams
  <2> DEFINE f == [form |-> "with-params", at |-> "binding", bound |-> 0, old |-> params]
  <2>1. Push(f) /\ UNCHANGED <<handlers, params, restarts>>
    BY <1>2 DEF WithParams
  <2>2. f.form = "with-params" /\ f.bound = 0 /\ Shape(f, n + 1, stack)
    <3>1. params = At("params", stack, (n + 1) - 1)
      BY DEF LInv, CInv
    <3> QED
      BY <3>1 DEF Shape
  <2> HIDE DEF f
  <2>3. IsSeq(handlers) /\ IsSeq(params) /\ IsSeq(handlers') /\ IsSeq(params')
    BY <2>1, ListsAreSeqs
  <2>4. /\ Layer("handlers", f, n + 1, handlers) = handlers
        /\ Layer("params", f, n + 1, params) = params
        /\ Layer("restarts", f, n + 1, restarts) = restarts
    BY <2>2, <2>3, NothingBound, HandlersPass, RestartsPass
  <2> QED
    BY <2>1, <2>2, <2>3, <2>4, ListsPushed
<1>3. CASE InstallHandler \/ InstallParam
  <2> DEFINE f == [Top EXCEPT !.bound = @ + 1]
             frame == [owner |-> n, nth |-> Top.bound + 1]
  <2>1. /\ stack # <<>> /\ stack' = [stack EXCEPT ![n].bound = @ + 1]
        /\ \/ /\ Top.form = "handler-bind" /\ handlers' = <<frame>> \o handlers
              /\ UNCHANGED <<params, restarts>>
           \/ /\ Top.form = "with-params" /\ params' = <<frame>> \o params
              /\ UNCHANGED <<handlers, restarts>>
    BY <1>3 DEF InstallHandler, InstallParam, TopIs, Bound, Frame
  <2>2. /\ n \in Nat \ {0} /\ Top = stack[n] /\ n \in DOMAIN stack /\ Shape(Top, n, stack)
        /\ handlers = Layer("handlers", Top, n, At("handlers", stack, n - 1))
        /\ params = Layer("params", Top, n, At("params", stack, n - 1))
        /\ restarts = Layer("restarts", Top, n, At("restarts", stack, n - 1))
        /\ IsSeq(At("handlers", stack, n - 1)) /\ IsSeq(At("params", stack, n - 1))
        /\ IsSeq(handlers) /\ IsSeq(params)
    BY <2>1, TopShape
  <2>3. stack' = [stack EXCEPT ![n] = f]
    BY <2>1, <2>2
  <2>4. f.form = Top.form /\ Top.bound \in Nat /\ f.bound = Top.bound + 1 /\ Shape(f, n, stack)
    <3>1. Top.form \in {"handler-bind", "with-params"}
      BY <2>1
    <3> QED
      BY <2>2, <3>1 DEF Shape
  <2> DEFINE h == At("handlers", stack, n - 1)
             p == At("params", stack, n - 1)
             r == At("restarts", stack, n - 1)
  <2> HIDE DEF f, h, p, r
  <2>5. /\ Len(stack') = n /\ stack'[n] = f /\ \A i \in 1 .. n - 1 : stack'[i] = stack[i]
    BY <2>1, <2>3, TopReplaced DEF LInv
  <2>6. CASE Top.form = "handler-bind"
    <3>1. handlers' = <<frame>> \o handlers /\ UNCHANGED <<params, restarts>>
      BY <2>1, <2>6
    <3>2. handlers' = Layer("handlers", f, n, h)
      <4>1. handlers = Layer("handlers", Top, n, h) /\ IsSeq(h)
        BY <2>2 DEF h
      <4> QED
        BY <2>4, <2>6, <3>1, <4>1, OneMoreBound
    <3>3. IsSeq(handlers')
      BY <2>2, <2>4, <3>1, OneMoreIsSeq, Zenon
    <3>4. params' = Layer("params", f, n, p) /\ restarts' = Layer("restarts", f, n, r)
      <4>1. params = p /\ restarts = r
        BY <2>1, <2>6, TopPasses DEF p, r
      <4> QED
        BY <2>4, <2>6, <3>1, <4>1, ParamsPass, RestartsPass
    <3>5. IsSeq(params')
      BY <2>2, <3>1 DEF IsSeq
    <3> QED
      BY <2>1, <2>4, <2>5, <3>2, <3>3, <3>4, <3>5, ListsGoOn DEF h, p, r
  <2>7. CASE Top.form = "with-params"
    <3>1. params' = <<frame>> \o params /\ UNCHANGED <<handlers, restarts>>
      BY <2>1, <2>7
    <3>2. params' = Layer("params", f, n, p)
      <4>1. params = Layer("params", Top, n, p) /\ IsSeq(p)
        BY <2>2 DEF p
      <4> QED
        BY <2>4, <2>7, <3>1, <4>1, OneMoreBound
    <3>3. IsSeq(params')
      BY <2>2, <2>4, <3>1, OneMoreIsSeq, Zenon
    <3>4. handlers' = Layer("handlers", f, n, h) /\ restarts' = Layer("restarts", f, n, r)
      <4>1. handlers = h /\ restarts = r
        BY <2>1, <2>7, TopPasses DEF h, r
      <4> QED
        BY <2>4, <2>7, <3>1, <4>1, HandlersPass, RestartsPass
    <3>5. IsSeq(handlers')
      BY <2>2, <3>1 DEF IsSeq
    <3> QED
      BY <2>1, <2>4, <2>5, <3>2, <3>3, <3>4, <3>5, ListsGoOn DEF h, p, r
  <2> QED
    BY <2>1, <2>6, <2>7
<1>4. CASE HandlerBindEnds
  <2>1. /\ stack # <<>> /\ Pop /\ Top.form = "handler-bind" /\ handlers' = Top.old
        /\ UNCHANGED <<params, restarts>>
    BY <1>4 DEF HandlerBindEnds
  <2>2. Top.old = At("handlers", stack, n - 1)
    BY <2>1, TopShape DEF Shape
  <2>3. params = At("params", stack, n - 1) /\ restarts = At("restarts", stack, n - 1)
    BY <2>1, TopPasses
  <2> QED
    BY <2>1, <2>2, <2>3, ListsPopped
<1>5. CASE WithParamsEnds
  <2>1. /\ stack # <<>> /\ Pop /\ Top.form = "with-params" /\ params' = Top.old
        /\ UNCHANGED <<handlers, restarts>>
    BY <1>5 DEF WithParamsEnds
  <2>2. Top.old = At("params", stack, n - 1)
    BY <2>1, TopShape DEF Shape
  <2>3. handlers = At("handlers", stack, n - 1) /\ restarts = At("restarts", stack, n - 1)
    BY <2>1, TopPasses
  <2> QED
    BY <2>1, <2>2, <2>3, ListsPopped
<1>6. CASE RunBody
  <2>1. /\ stack # <<>> /\ TopGoesTo("body") /\ UNCHANGED <<handlers, params, restarts>>
    BY <1>6 DEF RunBody, TopIs
  <2> QED
    BY <2>1, ListsAtOther
<1> QED
  BY <1>1, <1>2, <1>3, <1>4, <1>5, <1>6

\* What is beyond a frame of a sequence is a sequence.
LEMMA BeyondIsSeq ==
  ASSUME NEW x, IsSeq(x), NEW k \in Nat
  PROVE  IsSeq(Beyond(x, k))
<1>1. PICK F : x \in Seq(F)
  BY DEF IsSeq
<1>2. k + 1 \in 1 .. Len(x) + k + 1 /\ Len(x) \in Nat
  BY <1>1
<1>3. \A i \in k + 1 .. Len(x) : x[i] \in F
  BY <1>1, <1>2
<1>4. SubSeq(x, k + 1, Len(x)) \in Seq(F)
  BY <1>1, <1>2, <1>3, SubSeqProperties
<1> QED
  BY <1>4 DEF IsSeq, Beyond

\* A signal that goes on is a signal still, and an unwind-protect one.
LEMMA SignalGoesOn ==
  ASSUME NEW t, NEW f, f = [t EXCEPT !.nth = @ + 1, !.at = "predicate"],
         NEW at, NEW by, NEW nth, NEW saved,
         t = [form |-> "signal", at |-> at, by |-> by, nth |-> nth, saved |-> saved]
  PROVE  f = [form |-> "signal", at |-> f.at, by |-> f.by, nth |-> f.nth,
              saved |-> f.saved]
OBVIOUS

\* A cleanup that begins keeps the other fields of its form.
LEMMA ProtectGoesOn ==
  ASSUME NEW t, NEW f, NEW u, f = [t EXCEPT !.at = "cleanup", !.saved = u],
         NEW at, NEW saved, t = [form |-> "unwind-protect", at |-> at, saved |-> saved]
  PROVE  f = [form |-> "unwind-protect", at |-> f.at, saved |-> f.saved]
OBVIOUS

\* The steps of signal and error keep the lists.
LEMMA ListsSignal ==
  ASSUME LInv, CInv', \/ \E by \in Walks : Signal(by)
                      \/ Raise \/ Matches \/ NextHandler \/ AllDecline \/ SignalUnwinds \/ StringNumberClears
  PROVE  LInv'
<1> DEFINE n == Len(stack)
<1>1. ASSUME NEW by \in Walks, Signal(by) PROVE LInv'
  <2> DEFINE f == [form |-> "signal", at |-> "predicate", by |-> by, nth |-> 1,
                   saved |-> handlers]
  <2>1. Push(f) /\ handlers' = Beyond(handlers, 1) /\ UNCHANGED <<params, restarts>>
    BY <1>1 DEF Signal
  <2>2. f.form = "signal" /\ f.nth = 1 /\ Shape(f, n + 1, stack)
    <3>1. handlers = At("handlers", stack, (n + 1) - 1)
      BY DEF LInv, CInv
    <3>2. 1 <= Len(handlers)
      <4>1. handlers # <<>>
        BY <1>1 DEF Signal
      <4> QED
        BY <4>1, ListsAreSeqs DEF IsSeq
    <3> QED
      BY <3>1, <3>2 DEF Shape
  <2> HIDE DEF f
  <2>3. IsSeq(handlers) /\ IsSeq(params)
    BY ListsAreSeqs
  <2>4. IsSeq(handlers') /\ IsSeq(params')
    BY <2>1, <2>3, BeyondIsSeq DEF IsSeq
  <2>5. /\ Layer("handlers", f, n + 1, handlers) = Beyond(handlers, 1)
        /\ Layer("params", f, n + 1, params) = params
        /\ Layer("restarts", f, n + 1, restarts) = restarts
    BY <2>2, HandlersWalked, ParamsPass, RestartsPass
  <2> QED
    BY <2>1, <2>2, <2>4, <2>5, ListsPushed
<1>2. CASE Raise
  <2>1. UNCHANGED <<stack, handlers, params, restarts>>
    BY <1>2 DEF Raise
  <2> QED
    BY <2>1, ListsStay
<1>3. CASE Matches
  <2>1. /\ stack # <<>> /\ TopGoesTo("handler") /\ UNCHANGED <<handlers, params, restarts>>
    BY <1>3 DEF Matches, TopIs
  <2> QED
    BY <2>1, ListsAtOther
<1>4. CASE NextHandler
  <2> DEFINE f == [Top EXCEPT !.nth = @ + 1, !.at = "predicate"]
             h == At("handlers", stack, n - 1)
             p == At("params", stack, n - 1)
             r == At("restarts", stack, n - 1)
  <2>1. /\ stack # <<>> /\ Top.form = "signal" /\ handlers' = Beyond(Top.saved, Top.nth + 1)
        /\ stack' = [stack EXCEPT ![n].nth = @ + 1, ![n].at = "predicate"]
        /\ UNCHANGED <<params, restarts>>
    BY <1>4 DEF NextHandler
  <2>2. /\ n \in Nat \ {0} /\ Top = stack[n] /\ n \in DOMAIN stack /\ Shape(Top, n, stack)
        /\ IsSeq(h) /\ IsSeq(params)
    BY <2>1, TopShape
  <2>3. stack' = [stack EXCEPT ![n] = f]
    BY <2>1, <2>2
  <2>4. /\ f.form = "signal" /\ f.nth = Top.nth + 1 /\ Top.nth \in Nat /\ Top.saved = h
        /\ Shape(f, n, stack)
    <3>1. /\ Top = [form |-> "signal", at |-> Top.at, by |-> Top.by, nth |-> Top.nth,
                    saved |-> Top.saved]
          /\ Top.nth \in Nat \ {0} /\ Top.saved = h
      BY <2>1, <2>2 DEF Shape
    <3>2. PICK at, by, nth, saved : Top = [form |-> "signal", at |-> at, by |-> by,
                                               nth |-> nth, saved |-> saved]
      BY <3>1, Zenon
    <3>3. f.nth = Top.nth + 1 /\ f.saved = Top.saved
      BY <3>2
    <3>4. f = [form |-> "signal", at |-> f.at, by |-> f.by, nth |-> f.nth,
               saved |-> f.saved]
      <4>1. f = [Top EXCEPT !.nth = @ + 1, !.at = "predicate"]
        OBVIOUS
      <4> HIDE DEF f
      <4> QED
        BY <3>2, <4>1, SignalGoesOn, Zenon
    <3>5. Top.nth + 1 \in Nat \ {0} /\ Top.nth + 1 <= Len(Top.saved)
      <4>1. Top.nth < Len(Top.saved)
        BY <1>4 DEF NextHandler
      <4>2. Len(Top.saved) \in Nat
        BY <2>2, <3>1 DEF IsSeq
      <4> QED
        BY <3>1, <4>1, <4>2
    <3> HIDE DEF f
    <3>6. Shape(f, n, stack)
      BY <3>1, <3>3, <3>4, <3>5 DEF Shape, h
    <3>7. f.form = "signal"
      BY <3>4
    <3> QED
      BY <3>1, <3>3, <3>6, <3>7
  <2> HIDE DEF f, h, p, r
  <2>5. /\ Len(stack') = n /\ stack'[n] = f /\ \A i \in 1 .. n - 1 : stack'[i] = stack[i]
    BY <2>1, <2>3, TopReplaced DEF LInv
  <2>6. handlers' = Layer("handlers", f, n, h)
    BY <2>1, <2>4, HandlersWalked
  <2>7. params' = Layer("params", f, n, p) /\ restarts' = Layer("restarts", f, n, r)
    <3>1. params = p /\ restarts = r
      BY <2>1, TopPasses DEF p, r
    <3> QED
      BY <2>1, <2>4, <3>1, ParamsPass, RestartsPass
  <2>8. IsSeq(handlers') /\ IsSeq(params')
    <3>1. Top.nth + 1 \in Nat
      BY <2>4
    <3>2. IsSeq(Beyond(h, Top.nth + 1))
      BY <2>2, <3>1, BeyondIsSeq
    <3> QED
      BY <2>1, <2>2, <2>4, <3>2 DEF IsSeq
  <2> QED
    BY <2>1, <2>4, <2>5, <2>6, <2>7, <2>8, ListsGoOn DEF h, p, r
<1>5. CASE AllDecline \/ SignalUnwinds \/ StringNumberClears
  <2>1. /\ stack # <<>> /\ Pop /\ Top.form = "signal" /\ handlers' = Top.saved
        /\ UNCHANGED <<params, restarts>>
    BY <1>5 DEF AllDecline, SignalUnwinds, StringNumberClears
  <2>2. Top.saved = At("handlers", stack, n - 1)
    BY <2>1, TopShape DEF Shape
  <2>3. params = At("params", stack, n - 1) /\ restarts = At("restarts", stack, n - 1)
    BY <2>1, TopPasses
  <2> QED
    BY <2>1, <2>2, <2>3, ListsPopped
<1> QED
  BY <1>1, <1>2, <1>3, <1>4, <1>5

\* A form that adds a frame of restarts is entered.
LEMMA ListsOffer ==
  ASSUME LInv, CInv', NEW f, Push(f), f.form \in {"restart-case", "hook"},
         Shape(f, Len(stack) + 1, stack), restarts' = <<RestartFrame(IdsOf(f))>> \o restarts,
         UNCHANGED <<handlers, params>>
  PROVE  LInv'
<1> DEFINE m == Len(stack) + 1
<1>1. /\ Layer("handlers", f, m, handlers) = handlers
      /\ Layer("params", f, m, params) = params
  BY HandlersPass, ParamsPass
<1>2. Layer("restarts", f, m, restarts) = <<RestartFrame(IdsOf(f))>> \o restarts
  <2>1. <<RestartFrame(IdsOf(f))>> = Offered(m, f)
    BY DEF Offered, RestartFrame
  <2> HIDE DEF m
  <2>2. Layer("restarts", f, m, restarts) = Offered(m, f) \o restarts
    BY RestartsAdded
  <2> QED
    BY <2>1, <2>2, Zenon
<1>3. IsSeq(handlers') /\ IsSeq(params')
  BY ListsAreSeqs
<1> QED
  BY <1>1, <1>2, <1>3, ListsPushed

\* The steps of restart-case keep the lists.
LEMMA ListsRestart ==
  ASSUME LInv, CInv', \/ RestartCase \/ RestartLands \/ RestartCaseEnds
                      \/ \E id \in Ids : InvokeRestart(id)
  PROVE  LInv'
<1> DEFINE n == Len(stack)
<1>1. CASE RestartCase
  <2> DEFINE f == [form |-> "restart-case", at |-> "expr", id |-> FreshId, prev |-> restarts]
  <2>1. /\ Push(f) /\ restarts' = <<RestartFrame({FreshId})>> \o restarts
        /\ UNCHANGED <<handlers, params>>
    BY <1>1 DEF RestartCase
  <2>2. f.form = "restart-case" /\ f.id = FreshId /\ Shape(f, n + 1, stack)
    <3>1. restarts = At("restarts", stack, (n + 1) - 1)
      BY DEF LInv, CInv
    <3> QED
      BY <3>1 DEF Shape
  <2> HIDE DEF f
  <2>3. IdsOf(f) = {FreshId}
    BY <2>2 DEF IdsOf
  <2> QED
    BY <2>1, <2>2, <2>3, ListsOffer
<1>2. CASE RestartLands
  <2>1. /\ stack # <<>> /\ TopGoesTo("clause") /\ UNCHANGED <<handlers, params, restarts>>
    BY <1>2 DEF RestartLands
  <2> QED
    BY <2>1, ListsAtOther
<1>3. CASE RestartCaseEnds
  <2>1. /\ stack # <<>> /\ Pop /\ Top.form = "restart-case" /\ restarts' = Top.prev
        /\ UNCHANGED <<handlers, params>>
    BY <1>3 DEF RestartCaseEnds
  <2>2. Top.prev = At("restarts", stack, n - 1)
    BY <2>1, TopShape DEF Shape
  <2>3. handlers = At("handlers", stack, n - 1) /\ params = At("params", stack, n - 1)
    BY <2>1, TopPasses
  <2> QED
    BY <2>1, <2>2, <2>3, ListsPopped
<1>4. ASSUME NEW id \in Ids, InvokeRestart(id) PROVE LInv'
  <2>1. UNCHANGED <<stack, handlers, params, restarts>>
    BY <1>4 DEF InvokeRestart
  <2> QED
    BY <2>1, ListsStay
<1> QED
  BY <1>1, <1>2, <1>3, <1>4

\* Those of unwind-protect do.
LEMMA ListsProtect ==
  ASSUME LInv, CInv', UnwindProtect \/ RunCleanup \/ CleanupReturns \/ CleanupUnwinds
  PROVE  LInv'
<1> DEFINE n == Len(stack)
<1>1. UNCHANGED <<handlers, params, restarts>>
  BY DEF UnwindProtect, RunCleanup, CleanupReturns, CleanupUnwinds
<1>2. IsSeq(handlers') /\ IsSeq(params')
  BY <1>1, ListsAreSeqs
<1>3. CASE UnwindProtect
  <2> DEFINE f == [form |-> "unwind-protect", at |-> "expr", saved |-> Running]
  <2>1. Push(f)
    BY <1>3 DEF UnwindProtect
  <2>2. f.form = "unwind-protect" /\ Shape(f, n + 1, stack)
    BY DEF Shape
  <2> HIDE DEF f
  <2>3. /\ Layer("handlers", f, n + 1, handlers) = handlers
        /\ Layer("params", f, n + 1, params) = params
        /\ Layer("restarts", f, n + 1, restarts) = restarts
    BY <2>2, HandlersPass, ParamsPass, RestartsPass
  <2> QED
    BY <1>1, <1>2, <2>1, <2>2, <2>3, ListsPushed
<1>4. CASE RunCleanup
  <2> DEFINE f == [Top EXCEPT !.at = "cleanup", !.saved = unwind]
             h == At("handlers", stack, n - 1)
             p == At("params", stack, n - 1)
             r == At("restarts", stack, n - 1)
  <2>1. /\ stack # <<>> /\ Top.form = "unwind-protect"
        /\ stack' = [stack EXCEPT ![n].at = "cleanup", ![n].saved = unwind]
    BY <1>4 DEF RunCleanup, TopIs
  <2>2. /\ n \in Nat \ {0} /\ Top = stack[n] /\ n \in DOMAIN stack /\ Shape(Top, n, stack)
    BY <2>1, TopShape
  <2>3. stack' = [stack EXCEPT ![n] = f]
    BY <2>1, <2>2
  <2>4. f.form = "unwind-protect" /\ Shape(f, n, stack)
    <3>1. Top = [form |-> "unwind-protect", at |-> Top.at, saved |-> Top.saved]
      BY <2>1, <2>2 DEF Shape
    <3>2. PICK at, saved : Top = [form |-> "unwind-protect", at |-> at, saved |-> saved]
      BY <3>1, Zenon
    <3>3. f = [form |-> "unwind-protect", at |-> f.at, saved |-> f.saved]
      <4>1. f = [Top EXCEPT !.at = "cleanup", !.saved = unwind]
        OBVIOUS
      <4> HIDE DEF f
      <4> QED
        BY <3>2, <4>1, ProtectGoesOn, Zenon
    <3> HIDE DEF f
    <3> QED
      BY <3>3 DEF Shape
  <2> HIDE DEF f, h, p, r
  <2>5. /\ Len(stack') = n /\ stack'[n] = f /\ \A i \in 1 .. n - 1 : stack'[i] = stack[i]
    BY <2>1, <2>3, TopReplaced DEF LInv
  <2>6. handlers = h /\ params = p /\ restarts = r
    BY <2>1, TopPasses DEF h, p, r
  <2>7. /\ Layer("handlers", f, n, h) = h /\ Layer("params", f, n, p) = p
        /\ Layer("restarts", f, n, r) = r
    BY <2>4, HandlersPass, ParamsPass, RestartsPass
  <2> QED
    BY <1>1, <1>2, <2>1, <2>4, <2>5, <2>6, <2>7, ListsGoOn DEF h, p, r
<1>5. CASE CleanupReturns \/ CleanupUnwinds
  <2>1. stack # <<>> /\ Pop /\ Top.form = "unwind-protect"
    BY <1>5 DEF CleanupReturns, CleanupUnwinds, TopIs
  <2> QED
    BY <1>1, <2>1, ListsPoppedPlain
<1> QED
  BY <1>3, <1>4, <1>5

\* And those of an interrupt.
LEMMA ListsInterrupt ==
  ASSUME LInv, CInv', \/ PollBreaks \/ HookShows \/ Quit \/ Interrupt \/ PollUnwinds
                      \/ \E continues \in BOOLEAN : HookEnds(continues)
  PROVE  LInv'
<1> DEFINE n == Len(stack)
<1>1. CASE PollBreaks
  <2> DEFINE f == [form |-> "hook", at |-> "hook", continue |-> FreshId, abort |-> FreshId2,
                   prev |-> restarts]
  <2>1. /\ Push(f) /\ restarts' = <<RestartFrame({FreshId, FreshId2})>> \o restarts
        /\ UNCHANGED <<handlers, params>>
    BY <1>1 DEF PollBreaks
  <2>2. /\ f.form = "hook" /\ f.continue = FreshId /\ f.abort = FreshId2
        /\ Shape(f, n + 1, stack)
    <3>1. restarts = At("restarts", stack, (n + 1) - 1)
      BY DEF LInv, CInv
    <3> QED
      BY <3>1 DEF Shape
  <2> HIDE DEF f
  <2>3. IdsOf(f) = {FreshId, FreshId2}
    BY <2>2 DEF IdsOf
  <2> QED
    BY <2>1, <2>2, <2>3, ListsOffer
<1>2. ASSUME NEW continues \in BOOLEAN, HookEnds(continues) PROVE LInv'
  <2>1. /\ stack # <<>> /\ Pop /\ Top.form = "hook" /\ restarts' = Top.prev
        /\ UNCHANGED <<handlers, params>>
    BY <1>2 DEF HookEnds, TopIs
  <2>2. Top.prev = At("restarts", stack, n - 1)
    BY <2>1, TopShape DEF Shape
  <2>3. handlers = At("handlers", stack, n - 1) /\ params = At("params", stack, n - 1)
    BY <2>1, TopPasses
  <2> QED
    BY <2>1, <2>2, <2>3, ListsPopped
<1>3. CASE HookShows \/ Quit \/ Interrupt \/ PollUnwinds
  <2>1. UNCHANGED <<stack, handlers, params, restarts>>
    BY <1>3 DEF HookShows, Quit, Interrupt, PollUnwinds
  <2> QED
    BY <2>1, ListsStay
<1> QED
  BY <1>1, <1>2, <1>3

\* Nothing is in force before anything runs.
LEMMA ListsInitFollow == ConditionsInit => LInv
<1> SUFFICES ASSUME ConditionsInit PROVE LInv
  OBVIOUS
<1>1. CInv
  BY ConditionsInitSound
<1>2. stack = <<>> /\ handlers = <<>> /\ params = <<>> /\ restarts = <<>> /\ Len(stack) = 0
  BY DEF ConditionsInit
<1>3. \A list : At(list, stack, 0) = <<>>
  BY AtStep
<1>4. IsSeq(<<>>)
  BY DEF IsSeq
<1> QED
  BY <1>1, <1>2, <1>3, <1>4 DEF LInv

\* No step takes the lists apart from the stack.
LEMMA ListsNextFollow == LInv /\ [ConditionsNext]_conditionVars => LInv'
<1> SUFFICES ASSUME LInv, [ConditionsNext]_conditionVars PROVE LInv'
  OBVIOUS
<1>1. CInv'
  BY ConditionsNextSound DEF LInv
<1>2. CASE UNCHANGED conditionVars
  BY <1>1, <1>2, ListsStay DEF conditionVars
<1>3. CASE ConditionsNext
  <2>1. CASE Try \/ TryCatches \/ TryNoMatch \/ TryReturns \/ TryUnwinds
    BY <1>1, <2>1, ListsTry
  <2>2. CASE \/ HandlerBind \/ InstallHandler \/ HandlerBindEnds
             \/ WithParams \/ InstallParam \/ WithParamsEnds \/ RunBody
    BY <1>1, <2>2, ListsBind
  <2>3. CASE \/ \E by \in Walks : Signal(by)
             \/ Raise \/ Matches \/ NextHandler \/ AllDecline \/ SignalUnwinds \/ StringNumberClears
    BY <1>1, <2>3, ListsSignal
  <2>4. CASE RestartCase \/ RestartLands \/ RestartCaseEnds \/ \E id \in Ids : InvokeRestart(id)
    BY <1>1, <2>4, ListsRestart
  <2>5. CASE UnwindProtect \/ RunCleanup \/ CleanupReturns \/ CleanupUnwinds
    BY <1>1, <2>5, ListsProtect
  <2>6. CASE \/ PollBreaks \/ HookShows \/ Quit \/ Interrupt \/ PollUnwinds
             \/ \E continues \in BOOLEAN : HookEnds(continues)
    BY <1>1, <2>6, ListsInterrupt
  <2>7. CASE Collect \/ HostClears
    <3>1. UNCHANGED <<stack, handlers, params, restarts>>
      BY <2>7 DEF Collect, HostClears
    <3> QED
      BY <1>1, <3>1, ListsStay
  <2> QED
    BY <1>3, <2>1, <2>2, <2>3, <2>4, <2>5, <2>6, <2>7 DEF ConditionsNext
<1> QED
  BY <1>2, <1>3

-----------------------------------------------------------------------------
(***************************************************************************)
(* What the lists hold.  The list below which the first n forms lie has    *)
(* the frames of those forms that no walk among them has reached, the      *)
(* innermost first: HandlersTo, ParamsTo and RestartsTo say so for each    *)
(* list, and one form more keeps it.                                       *)
(***************************************************************************)
Descends(x) == \A a, b \in 1 .. Len(x) : a < b => Outer(x[b], x[a])

FrameOf(f, form, n) ==
  \E i \in 1 .. n : stack[i].form = form /\ \E k \in 1 .. stack[i].bound : f = [owner |-> i, nth |-> k]
ReachedIn(f, n) ==
  \E j \in 1 .. n :
    stack[j].form = "signal" /\ f.owner < j /\ ~Outer(f, stack[j].saved[stack[j].nth])
OfferOf(f, n) ==
  \E i \in 1 .. n : /\ stack[i].form \in {"restart-case", "hook"}
                    /\ f = [owner |-> i, ids |-> IdsOf(stack[i])]

HandlersTo(n) ==
  /\ Descends(At("handlers", stack, n))
  /\ \A f : f \in Range(At("handlers", stack, n)) <=> FrameOf(f, "handler-bind", n) /\ ~ReachedIn(f, n)
ParamsTo(n) ==
  /\ Descends(At("params", stack, n))
  /\ \A f : f \in Range(At("params", stack, n)) <=> FrameOf(f, "with-params", n)
RestartsTo(n) ==
  /\ IsSeq(At("restarts", stack, n))
  /\ LET x == At("restarts", stack, n) IN \A a, b \in 1 .. Len(x) : a < b => x[b].owner < x[a].owner
  /\ \A f : f \in Range(At("restarts", stack, n)) <=> OfferOf(f, n)

\* The entries of a sequence are what it has at its positions.
LEMMA Entries ==
  ASSUME NEW x, IsSeq(x)
  PROVE  /\ Len(x) \in Nat /\ DOMAIN x = 1 .. Len(x)
         /\ \A f : f \in Range(x) <=> \E a \in 1 .. Len(x) : f = x[a]
<1>1. Len(x) \in Nat /\ DOMAIN x = 1 .. Len(x)
  BY DEF IsSeq
<1> QED
  BY <1>1 DEF Range

\* Two sequences one after the other.
LEMMA Joined ==
  ASSUME NEW x, NEW y, IsSeq(x), IsSeq(y)
  PROVE  /\ IsSeq(x \o y) /\ Len(x \o y) = Len(x) + Len(y)
         /\ \A a \in 1 .. Len(x) + Len(y) : (x \o y)[a] = IF a <= Len(x) THEN x[a] ELSE y[a - Len(x)]
         /\ \A f : f \in Range(x \o y) <=> f \in Range(x) \/ f \in Range(y)
<1>1. PICK F : x \in Seq(F)
  BY DEF IsSeq
<1>2. PICK G : y \in Seq(G)
  BY DEF IsSeq
<1>3. x \in Seq(F \cup G) /\ y \in Seq(F \cup G)
  BY <1>1, <1>2, SeqMonotonic
<1>4. /\ x \o y \in Seq(F \cup G) /\ Len(x \o y) = Len(x) + Len(y)
      /\ \A a \in 1 .. Len(x) + Len(y) : (x \o y)[a] = IF a <= Len(x) THEN x[a] ELSE y[a - Len(x)]
  BY <1>3, ConcatProperties
<1>5. IsSeq(x \o y)
  BY <1>4 DEF IsSeq
<1>6. Len(x) \in Nat /\ Len(y) \in Nat
  BY <1>1, <1>2
<1>7. ASSUME NEW f, f \in Range(x \o y) PROVE f \in Range(x) \/ f \in Range(y)
  <2> DEFINE z == x \o y
  <2>0. IsSeq(z) /\ f \in Range(z) /\ Len(z) = Len(x) + Len(y)
    BY <1>4, <1>5, <1>7
  <2> HIDE DEF z
  <2>1. PICK a \in 1 .. Len(x) + Len(y) : f = z[a]
    BY <2>0, Entries
  <2> USE DEF z
  <2>2. CASE a <= Len(x)
    <3>1. a \in 1 .. Len(x) /\ f = x[a]
      BY <1>4, <1>6, <2>1, <2>2
    <3> QED
      BY <3>1, Entries
  <2>3. CASE ~ (a <= Len(x))
    <3>1. a - Len(x) \in 1 .. Len(y) /\ f = y[a - Len(x)]
      BY <1>4, <1>6, <2>1, <2>3
    <3> QED
      BY <3>1, Entries
  <2> QED
    BY <2>2, <2>3
<1>8. ASSUME NEW f, f \in Range(x) PROVE f \in Range(x \o y)
  <2>1. PICK a \in 1 .. Len(x) : f = x[a]
    BY <1>8, Entries
  <2>2. a \in 1 .. Len(x \o y) /\ f = (x \o y)[a]
    BY <1>4, <1>6, <2>1
  <2> QED
    BY <1>5, <2>2, Entries
<1>9. ASSUME NEW f, f \in Range(y) PROVE f \in Range(x \o y)
  <2>1. PICK a \in 1 .. Len(y) : f = y[a]
    BY <1>9, Entries
  <2> DEFINE b == a + Len(x)
  <2>2. b \in 1 .. Len(x) + Len(y) /\ ~(b <= Len(x)) /\ b - Len(x) = a
    BY <1>6
  <2> HIDE DEF b
  <2>3. b \in 1 .. Len(x \o y) /\ f = (x \o y)[b]
    BY <1>4, <2>1, <2>2
  <2> QED
    BY <1>5, <2>3, Entries
<1> QED
  BY <1>4, <1>5, <1>7, <1>8, <1>9

\* What is bound further in comes before what is bound further out.
LEMMA JoinedDescends ==
  ASSUME NEW x, NEW y, IsSeq(x), IsSeq(y), Descends(x), Descends(y),
         \A f \in Range(x) : \A g \in Range(y) : Outer(g, f)
  PROVE  Descends(x \o y)
<1>1. Len(x) \in Nat /\ Len(y) \in Nat
  BY Entries
<1>2. Len(x \o y) = Len(x) + Len(y)
  BY Joined
<1> SUFFICES ASSUME NEW a \in 1 .. Len(x) + Len(y), NEW b \in 1 .. Len(x) + Len(y), a < b
             PROVE  Outer((x \o y)[b], (x \o y)[a])
  BY <1>2 DEF Descends
<1>3. /\ (x \o y)[a] = IF a <= Len(x) THEN x[a] ELSE y[a - Len(x)]
      /\ (x \o y)[b] = IF b <= Len(x) THEN x[b] ELSE y[b - Len(x)]
  BY Joined
<1>4. CASE b <= Len(x)
  <2>1. a \in 1 .. Len(x) /\ b \in 1 .. Len(x) /\ a <= Len(x)
    BY <1>1, <1>4
  <2> QED
    BY <1>3, <1>4, <2>1 DEF Descends
<1>5. CASE ~(b <= Len(x)) /\ a <= Len(x)
  <2>1. a \in 1 .. Len(x) /\ b - Len(x) \in 1 .. Len(y)
    BY <1>1, <1>5
  <2>2. x[a] \in Range(x) /\ y[b - Len(x)] \in Range(y)
    BY <2>1, Entries
  <2> QED
    BY <1>3, <1>5, <2>2
<1>6. CASE ~(b <= Len(x)) /\ ~(a <= Len(x))
  <2>1. a - Len(x) \in 1 .. Len(y) /\ b - Len(x) \in 1 .. Len(y) /\ a - Len(x) < b - Len(x)
    BY <1>1, <1>6
  <2> QED
    BY <1>3, <1>6, <2>1 DEF Descends
<1> QED
  BY <1>4, <1>5, <1>6

\* The frames of one form.
LEMMA OneForm ==
  ASSUME NEW i \in Nat, NEW b \in Nat
  PROVE  /\ IsSeq(HandlersOf(i, b)) /\ Descends(HandlersOf(i, b)) /\ ParamsOf(i, b) = HandlersOf(i, b)
         /\ \A f : f \in Range(HandlersOf(i, b)) <=> \E k \in 1 .. b : f = [owner |-> i, nth |-> k]
<1> DEFINE x == HandlersOf(i, b)
           S == [owner : {i}, nth : Int]
<1>1. x = [k \in 1 .. b |-> [owner |-> i, nth |-> b + 1 - k]]
  BY DEF HandlersOf
<1>2. IsSeq(x) /\ Len(x) = b
  <2>1. \A k \in 1 .. b : [owner |-> i, nth |-> b + 1 - k] \in S
    OBVIOUS
  <2> HIDE DEF S
  <2>2. [k \in 1 .. b |-> [owner |-> i, nth |-> b + 1 - k]] \in [1 .. b -> S]
    BY <2>1
  <2> HIDE DEF x
  <2>3. x \in [1 .. b -> S]
    BY <1>1, <2>2
  <2>4. x \in Seq(S)
    BY <2>3, AreSeqs
  <2>5. Len([k \in 1 .. b |-> [owner |-> i, nth |-> b + 1 - k]]) = b
    OBVIOUS
  <2>6. Len(x) = b
    BY <1>1, <2>5, Zenon
  <2>7. IsSeq(x)
    BY <2>4 DEF IsSeq
  <2> QED
    BY <2>6, <2>7
<1>3. \A k \in 1 .. b : x[k] = [owner |-> i, nth |-> b + 1 - k]
  BY <1>1
<1> HIDE DEF x
<1>4. ASSUME NEW c \in 1 .. b, NEW d \in 1 .. b, c < d PROVE Outer(x[d], x[c])
  <2>1. x[d].owner = x[c].owner /\ x[d].nth = b + 1 - d /\ x[c].nth = b + 1 - c
    <3>1. x[d] = [owner |-> i, nth |-> b + 1 - d] /\ x[c] = [owner |-> i, nth |-> b + 1 - c]
      BY <1>3, Zenon
    <3> QED
      BY <3>1
  <2>2. b + 1 - d < b + 1 - c
    BY <1>4
  <2> QED
    BY <2>1, <2>2 DEF Outer
<1>5. Descends(x)
  BY <1>2, <1>4 DEF Descends
<1>6. ASSUME NEW f, f \in Range(x) PROVE \E k \in 1 .. b : f = [owner |-> i, nth |-> k]
  <2>1. PICK a \in 1 .. b : f = x[a]
    BY <1>2, <1>6, Entries
  <2>2. b + 1 - a \in 1 .. b /\ f = [owner |-> i, nth |-> b + 1 - a]
    BY <1>3, <2>1
  <2> QED
    BY <2>2
<1>7. ASSUME NEW k \in 1 .. b PROVE [owner |-> i, nth |-> k] \in Range(x)
  <2>1. b + 1 - k \in 1 .. b /\ b + 1 - (b + 1 - k) = k
    OBVIOUS
  <2>2. x[b + 1 - k] = [owner |-> i, nth |-> k]
    BY <1>3, <2>1
  <2>3. b + 1 - k \in 1 .. Len(x)
    BY <1>2, <2>1
  <2> QED
    BY <1>2, <2>2, <2>3, Entries
<1>8. ParamsOf(i, b) = x
  <2> DEFINE y == [k \in 1 .. b |-> [owner |-> i, nth |-> k]]
  <2>1. Len(y) = b
    OBVIOUS
  <2>2. Reverse(y) = [k \in 1 .. b |-> y[(b - k) + 1]]
    BY <2>1 DEF Reverse
  <2>3. \A k \in 1 .. b : y[(b - k) + 1] = [owner |-> i, nth |-> b + 1 - k]
    <3> TAKE k \in 1 .. b
    <3>1. (b - k) + 1 \in 1 .. b /\ (b - k) + 1 = b + 1 - k
      OBVIOUS
    <3> QED
      BY <3>1
  <2>4. ParamsOf(i, b) = Reverse(y)
    BY DEF ParamsOf
  <2> HIDE DEF y
  <2> QED
    BY <1>1, <2>2, <2>3, <2>4, Zenon DEF x
<1> QED
  BY <1>2, <1>5, <1>6, <1>7, <1>8 DEF x

\* A frame that a form owns is no frame of the forms below it.
LEMMA FrameStep ==
  ASSUME NEW n \in Nat \ {0}, NEW f, NEW form
  PROVE  /\ FrameOf(f, form, n) <=>
              \/ FrameOf(f, form, n - 1)
              \/ stack[n].form = form /\ \E k \in 1 .. stack[n].bound : f = [owner |-> n, nth |-> k]
         /\ FrameOf(f, form, n - 1) => f.owner \in Nat /\ f.owner < n /\ f.nth \in Nat
<1>1. \A i : i \in 1 .. n <=> i \in 1 .. n - 1 \/ i = n
  OBVIOUS
<1>2. FrameOf(f, form, n) <=>
        \/ FrameOf(f, form, n - 1)
        \/ stack[n].form = form /\ \E k \in 1 .. stack[n].bound : f = [owner |-> n, nth |-> k]
  BY <1>1, Zenon DEF FrameOf
<1>3. ASSUME FrameOf(f, form, n - 1) PROVE f.owner \in Nat /\ f.owner < n /\ f.nth \in Nat
  BY <1>3 DEF FrameOf
<1> QED
  BY <1>2, <1>3

\* A walk reaches frames of the forms below it alone.
LEMMA ReachedStep ==
  ASSUME NEW n \in Nat \ {0}, NEW f
  PROVE  ReachedIn(f, n) <=>
           \/ ReachedIn(f, n - 1)
           \/ /\ stack[n].form = "signal" /\ f.owner < n
              /\ ~Outer(f, stack[n].saved[stack[n].nth])
<1>1. \A i : i \in 1 .. n <=> i \in 1 .. n - 1 \/ i = n
  OBVIOUS
<1> QED
  BY <1>1, Zenon DEF ReachedIn

\* Beyond the frame that a walk is at are those that are outer to it.
LEMMA BeyondIsOuter ==
  ASSUME NEW x, IsSeq(x), Descends(x), NEW k \in Nat \ {0}, k <= Len(x),
         \A f \in Range(x) : f.owner \in Nat /\ f.nth \in Nat
  PROVE  /\ Descends(Beyond(x, k))
         /\ \A f : f \in Range(Beyond(x, k)) <=> f \in Range(x) /\ Outer(f, x[k])
<1> DEFINE y == Beyond(x, k)
           n == Len(x)
<1>1. n \in Nat /\ (\A f : f \in Range(x) <=> \E a \in 1 .. n : f = x[a])
  BY Entries
<1>2. IsSeq(y) /\ Len(y) = n - k /\ \A a \in 1 .. n - k : y[a] = x[k + a]
  <2>1. PICK F : x \in Seq(F)
    BY DEF IsSeq
  <2>2. k + 1 \in Int /\ n \in Int /\ \A i \in k + 1 .. n : x[i] \in F
    BY <2>1
  <2>3. /\ Len(SubSeq(x, k + 1, n)) = IF k + 1 <= n THEN n - (k + 1) + 1 ELSE 0
        /\ \A a \in 1 .. n - (k + 1) + 1 : SubSeq(x, k + 1, n)[a] = x[(k + 1) + a - 1]
    BY <2>2, SubSeqProperties
  <2>4. /\ (IF k + 1 <= n THEN n - (k + 1) + 1 ELSE 0) = n - k /\ n - (k + 1) + 1 = n - k
        /\ \A a \in 1 .. n - k : (k + 1) + a - 1 = k + a
    BY <1>1
  <2>5. y = SubSeq(x, k + 1, n)
    BY DEF Beyond
  <2> HIDE DEF y
  <2>6. Len(y) = n - k /\ \A a \in 1 .. n - k : y[a] = x[k + a]
    BY <2>3, <2>4, <2>5
  <2>7. IsSeq(y)
    BY BeyondIsSeq DEF y
  <2> QED
    BY <2>6, <2>7
<1> HIDE DEF y
<1>3. Descends(y)
  <2> SUFFICES ASSUME NEW a \in 1 .. n - k, NEW b \in 1 .. n - k, a < b PROVE Outer(y[b], y[a])
    BY <1>2 DEF Descends
  <2>1. k + a \in 1 .. n /\ k + b \in 1 .. n /\ k + a < k + b
    BY <1>1
  <2>2. Outer(x[k + b], x[k + a])
    BY <2>1 DEF Descends
  <2> QED
    BY <1>2, <2>2
<1>4. ASSUME NEW f, f \in Range(y) PROVE f \in Range(x) /\ Outer(f, x[k])
  <2>1. PICK a \in 1 .. n - k : f = y[a]
    BY <1>2, <1>4, Entries
  <2>2. k + a \in 1 .. n /\ k \in 1 .. n /\ k < k + a
    BY <1>1
  <2>3. f = x[k + a] /\ Outer(x[k + a], x[k])
    BY <1>2, <2>1, <2>2 DEF Descends
  <2> QED
    BY <1>1, <2>2, <2>3
<1>5. ASSUME NEW f, f \in Range(x), Outer(f, x[k]) PROVE f \in Range(y)
  <2>1. PICK a \in 1 .. n : f = x[a]
    BY <1>1, <1>5
  <2>2. k \in 1 .. n
    BY <1>1
  <2>3. x[k] \in Range(x)
    BY <1>1, <2>2
  <2>4. ~ (a <= k)
    <3>1. ASSUME a = k PROVE FALSE
      BY <1>5, <2>1, <2>3, <3>1 DEF Outer
    <3>2. ASSUME a < k PROVE FALSE
      <4>1. Outer(x[k], f)
        BY <2>1, <2>2, <3>2 DEF Descends
      <4> QED
        BY <1>5, <2>3, <4>1 DEF Outer
    <3> QED
      BY <3>1, <3>2
  <2>5. a - k \in 1 .. n - k /\ k + (a - k) = a
    BY <1>1, <2>4
  <2>6. y[a - k] = f /\ a - k \in 1 .. Len(y)
    BY <1>2, <2>1, <2>5
  <2> QED
    BY <1>2, <2>6, Entries
<1> QED
  BY <1>3, <1>4, <1>5 DEF y

\* One form more: its handlers come in front, and a walk takes off what it has reached.
LEMMA HandlersToNext ==
  ASSUME LInv, NEW n \in 1 .. Len(stack), HandlersTo(n - 1)
  PROVE  HandlersTo(n)
<1> DEFINE f0 == stack[n]
           below == At("handlers", stack, n - 1)
           list == At("handlers", stack, n)
<1>1. n \in Nat \ {0} /\ n - 1 \in 0 .. Len(stack) /\ Len(stack) \in Nat
  BY DEF LInv, CInv
<1>2. list = Layer("handlers", f0, n, below)
  BY <1>1, AtStep
<1>3. IsSeq(below) /\ Shape(f0, n, stack)
  BY <1>1 DEF LInv
<1>4. /\ Descends(below)
      /\ \A f : f \in Range(below) <=>
                  FrameOf(f, "handler-bind", n - 1) /\ ~ReachedIn(f, n - 1)
  BY DEF HandlersTo
<1>5. \A f \in Range(below) : f.owner \in Nat /\ f.owner < n /\ f.nth \in Nat
  BY <1>1, <1>4, FrameStep
<1> HIDE DEF f0, below, list
<1>6. SUFFICES /\ Descends(list)
               /\ \A f : f \in Range(list) <=> FrameOf(f, "handler-bind", n) /\ ~ReachedIn(f, n)
  BY DEF HandlersTo, list
<1>7. CASE f0.form = "handler-bind"
  <2> DEFINE own == HandlersOf(n, f0.bound)
  <2>1. f0.bound \in Nat
    BY <1>3, <1>7 DEF Shape
  <2>2. /\ IsSeq(own) /\ Descends(own)
        /\ \A f : f \in Range(own) <=> \E k \in 1 .. f0.bound : f = [owner |-> n, nth |-> k]
    BY <1>1, <2>1, OneForm
  <2>3. list = own \o below
    BY <1>2, <1>7, HandlersBound
  <2> HIDE DEF own
  <2>4. \A f \in Range(own) : f.owner = n
    BY <2>2
  <2>5. \A f \in Range(own) : \A g \in Range(below) : Outer(g, f)
    BY <1>5, <2>4 DEF Outer
  <2>6. Descends(list)
    BY <1>3, <1>4, <2>2, <2>3, <2>5, JoinedDescends
  <2>7. ASSUME NEW f
        PROVE  f \in Range(list) <=> FrameOf(f, "handler-bind", n) /\ ~ReachedIn(f, n)
    <3>1. f \in Range(list) <=> f \in Range(own) \/ f \in Range(below)
      BY <1>3, <2>2, <2>3, Joined
    <3>2. ReachedIn(f, n) <=> ReachedIn(f, n - 1)
      BY <1>1, <1>7, ReachedStep DEF f0
    <3>3. FrameOf(f, "handler-bind", n) <=> FrameOf(f, "handler-bind", n - 1) \/ f \in Range(own)
      BY <1>1, <1>7, <2>2, FrameStep DEF f0
    <3>4. f \in Range(own) => ~ReachedIn(f, n - 1)
      BY <1>1, <2>4 DEF ReachedIn
    <3> QED
      BY <1>4, <3>1, <3>2, <3>3, <3>4
  <2> QED
    BY <2>6, <2>7
<1>8. CASE f0.form = "signal"
  <2>1. f0.nth \in Nat \ {0} /\ f0.nth <= Len(below) /\ f0.saved = below
    BY <1>3, <1>8 DEF Shape, below
  <2>2. list = Beyond(below, f0.nth)
    BY <1>2, <1>8, HandlersWalked
  <2>3. \A f \in Range(below) : f.owner \in Nat /\ f.nth \in Nat
    BY <1>5
  <2>4. /\ Descends(list)
        /\ \A f : f \in Range(list) <=> f \in Range(below) /\ Outer(f, below[f0.nth])
    BY <1>3, <1>4, <2>1, <2>2, <2>3, BeyondIsOuter
  <2>5. ASSUME NEW f
        PROVE  f \in Range(list) <=> FrameOf(f, "handler-bind", n) /\ ~ReachedIn(f, n)
    <3>1. FrameOf(f, "handler-bind", n) <=> FrameOf(f, "handler-bind", n - 1)
      BY <1>1, <1>8, FrameStep DEF f0
    <3>2. ReachedIn(f, n) <=> ReachedIn(f, n - 1) \/ (f.owner < n /\ ~Outer(f, below[f0.nth]))
      BY <1>1, <1>8, <2>1, ReachedStep DEF f0
    <3>3. f \in Range(below) => f.owner < n
      BY <1>5
    <3> QED
      BY <1>4, <2>4, <3>1, <3>2, <3>3
  <2> QED
    BY <2>4, <2>5
<1>9. CASE f0.form \notin {"handler-bind", "signal"}
  <2>1. list = below
    BY <1>2, <1>9, HandlersPass
  <2>2. ASSUME NEW f
        PROVE  /\ FrameOf(f, "handler-bind", n) <=> FrameOf(f, "handler-bind", n - 1)
               /\ ReachedIn(f, n) <=> ReachedIn(f, n - 1)
    BY <1>1, <1>9, FrameStep, ReachedStep DEF f0
  <2> QED
    BY <1>4, <2>1, <2>2
<1> QED
  BY <1>7, <1>8, <1>9

\* One form more: its params come in front.
LEMMA ParamsToNext ==
  ASSUME LInv, NEW n \in 1 .. Len(stack), ParamsTo(n - 1)
  PROVE  ParamsTo(n)
<1> DEFINE f0 == stack[n]
           below == At("params", stack, n - 1)
           list == At("params", stack, n)
<1>1. n \in Nat \ {0} /\ n - 1 \in 0 .. Len(stack)
  BY DEF LInv, CInv
<1>2. list = Layer("params", f0, n, below)
  BY <1>1, AtStep
<1>3. IsSeq(below) /\ Shape(f0, n, stack)
  BY <1>1 DEF LInv
<1>4. Descends(below) /\ \A f : f \in Range(below) <=> FrameOf(f, "with-params", n - 1)
  BY DEF ParamsTo
<1>5. \A f \in Range(below) : f.owner \in Nat /\ f.owner < n
  BY <1>1, <1>4, FrameStep
<1> HIDE DEF f0, below, list
<1>6. SUFFICES Descends(list) /\ \A f : f \in Range(list) <=> FrameOf(f, "with-params", n)
  BY DEF ParamsTo, list
<1>7. CASE f0.form = "with-params"
  <2> DEFINE own == ParamsOf(n, f0.bound)
  <2>1. f0.bound \in Nat
    BY <1>3, <1>7 DEF Shape
  <2>2. /\ IsSeq(own) /\ Descends(own)
        /\ \A f : f \in Range(own) <=> \E k \in 1 .. f0.bound : f = [owner |-> n, nth |-> k]
    BY <1>1, <2>1, OneForm
  <2>3. list = own \o below
    BY <1>2, <1>7, ParamsBound
  <2> HIDE DEF own
  <2>4. \A f \in Range(own) : \A g \in Range(below) : Outer(g, f)
    BY <1>5, <2>2 DEF Outer
  <2>5. Descends(list)
    BY <1>3, <1>4, <2>2, <2>3, <2>4, JoinedDescends
  <2>6. ASSUME NEW f PROVE f \in Range(list) <=> FrameOf(f, "with-params", n)
    <3>1. f \in Range(list) <=> f \in Range(own) \/ f \in Range(below)
      BY <1>3, <2>2, <2>3, Joined
    <3>2. FrameOf(f, "with-params", n) <=> FrameOf(f, "with-params", n - 1) \/ f \in Range(own)
      BY <1>1, <1>7, <2>2, FrameStep DEF f0
    <3> QED
      BY <1>4, <3>1, <3>2
  <2> QED
    BY <2>5, <2>6
<1>8. CASE f0.form # "with-params"
  <2>1. list = below
    BY <1>2, <1>8, ParamsPass
  <2>2. ASSUME NEW f PROVE FrameOf(f, "with-params", n) <=> FrameOf(f, "with-params", n - 1)
    BY <1>1, <1>8, FrameStep DEF f0
  <2> QED
    BY <1>4, <2>1, <2>2
<1> QED
  BY <1>7, <1>8

\* One form more: its restarts come in front.
LEMMA RestartsToNext ==
  ASSUME LInv, NEW n \in 1 .. Len(stack), RestartsTo(n - 1)
  PROVE  RestartsTo(n)
<1> DEFINE f0 == stack[n]
           below == At("restarts", stack, n - 1)
           list == At("restarts", stack, n)
<1>1. n \in Nat \ {0} /\ n - 1 \in Nat
  BY DEF LInv, CInv
<1>2. list = Layer("restarts", f0, n, below)
  BY <1>1, AtStep
<1>3. /\ IsSeq(below)
      /\ \A a, b \in 1 .. Len(below) : a < b => below[b].owner < below[a].owner
      /\ \A f : f \in Range(below) <=> OfferOf(f, n - 1)
  BY DEF RestartsTo
<1>4. \A i : i \in 1 .. n <=> i \in 1 .. n - 1 \/ i = n
  BY <1>1
<1>5. \A f : OfferOf(f, n) <=>
        \/ OfferOf(f, n - 1)
        \/ f0.form \in {"restart-case", "hook"} /\ f = [owner |-> n, ids |-> IdsOf(f0)]
  BY <1>4, Zenon DEF OfferOf
<1>6. \A f \in Range(below) : f.owner < n
  BY <1>1, <1>3 DEF OfferOf
<1> HIDE DEF f0, below, list
<1>7. SUFFICES /\ IsSeq(list)
               /\ \A a, b \in 1 .. Len(list) : a < b => list[b].owner < list[a].owner
               /\ \A f : f \in Range(list) <=> OfferOf(f, n)
  BY DEF RestartsTo, list
<1>8. CASE f0.form \in {"restart-case", "hook"}
  <2> DEFINE offer == [owner |-> n, ids |-> IdsOf(f0)]
             own == <<offer>>
  <2>1. list = own \o below
    <3>1. own = Offered(n, f0)
      BY DEF Offered
    <3> HIDE DEF own
    <3>2. Layer("restarts", f0, n, below) = Offered(n, f0) \o below
      BY <1>8, RestartsAdded
    <3> QED
      BY <1>2, <3>1, <3>2, Zenon
  <2>2. offer.owner = n
    OBVIOUS
  <2> HIDE DEF offer
  <2>3. IsSeq(own) /\ Len(own) = 1 /\ own[1] = offer /\ \A f : f \in Range(own) <=> f = offer
    <3>1. own \in Seq({offer}) /\ Len(own) = 1 /\ own[1] = offer
      OBVIOUS
    <3>2. IsSeq(own)
      BY <3>1 DEF IsSeq
    <3> HIDE DEF own
    <3>3. \A a : a \in 1 .. 1 <=> a = 1
      OBVIOUS
    <3> QED
      BY <3>1, <3>2, <3>3, Entries
  <2> HIDE DEF own
  <2>4. /\ IsSeq(list) /\ Len(list) = 1 + Len(below)
        /\ \A a \in 1 .. 1 + Len(below) : list[a] = IF a <= 1 THEN own[a] ELSE below[a - 1]
        /\ \A f : f \in Range(list) <=> f = offer \/ f \in Range(below)
    BY <1>3, <2>1, <2>3, Joined
  <2>5. Len(below) \in Nat
    BY <1>3, Entries
  <2>6. ASSUME NEW a \in 1 .. 1 + Len(below), NEW b \in 1 .. 1 + Len(below), a < b
        PROVE  list[b].owner < list[a].owner
    <3>1. b - 1 \in 1 .. Len(below) /\ ~(b <= 1)
      BY <2>5, <2>6
    <3>2. list[b] = below[b - 1]
      BY <2>4, <3>1
    <3>3. CASE a = 1
      <4>1. list[a] = offer
        BY <2>3, <2>4, <3>3
      <4>2. below[b - 1] \in Range(below)
        BY <1>3, <3>1, Entries
      <4> QED
        BY <1>6, <2>2, <3>2, <4>1, <4>2
    <3>4. CASE a # 1
      <4>1. a - 1 \in 1 .. Len(below) /\ ~(a <= 1) /\ a - 1 < b - 1
        BY <2>5, <2>6, <3>4
      <4>2. list[a] = below[a - 1]
        BY <2>4, <4>1
      <4> QED
        BY <1>3, <3>1, <3>2, <4>1, <4>2
    <3> QED
      BY <3>3, <3>4
  <2>7. \A f : f \in Range(list) <=> OfferOf(f, n)
    BY <1>3, <1>5, <1>8, <2>4 DEF offer
  <2> QED
    BY <2>4, <2>6, <2>7
<1>9. CASE f0.form \notin {"restart-case", "hook"}
  <2>1. list = below
    BY <1>2, <1>9, RestartsPass
  <2>2. \A f : OfferOf(f, n) <=> OfferOf(f, n - 1)
    BY <1>5, <1>9
  <2> QED
    BY <1>3, <2>1, <2>2
<1> QED
  BY <1>8, <1>9

\* Nothing is bound below the first form.
LEMMA NothingBelow == HandlersTo(0) /\ ParamsTo(0) /\ RestartsTo(0)
<1>1. At("handlers", stack, 0) = <<>> /\ At("params", stack, 0) = <<>>
      /\ At("restarts", stack, 0) = <<>>
  BY AtStep
<1>2. IsSeq(<<>>) /\ Len(<<>>) = 0 /\ \A a \in 1 .. 0 : FALSE
  BY DEF IsSeq
<1>3. \A f : f \notin Range(<<>>)
  BY <1>2, Entries
<1>4. \A f, form : ~ FrameOf(f, form, 0) /\ ~ OfferOf(f, 0)
  BY <1>2 DEF FrameOf, OfferOf
<1> QED
  BY <1>1, <1>2, <1>3, <1>4 DEF HandlersTo, ParamsTo, RestartsTo, Descends

\* So it is for all forms: there is no smallest number of them for which it fails.
LEMMA BoundByForms ==
  ASSUME LInv
  PROVE  HandlersTo(Len(stack)) /\ ParamsTo(Len(stack)) /\ RestartsTo(Len(stack))
<1> DEFINE Holds(n) == HandlersTo(n) /\ ParamsTo(n) /\ RestartsTo(n)
           Off == {n \in 0 .. Len(stack) : ~ Holds(n)}
<1>1. Len(stack) \in Nat /\ Len(stack) \in 0 .. Len(stack)
  BY DEF LInv, CInv
<1>2. Off = {}
  <2> SUFFICES ASSUME Off # {} PROVE FALSE
    OBVIOUS
  <2> DEFINE n == Min(Off)
  <2>1. n \in Off /\ \A x \in Off : n <= x
    <3>1. Off \subseteq Nat
      OBVIOUS
    <3> QED
      BY <3>1, MinInSet
  <2> HIDE DEF n
  <2>2. n \in 0 .. Len(stack) /\ ~ Holds(n)
    BY <2>1
  <2>3. n # 0
    BY <2>2, NothingBelow
  <2>4. n \in 1 .. Len(stack) /\ n - 1 \in 0 .. Len(stack) /\ ~(n <= n - 1)
    BY <1>1, <2>2, <2>3
  <2>5. Holds(n - 1)
    BY <2>1, <2>4
  <2> QED
    BY <2>2, <2>4, <2>5, HandlersToNext, ParamsToNext, RestartsToNext
<1> QED
  BY <1>1, <1>2

\* Whichever way forms are left, the lists are those of the forms that are still under way,
\* the innermost binding first: no frame outlives the C frame it is in, none that the body of
\* a handler-bind, a with-params, the expression of a restart-case or the break loop is to see
\* is lost, and a handler that runs sees neither itself nor those inside of it
\* (signal_condition, vm_execute_handler_bind, vm_execute_restart_case,
\* vm_execute_with_params, run_interrupt_hook).
THEOREM BindingsAreScoped == ConditionsSpec => []ListsFollowStack
<1>1. LInv => ListsFollowStack
  <2> SUFFICES ASSUME LInv PROVE ListsFollowStack
    OBVIOUS
  <2> DEFINE n == Len(stack)
  <2>1. DOMAIN stack = 1 .. n /\ n \in Nat
    BY DEF LInv, CInv
  <2>2. /\ handlers = At("handlers", stack, n) /\ params = At("params", stack, n)
        /\ restarts = At("restarts", stack, n)
    BY DEF LInv
  <2>3. HandlersTo(n) /\ ParamsTo(n) /\ RestartsTo(n)
    BY BoundByForms
  <2>4. IsSeq(handlers) /\ IsSeq(params) /\ IsSeq(restarts)
    BY <2>2, <2>3, ListsAreSeqs DEF RestartsTo
  <2>5. /\ DOMAIN handlers = 1 .. Len(handlers) /\ DOMAIN params = 1 .. Len(params)
        /\ DOMAIN restarts = 1 .. Len(restarts)
    BY <2>4, Entries
  <2> HIDE DEF n
  <2>6. \A f, form : f \in Installed(form) <=> FrameOf(f, form, n)
    BY <2>1 DEF Installed, FrameOf
  <2>7. \A f : f \in InForce <=> FrameOf(f, "handler-bind", n) /\ ~ReachedIn(f, n)
    BY <2>1, <2>6 DEF InForce, ReachedIn
  <2>8. \A f : f \in RestartFrames <=> OfferOf(f, n)
    BY <2>1 DEF RestartFrames, OfferOf
  <2>9. /\ Range(handlers) = InForce /\ Range(params) = Installed("with-params")
        /\ Range(restarts) = RestartFrames
    <3>1. \A f : f \in Range(handlers) <=> f \in InForce
      BY <2>2, <2>3, <2>7 DEF HandlersTo
    <3>2. \A f : f \in Range(params) <=> f \in Installed("with-params")
      BY <2>2, <2>3, <2>6 DEF ParamsTo
    <3>3. \A f : f \in Range(restarts) <=> f \in RestartFrames
      BY <2>2, <2>3, <2>8 DEF RestartsTo
    <3> QED
      BY <3>1, <3>2, <3>3
  <2>10. /\ \A i, j \in DOMAIN handlers : i < j => Outer(handlers[j], handlers[i])
         /\ \A i, j \in DOMAIN params : i < j => Outer(params[j], params[i])
         /\ \A i, j \in DOMAIN restarts : i < j => restarts[j].owner < restarts[i].owner
    BY <2>2, <2>3, <2>5 DEF HandlersTo, ParamsTo, RestartsTo, Descends
  <2> QED
    BY <2>9, <2>10 DEF ListsFollowStack
<1> QED
  BY ListsInitFollow, ListsNextFollow, <1>1, PTL DEF ConditionsSpec

-----------------------------------------------------------------------------
(***************************************************************************)
(* What unwinds arrives.  AInv adds to CInv what an unwind-protect has put *)
(* off at each of its stages, and that an unwinding that has been put off  *)
(* is to no restart offered above it: the identities of those are ones     *)
(* that were not in use, of which there always are two (FreshIds).  A step *)
(* changes the stack from its top on, Edits(n), and StepArrives says what  *)
(* it has to do with the unwindings for the property to hold of it.        *)
(***************************************************************************)

Offers(f) == f.form \in {"restart-case", "hook"}

\* What an unwind-protect has put off; and a restart has an identity.
ProtectOK(f) ==
  /\ f.form = "unwind-protect" =>
       /\ "at" \in DOMAIN f /\ f.at \in {"expr", "cleanup"}
       /\ f.at = "expr" => f.saved = Running
  /\ f.form = "restart-case" => "at" \in DOMAIN f /\ "id" \in DOMAIN f

\* The form s[i] offers no restart that one of those below it has put an unwinding to.
OffersNew(s, i) ==
  \A j \in 1 .. i - 1 :
    s[j].form = "unwind-protect" /\ s[j].saved.kind = "RESTART" /\ Offers(s[i]) =>
      s[j].saved.id \notin IdsOf(s[i])

AInv ==
  /\ CInv
  /\ \A i \in 1 .. Len(stack) : ProtectOK(stack[i]) /\ OffersNew(stack, i)

-----------------------------------------------------------------------------
(* Lemmas *)

\* The identities of a form, one or two.
LowId(f) == CASE f.form = "restart-case" -> f.id
              [] f.form = "hook" -> f.continue
              [] f.form = "unwind-protect" -> f.saved.id
              [] OTHER -> NoId
HighId(f) == IF f.form = "hook" THEN f.abort ELSE LowId(f)
UsedIds == {unwind.id} \cup UNION {IdsOf(stack[i]) : i \in DOMAIN stack}

\* The identities that are in use leave out two at least, while a form more may be entered.
LEMMA FewIdsUsed ==
  ASSUME CInv, Len(stack) < MaxStack, NEW x
  PROVE  Ids \ (UsedIds \cup {x}) # {}
<1> DEFINE n == Len(stack)
           Low == {LowId(stack[i]) : i \in 1 .. n}
           High == {HighId(stack[i]) : i \in 1 .. n}
<1>1. n \in Nat /\ MaxStack \in Nat /\ DOMAIN stack = 1 .. n /\ n < MaxStack
  BY ConditionsAssumption DEF CInv
<1>2. IsFiniteSet(1 .. n) /\ Cardinality(1 .. n) = n
  <2>1. n \in Int /\ 1 \in Int /\ (IF 1 > n THEN 0 ELSE n - 1 + 1) = n
    BY <1>1
  <2> HIDE DEF n
  <2> QED
    BY <2>1, FS_Interval
<1>3. IsFiniteSet(Low) /\ Cardinality(Low) <= n
  <2>1. [i \in 1 .. n |-> LowId(stack[i])] \in Surjection(1 .. n, Low)
    BY DEF Surjection
  <2> HIDE DEF Low, n
  <2> QED
    BY <1>2, <2>1, FS_Surjection
<1>4. IsFiniteSet(High) /\ Cardinality(High) <= n
  <2>1. [i \in 1 .. n |-> HighId(stack[i])] \in Surjection(1 .. n, High)
    BY DEF Surjection
  <2> HIDE DEF High, n
  <2> QED
    BY <1>2, <2>1, FS_Surjection
<1>5. UsedIds \subseteq {unwind.id} \cup (Low \cup High)
  <2>1. \A i \in 1 .. n : IdsOf(stack[i]) \subseteq {LowId(stack[i]), HighId(stack[i])}
    BY DEF IdsOf, LowId, HighId
  <2> QED
    BY <1>1, <2>1 DEF UsedIds
<1> HIDE DEF Low, High
<1>6. IsFiniteSet(Low \cup High) /\ Cardinality(Low \cup High) <= n + n
  <2>1. /\ IsFiniteSet(Low \cup High) /\ IsFiniteSet(Low \cap High)
        /\ Cardinality(Low \cup High) = Cardinality(Low) + Cardinality(High) - Cardinality(Low \cap High)
    BY <1>3, <1>4, FS_Union, FS_Intersection
  <2>2. /\ Cardinality(Low) \in Nat /\ Cardinality(High) \in Nat
        /\ Cardinality(Low \cap High) \in Nat
    BY <1>3, <1>4, <2>1, FS_CardinalityType
  <2> QED
    BY <1>1, <1>3, <1>4, <2>1, <2>2
<1> DEFINE most == ((Low \cup High) \cup {unwind.id}) \cup {x}
<1>7. IsFiniteSet(most) /\ Cardinality(most) <= n + n + 2
  <2>1. n + n \in Nat /\ n + n + 1 \in Nat /\ (n + n + 1) + 1 = n + n + 2
    BY <1>1
  <2> HIDE DEF n
  <2>2. /\ IsFiniteSet((Low \cup High) \cup {unwind.id})
        /\ Cardinality((Low \cup High) \cup {unwind.id}) <= n + n + 1
    BY <1>6, <2>1, OneMoreElement
  <2>3. IsFiniteSet(most) /\ Cardinality(most) <= (n + n + 1) + 1
    BY <2>1, <2>2, OneMoreElement
  <2> QED
    BY <2>1, <2>3
<1>8. IsFiniteSet(Ids) /\ Cardinality(Ids) = 2 * MaxStack + 2
  <2> DEFINE k == 2 * MaxStack + 2
  <2>1. k \in Int /\ 1 \in Int /\ (IF 1 > k THEN 0 ELSE k - 1 + 1) = k
    BY <1>1
  <2> HIDE DEF k
  <2>2. IsFiniteSet(1 .. k) /\ Cardinality(1 .. k) = k
    BY <2>1, FS_Interval
  <2> QED
    BY <2>2 DEF Ids, k
<1>9. ~ (Ids \subseteq most)
  <2> HIDE DEF most
  <2>1. Ids \subseteq most => Cardinality(Ids) <= Cardinality(most)
    BY <1>7, FS_Subset
  <2>2. Cardinality(most) \in Nat
    BY <1>7, FS_CardinalityType
  <2> QED
    BY <1>1, <1>7, <1>8, <2>1, <2>2
<1> QED
  BY <1>5, <1>9

\* The identities that a new form takes are not in use.
LEMMA FreshIds ==
  ASSUME CInv, Len(stack) < MaxStack
  PROVE  FreshId \notin UsedIds /\ FreshId2 \notin UsedIds
<1>1. UnusedIds = Ids \ UsedIds /\ UnusedIds \subseteq Nat
  <2>1. MaxStack \in Nat
    BY ConditionsAssumption
  <2> QED
    BY <2>1 DEF UnusedIds, UsedIds, Ids
<1>2. UnusedIds # {}
  BY <1>1, FewIdsUsed
<1>3. UnusedIds \ {FreshId} # {} /\ UnusedIds \ {FreshId} \subseteq Nat
  <2>1. Ids \ (UsedIds \cup {FreshId}) # {}
    BY FewIdsUsed
  <2> QED
    BY <1>1, <2>1
<1>4. FreshId \in UnusedIds
  BY <1>1, <1>2, MinInSet DEF FreshId
<1>5. FreshId2 \in UnusedIds \ {FreshId}
  BY <1>3, MinInSet DEF FreshId2
<1> QED
  BY <1>1, <1>4, <1>5

-----------------------------------------------------------------------------
(* What a step has to do *)

\* The first n forms stay, and one more may be above them, before and after.
Edits(n) ==
  /\ n \in {Len(stack), Len(stack) - 1} /\ n \in Nat
  /\ Len(stack') \in {n, n + 1}
  /\ \A i \in 1 .. n : stack'[i] = stack[i]

\* The kinds of unwinding that UnwindsArrive is about.
Travels(u) == u.kind \in {"QUIT", "RESTART"}

\* The unwinding stays under way, has arrived, or has come out of a handler that
\* string->number asked.
GoesOn ==
  Travels(unwind) =>
    \/ unwind \in InFlight' \/ stack = <<>> \/ Awaits(Top, unwind.id)
    \/ Top.form = "signal" /\ Top.by = "string->number"

\* What the form on top has put off is taken up or replaced when the form goes on.
TakenUp ==
  stack # <<>> /\ Top.form = "unwind-protect" /\ Travels(Top.saved) =>
    Top.saved \in InFlight' \/ (unwind.active /\ Top.at = "cleanup")

Arrival ==
  \A u \in InFlight :
    u.kind = "QUIT" \/ (u.kind = "RESTART" /\ Awaited(u.id)) =>
      \/ u \in InFlight' /\ (u.kind = "RESTART" => Awaited(u.id)')
      \/ u = unwind /\ (stack = <<>> \/ Awaits(Top, u.id))
      \/ unwind.active /\ TopIs("unwind-protect", "cleanup") /\ Top.saved = u
      \/ u = unwind /\ Top.form = "signal" /\ Top.by = "string->number"

\* Such a step keeps the invariant when a form that it enters or changes does.
LEMMA EditKeeps ==
  ASSUME AInv, CInv', NEW n, Edits(n),
         Len(stack') = n + 1 => ProtectOK(stack'[n + 1]) /\ OffersNew(stack', n + 1)
  PROVE  AInv'
<1>1. ASSUME NEW i \in 1 .. Len(stack') PROVE ProtectOK(stack'[i]) /\ OffersNew(stack', i)
  <2>1. CASE i \in 1 .. n
    <3>1. i \in 1 .. Len(stack) /\ stack'[i] = stack[i]
      BY <2>1 DEF Edits
    <3>2. \A j \in 1 .. i - 1 : stack'[j] = stack[j]
      BY <2>1 DEF Edits
    <3> QED
      BY <3>1, <3>2 DEF AInv, OffersNew
  <2>2. CASE i = n + 1 /\ Len(stack') = n + 1
    BY <2>2
  <2> QED
    BY <2>1, <2>2 DEF Edits
<1> QED
  BY <1>1 DEF AInv, ProtectOK, OffersNew, Offers, IdsOf, Running

\* Such a step takes no unwinding from its way.
LEMMA EditArrives ==
  ASSUME AInv, CInv', NEW n, Edits(n), GoesOn, n = Len(stack) \/ TakenUp
  PROVE  Arrival
<1> SUFFICES ASSUME NEW u \in InFlight, u.kind = "QUIT" \/ (u.kind = "RESTART" /\ Awaited(u.id))
             PROVE  \/ u \in InFlight' /\ (u.kind = "RESTART" => Awaited(u.id)')
                    \/ u = unwind /\ (stack = <<>> \/ Awaits(Top, u.id))
                    \/ unwind.active /\ TopIs("unwind-protect", "cleanup") /\ Top.saved = u
                    \/ u = unwind /\ Top.form = "signal" /\ Top.by = "string->number"
  BY DEF Arrival
<1>1. Travels(u)
  BY DEF Travels
<1>2. DOMAIN stack = 1 .. Len(stack) /\ DOMAIN stack' = 1 .. Len(stack') /\ Len(stack) \in Nat
  BY DEF AInv, CInv
<1>3. \A i \in 1 .. n : i \in DOMAIN stack' /\ stack'[i] = stack[i]
  <2>1. n \in Nat /\ (Len(stack') = n \/ Len(stack') = n + 1) /\ \A i \in 1 .. n : stack'[i] = stack[i]
    BY DEF Edits
  <2>2. \A i \in 1 .. n : i \in 1 .. n + 1
    BY <2>1
  <2>3. \A i \in 1 .. n : i \in 1 .. Len(stack')
    BY <2>1, <2>2
  <2> QED
    BY <1>2, <2>1, <2>3
<1>4. ASSUME NEW i \in DOMAIN stack, i \notin 1 .. n
      PROVE  n # Len(stack) /\ i = Len(stack) /\ stack # <<>> /\ Top = stack[i]
  <2>1. n = Len(stack) \/ n = Len(stack) - 1
    BY DEF Edits
  <2>2. i \in 1 .. Len(stack)
    BY <1>2, <1>4
  <2>3. n # Len(stack) /\ i = Len(stack)
    BY <1>2, <1>4, <2>1, <2>2
  <2>4. stack # <<>>
    BY <1>4
  <2> QED
    BY <2>3, <2>4, Tops DEF AInv
<1>5. ASSUME u.kind = "RESTART", ~ Awaited(u.id)'
      PROVE  stack # <<>> /\ Awaits(Top, u.id) /\ n # Len(stack)
  <2>1. PICK i \in DOMAIN stack : Awaits(stack[i], u.id)
    BY <1>5 DEF Awaited
  <2>2. i \notin 1 .. n
    BY <1>3, <1>5, <2>1 DEF Awaited
  <2> QED
    BY <1>4, <2>1, <2>2
<1>6. CASE u = unwind
  BY <1>1, <1>5, <1>6 DEF GoesOn
<1>7. ASSUME NEW j \in DOMAIN stack, stack[j].form = "unwind-protect", u = stack[j].saved
      PROVE  \/ u \in InFlight' /\ (u.kind = "RESTART" => Awaited(u.id)')
             \/ unwind.active /\ TopIs("unwind-protect", "cleanup") /\ Top.saved = u
  <2>1. CASE j \in 1 .. n
    <3>1. u \in InFlight'
      BY <1>3, <1>7, <2>1 DEF InFlight
    <3>2. ASSUME u.kind = "RESTART", ~ Awaited(u.id)' PROVE FALSE
      <4>1. stack # <<>> /\ Awaits(Top, u.id) /\ n # Len(stack)
        BY <1>5, <3>2
      <4>2. Len(stack) \in 1 .. Len(stack) /\ Top = stack[Len(stack)]
        BY <4>1, Tops DEF AInv
      <4>3. j \in 1 .. Len(stack) - 1
        BY <1>2, <2>1, <4>1 DEF Edits
      <4> QED
        BY <1>7, <3>2, <4>1, <4>2, <4>3 DEF AInv, OffersNew, Awaits, Offers
    <3> QED
      BY <3>1, <3>2
  <2>2. CASE j \notin 1 .. n
    <3>1. n # Len(stack) /\ stack # <<>> /\ Top = stack[j]
      BY <1>4, <2>2
    <3>2. u \in InFlight' \/ (unwind.active /\ Top.at = "cleanup")
      BY <1>1, <1>7, <3>1 DEF TakenUp
    <3>3. u.kind = "RESTART" => Awaited(u.id)'
      BY <1>5, <1>7, <3>1 DEF Awaits
    <3> QED
      BY <1>7, <3>1, <3>2, <3>3 DEF TopIs
  <2> QED
    BY <2>1, <2>2
<1> QED
  BY <1>6, <1>7 DEF InFlight

\* A form is entered.
LEMMA EnteredArrives ==
  ASSUME AInv, CInv', NEW f, Push(f), UNCHANGED unwind, ProtectOK(f),
         Offers(f) => IdsOf(f) \cap UsedIds = {}
  PROVE  AInv' /\ Arrival
<1> DEFINE n == Len(stack)
<1>1. /\ Len(stack') = n + 1 /\ n \in Nat
      /\ stack'[n + 1] = f
      /\ \A i \in 1 .. n : stack'[i] = stack[i]
  BY Pushed DEF AInv
<1>2. Edits(n)
  BY <1>1 DEF Edits
<1>3. OffersNew(stack', n + 1)
  <2>1. \A j \in 1 .. n : stack[j].form = "unwind-protect" => stack[j].saved.id \in UsedIds
    <3>1. DOMAIN stack = 1 .. n
      BY DEF AInv, CInv
    <3> QED
      BY <3>1 DEF UsedIds, IdsOf
  <2>2. \A j \in 1 .. (n + 1) - 1 : j \in 1 .. n
    BY <1>1
  <2> HIDE DEF n
  <2> QED
    BY <1>1, <2>1, <2>2 DEF OffersNew
<1>4. GoesOn
  BY DEF GoesOn, InFlight
<1> QED
  BY <1>1, <1>2, <1>3, <1>4, EditKeeps, EditArrives

\* The form on top is left.
LEMMA LeftArrives ==
  ASSUME AInv, CInv', stack # <<>>, Pop, GoesOn, TakenUp
  PROVE  AInv' /\ Arrival
<1> DEFINE n == Len(stack) - 1
<1>1. /\ Len(stack') = n /\ n \in Nat /\ n # n + 1
      /\ \A i \in 1 .. n : stack'[i] = stack[i]
  BY Popped DEF AInv
<1>2. Edits(n)
  BY <1>1 DEF Edits
<1> HIDE DEF n
<1> QED
  BY <1>1, <1>2, EditKeeps, EditArrives

\* What is below the top is not the top.
LEMMA BelowTop == \A k \in Nat : \A i \in 1 .. k - 1 : i \in 1 .. k /\ i # k
  OBVIOUS

\* The form on top goes on.
LEMMA ChangedArrives ==
  ASSUME AInv, CInv', stack # <<>>, NEW f, stack' = [stack EXCEPT ![Len(stack)] = f],
         f.form = Top.form, Offers(f) => IdsOf(f) = IdsOf(Top), ProtectOK(f), GoesOn, TakenUp
  PROVE  AInv' /\ Arrival
<1> DEFINE n == Len(stack) - 1
<1>1. Len(stack) \in 1 .. Len(stack) /\ Top = stack[Len(stack)]
  BY Tops DEF AInv
<1>2. DOMAIN stack = 1 .. Len(stack) /\ Len(stack) \in Nat
  BY DEF AInv, CInv
<1>4. /\ Len(stack') = Len(stack) /\ stack'[Len(stack)] = f
      /\ \A i \in 1 .. n : stack'[i] = stack[i]
  <2>1. PICK F : stack \in Seq(F)
    BY DEF AInv, CInv
  <2>2. stack \in Seq(F \cup {f})
    BY <2>1, SeqMonotonic
  <2>3. /\ Len(stack') = Len(stack)
        /\ \A i \in 1 .. Len(stack) : stack'[i] = IF i = Len(stack) THEN f ELSE stack[i]
    BY <1>1, <2>2
  <2>4. \A i \in 1 .. n : i \in 1 .. Len(stack) /\ i # Len(stack)
    BY <1>2, BelowTop
  <2> QED
    BY <1>1, <2>3, <2>4
<1>5. n \in Nat /\ n + 1 = Len(stack)
  BY <1>1, <1>2
<1>6. Edits(n)
  BY <1>4, <1>5 DEF Edits
<1>7. OffersNew(stack', n + 1)
  <2>1. OffersNew(stack, n + 1)
    BY <1>1, <1>5 DEF AInv
  <2>2. \A j \in 1 .. (n + 1) - 1 : stack'[j] = stack[j]
    BY <1>4, <1>5
  <2>3. f.form = stack[n + 1].form /\ (Offers(f) => IdsOf(f) = IdsOf(stack[n + 1]))
    BY <1>1, <1>5
  <2>4. stack'[n + 1] = f
    BY <1>4, <1>5
  <2> HIDE DEF n
  <2> QED
    BY <2>1, <2>2, <2>3, <2>4 DEF OffersNew, Offers
<1> QED
  BY <1>4, <1>5, <1>6, <1>7, EditKeeps, EditArrives

\* The forms stay as they are.
LEMMA StayedArrives ==
  ASSUME AInv, CInv', UNCHANGED stack, GoesOn
  PROVE  AInv' /\ Arrival
<1> DEFINE n == Len(stack)
<1>1. n \in Nat /\ Len(stack') = n /\ n # n + 1
  BY DEF AInv, CInv
<1>2. Edits(n)
  BY <1>1 DEF Edits
<1> QED
  BY <1>1, <1>2, EditKeeps, EditArrives

\* An unwinding that is left alone goes on, and none is noted while code runs.
LEMMA CalmGoesOn ==
  ASSUME CInv, UNCHANGED unwind \/ Runs
  PROVE  GoesOn
<1>1. CASE UNCHANGED unwind
  BY <1>1 DEF GoesOn, InFlight
<1>2. CASE Runs
  BY <1>2 DEF CInv, UnwindOK, Runs, Running, GoesOn, Travels
<1> QED
  BY <1>1, <1>2

-----------------------------------------------------------------------------
(* The steps, form by form *)

\* The form on top of one of the kinds that put nothing off and offer nothing.
LEMMA PlainTop ==
  ASSUME AInv, stack # <<>>, Top.form \notin {"unwind-protect", "restart-case", "hook"}
  PROVE  /\ TakenUp
         /\ \A f : f.form = Top.form => ProtectOK(f) /\ ~ Offers(f)
  BY DEF TakenUp, ProtectOK, Offers

\* A form of these is entered.
LEMMA PlainEntered ==
  ASSUME AInv, CInv', NEW f, Push(f), UNCHANGED unwind,
         f.form \notin {"unwind-protect", "restart-case", "hook"}
  PROVE  AInv' /\ Arrival
<1>1. ProtectOK(f) /\ ~ Offers(f)
  BY DEF ProtectOK, Offers
<1> QED
  BY <1>1, EnteredArrives

\* try takes up conditions alone.
LEMMA TryArrives ==
  ASSUME AInv, CInv', Try \/ TryCatches \/ TryNoMatch \/ TryReturns \/ TryUnwinds
  PROVE  AInv' /\ Arrival
<1>1. CASE Try
  <2> DEFINE f == [form |-> "try", at |-> "body"]
  <2>1. Push(f) /\ UNCHANGED unwind /\ f.form = "try"
    BY <1>1 DEF Try
  <2> HIDE DEF f
  <2> QED
    BY <2>1, PlainEntered
<1>2. CASE TryCatches
  <2> DEFINE f == [Top EXCEPT !.at = "catching"]
  <2>1. stack # <<>> /\ Top.form = "try" /\ unwind.kind = "CONDITION"
    BY <1>2 DEF TryCatches, TopIs
  <2>2. FormOK(Top) /\ Top = stack[Len(stack)]
    BY <2>1, Tops DEF AInv
  <2>3. stack' = [stack EXCEPT ![Len(stack)] = f]
    BY <1>2, <2>2 DEF TryCatches, TopGoesTo
  <2>4. f.form = Top.form
    BY <2>2 DEF FormOK
  <2>5. GoesOn
    BY <2>1 DEF GoesOn, Travels
  <2> HIDE DEF f
  <2> QED
    BY <2>1, <2>3, <2>4, <2>5, PlainTop, ChangedArrives
<1>3. CASE TryNoMatch \/ TryReturns \/ TryUnwinds
  <2>1. stack # <<>> /\ Pop /\ Top.form = "try" /\ (UNCHANGED unwind \/ Runs)
    BY <1>3 DEF TryNoMatch, TryReturns, TryUnwinds, TopIs
  <2> QED
    BY <2>1, CalmGoesOn, PlainTop, LeftArrives DEF AInv
<1> QED
  BY <1>1, <1>2, <1>3

\* handler-bind and with-params take up nothing.
LEMMA BindArrives ==
  ASSUME AInv, CInv', \/ HandlerBind \/ InstallHandler \/ HandlerBindEnds
                      \/ WithParams \/ InstallParam \/ WithParamsEnds \/ RunBody
  PROVE  AInv' /\ Arrival
<1>1. UNCHANGED unwind /\ GoesOn
  <2>1. UNCHANGED unwind
    BY DEF HandlerBind, InstallHandler, HandlerBindEnds, WithParams, InstallParam,
           WithParamsEnds, RunBody
  <2> QED
    BY <2>1, CalmGoesOn DEF AInv
<1>2. ASSUME NEW form \in {"handler-bind", "with-params"}, NEW old,
             Push([form |-> form, at |-> "binding", bound |-> 0, old |-> old])
      PROVE  AInv' /\ Arrival
  <2> DEFINE f == [form |-> form, at |-> "binding", bound |-> 0, old |-> old]
  <2>1. f.form \notin {"unwind-protect", "restart-case", "hook"} /\ Push(f)
    BY <1>2
  <2> HIDE DEF f
  <2> QED
    BY <1>1, <2>1, PlainEntered
<1>3. CASE HandlerBind \/ WithParams
  BY <1>2, <1>3 DEF HandlerBind, WithParams
<1>4. CASE InstallHandler \/ InstallParam \/ RunBody
  <2>1. stack # <<>> /\ Top.form \in {"handler-bind", "with-params"}
    BY <1>4 DEF InstallHandler, InstallParam, RunBody, TopIs
  <2>2. FormOK(Top) /\ Top = stack[Len(stack)]
    BY <2>1, Tops DEF AInv
  <2>3. ASSUME NEW f, f = [Top EXCEPT !.bound = @ + 1] \/ f = [Top EXCEPT !.at = "body"]
        PROVE  f.form = Top.form
    BY <2>2, <2>3 DEF FormOK
  <2>4. \/ stack' = [stack EXCEPT ![Len(stack)] = [Top EXCEPT !.bound = @ + 1]]
        \/ stack' = [stack EXCEPT ![Len(stack)] = [Top EXCEPT !.at = "body"]]
    BY <1>4, <2>2 DEF InstallHandler, InstallParam, RunBody, Bound, TopGoesTo
  <2>5. ASSUME NEW f, f.form = Top.form, stack' = [stack EXCEPT ![Len(stack)] = f]
        PROVE  AInv' /\ Arrival
    BY <1>1, <2>1, <2>5, PlainTop, ChangedArrives
  <2> QED
    BY <2>3, <2>4, <2>5
<1>5. CASE HandlerBindEnds \/ WithParamsEnds
  <2>1. stack # <<>> /\ Pop /\ Top.form \in {"handler-bind", "with-params"}
    BY <1>5 DEF HandlerBindEnds, WithParamsEnds
  <2> QED
    BY <1>1, <2>1, PlainTop, LeftArrives
<1> QED
  BY <1>3, <1>4, <1>5

\* Nor does a walk over the handlers, but for that of string->number.
LEMMA SignalArrives ==
  ASSUME AInv, CInv', \/ \E by \in Walks : Signal(by)
                      \/ Raise \/ Matches \/ NextHandler \/ AllDecline \/ SignalUnwinds \/ StringNumberClears
  PROVE  AInv' /\ Arrival
<1>1. GoesOn
  <2>1. CASE StringNumberClears
    BY <2>1 DEF StringNumberClears, GoesOn
  <2>2. CASE UNCHANGED unwind \/ Runs
    BY <2>2, CalmGoesOn DEF AInv
  <2> QED
    BY <2>1, <2>2 DEF Signal, Raise, Matches, NextHandler, AllDecline, SignalUnwinds
<1>2. ASSUME NEW by \in Walks, Signal(by) PROVE AInv' /\ Arrival
  <2> DEFINE f == [form |-> "signal", at |-> "predicate", by |-> by, nth |-> 1,
                   saved |-> handlers]
  <2>1. Push(f) /\ UNCHANGED unwind /\ f.form = "signal"
    BY <1>2 DEF Signal
  <2> HIDE DEF f
  <2> QED
    BY <2>1, PlainEntered
<1>3. CASE Raise
  BY <1>1, <1>3, StayedArrives DEF Raise
<1>4. CASE Matches \/ NextHandler
  <2>1. stack # <<>> /\ Top.form = "signal"
    BY <1>4 DEF Matches, NextHandler, TopIs
  <2>2. FormOK(Top) /\ Top = stack[Len(stack)] /\ Len(stack) \in DOMAIN stack
    BY <2>1, Tops DEF AInv, CInv
  <2>3. ASSUME NEW f, \/ f = [Top EXCEPT !.at = "handler"]
                      \/ f = [Top EXCEPT !.nth = @ + 1, !.at = "predicate"]
        PROVE  f.form = Top.form
    BY <2>2, <2>3 DEF FormOK
  <2>4. \/ stack' = [stack EXCEPT ![Len(stack)] = [Top EXCEPT !.at = "handler"]]
        \/ stack' = [stack EXCEPT ![Len(stack)] = [Top EXCEPT !.nth = @ + 1, !.at = "predicate"]]
    BY <1>4, <2>2 DEF Matches, NextHandler, TopGoesTo
  <2>5. ASSUME NEW f, f.form = Top.form, stack' = [stack EXCEPT ![Len(stack)] = f]
        PROVE  AInv' /\ Arrival
    BY <1>1, <2>1, <2>5, PlainTop, ChangedArrives
  <2> QED
    BY <2>3, <2>4, <2>5
<1>5. CASE AllDecline \/ SignalUnwinds \/ StringNumberClears
  <2>1. stack # <<>> /\ Pop /\ Top.form = "signal"
    BY <1>5 DEF AllDecline, SignalUnwinds, StringNumberClears
  <2> QED
    BY <1>1, <2>1, PlainTop, LeftArrives
<1> QED
  BY <1>2, <1>3, <1>4, <1>5

\* A restart-case takes up what unwinds to its own restart, whose identity is its own.
LEMMA RestartArrives ==
  ASSUME AInv, CInv', \/ RestartCase \/ RestartLands \/ RestartCaseEnds
                      \/ \E id \in Ids : InvokeRestart(id)
  PROVE  AInv' /\ Arrival
<1>1. CASE RestartCase
  <2> DEFINE f == [form |-> "restart-case", at |-> "expr", id |-> FreshId, prev |-> restarts]
  <2>1. Push(f) /\ UNCHANGED unwind
    BY <1>1 DEF RestartCase
  <2>2. ProtectOK(f) /\ IdsOf(f) = {FreshId}
    BY DEF ProtectOK, IdsOf
  <2>3. FreshId \notin UsedIds
    BY <2>1, FreshIds DEF AInv, Push
  <2> HIDE DEF f
  <2> QED
    BY <2>1, <2>2, <2>3, EnteredArrives
<1>2. CASE RestartLands
  <2> DEFINE f == [Top EXCEPT !.at = "clause"]
  <2>1. stack # <<>> /\ Top.form = "restart-case" /\ ForThis
    BY <1>2 DEF RestartLands
  <2>2. FormOK(Top) /\ Top = stack[Len(stack)] /\ ProtectOK(Top)
    BY <2>1, Tops DEF AInv
  <2>3. stack' = [stack EXCEPT ![Len(stack)] = f]
    BY <1>2, <2>2 DEF RestartLands, TopGoesTo
  <2>4. f.form = Top.form /\ f.id = Top.id /\ DOMAIN f = DOMAIN Top
    BY <2>1, <2>2 DEF FormOK, ProtectOK
  <2> HIDE DEF f
  <2>5. IdsOf(f) = IdsOf(Top) /\ ProtectOK(f)
    BY <2>1, <2>2, <2>4 DEF IdsOf, ProtectOK
  <2>6. GoesOn /\ TakenUp
    BY <2>1 DEF GoesOn, TakenUp, ForThis, Awaits, IdsOf
  <2> QED
    BY <2>1, <2>3, <2>4, <2>5, <2>6, ChangedArrives
<1>3. CASE RestartCaseEnds
  <2>1. stack # <<>> /\ Pop /\ Top.form = "restart-case" /\ UNCHANGED unwind
    BY <1>3 DEF RestartCaseEnds
  <2>2. TakenUp
    BY <2>1 DEF TakenUp
  <2> QED
    BY <2>1, <2>2, CalmGoesOn, LeftArrives DEF AInv
<1>4. ASSUME NEW id \in Ids, InvokeRestart(id) PROVE AInv' /\ Arrival
  <2>1. Runs /\ UNCHANGED stack
    BY <1>4 DEF InvokeRestart
  <2> QED
    BY <2>1, CalmGoesOn, StayedArrives DEF AInv
<1> QED
  BY <1>1, <1>2, <1>3, <1>4

\* A cleanup puts an unwinding off, and gives it back unless it unwinds itself.
LEMMA ProtectArrives ==
  ASSUME AInv, CInv', UnwindProtect \/ RunCleanup \/ CleanupReturns \/ CleanupUnwinds
  PROVE  AInv' /\ Arrival
<1>1. CASE UnwindProtect
  <2> DEFINE f == [form |-> "unwind-protect", at |-> "expr", saved |-> Running]
  <2>1. Push(f) /\ UNCHANGED unwind
    BY <1>1 DEF UnwindProtect
  <2>2. ProtectOK(f) /\ ~ Offers(f)
    BY DEF ProtectOK, Offers
  <2> HIDE DEF f
  <2> QED
    BY <2>1, <2>2, EnteredArrives
<1>2. CASE RunCleanup
  <2> DEFINE f == [Top EXCEPT !.at = "cleanup", !.saved = unwind]
  <2>1. stack # <<>> /\ Top.form = "unwind-protect" /\ Top.at = "expr"
    BY <1>2 DEF RunCleanup, TopIs
  <2>2. /\ FormOK(Top) /\ Top = stack[Len(stack)] /\ ProtectOK(Top)
        /\ Len(stack) \in 1 .. Len(stack)
    BY <2>1, Tops DEF AInv
  <2>3. DOMAIN stack = 1 .. Len(stack)
    BY DEF AInv, CInv
  <2>4. stack' = [stack EXCEPT ![Len(stack)] = f]
    BY <1>2, <2>2, <2>3 DEF RunCleanup
  <2>5. f.form = "unwind-protect" /\ f.at = "cleanup" /\ f.saved = unwind /\ DOMAIN f = DOMAIN Top
    BY <2>1, <2>2 DEF FormOK, ProtectOK
  <2> HIDE DEF f
  <2>6. ProtectOK(f) /\ ~ Offers(f)
    BY <2>1, <2>2, <2>5 DEF ProtectOK, Offers
  <2>7. unwind \in InFlight'
    <3>1. DOMAIN stack' = DOMAIN stack /\ stack'[Len(stack)] = f
      BY <2>2, <2>3, <2>4
    <3> QED
      BY <2>2, <2>3, <2>5, <3>1 DEF InFlight
  <2>8. GoesOn /\ TakenUp
    <3>1. Top.saved = Running
      BY <2>1, <2>2 DEF ProtectOK
    <3> QED
      BY <2>7, <3>1 DEF GoesOn, TakenUp, Running, Travels
  <2> QED
    BY <2>1, <2>4, <2>5, <2>6, <2>8, ChangedArrives
<1>3. CASE CleanupReturns
  <2>1. stack # <<>> /\ Pop /\ Runs /\ unwind' = Top.saved
    BY <1>3 DEF CleanupReturns, TopIs
  <2>2. TakenUp
    BY <2>1 DEF TakenUp, InFlight
  <2> QED
    BY <2>1, <2>2, CalmGoesOn, LeftArrives DEF AInv
<1>4. CASE CleanupUnwinds
  <2>1. stack # <<>> /\ Pop /\ unwind.active /\ Top.at = "cleanup" /\ UNCHANGED unwind
    BY <1>4 DEF CleanupUnwinds, TopIs
  <2>2. TakenUp
    BY <2>1 DEF TakenUp
  <2> QED
    BY <2>1, <2>2, CalmGoesOn, LeftArrives DEF AInv
<1> QED
  BY <1>1, <1>2, <1>3, <1>4

\* The break loop takes up what unwinds to its own restarts.
LEMMA InterruptArrives ==
  ASSUME AInv, CInv', \/ Quit \/ Interrupt \/ PollUnwinds \/ PollBreaks \/ HookShows
                      \/ \E continues \in BOOLEAN : HookEnds(continues)
  PROVE  AInv' /\ Arrival
<1>1. CASE Quit \/ PollUnwinds \/ Interrupt
  <2>1. UNCHANGED stack /\ (Runs \/ UNCHANGED unwind)
    BY <1>1 DEF Quit, PollUnwinds, Interrupt
  <2> QED
    BY <2>1, CalmGoesOn, StayedArrives DEF AInv
<1>2. CASE PollBreaks
  <2> DEFINE f == [form |-> "hook", at |-> "hook", continue |-> FreshId, abort |-> FreshId2,
                   prev |-> restarts]
  <2>1. Push(f) /\ UNCHANGED unwind
    BY <1>2 DEF PollBreaks
  <2>2. ProtectOK(f) /\ IdsOf(f) = {FreshId, FreshId2}
    BY DEF ProtectOK, IdsOf
  <2>3. FreshId \notin UsedIds /\ FreshId2 \notin UsedIds
    BY <2>1, FreshIds DEF AInv, Push
  <2> HIDE DEF f
  <2> QED
    BY <2>1, <2>2, <2>3, EnteredArrives
<1>3. CASE HookShows
  <2>1. UNCHANGED stack /\ unwind.kind = "CONDITION"
    BY <1>3 DEF HookShows
  <2> QED
    BY <2>1, StayedArrives DEF GoesOn, Travels
<1>4. ASSUME NEW continues \in BOOLEAN, HookEnds(continues) PROVE AInv' /\ Arrival
  <2>1. stack # <<>> /\ Pop /\ Top.form = "hook" /\ Top.at = "hook"
    BY <1>4 DEF HookEnds, TopIs
  <2>2. TakenUp
    BY <2>1 DEF TakenUp
  <2>3. GoesOn
    <3>1. CASE unwind.kind = "RESTART" /\ unwind.id \in {Top.continue, Top.abort}
      BY <2>1, <3>1 DEF GoesOn, Awaits, IdsOf
    <3>2. CASE ~ (unwind.kind = "RESTART" /\ unwind.id \in {Top.continue, Top.abort})
      <4> DEFINE own == unwind.kind = "RESTART" /\ unwind.id \in {Top.continue, Top.abort}
      <4>1. unwind' = IF unwind.active /\ ~own THEN unwind
                      ELSE IF continues /\ ~interrupted THEN Running
                      ELSE Unwinding("QUIT", NoId)
        BY <1>4 DEF HookEnds
      <4>2. ~own
        BY <3>2
      <4> HIDE DEF own
      <4>3. UNCHANGED unwind \/ Runs
        <5>1. ASSUME unwind.active, ~own PROVE unwind' = unwind
          BY <4>1, <5>1
        <5> QED
          BY <4>2, <5>1 DEF Runs
      <4> QED
        BY <4>3, CalmGoesOn DEF AInv
    <3> QED
      BY <3>1, <3>2
  <2> QED
    BY <2>1, <2>2, <2>3, LeftArrives
<1> QED
  BY <1>1, <1>2, <1>3, <1>4

\* At the start nothing is under way.
LEMMA ArrivesInit == ConditionsInit => AInv
<1> SUFFICES ASSUME ConditionsInit PROVE AInv
  OBVIOUS
<1>1. CInv
  BY ConditionsInitSound
<1>2. Len(stack) = 0
  BY DEF ConditionsInit
<1> QED
  BY <1>1, <1>2 DEF AInv

\* Every step of the machine keeps the invariant and lets what unwinds arrive.
LEMMA ArrivesNext == AInv /\ [ConditionsNext]_conditionVars => AInv' /\ Arrival
<1> SUFFICES ASSUME AInv, [ConditionsNext]_conditionVars PROVE AInv' /\ Arrival
  OBVIOUS
<1>1. CInv'
  BY ConditionsNextSound DEF AInv
<1>2. CASE UNCHANGED conditionVars \/ Collect
  <2>1. UNCHANGED <<stack, unwind>>
    BY <1>2 DEF conditionVars, Collect
  <2> QED
    BY <1>1, <2>1, CalmGoesOn, StayedArrives DEF AInv
<1>3. CASE HostClears
  <2>1. UNCHANGED stack /\ GoesOn
    BY <1>3 DEF HostClears, GoesOn
  <2> QED
    BY <1>1, <2>1, StayedArrives
<1> QED
  BY <1>1, <1>2, <1>3, TryArrives, BindArrives, SignalArrives, RestartArrives, ProtectArrives,
     InterruptArrives
     DEF ConditionsNext

-----------------------------------------------------------------------------
\* A quit, and an unwinding to a restart, go on through every try, handler and cleanup until
\* they arrive, at the host or at the form of that restart, however deep the forms nest
\* (vm_execute_try, vm_execute_unwind_protect, vm_execute_restart_case, run_interrupt_hook).
\* Two things alone take one from its way: a cleanup that unwinds puts its own in its place,
\* and string->number clears the one that a handler of its condition has begun
\* (nat_string_number).
THEOREM QuitsAndRestartsArrive == ConditionsSpec => UnwindsArrive
<1>1. AInv /\ [ConditionsNext]_conditionVars => [Arrival]_conditionVars
  BY ArrivesNext
<1>2. AInv /\ [ConditionsNext]_conditionVars => AInv'
  BY ArrivesNext
<1> QED
  BY ArrivesInit, <1>1, <1>2, PTL DEF ConditionsSpec, UnwindsArrive, Arrival
=============================================================================
