--------------------------- MODULE GraphicsProofs ---------------------------
(***************************************************************************)
(* The registry of the graphics server stays consistent, whichever number  *)
(* of applications come, go, switch and die, and nobody loses its          *)
(* registration through another's.  GInv is inductive: it says who the     *)
(* registered slots belong to, from which LiveStayRegistered follows.      *)
(***************************************************************************)
EXTENDS Graphics, SetLemmas

Labels == {"unused", "started", "loop", "frame", "keyed", "quitting", "leaving", "exited"}
Registering == {"loop", "frame", "keyed", "quitting"}

\* Each registered slot is of one application, which registered and has not left.
Owners ==
  /\ \A s \in Registered : apps[s].pid \in Pids /\ pc[apps[s].pid] \in Registering \cup {"exited"}
  /\ \A s, t \in Registered : apps[s].pid = apps[t].pid => s = t
  /\ \A p \in Pids : pc[p] \in Registering => \E s \in Registered : apps[s].pid = p

GInv ==
  /\ apps \in [AppSlots -> RegisteredApp]
  /\ pc \in [Pids -> Labels]
  /\ IdsNameApps
  /\ ActiveIsRegistered
  /\ Owners

-----------------------------------------------------------------------------
\* The table has at least one slot, and its slots are numbers.
LEMMA Slots ==
  /\ MAX_REGISTERED_APPS \in 1 .. 9 /\ MaxApps \in Nat /\ MAX_REGISTERED_APPS - 1 \in Nat
  /\ AppSlots = 0 .. MAX_REGISTERED_APPS - 1 /\ None \notin AppSlots /\ AppSlots \subseteq Nat
  /\ IsFiniteSet(AppSlots) /\ Cardinality(AppSlots) = MAX_REGISTERED_APPS
<1>1. MAX_REGISTERED_APPS \in 1 .. 9 /\ MaxApps \in Nat
  BY GraphicsAssumption
<1>2. /\ IsFiniteSet(0 .. MAX_REGISTERED_APPS - 1)
      /\ Cardinality(0 .. MAX_REGISTERED_APPS - 1) = MAX_REGISTERED_APPS
  <2>1. 0 \in Int /\ MAX_REGISTERED_APPS - 1 \in Int /\ ~(0 > MAX_REGISTERED_APPS - 1)
        /\ MAX_REGISTERED_APPS - 1 - 0 + 1 = MAX_REGISTERED_APPS
    BY <1>1
  <2>2. QED
    BY <2>1, FS_Interval
<1>3. QED
  BY <1>1, <1>2 DEF AppSlots, None

\* A set of slots: how many there are, and its greatest.
LEMMA SlotSets ==
  ASSUME NEW S, S \subseteq AppSlots
  PROVE  /\ IsFiniteSet(S) /\ Cardinality(S) \in 0 .. 9
         /\ Cardinality(S) <= MAX_REGISTERED_APPS
         /\ S # {} => Max(S) \in S /\ Min(S) \in S
<1>1. IsFiniteSet(S) /\ Cardinality(S) \in Nat /\ Cardinality(S) <= MAX_REGISTERED_APPS
  BY Slots, FS_Subset, FS_CardinalityType
<1>2. S \subseteq Nat /\ S \subseteq 0 .. MAX_REGISTERED_APPS - 1
  BY Slots
<1>3. S # {} => Max(S) \in S /\ Min(S) \in S
  BY <1>2, Slots, MaxInSet, MinInSet
<1>4. QED
  BY <1>1, <1>3, Slots

\* Taking applications off the table leaves the others, numbered anew.
LEMMA RemovedKeeps ==
  ASSUME GInv, NEW gone, gone \subseteq Registered, Removed(gone)
  PROVE  /\ apps' \in [AppSlots -> RegisteredApp]
         /\ Registered' = Registered \ gone
         /\ \A s \in Registered' : apps'[s].pid = apps[s].pid
         /\ IdsNameApps' /\ ActiveIsRegistered'
<1> DEFINE left == Registered \ gone
           rank(s) == Cardinality({t \in left : t <= s})
<1>1. left \subseteq AppSlots /\ left \subseteq Nat
  BY Slots DEF Registered
<1>2. IsFiniteSet(left) /\ Cardinality(left) \in 0 .. 9 /\ (left # {} => Max(left) \in left)
  BY <1>1, SlotSets
<1>3. /\ \A s \in left : rank(s) \in 1 .. Cardinality(left)
      /\ {rank(s) : s \in left} = 1 .. Cardinality(left)
  BY <1>1, <1>2, RanksFromOne
<1>4. apps' = [s \in AppSlots |-> IF s \in left THEN [apps[s] EXCEPT !.app_id = rank(s)]
                                  ELSE NoApp]
      /\ next_app_id' = Cardinality(left) + 1
      /\ active_app_index' = CASE active_app_index \in left -> active_app_index
         [] active_app_index \notin left /\ left # {} -> Max(left)
         [] OTHER -> None
  BY DEF Removed
<1>5. \A s \in left : apps[s] \in RegisteredApp /\ apps[s].used
  BY <1>1 DEF GInv, Registered
<1> HIDE DEF left
<1>6. ASSUME NEW s \in AppSlots
      PROVE  /\ apps'[s] \in RegisteredApp
             /\ apps'[s].used <=> s \in left
             /\ s \in left => apps'[s].pid = apps[s].pid /\ apps'[s].app_id = rank(s)
  <2>1. CASE s \in left
    <3>1. rank(s) \in 0 .. 255
      BY <1>2, <1>3, <2>1
    <3> HIDE DEF rank
    <3>2. apps'[s] = [apps[s] EXCEPT !.app_id = rank(s)]
      BY <1>4, <2>1
    <3>3. QED
      BY <1>5, <2>1, <3>1, <3>2 DEF RegisteredApp
  <2>2. CASE s \notin left
    BY <1>4, <2>2, Slots DEF NoApp, RegisteredApp
  <2>3. QED
    BY <2>1, <2>2
<1>7. apps' \in [AppSlots -> RegisteredApp]
  <2>1. apps' = [s \in AppSlots |-> apps'[s]]
    BY <1>4
  <2>2. QED
    BY <1>6, <2>1
<1>8. Registered' = left
  BY <1>1, <1>6 DEF Registered
<1>9. IdsNameApps'
  <2>1. {apps'[s].app_id : s \in left} = {rank(s) : s \in left}
    BY <1>1, <1>6
  <2>2. QED
    BY <1>3, <1>4, <1>8, <2>1 DEF IdsNameApps
<1>10. ActiveIsRegistered'
  BY <1>2, <1>4, <1>8, <1>1, Slots DEF ActiveIsRegistered, GInv
<1>11. QED
  BY <1>6, <1>7, <1>8, <1>9, <1>10, <1>1 DEF left

\* Steps that leave the registrations alone: an application goes on, or dies, and a key
\* may switch to another.
LEMMA MovesOn ==
  ASSUME GInv, NEW p \in Pids, NEW label \in Labels, Goto(p, label),
         UNCHANGED <<apps, next_app_id>>,
         active_app_index' = active_app_index \/ active_app_index' \in Registered,
         label \in Registering => pc[p] \in Registering,
         pc[p] \in Registering => label \in Registering \cup {"exited"},
         pc[p] # "exited"
  PROVE  GInv'
<1>1. pc' \in [Pids -> Labels] /\ \A q \in Pids : pc'[q] = IF q = p THEN label ELSE pc[q]
  BY DEF Goto, GInv
<1>2. Registered' = Registered
  BY DEF Registered
<1>3. IdsNameApps' /\ apps' \in [AppSlots -> RegisteredApp]
  BY <1>2 DEF GInv, IdsNameApps
<1>4. ActiveIsRegistered'
  BY <1>2 DEF GInv, ActiveIsRegistered
<1>5. Owners'
  BY <1>1, <1>2 DEF GInv, Owners, Registering
<1>6. QED
  BY <1>1, <1>3, <1>4, <1>5 DEF GInv

\* An application registers (handle_register_app).
LEMMA RegisterStep ==
  ASSUME GInv, NEW p \in Pids, RegisterApp(p)
  PROVE  GInv'
<1> DEFINE slot == Min(AppSlots \ Registered)
           new == [used |-> TRUE, pid |-> p, app_id |-> next_app_id]
<1>1. slot \in AppSlots /\ slot \notin Registered
  <2>1. AppSlots \ Registered # {} /\ AppSlots \ Registered \subseteq AppSlots
    BY DEF RegisterApp
  <2>2. Min(AppSlots \ Registered) \in AppSlots \ Registered
    BY <2>1, SlotSets
  <2>3. QED
    BY <2>2
<1>2. /\ pc[p] = "started" /\ pc' = [pc EXCEPT ![p] = "loop"]
      /\ apps' = [apps EXCEPT ![slot] = new]
      /\ next_app_id' = (next_app_id + 1) % 256 /\ active_app_index' = slot
  BY DEF RegisterApp, Goto
<1> HIDE DEF slot
<1>3. Registered \subseteq AppSlots
  BY DEF Registered
<1>4. /\ IsFiniteSet(Registered) /\ Cardinality(Registered) \in 0 .. 9
      /\ Cardinality(Registered \cup {slot}) = Cardinality(Registered) + 1
      /\ Cardinality(Registered \cup {slot}) \in 0 .. 9
  <2>1. IsFiniteSet(Registered) /\ Cardinality(Registered) \in 0 .. 9
    BY <1>3, SlotSets
  <2>2. Cardinality(Registered \cup {slot}) = Cardinality(Registered) + 1
    BY <1>1, <2>1, FS_AddElement
  <2>3. Registered \cup {slot} \subseteq AppSlots
    BY <1>1, <1>3
  <2>4. QED
    BY <2>1, <2>2, <2>3, SlotSets
<1>5. next_app_id = Cardinality(Registered) + 1 /\ next_app_id \in 0 .. 255
      /\ next_app_id' = next_app_id + 1
  BY <1>2, <1>4 DEF GInv, IdsNameApps
<1>6. new \in RegisteredApp
  BY <1>5 DEF RegisteredApp, Pids
<1>7. apps' \in [AppSlots -> RegisteredApp] /\ apps'[slot] = new
      /\ \A s \in AppSlots : s # slot => apps'[s] = apps[s]
  <2> HIDE DEF new
  <2>1. QED
    BY <1>1, <1>2, <1>6 DEF GInv
<1>8. new.used /\ new.pid = p /\ new.app_id = next_app_id
  OBVIOUS
<1> HIDE DEF new
<1>9. Registered' = Registered \cup {slot}
  BY <1>1, <1>3, <1>7, <1>8 DEF Registered
<1>10. pc' \in [Pids -> Labels] /\ \A q \in Pids : pc'[q] = IF q = p THEN "loop" ELSE pc[q]
  BY <1>2 DEF GInv, Labels
<1>11. IdsNameApps'
  <2>1. {apps'[s].app_id : s \in Registered'}
          = {apps[s].app_id : s \in Registered} \cup {next_app_id}
    BY <1>1, <1>3, <1>7, <1>8, <1>9
  <2>2. {apps[s].app_id : s \in Registered} = 1 .. Cardinality(Registered)
    BY DEF GInv, IdsNameApps
  <2>3. 1 .. Cardinality(Registered) \cup {Cardinality(Registered) + 1}
          = 1 .. Cardinality(Registered) + 1
    BY <1>4
  <2>4. QED
    BY <1>4, <1>5, <1>9, <2>1, <2>2, <2>3 DEF IdsNameApps
<1>12. ActiveIsRegistered'
  BY <1>2, <1>9 DEF ActiveIsRegistered
<1>13. Owners'
  <2>1. \A s \in Registered : apps[s].pid # p
    BY <1>2 DEF GInv, Owners, Registering
  <2>2. \A s \in Registered' : apps'[s].pid = IF s = slot THEN p ELSE apps[s].pid
    BY <1>1, <1>3, <1>7, <1>8, <1>9
  <2>3. \A s \in Registered' : /\ apps'[s].pid \in Pids
                               /\ pc'[apps'[s].pid] \in Registering \cup {"exited"}
    BY <1>9, <1>10, <2>1, <2>2 DEF GInv, Owners, Registering
  <2>4. \A s, t \in Registered' : apps'[s].pid = apps'[t].pid => s = t
    BY <1>9, <2>1, <2>2 DEF GInv, Owners
  <2>5. ASSUME NEW q \in Pids, pc'[q] \in Registering
        PROVE  \E s \in Registered' : apps'[s].pid = q
    <3>1. CASE q = p
      BY <1>9, <2>2, <3>1
    <3>2. CASE q # p
      <4>1. PICK s \in Registered : apps[s].pid = q
        BY <1>10, <2>5, <3>2 DEF GInv, Owners
      <4>2. QED
        BY <1>1, <1>9, <2>2, <4>1
    <3>3. QED
      BY <3>1, <3>2
  <2>6. QED
    BY <2>3, <2>4, <2>5 DEF Owners
<1>14. QED
  BY <1>7, <1>10, <1>11, <1>12, <1>13 DEF GInv

\* After applications that are not registering any more are taken off, the others are
\* registered still.
LEMMA RemovedOwners ==
  ASSUME GInv, NEW gone, gone \subseteq Registered, Removed(gone), pc' \in [Pids -> Labels],
         \A q \in Pids : pc'[q] \in Registering =>
           pc[q] \in Registering /\ \A s \in gone : apps[s].pid # q,
         \A s \in Registered \ gone : pc'[apps[s].pid] \in Registering \cup {"exited"}
  PROVE  GInv'
<1>1. /\ apps' \in [AppSlots -> RegisteredApp]
      /\ Registered' = Registered \ gone
      /\ \A s \in Registered' : apps'[s].pid = apps[s].pid
      /\ IdsNameApps' /\ ActiveIsRegistered'
  BY RemovedKeeps
<1>2. \A s \in Registered' : apps'[s].pid \in Pids
                             /\ pc'[apps'[s].pid] \in Registering \cup {"exited"}
  BY <1>1 DEF GInv, Owners
<1>3. \A s, t \in Registered' : apps'[s].pid = apps'[t].pid => s = t
  BY <1>1 DEF GInv, Owners
<1>4. ASSUME NEW q \in Pids, pc'[q] \in Registering
      PROVE  \E s \in Registered' : apps'[s].pid = q
  <2>1. PICK s \in Registered : apps[s].pid = q
    BY <1>4 DEF GInv, Owners
  <2>2. s \notin gone
    BY <1>4, <2>1
  <2>3. QED
    BY <1>1, <2>1, <2>2
<1>5. Owners'
  BY <1>2, <1>3, <1>4 DEF Owners
<1>6. QED
  BY <1>1, <1>5 DEF GInv

\* A flush, which reaps dead applications first (handle_flush).
LEMMA FlushStep ==
  ASSUME GInv, NEW p \in Pids, Flush(p)
  PROVE  GInv'
<1> DEFINE gone == {s \in Registered : ~is_app_alive(apps[s].pid)}
<1>1. PICK label \in {"keyed", "loop", "quitting"} : Goto(p, label)
  BY DEF Flush
<1>2. pc[p] \in {"frame", "keyed"} /\ reap_dead_processes
  BY DEF Flush
<1>3. CASE gone = {}
  <2>1. UNCHANGED <<apps, active_app_index, next_app_id>>
    BY <1>2, <1>3 DEF reap_dead_processes
  <2>2. QED
    BY <1>1, <1>2, <2>1, MovesOn DEF Labels, Registering
<1>4. CASE gone # {}
  <2>1. Removed(gone)
    BY <1>2, <1>4 DEF reap_dead_processes
  <2>2. \A s \in gone : s \in Registered /\ pc[apps[s].pid] = "exited"
    BY DEF is_app_alive, GInv, Owners, Registering
  <2>3. \A s \in Registered : apps[s].pid \in Pids /\ pc[apps[s].pid] \in Registering \cup {"exited"}
    BY DEF GInv, Owners
  <2>4. /\ pc' \in [Pids -> Labels]
        /\ \A q \in Pids : pc'[q] = IF q = p THEN label ELSE pc[q]
    BY <1>1 DEF Goto, GInv, Labels
  <2> HIDE DEF gone
  <2>5. /\ \A q \in Pids : pc'[q] \in Registering =>
             pc[q] \in Registering /\ \A s \in gone : apps[s].pid # q
        /\ \A s \in Registered \ gone : pc'[apps[s].pid] \in Registering \cup {"exited"}
    BY <1>2, <2>2, <2>3, <2>4 DEF Registering
  <2>6. gone \subseteq Registered
    BY DEF gone
  <2>7. QED
    BY <2>1, <2>4, <2>5, <2>6, RemovedOwners
<1>5. QED
  BY <1>3, <1>4

\* An application unregisters (handle_unregister_app).
LEMMA UnregisterStep ==
  ASSUME GInv, NEW p \in Pids, UnregisterApp(p)
  PROVE  GInv'
<1> DEFINE s0 == Min(find_app_by_pid(p))
<1>1. s0 \in Registered /\ apps[s0].pid = p
  <2>1. find_app_by_pid(p) \subseteq AppSlots /\ find_app_by_pid(p) # {}
    BY DEF UnregisterApp, find_app_by_pid, Registered
  <2>2. Min(find_app_by_pid(p)) \in find_app_by_pid(p)
    BY <2>1, SlotSets
  <2>3. QED
    BY <2>2 DEF find_app_by_pid
<1>2. Removed({s0}) /\ pc[p] = "quitting" /\ pc' = [pc EXCEPT ![p] = "leaving"]
  BY DEF UnregisterApp, Goto
<1> HIDE DEF s0
<1>3. /\ pc' \in [Pids -> Labels]
      /\ \A q \in Pids : pc'[q] = IF q = p THEN "leaving" ELSE pc[q]
  BY <1>2 DEF GInv, Labels
<1>4. /\ \A q \in Pids : pc'[q] \in Registering =>
           pc[q] \in Registering /\ \A s \in {s0} : apps[s].pid # q
      /\ \A s \in Registered \ {s0} : pc'[apps[s].pid] \in Registering \cup {"exited"}
  BY <1>1, <1>3 DEF GInv, Owners, Registering
<1>5. QED
  BY <1>1, <1>2, <1>3, <1>4, RemovedOwners

\* At the start nobody is registered.
LEMMA GraphicsInitSound == GraphicsInit => GInv
<1> SUFFICES ASSUME GraphicsInit PROVE GInv
  OBVIOUS
<1>1. /\ apps = [s \in AppSlots |-> NoApp] /\ active_app_index = None /\ next_app_id = 1
      /\ pc = [p \in Pids |-> "unused"]
  BY DEF GraphicsInit
<1>2. apps \in [AppSlots -> RegisteredApp] /\ pc \in [Pids -> Labels]
  BY <1>1, Slots DEF NoApp, RegisteredApp, Labels
<1>3. Registered = {}
  BY <1>1 DEF Registered, NoApp
<1>4. Cardinality(Registered) = 0
  BY <1>3, FS_EmptySet
<1>5. IdsNameApps
  <2>1. {apps[s].app_id : s \in Registered} = {} /\ 1 .. 0 = {}
    BY <1>3
  <2>2. next_app_id = Cardinality(Registered) + 1
    BY <1>1, <1>4
  <2>3. {apps[s].app_id : s \in Registered} = 1 .. Cardinality(Registered)
    BY <1>4, <2>1
  <2>4. QED
    BY <2>2, <2>3 DEF IdsNameApps
<1>6. ActiveIsRegistered /\ Owners
  BY <1>1, <1>3 DEF ActiveIsRegistered, Owners, Registering
<1>7. QED
  BY <1>2, <1>5, <1>6 DEF GInv

\* Every request, and every step of an application between requests.
LEMMA GraphicsNextSound == GInv /\ [GraphicsNext]_graphicsVars => GInv'
<1> SUFFICES ASSUME GInv, [GraphicsNext]_graphicsVars PROVE GInv'
  OBVIOUS
<1>1. ASSUME NEW p \in Pids, Spawn(p) PROVE GInv'
  BY <1>1, MovesOn DEF Spawn, Labels, Registering
<1>2. ASSUME NEW p \in Pids, App(p) PROVE GInv'
  <2>1. CASE RegisterApp(p)
    BY <2>1, RegisterStep
  <2>2. CASE RegisterAppFails(p)
    BY <2>2, MovesOn DEF RegisterAppFails, Labels, Registering
  <2>3. CASE ShouldRender(p)
    <3>1. PICK label \in {"frame", "loop"} : Goto(p, label)
      BY <2>3 DEF ShouldRender
    <3>2. QED
      BY <2>3, <3>1, MovesOn DEF ShouldRender, Labels, Registering
  <2>4. CASE Flush(p)
    BY <2>4, FlushStep
  <2>5. CASE UnregisterApp(p)
    BY <2>5, UnregisterStep
  <2>6. CASE Exit(p)
    BY <2>6, MovesOn DEF Exit, Labels, Registering
  <2>7. QED
    BY <1>2, <2>1, <2>2, <2>3, <2>4, <2>5, <2>6 DEF App
<1>3. ASSUME NEW p \in Pids, NEW digit \in Digits, HandleKey(p, digit) PROVE GInv'
  <2>1. find_app_by_id(digit) \subseteq AppSlots /\ find_app_by_id(digit) \subseteq Registered
    BY DEF find_app_by_id, Registered
  <2>2. active_app_index' = active_app_index \/ active_app_index' \in Registered
    BY <1>3, <2>1, SlotSets DEF HandleKey
  <2>3. QED
    BY <1>3, <2>2, MovesOn DEF HandleKey, Labels, Registering
<1>4. ASSUME NEW p \in Pids, Die(p) PROVE GInv'
  BY <1>4, MovesOn DEF Die, Labels, Registering
<1>5. CASE UNCHANGED graphicsVars
  <2>1. UNCHANGED <<apps, active_app_index, next_app_id, pc>> /\ Registered' = Registered
    BY <1>5 DEF graphicsVars, Registered
  <2>2. IdsNameApps' /\ ActiveIsRegistered' /\ Owners'
    BY <2>1 DEF GInv, IdsNameApps, ActiveIsRegistered, Owners
  <2>3. QED
    BY <2>1, <2>2 DEF GInv
<1>6. QED
  BY <1>1, <1>2, <1>3, <1>4, <1>5 DEF GraphicsNext

-----------------------------------------------------------------------------
(* The theorems *)

\* Ids are 1 to n, each of one application, and while applications are registered one of
\* them is active (handle_register_app, handle_unregister_app, reap_dead_processes).
THEOREM RegistryStaysConsistent == GraphicsSpec => []RegistryConsistent
<1>1. GInv => RegistryConsistent
  BY DEF GInv, RegistryConsistent
<1>2. QED
  BY GraphicsInitSound, GraphicsNextSound, <1>1, PTL DEF GraphicsSpec

\* An application keeps its registration, and has one only, from the moment it gets it
\* until it unregisters or dies (handle_register_app, reap_dead_processes).
THEOREM NobodyIsUnregistered == GraphicsSpec => []LiveStayRegistered
<1>1. GInv => LiveStayRegistered
  <2> SUFFICES ASSUME GInv, NEW p \in Pids
               PROVE  /\ pc[p] \in Registering => Cardinality(find_app_by_pid(p)) = 1
                      /\ pc[p] # "exited" /\ pc[p] \notin Registering => find_app_by_pid(p) = {}
    BY DEF LiveStayRegistered, Registering
  <2>1. ASSUME pc[p] \in Registering PROVE Cardinality(find_app_by_pid(p)) = 1
    <3>1. PICK s \in Registered : apps[s].pid = p
      BY <2>1 DEF GInv, Owners
    <3>2. find_app_by_pid(p) = {s}
      BY <3>1 DEF GInv, Owners, find_app_by_pid
    <3>3. QED
      BY <3>2, FS_Singleton
  <2>2. ASSUME pc[p] # "exited", pc[p] \notin Registering PROVE find_app_by_pid(p) = {}
    BY <2>2 DEF GInv, Owners, find_app_by_pid
  <2>3. QED
    BY <2>1, <2>2
<1>2. QED
  BY GraphicsInitSound, GraphicsNextSound, <1>1, PTL DEF GraphicsSpec

\* Another application's flush or departure takes the screen from nobody
\* (reap_dead_processes, handle_unregister_app).
THEOREM ScreenIsKept == GraphicsSpec => KeepsTheScreen
<1> DEFINE Undisturbed(p) ==
             /\ active_app_index \in find_app_by_pid(p) /\ is_app_alive(p)
             /\ ~ \E q \in Pids : pc[q] = "started" /\ pc'[q] = "loop"
             /\ ~ \E q \in Pids : pc[q] = "frame" /\ pc'[q] = "keyed"
             /\ pc'[p] # "leaving"
           Keeps(p) == active_app_index' = active_app_index /\ apps'[active_app_index'].pid = p
<1>1. GInv /\ [GraphicsNext]_graphicsVars => \A p \in Pids : Undisturbed(p) => Keeps(p)
  <2> SUFFICES ASSUME GInv, [GraphicsNext]_graphicsVars, NEW p \in Pids, Undisturbed(p)
               PROVE  Keeps(p)
    OBVIOUS
  <2>1. active_app_index \in Registered /\ apps[active_app_index].pid = p
    BY DEF find_app_by_pid
  <2>2. ASSUME UNCHANGED <<apps, active_app_index>> PROVE Keeps(p)
    BY <2>1, <2>2
  <2>3. ASSUME NEW gone, gone \subseteq Registered, Removed(gone), active_app_index \notin gone
        PROVE  Keeps(p)
    <3>1. active_app_index' = active_app_index
      BY <2>1, <2>3 DEF Removed
    <3>2. active_app_index \in Registered'
      BY <2>1, <2>3, RemovedKeeps
    <3>3. QED
      BY <2>1, <2>3, <3>1, <3>2, RemovedKeeps
  <2>4. ASSUME NEW q \in Pids, Flush(q) PROVE Keeps(p)
    <3> DEFINE gone == {s \in Registered : ~is_app_alive(apps[s].pid)}
    <3>1. active_app_index \notin gone /\ gone \subseteq Registered
      BY <2>1
    <3>2. UNCHANGED <<apps, active_app_index>> \/ Removed(gone)
      BY <2>4 DEF Flush, reap_dead_processes
    <3>3. QED
      BY <2>2, <2>3, <3>1, <3>2
  <2>5. ASSUME NEW q \in Pids, UnregisterApp(q) PROVE Keeps(p)
    <3>1. pc'[q] = "leaving"
      BY <2>5 DEF UnregisterApp, Goto, GInv
    <3>2. find_app_by_pid(q) # {} /\ find_app_by_pid(q) \subseteq AppSlots
      BY <2>5 DEF UnregisterApp, find_app_by_pid, Registered
    <3>3. Min(find_app_by_pid(q)) \in find_app_by_pid(q)
      BY <3>2, SlotSets
    <3>4. Removed({Min(find_app_by_pid(q))})
      BY <2>5 DEF UnregisterApp
    <3>5. {Min(find_app_by_pid(q))} \subseteq Registered
          /\ active_app_index \notin {Min(find_app_by_pid(q))}
      BY <2>1, <3>1, <3>3 DEF find_app_by_pid
    <3>6. QED
      BY <2>3, <3>4, <3>5
  <2>6. ASSUME NEW q \in Pids, RegisterApp(q) PROVE FALSE
    BY <2>6 DEF RegisterApp, Goto, GInv
  <2>7. ASSUME NEW q \in Pids, NEW digit \in Digits, HandleKey(q, digit) PROVE FALSE
    BY <2>7 DEF HandleKey, Goto, GInv
  <2>8. QED
    BY <2>2, <2>4, <2>5, <2>6, <2>7
       DEF GraphicsNext, App, Spawn, RegisterAppFails, ShouldRender, Exit, Die, graphicsVars
<1>2. QED
  BY GraphicsInitSound, GraphicsNextSound, <1>1, PTL DEF GraphicsSpec, KeepsTheScreen
=============================================================================
