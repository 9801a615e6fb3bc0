------------------------------ MODULE Graphics ------------------------------
(***************************************************************************)
(* The graphics server (os/ot/user/graphics/impl.cpp) and the applications *)
(* that share its screen.  A request is one step, the server's handler;    *)
(* between an application's requests the others take theirs.  The loop of  *)
(* an application is that of uishell, typedemo, gfxscratch, scratch,       *)
(* spacedemo and the editor: register, then ask whether to render, handle  *)
(* a key, draw and flush, until it quits or dies.                          *)
(***************************************************************************)
EXTENDS Integers, FiniteSetsExt

CONSTANTS
  MAX_REGISTERED_APPS,  \* slots for applications
  GraphicsPlatform,     \* "wasm" or "riscv": whether a dead process is seen to be dead
  MaxApps               \* bound on the number of applications ever started

ASSUME GraphicsAssumption ==
  /\ MAX_REGISTERED_APPS \in 1 .. 9
  /\ GraphicsPlatform \in {"wasm", "riscv"}
  /\ MaxApps \in Nat

AppSlots == 0 .. MAX_REGISTERED_APPS - 1
Pids == 1 .. MaxApps
\* 1 to 9 in the code; those beyond the slots name nobody, like the first of them.
Digits == 1 .. Min({9, MAX_REGISTERED_APPS + 1})
None == -1

VARIABLES
  apps,              \* the registered applications
  active_app_index,  \* slot of the one that may draw, or None
  next_app_id,       \* id the next registration gets
  pc                 \* where each application is

graphicsVars == <<apps, active_app_index, next_app_id, pc>>

RegisteredApp == [used : BOOLEAN, pid : 0 .. MaxApps, app_id : 0 .. 255]
\* The fields of an entry not in use are never read.
NoApp == [used |-> FALSE, pid |-> 0, app_id |-> 0]

GraphicsTypeOK ==
  /\ apps \in [AppSlots -> RegisteredApp]
  /\ active_app_index \in AppSlots \cup {None}
  /\ next_app_id \in 0 .. 255
  /\ pc \in [Pids -> {"unused", "started", "loop", "frame", "keyed", "quitting", "leaving", "exited"}]

-----------------------------------------------------------------------------
(* The server's handlers *)

Registered == {s \in AppSlots : apps[s].used}

find_app_by_pid(pid) == {s \in Registered : apps[s].pid = pid}
find_app_by_id(id) == {s \in Registered : apps[s].app_id = id}

\* On RISC-V a terminated process keeps its slot in the process table.
is_app_alive(pid) == pc[pid] # "unused" /\ (pc[pid] = "exited" => GraphicsPlatform = "riscv")

\* Mutant: forgets that the active application may be among those removed.
RemovedKeepsActive(gone) ==
  LET left == Registered \ gone IN
  /\ apps' = [s \in AppSlots |->
                IF s \in left
                THEN [apps[s] EXCEPT !.app_id = Cardinality({t \in left : t <= s})]
                ELSE NoApp]
  /\ next_app_id' = Cardinality(left) + 1
  /\ UNCHANGED active_app_index
\* Mutant: the last registered application is made active, whoever was.
RemovedTakesScreen(gone) ==
  LET left == Registered \ gone IN
  /\ apps' = [s \in AppSlots |->
                IF s \in left
                THEN [apps[s] EXCEPT !.app_id = Cardinality({t \in left : t <= s})]
                ELSE NoApp]
  /\ next_app_id' = Cardinality(left) + 1
  /\ active_app_index' = IF left = {} THEN None ELSE Max(left)

\* Take the applications in gone off the table: number the others from 1, and if the
\* active one is gone make the last one active.
Removed(gone) ==
  LET left == Registered \ gone IN
  /\ apps' = [s \in AppSlots |->
                IF s \in left
                THEN [apps[s] EXCEPT !.app_id = Cardinality({t \in left : t <= s})]
                ELSE NoApp]
  /\ next_app_id' = Cardinality(left) + 1
  /\ active_app_index' =
       CASE active_app_index \in left -> active_app_index
         [] active_app_index \notin left /\ left # {} -> Max(left)
         [] OTHER -> None

\* Mutant: reaps the dead up to the first one alive.
reap_dead_processesStops ==
  LET gone == {s \in Registered :
                 \A t \in Registered : t <= s => ~is_app_alive(apps[t].pid)}
  IN IF gone = {} THEN UNCHANGED <<apps, active_app_index, next_app_id>> ELSE Removed(gone)
reap_dead_processes ==
  LET gone == {s \in Registered : ~is_app_alive(apps[s].pid)}
  IN IF gone = {} THEN UNCHANGED <<apps, active_app_index, next_app_id>> ELSE Removed(gone)

-----------------------------------------------------------------------------
(* The applications' requests, each with its handler *)

Goto(p, label) == pc' = [pc EXCEPT ![p] = label]

\* The shell starts a program.
Spawn(p) ==
  /\ pc[p] = "unused"
  /\ \A q \in Pids : q < p => pc[q] # "unused"
  /\ Goto(p, "started")
  /\ UNCHANGED <<apps, active_app_index, next_app_id>>

\* Mutant: takes the last slot when there is none free.
RegisterAppOverwrites(p) ==
  LET free == AppSlots \ Registered
      slot == IF free = {} THEN Max(AppSlots) ELSE Min(free)
  IN /\ pc[p] = "started"
     /\ apps' = [apps EXCEPT ![slot] = [used |-> TRUE, pid |-> p, app_id |-> next_app_id]]
     /\ next_app_id' = (next_app_id + 1) % 256
     /\ active_app_index' = slot
     /\ Goto(p, "loop")
RegisterApp(p) ==
  LET slot == Min(AppSlots \ Registered) IN
  /\ pc[p] = "started"
  /\ AppSlots \ Registered # {}
  /\ apps' = [apps EXCEPT ![slot] = [used |-> TRUE, pid |-> p, app_id |-> next_app_id]]
  /\ next_app_id' = (next_app_id + 1) % 256
  /\ active_app_index' = slot
  /\ Goto(p, "loop")

\* GRAPHICS__TOO_MANY_APPS: the program gives up.
RegisterAppFails(p) ==
  /\ pc[p] = "started"
  /\ AppSlots \ Registered = {}
  /\ Goto(p, "exited")
  /\ UNCHANGED <<apps, active_app_index, next_app_id>>

\* An application that is not active yields and asks again.
ShouldRender(p) ==
  /\ pc[p] = "loop"
  /\ find_app_by_pid(p) # {}
  /\ Goto(p, IF Min(find_app_by_pid(p)) = active_app_index THEN "frame" ELSE "loop")
  /\ UNCHANGED <<apps, active_app_index, next_app_id>>

\* Mutant: takes the digit for an index.
HandleKeyByIndex(p, digit) ==
  /\ pc[p] = "frame"
  /\ active_app_index' = digit - 1
  /\ Goto(p, "keyed")
  /\ UNCHANGED <<apps, next_app_id>>
\* Alt and a digit switch to the application of that id, if there is one.
HandleKey(p, digit) ==
  /\ pc[p] = "frame"
  /\ active_app_index' = IF find_app_by_id(digit) = {} THEN active_app_index
                         ELSE Min(find_app_by_id(digit))
  /\ Goto(p, "keyed")
  /\ UNCHANGED <<apps, next_app_id>>

\* Some flush again in the same frame (hyperspace_warp); after the last one the
\* application asks again, or quits if the user asked it to.
Flush(p) ==
  /\ pc[p] \in {"frame", "keyed"}
  /\ reap_dead_processes
  /\ \E label \in {"keyed", "loop", "quitting"} : Goto(p, label)

UnregisterApp(p) ==
  /\ pc[p] = "quitting"
  /\ find_app_by_pid(p) # {}
  /\ Removed({Min(find_app_by_pid(p))})
  /\ Goto(p, "leaving")

Exit(p) ==
  /\ pc[p] = "leaving"
  /\ Goto(p, "exited")
  /\ UNCHANGED <<apps, active_app_index, next_app_id>>

\* The process exits without unregistering: ou_malloc found no memory, the font did
\* not load, or it crashed.
Die(p) ==
  /\ pc[p] \notin {"unused", "exited"}
  /\ Goto(p, "exited")
  /\ UNCHANGED <<apps, active_app_index, next_app_id>>

GraphicsInit ==
  /\ apps = [s \in AppSlots |-> NoApp]
  /\ active_app_index = None
  /\ next_app_id = 1
  /\ pc = [p \in Pids |-> "unused"]

App(p) ==
  \/ RegisterApp(p)
  \/ RegisterAppFails(p)
  \/ ShouldRender(p)
  \/ Flush(p)
  \/ UnregisterApp(p)
  \/ Exit(p)

GraphicsNext ==
  \E p \in Pids :
    \/ Spawn(p)
    \/ App(p)
    \/ \E digit \in Digits : HandleKey(p, digit)
    \/ Die(p)

GraphicsSpec == GraphicsInit /\ [][GraphicsNext]_graphicsVars

\* The server answers and applications go on; nobody has to start one, press a key or
\* die.
GraphicsFairness == \A p \in Pids : WF_graphicsVars(App(p))
FairGraphicsSpec == GraphicsSpec /\ GraphicsFairness

-----------------------------------------------------------------------------
\* The ids shown in the taskbar are 1 to n, each of one application, so that Alt and a
\* digit reach every application and next_app_id never gives one out twice
\* (handle_register_app, handle_unregister_app, reap_dead_processes).
IdsNameApps ==
  /\ {apps[s].app_id : s \in Registered} = 1 .. Cardinality(Registered)
  /\ next_app_id = Cardinality(Registered) + 1

\* While applications are registered, one of them is active
\* (handle_unregister_app, reap_dead_processes).
ActiveIsRegistered ==
  IF Registered = {} THEN active_app_index = None ELSE active_app_index \in Registered

\* Both, after any sequence of registrations, departures, deaths and switches.
RegistryConsistent == IdsNameApps /\ ActiveIsRegistered

\* An application keeps its registration from the moment it gets it until it
\* unregisters or dies, whoever comes and goes meanwhile: should_render never answers
\* GRAPHICS__NOT_REGISTERED, on which the programs exit.
LiveStayRegistered ==
  \A p \in Pids :
    LET registers == pc[p] \in {"loop", "frame", "keyed", "quitting"} IN
    /\ registers => Cardinality(find_app_by_pid(p)) = 1
    /\ pc[p] # "exited" /\ ~registers => find_app_by_pid(p) = {}

\* Another application's flush or departure takes the screen from nobody: while it
\* lives, the active application stays so until it unregisters, a program registers,
\* or a key switches (reap_dead_processes, handle_unregister_app).
KeepsTheScreen ==
  [][\A p \in Pids :
       (/\ active_app_index \in find_app_by_pid(p) /\ is_app_alive(p)
        /\ ~ \E q \in Pids : pc[q] = "started" /\ pc'[q] = "loop"
        /\ ~ \E q \in Pids : pc[q] = "frame" /\ pc'[q] = "keyed"
        /\ pc'[p] # "leaving")
       => active_app_index' = active_app_index /\ apps'[active_app_index'].pid = p]_graphicsVars

ActiveLives == active_app_index # None /\ pc[apps[active_app_index].pid] # "exited"

\* On WASM, and there alone, while somebody draws a dead application does not stay
\* registered (handle_flush).  graphics-apps.md says without a platform that "dead processes
\* are automatically removed".  On RISC-V that is not so, and this property says nothing: a
\* terminated process keeps its slot and its pid, is_app_alive is true of it for ever, and
\* it is never removed.
DeadAreReapedOnWasm ==
  \A p \in Pids :
    GraphicsPlatform = "wasm" /\ pc[p] = "exited" /\ find_app_by_pid(p) # {} /\ ActiveLives
      ~> find_app_by_pid(p) = {} \/ ~ActiveLives

(***************************************************************************)
(* What the documentation says and the code does not do: "If the active    *)
(* app dies, the last remaining app becomes active" (graphics-apps.md).    *)
(* It does when somebody flushes, and only the active one does.            *)
(***************************************************************************)
LastBecomesActive ==
  \A p \in Pids :
    pc[p] \in {"loop", "frame", "keyed", "quitting"}
      ~> ActiveLives \/ pc[p] = "exited"
=============================================================================
