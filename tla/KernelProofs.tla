---------------------------- MODULE KernelProofs ----------------------------
(***************************************************************************)
(* What the kernel guarantees for every size of the process table, every   *)
(* platform and every behaviour of the programs.                           *)
(***************************************************************************)
EXTENDS Kernel, SequenceTheorems, WellFoundedInduction, TLAPS

-----------------------------------------------------------------------------
(* Helpers *)

\* What KernelAssumption says of the slots.
LEMMA SlotsType ==
  /\ Slots \subseteq Nat
  /\ Idle \in Slots /\ NULL \in Slots /\ 1 \in Slots
  /\ PROCS_MAX \in Nat /\ PROCS_MAX > 1
BY KernelAssumption DEF Slots, Idle, NULL

\* A non-empty set of naturals has a least element, and Min is it.
LEMMA MinInSet ==
  ASSUME NEW S, S \subseteq Nat, S # {}
  PROVE  Min(S) \in S
<1> DEFINE R == {ss \in Nat \X Nat : ss[1] < ss[2]}
<1>1. IsWellFoundedOn(R, Nat)
  BY NatLessThanWellFounded DEF OpToRel
<1>2. \E x \in S : \A y \in S : ~ (<<y, x>> \in R)
  BY <1>1, WFMin
<1>3. \A x, y \in Nat : <<y, x>> \in R <=> y < x
  OBVIOUS
<1> HIDE DEF R
<1>4. PICK x \in S : \A y \in S : x =< y
  <2>1. PICK x \in S : \A y \in S : ~ (<<y, x>> \in R)
    BY <1>2
  <2>2. \A y \in S : ~ (y < x)
    BY <1>3, <2>1
  <2>3. \A y \in S : x =< y
    BY <2>2
  <2> QED
    BY <2>3
<1> QED
  BY <1>4 DEF Min

\* Handing a lock on takes the first request off the queue, or leaves no lock.
LEMMA ActivateNextType ==
  ASSUME NEW table \in [Slots -> Process], NEW s \in Slots
  PROVE  /\ ActivateNext(table, s) \in Process
         /\ ActivateNext(table, s).pid = table[s].pid
         /\ ActivateNext(table, s).state = table[s].state
         /\ ActivateNext(table, s).ipc_wait_queue
              = IF table[s].ipc_wait_queue = <<>> THEN <<>> ELSE Tail(table[s].ipc_wait_queue)
         /\ ActivateNext(table, s).blocked_sender = NULL => table[s].ipc_wait_queue = <<>>
<1> DEFINE p == table[s]
           req == Head(p.ipc_wait_queue)
<1>1. p \in Process
  OBVIOUS
<1>2. CASE p.ipc_wait_queue = <<>>
  BY <1>1, <1>2, SlotsType DEF ActivateNext, Process
<1>3. CASE p.ipc_wait_queue # <<>>
  <2>1. /\ Tail(p.ipc_wait_queue) \in Seq(QueuedRequest)
        /\ req \in QueuedRequest
    BY <1>1, <1>3 DEF Process
  <2>2. /\ req.sender \in Slots /\ req.sender # NULL
        /\ req.message \in Message
    BY <2>1 DEF QueuedRequest, Idle, NULL
  <2>3. table[req.sender] \in Process
    BY <2>2
  <2>4. CopyPage(table[req.sender].comm_page, p.comm_page) \in Pages \cup {NullPage}
    BY <1>1, <2>3 DEF Process, CopyPage
  <2> QED
    BY <1>1, <1>3, <2>1, <2>2, <2>4 DEF ActivateNext, Process
<1> QED
  BY <1>2, <1>3

\* Removing a sender from a queue never lengthens it (process_remove_from_wait_queues).
LEMMA RemoveSenderType ==
  ASSUME NEW queue \in Seq(QueuedRequest), NEW s
  PROVE  /\ RemoveSender(queue, s) \in Seq(QueuedRequest)
         /\ Len(RemoveSender(queue, s)) <= Len(queue)
<1> DEFINE I == {i \in 1 .. Len(queue) : queue[i].sender = s}
<1>1. CASE I = {}
  BY <1>1 DEF RemoveSender, RemoveFirstMatch
<1>2. CASE I # {}
  <2>1. I \subseteq Nat /\ I \subseteq 1 .. Len(queue)
    OBVIOUS
  <2> DEFINE m == Min(I)
  <2>2. m \in 1 .. Len(queue)
    <3> HIDE DEF I
    <3> QED
      BY <1>2, <2>1, MinInSet
  <2>3. RemoveSender(queue, s) = SubSeq(queue, 1, m - 1) \o SubSeq(queue, m + 1, Len(queue))
    BY <1>2 DEF RemoveSender, RemoveFirstMatch, RemoveAt, SelectInSeq
  <2> HIDE DEF m
  <2> DEFINE left == SubSeq(queue, 1, m - 1)
             right == SubSeq(queue, m + 1, Len(queue))
  <2>4. /\ Len(queue) \in Nat
        /\ \A i \in 1 .. Len(queue) : queue[i] \in QueuedRequest
    OBVIOUS
  <2>5. left \in Seq(QueuedRequest) /\ Len(left) = m - 1
    BY <2>2, <2>4, SubSeqProperties
  <2>6. right \in Seq(QueuedRequest) /\ Len(right) = Len(queue) - m
    BY <2>2, <2>4, SubSeqProperties
  <2>7. RemoveSender(queue, s) = left \o right
    BY <2>3
  <2> HIDE DEF left, right
  <2>8. left \o right \in Seq(QueuedRequest) /\ Len(left \o right) = Len(left) + Len(right)
    BY <2>5, <2>6, ConcatProperties
  <2>9. Len(left) + Len(right) <= Len(queue)
    BY <2>2, <2>4, <2>5, <2>6
  <2> QED
    BY <2>7, <2>8, <2>9
<1> QED
  BY <1>1, <1>2

\* The records that process_create and process_exit leave in a slot are processes.
LEMMA ProcessTypes ==
  /\ Zeroed \in Process
  /\ NilPage \in Pages
  /\ \A name \in Names, pid \in Nat : NewProcess(name, pid) \in Process
<1>1. NullMessage \in Message /\ NullResponse \in Response
  BY DEF NullMessage, NullResponse, Message, Response, PidNone, Flags
<1>2. NilPage \in Pages
  BY KernelAssumption
<1>3. <<>> \in Seq(QueuedRequest)
  OBVIOUS
<1>4. Zeroed \in Process
  <2>1. "" \in Names /\ PidNone \in Nat /\ "UNUSED" \in States /\ NULL \in Slots
    BY SlotsType DEF PidNone, States, Names
  <2> QED
    BY <1>1, <1>3, <2>1 DEF Zeroed, Process
<1>5. \A name \in Names, pid \in Nat : NewProcess(name, pid) \in Process
  BY <1>2, <1>4 DEF NewProcess, Process, States
<1> QED
  BY <1>2, <1>4, <1>5

\* What process_exit leaves: types, locks before queues, no longer queues.
LEMMA ProcessExitType ==
  ASSUME NEW table \in [Slots -> Process], NEW d \in Slots
  PROVE  /\ process_exit(table, d) \in [Slots -> Process]
         /\ process_exit(table, d)[d] = Zeroed
         /\ \A s \in Slots \ {d} :
              LET old == table[s]
                  new == process_exit(table, d)[s]
              IN /\ new.pid = old.pid /\ new.state = old.state
                 /\ Len(new.ipc_wait_queue) <= Len(old.ipc_wait_queue)
                 /\ new.blocked_sender = NULL /\ new.ipc_wait_queue # <<>>
                    => old.blocked_sender = NULL /\ old.ipc_wait_queue # <<>>
<1> DEFINE new == process_exit(table, d)
           released(s) == IF table[s].blocked_sender = d THEN ActivateNext(table, s) ELSE table[s]
           cleaned(s) == [released(s) EXCEPT !.ipc_wait_queue = RemoveSender(@, d)]
<1>1. new = [s \in Slots |-> CASE s = d -> Zeroed
                               [] s # d /\ table[s].state = "UNUSED" -> table[s]
                               [] OTHER -> cleaned(s)]
  BY DEF process_exit
<1>2. new[d] = Zeroed
  BY <1>1
<1>3. ASSUME NEW s \in Slots, s # d
      PROVE  /\ new[s] \in Process
             /\ new[s].pid = table[s].pid /\ new[s].state = table[s].state
             /\ Len(new[s].ipc_wait_queue) <= Len(table[s].ipc_wait_queue)
             /\ new[s].blocked_sender = NULL /\ new[s].ipc_wait_queue # <<>>
                => table[s].blocked_sender = NULL /\ table[s].ipc_wait_queue # <<>>
  <2>1. table[s] \in Process /\ table[s].ipc_wait_queue \in Seq(QueuedRequest)
    BY DEF Process
  <2>2. CASE table[s].state = "UNUSED"
    BY <1>1, <1>3, <2>1, <2>2
  <2>3. CASE table[s].state # "UNUSED"
    <3>1. new[s] = cleaned(s)
      BY <1>1, <1>3, <2>3
    <3>2. /\ released(s) \in Process
          /\ released(s).pid = table[s].pid /\ released(s).state = table[s].state
          /\ Len(released(s).ipc_wait_queue) <= Len(table[s].ipc_wait_queue)
          /\ released(s).blocked_sender = NULL /\ released(s).ipc_wait_queue # <<>>
             => table[s].blocked_sender = NULL /\ table[s].ipc_wait_queue # <<>>
      <4>1. CASE table[s].blocked_sender = d
        <5>1. table[s].ipc_wait_queue # <<>>
              => Len(Tail(table[s].ipc_wait_queue)) <= Len(table[s].ipc_wait_queue)
          BY <2>1, HeadTailProperties
        <5>2. released(s) = ActivateNext(table, s)
          BY <4>1
        <5> HIDE DEF released
        <5>3. /\ released(s) \in Process
              /\ released(s).pid = table[s].pid /\ released(s).state = table[s].state
              /\ released(s).ipc_wait_queue
                   = IF table[s].ipc_wait_queue = <<>> THEN <<>>
                     ELSE Tail(table[s].ipc_wait_queue)
              /\ released(s).blocked_sender = NULL => table[s].ipc_wait_queue = <<>>
          BY <5>2, ActivateNextType
        <5> QED
          BY <2>1, <5>1, <5>3
      <4>2. CASE table[s].blocked_sender # d
        BY <2>1, <4>2
      <4> QED
        BY <4>1, <4>2
    <3> DEFINE r == released(s)
               q == RemoveSender(r.ipc_wait_queue, d)
    <3>3. r.ipc_wait_queue \in Seq(QueuedRequest)
      BY <3>2 DEF Process
    <3> HIDE DEF r
    <3>4. q \in Seq(QueuedRequest) /\ Len(q) <= Len(r.ipc_wait_queue)
      BY <3>3, RemoveSenderType
    <3>5. q # <<>> => r.ipc_wait_queue # <<>>
      BY <3>3, <3>4
    <3> HIDE DEF q
    <3>6. new[s] = [r EXCEPT !.ipc_wait_queue = q]
      BY <3>1 DEF r, q
    <3>7. r \in Process
      BY <3>2 DEF r
    <3>8. /\ new[s] \in Process
          /\ new[s].pid = r.pid /\ new[s].state = r.state
          /\ new[s].ipc_wait_queue = q /\ new[s].blocked_sender = r.blocked_sender
      BY <3>4, <3>6, <3>7 DEF Process
    <3>9. Len(q) <= Len(table[s].ipc_wait_queue)
      BY <2>1, <3>2, <3>3, <3>4 DEF r
    <3> QED
      BY <3>2, <3>5, <3>8, <3>9 DEF r
  <2> QED
    BY <2>2, <2>3
<1>4. new \in [Slots -> Process]
  BY <1>1, <1>2, <1>3, ProcessTypes
<1> QED
  BY <1>2, <1>3, <1>4

\* The scheduler picks a runnable process, or idle when there is none.
LEMMA NextRunnable ==
  ASSUME NEW table \in [Slots -> Process], NEW s \in Slots
  PROVE  /\ process_next_runnable(table, s) \in Slots
         /\ process_next_runnable(table, s) # Idle
            => table[process_next_runnable(table, s)].state = "RUNNABLE"
<1> DEFINE c == RunnableAfter(table, s)
<1>1. CASE c = {} \/ table[1].state = "TERMINATED"
  BY <1>1, SlotsType DEF process_next_runnable
<1>2. CASE ~(c = {} \/ table[1].state = "TERMINATED")
  <2>1. c \subseteq Nat /\ c \subseteq Slots
    BY SlotsType DEF RunnableAfter
  <2> DEFINE i == Min(c)
  <2>2. i \in c
    <3> HIDE DEF c
    <3> QED
      BY <1>2, <2>1, MinInSet
  <2>3. i \in Nat /\ table[(s + i + 1) % PROCS_MAX].state = "RUNNABLE"
    BY <2>1, <2>2 DEF RunnableAfter
  <2>4. process_next_runnable(table, s) = (s + i + 1) % PROCS_MAX
    BY <1>2 DEF process_next_runnable
  <2>5. (s + i + 1) % PROCS_MAX \in Slots
    BY <2>3, SlotsType DEF Slots
  <2> QED
    BY <2>3, <2>4, <2>5
<1> QED
  BY <1>1, <1>2

-----------------------------------------------------------------------------
(* The inductive invariant *)

IInv ==
  /\ TypeOK
  /\ PidsUnique
  /\ QueueOnlyWhenLocked
  /\ QueueBounded
  /\ RunnerIsRunnable

\* The boot processes satisfy the invariant.
LEMMA InitIInv == Init => IInv
<1> SUFFICES ASSUME Init PROVE IInv
  OBVIOUS
<1>1. Len(Boot) \in Nat /\ Len(Boot) < PROCS_MAX /\ \A i \in 1 .. Len(Boot) : Boot[i] \in Names
  <2>1. Len(Boot) \in Nat /\ Len(Boot) < PROCS_MAX /\ DOMAIN Boot = 1 .. Len(Boot)
    BY KernelAssumption
  <2> QED
    BY <2>1 DEF Names, Range
<1>2. \A s \in Slots :
        /\ procs[s] \in Process
        /\ procs[s].pid = IF s <= Len(Boot) THEN s + 1 ELSE PidNone
        /\ procs[s].ipc_wait_queue = <<>>
  <2> TAKE s \in Slots
  <2>1. CASE s = Idle
    <3>1. procs[s] = NewProcess("idle", 1)
      BY <1>1, <2>1 DEF Init, Idle
    <3>2. s <= Len(Boot) /\ s + 1 = 1
      BY <1>1, <2>1 DEF Idle
    <3>3. NewProcess("idle", 1) \in Process
      BY ProcessTypes DEF Names
    <3>4. NewProcess("idle", 1).pid = 1 /\ NewProcess("idle", 1).ipc_wait_queue = <<>>
      BY DEF NewProcess, Zeroed
    <3> QED
      BY <3>1, <3>2, <3>3, <3>4
  <2>2. CASE s \in 1 .. Len(Boot)
    <3>1. procs[s] = NewProcess(Boot[s], s + 1)
      BY <1>1, <2>2 DEF Init, Idle
    <3>2. NewProcess(Boot[s], s + 1) \in Process
      BY <1>1, <2>2, ProcessTypes
    <3>3. NewProcess(Boot[s], s + 1).pid = s + 1 /\ NewProcess(Boot[s], s + 1).ipc_wait_queue = <<>>
      BY DEF NewProcess, Zeroed
    <3> QED
      BY <1>1, <2>2, <3>1, <3>2, <3>3
  <2>3. CASE s # Idle /\ s \notin 1 .. Len(Boot)
    <3>1. ~(s <= Len(Boot))
      BY <1>1, <2>3, SlotsType DEF Idle
    <3> QED
      BY <2>3, <3>1, ProcessTypes DEF Init, Zeroed
  <2> QED
    BY <2>1, <2>2, <2>3
<1>3. TypeOK
  <2>1. procs \in [Slots -> Process]
    BY <1>2 DEF Init
  <2>2. process_pids \in [Slots -> Nat]
    BY SlotsType DEF Init, PidNone
  <2> QED
    BY <1>1, <2>1, <2>2, SlotsType DEF Init, TypeOK, KernelStates
<1>4. PidsUnique
  <2>1. \A s \in Slots : process_pids[s] = procs[s].pid
    BY <1>2 DEF Init
  <2>2. \A s \in Slots : procs[s].pid < proc_pid_counter
    BY <1>1, <1>2, SlotsType DEF Init, PidNone
  <2>3. \A s, t \in Slots : procs[s].pid = procs[t].pid /\ s # t => procs[s].pid = PidNone
    BY <1>1, <1>2, SlotsType DEF PidNone
  <2> QED
    BY <2>1, <2>2, <2>3 DEF PidsUnique
<1>5. QueueOnlyWhenLocked /\ QueueBounded
  BY <1>2, SlotsType DEF QueueOnlyWhenLocked, QueueBounded
<1>6. RunnerIsRunnable
  BY DEF Init, RunnerIsRunnable
<1> QED
  BY <1>3, <1>4, <1>5, <1>6 DEF IInv

(***************************************************************************)
(* Most actions change the table in one or two slots and leave pids and    *)
(* the counter alone; the invariant then comes down to these facts.        *)
(***************************************************************************)
LEMMA TableStep ==
  ASSUME IInv,
         procs' \in [Slots -> Process],
         UNCHANGED <<process_pids, proc_pid_counter, kernel>>,
         \A s \in Slots :
           /\ procs'[s].pid = procs[s].pid
           /\ procs'[s].ipc_wait_queue # <<>> => procs'[s].blocked_sender # NULL
           /\ Len(procs'[s].ipc_wait_queue) <= PROCS_MAX
  PROVE  procs' \in [Slots -> Process] /\ PidsUnique' /\ QueueOnlyWhenLocked' /\ QueueBounded'
BY DEF IInv, PidsUnique, QueueOnlyWhenLocked, QueueBounded

\* A step that leaves the running process' stack preserves IInv if the table's parts hold.
LEMMA SwitchAwayStep ==
  ASSUME IInv, NEW p \in Slots, NEW target \in Slots, NEW r \in {"user", "send", "recv", "exited"},
         Running(p), SwitchAway(p, target, r),
         procs' \in [Slots -> Process],
         target # NULL => procs'[target].state = "RUNNABLE",
         \A s \in Slots :
           /\ procs'[s].pid = procs[s].pid
           /\ procs'[s].ipc_wait_queue # <<>> => procs'[s].blocked_sender # NULL
           /\ Len(procs'[s].ipc_wait_queue) <= PROCS_MAX
  PROVE  IInv'
<1>1. PidsUnique' /\ QueueOnlyWhenLocked' /\ QueueBounded'
  BY TableStep DEF SwitchAway
<1>2. TypeOK'
  BY DEF IInv, TypeOK, SwitchAway
<1>3. RunnerIsRunnable'
  BY DEF RunnerIsRunnable, SwitchAway
<1> QED
  BY <1>1, <1>2, <1>3 DEF IInv

\* A step that changes nothing preserves IInv.
LEMMA StutterStep == IInv /\ UNCHANGED vars => IInv'
<1> SUFFICES ASSUME IInv, UNCHANGED vars PROVE IInv'
  OBVIOUS
<1>1. TypeOK'
  BY DEF vars, IInv, TypeOK
<1>2. PidsUnique'
  BY DEF vars, IInv, PidsUnique
<1>3. QueueOnlyWhenLocked' /\ QueueBounded'
  BY DEF vars, IInv, QueueOnlyWhenLocked, QueueBounded
<1>4. RunnerIsRunnable'
  BY DEF vars, IInv, RunnerIsRunnable
<1> QED
  BY <1>1, <1>2, <1>3, <1>4 DEF IInv

\* What IInv says of one slot.
LEMMA SlotFacts ==
  ASSUME IInv, NEW s \in Slots
  PROVE  /\ procs[s] \in Process
         /\ procs[s].ipc_wait_queue \in Seq(QueuedRequest)
         /\ procs[s].blocked_sender \in Slots
         /\ procs[s].ipc_wait_queue # <<>> => procs[s].blocked_sender # NULL
         /\ Len(procs[s].ipc_wait_queue) <= PROCS_MAX
BY DEF IInv, TypeOK, QueueOnlyWhenLocked, QueueBounded, Process

\* A send that found its target found it in a slot.
LEMMA TargetSlot ==
  ASSUME IInv, NEW p, NEW pid, NEW t, SendingTo(p, pid, t)
  PROVE  t \in Slots
BY MinInSet, SlotsType DEF SendingTo, process_lookup_by_pid, SlotsOfPid

\* The message a send builds is a message.
LEMMA RequestType ==
  ASSUME IInv, NEW p \in Slots, NEW flags \in FlagSets, NEW arg \in Args
  PROVE  Request(p, flags, arg) \in Message
BY KernelAssumption, SlotFacts DEF Request, Message, Flags, Process

\* A process whose lock is taken with a message is a process.
LEMMA LockedType ==
  ASSUME IInv, NEW p \in Slots \ {Idle}, NEW t \in Slots, NEW flags \in FlagSets, NEW arg \in Args
  PROVE  /\ Locked(t, p, flags, arg) \in Process
         /\ Locked(t, p, flags, arg).pid = procs[t].pid
         /\ Locked(t, p, flags, arg).state = procs[t].state
         /\ Locked(t, p, flags, arg).ipc_wait_queue = procs[t].ipc_wait_queue
         /\ Locked(t, p, flags, arg).blocked_sender # NULL
<1>1. procs[p] \in Process /\ procs[t] \in Process
  BY SlotFacts
<1>2. Request(p, flags, arg) \in Message
  BY RequestType
<1>3. CopyPage(procs[p].comm_page, procs[t].comm_page) \in Pages \cup {NullPage}
  BY <1>1 DEF CopyPage, Process
<1>4. p # NULL
  BY DEF Idle, NULL
<1> QED
  BY <1>1, <1>2, <1>3, <1>4 DEF Locked, Process

\* ou_yield preserves IInv.
LEMMA YieldStep ==
  ASSUME IInv, NEW p \in Slots, OuYield(p)
  PROVE  IInv'
BY SlotFacts, SlotsType, SwitchAwayStep DEF OuYield, IInv, TypeOK

\* A step that only changes the running process' state and switches preserves IInv.
LEMMA StateStep ==
  ASSUME IInv, NEW p \in Slots, NEW st \in States, NEW r \in {"user", "send", "recv", "exited"},
         Running(p), procs' = [procs EXCEPT ![p].state = st], SwitchAway(p, NULL, r)
  PROVE  IInv'
<1>1. procs \in [Slots -> Process]
  BY DEF IInv, TypeOK
<1>2. procs' \in [Slots -> Process]
  BY <1>1 DEF Process
<1>3. \A s \in Slots :
        /\ procs'[s].pid = procs[s].pid
        /\ procs'[s].ipc_wait_queue # <<>> => procs'[s].blocked_sender # NULL
        /\ Len(procs'[s].ipc_wait_queue) <= PROCS_MAX
  BY <1>1, SlotFacts DEF Process
<1> QED
  BY <1>2, <1>3, SlotsType, SwitchAwayStep

\* ou_proc_spawn preserves IInv: the new pid is the counter, above every pid in use.
LEMMA SpawnStep ==
  ASSUME IInv, NEW p \in Slots, NEW name \in Programs, OuProcSpawn(p, name)
  PROVE  IInv'
<1>1. CASE ProcessCreate(name)
  <2> DEFINE s == Min(FreeSlots(procs))
  <2>1. s \in Slots
    BY <1>1, MinInSet, SlotsType DEF ProcessCreate, FreeSlots
  <2> HIDE DEF s
  <2>2. /\ procs' = [procs EXCEPT ![s] = NewProcess(name, proc_pid_counter)]
        /\ process_pids' = [process_pids EXCEPT ![s] = proc_pid_counter]
        /\ proc_pid_counter' = proc_pid_counter + 1
        /\ resume' = [resume EXCEPT ![s] = "user"]
        /\ UNCHANGED <<kernel, current_proc, yielding, scheduler_next_process>>
    BY <1>1 DEF ProcessCreate, OuProcSpawn, s
  <2> DEFINE new == NewProcess(name, proc_pid_counter)
  <2>3. /\ new \in Process
        /\ new.pid = proc_pid_counter /\ new.state = "RUNNABLE"
        /\ new.ipc_wait_queue = <<>>
    BY ProcessTypes DEF IInv, TypeOK, NewProcess, Zeroed, Names
  <2> HIDE DEF new
  <2>4. procs' = [procs EXCEPT ![s] = new]
    BY <2>2 DEF new
  <2>5. TypeOK'
    BY <2>1, <2>2, <2>3, <2>4 DEF IInv, TypeOK
  <2>6. PidsUnique'
    <3>1. \A t \in Slots : procs'[t] = IF t = s THEN new ELSE procs[t]
      BY <2>1, <2>4 DEF IInv, TypeOK
    <3>2. \A t \in Slots :
            process_pids'[t] = IF t = s THEN proc_pid_counter ELSE process_pids[t]
      BY <2>1, <2>2 DEF IInv, TypeOK
    <3>3. \A t \in Slots : procs[t].pid \in Nat /\ procs[t].pid < proc_pid_counter
      BY DEF IInv, TypeOK, PidsUnique, Process
    <3>4. proc_pid_counter \in Nat
      BY DEF IInv, TypeOK
    <3>5. kernel # "shut down" => \A t \in Slots : process_pids'[t] = procs'[t].pid
      BY <2>3, <3>1, <3>2 DEF IInv, PidsUnique
    <3>6. \A t \in Slots : procs'[t].pid < proc_pid_counter'
      BY <2>2, <2>3, <3>1, <3>3, <3>4
    <3>7. \A t, u \in Slots : procs'[t].pid = procs'[u].pid /\ t # u => procs'[t].pid = PidNone
      <4>1. \A t \in Slots : procs'[t].pid = IF t = s THEN proc_pid_counter ELSE procs[t].pid
        BY <2>3, <3>1
      <4>2. \A t \in Slots : procs[t].pid # proc_pid_counter
        BY <3>3, <3>4
      <4> QED
        BY <4>1, <4>2 DEF IInv, PidsUnique
    <3> QED
      BY <2>2, <3>5, <3>6, <3>7 DEF PidsUnique
  <2>7. QueueOnlyWhenLocked' /\ QueueBounded'
    <3>1. \A t \in Slots : procs'[t] = IF t = s THEN new ELSE procs[t]
      BY <2>1, <2>4 DEF IInv, TypeOK
    <3>2. Len(<<>>) <= PROCS_MAX
      BY SlotsType
    <3>3. QueueOnlyWhenLocked'
      BY <2>3, <3>1 DEF IInv, QueueOnlyWhenLocked
    <3>4. QueueBounded'
      BY <2>3, <3>1, <3>2 DEF IInv, QueueBounded
    <3> QED
      BY <3>3, <3>4
  <2>8. RunnerIsRunnable'
    BY <2>1, <2>2, <2>3, <2>4 DEF IInv, TypeOK, RunnerIsRunnable
  <2> QED
    BY <2>5, <2>6, <2>7, <2>8 DEF IInv
<1>2. CASE ProcessLimitPanic
  BY <1>2 DEF ProcessLimitPanic, OuProcSpawn, Running, IInv, TypeOK, KernelStates, PidsUnique,
              QueueOnlyWhenLocked, QueueBounded, RunnerIsRunnable
<1> QED
  BY <1>1, <1>2 DEF OuProcSpawn

\* The end of the kernel preserves IInv.
LEMMA ShutdownStep ==
  ASSUME IInv, NEW p \in Slots, OuShutdown(p)
  PROVE  IInv'
<1>1. procs \in [Slots -> Process]
  BY DEF IInv, TypeOK
<1>2. procs' \in [Slots -> Process]
  BY ZenonT(30), <1>1 DEF OuShutdown, Process, States
<1>3. \A s \in Slots :
        /\ procs'[s].pid = procs[s].pid
        /\ procs'[s].ipc_wait_queue = procs[s].ipc_wait_queue
        /\ procs'[s].blocked_sender = procs[s].blocked_sender
  <2> TAKE s \in Slots
  <2>1. procs[s] \in Process /\ procs'[s] = [procs[s] EXCEPT !.state = "UNUSED"]
    BY <1>1 DEF OuShutdown
  <2> QED
    BY <2>1 DEF Process
<1>4. TypeOK'
  BY <1>2 DEF OuShutdown, IInv, TypeOK, KernelStates, PidNone
<1>5. PidsUnique'
  <2>1. proc_pid_counter' = proc_pid_counter /\ kernel' = "shut down"
    BY DEF OuShutdown
  <2> QED
    BY ZenonT(30), <1>3, <2>1 DEF IInv, PidsUnique
<1>6. QueueOnlyWhenLocked' /\ QueueBounded'
  BY <1>3 DEF IInv, QueueOnlyWhenLocked, QueueBounded
<1>7. RunnerIsRunnable'
  BY DEF OuShutdown, Running, RunnerIsRunnable
<1> QED
  BY <1>4, <1>5, <1>6, <1>7 DEF IInv

\* Steps that return to the program: the table may change, no stack is left.
LEMMA StayStep ==
  ASSUME IInv, NEW p \in Slots, current_proc = p, ~yielding,
         procs' \in [Slots -> Process],
         resume' \in [Slots -> {"user", "send", "recv", "exited"}],
         UNCHANGED <<process_pids, proc_pid_counter, current_proc, yielding,
                     scheduler_next_process, kernel>>,
         \A s \in Slots :
           /\ procs'[s].pid = procs[s].pid /\ procs'[s].state = procs[s].state
           /\ procs'[s].ipc_wait_queue = procs[s].ipc_wait_queue
           /\ procs'[s].blocked_sender = procs[s].blocked_sender
  PROVE  IInv'
<1>1. PidsUnique' /\ QueueOnlyWhenLocked' /\ QueueBounded'
  BY SlotFacts, TableStep
<1>2. TypeOK'
  BY DEF IInv, TypeOK
<1>3. RunnerIsRunnable'
  BY DEF IInv, RunnerIsRunnable
<1> QED
  BY <1>1, <1>2, <1>3 DEF IInv

\* Both paths of ou_ipc_recv preserve IInv.
LEMMA RecvStep ==
  ASSUME IInv, NEW p \in Slots, IpcRecvPending(p) \/ IpcRecvReturn(p) \/ IpcSendReturn(p)
  PROVE  IInv'
<1>1. /\ procs \in [Slots -> Process]
      /\ resume \in [Slots -> {"user", "send", "recv", "exited"}]
  BY DEF IInv, TypeOK
<1>2. CASE IpcSendReturn(p)
  BY <1>1, <1>2, StayStep DEF IpcSendReturn
<1>3. CASE IpcRecvPending(p) \/ IpcRecvReturn(p)
  <2>1. procs' = [procs EXCEPT ![p].has_pending_message = FALSE]
    BY <1>3 DEF IpcRecvPending, IpcRecvReturn
  <2>2. resume' \in [Slots -> {"user", "send", "recv", "exited"}]
    BY <1>1, <1>3 DEF IpcRecvPending, IpcRecvReturn
  <2>3. procs' \in [Slots -> Process]
    BY <1>1, <2>1 DEF Process
  <2>4. \A s \in Slots :
           /\ procs'[s].pid = procs[s].pid /\ procs'[s].state = procs[s].state
           /\ procs'[s].ipc_wait_queue = procs[s].ipc_wait_queue
           /\ procs'[s].blocked_sender = procs[s].blocked_sender
    BY <1>1, <2>1 DEF Process
  <2> QED
    BY <1>3, <2>2, <2>3, <2>4, StayStep DEF IpcRecvPending, IpcRecvReturn, Running
<1> QED
  BY <1>2, <1>3

\* Writing the comm page preserves IInv.
LEMMA WriteStep ==
  ASSUME IInv, NEW p \in Slots, NEW page \in Pages, WriteCommPage(p, page)
  PROVE  IInv'
<1>1. /\ procs \in [Slots -> Process]
      /\ resume \in [Slots -> {"user", "send", "recv", "exited"}]
  BY DEF IInv, TypeOK
<1>2. procs' \in [Slots -> Process]
  BY <1>1 DEF WriteCommPage, Process
<1>3. \A s \in Slots :
         /\ procs'[s].pid = procs[s].pid /\ procs'[s].state = procs[s].state
         /\ procs'[s].ipc_wait_queue = procs[s].ipc_wait_queue
         /\ procs'[s].blocked_sender = procs[s].blocked_sender
  BY <1>1 DEF WriteCommPage, Process
<1> QED
  BY <1>1, <1>2, <1>3, StayStep DEF WriteCommPage, Running

\* A send to a locked target, queued behind the lock, preserves IInv.
LEMMA QueuedStep ==
  ASSUME IInv, NEW p \in Slots \ {Idle}, NEW pid, NEW flags \in FlagSets, NEW arg \in Args,
         IpcSendQueued(p, pid, flags, arg)
  PROVE  IInv'
<1>1. PICK t \in Slots :
        /\ SendingTo(p, pid, t)
        /\ procs[t].blocked_sender # NULL
        /\ Len(procs[t].ipc_wait_queue) < PROCS_MAX
        /\ procs' = [procs EXCEPT
              ![t].ipc_wait_queue = Append(@, [sender |-> p, message |-> Request(p, flags, arg)]),
              ![p].state = "IPC_SEND_WAIT"]
        /\ SwitchAway(p, NULL, "send")
  BY DEF IpcSendQueued
<1> DEFINE entry == [sender |-> p, message |-> Request(p, flags, arg)]
           queue == Append(procs[t].ipc_wait_queue, entry)
<1>2. procs \in [Slots -> Process]
  BY DEF IInv, TypeOK
<1>3. queue \in Seq(QueuedRequest) /\ Len(queue) <= PROCS_MAX
  <2>1. entry \in QueuedRequest
    BY RequestType DEF QueuedRequest
  <2> HIDE DEF entry
  <2>2. procs[t].ipc_wait_queue \in Seq(QueuedRequest)
    BY SlotFacts
  <2>3. queue \in Seq(QueuedRequest) /\ Len(queue) = Len(procs[t].ipc_wait_queue) + 1
    BY <2>1, <2>2, AppendProperties
  <2> QED
    BY <1>1, <2>2, <2>3, SlotsType
<1> HIDE DEF entry
<1>4. procs' = [procs EXCEPT ![t].ipc_wait_queue = queue, ![p].state = "IPC_SEND_WAIT"]
  BY <1>1 DEF entry
<1> HIDE DEF queue
<1>5. procs' \in [Slots -> Process]
  <2> DEFINE mid == [procs EXCEPT ![t].ipc_wait_queue = queue]
  <2>1. procs' = [mid EXCEPT ![p].state = "IPC_SEND_WAIT"]
    BY <1>4
  <2>2. mid \in [Slots -> Process]
    BY <1>2, <1>3 DEF Process
  <2> HIDE DEF mid
  <2> QED
    BY <2>1, <2>2 DEF Process, States
<1>6. \A s \in Slots :
         /\ procs'[s].pid = procs[s].pid
         /\ procs'[s].ipc_wait_queue = IF s = t THEN queue ELSE procs[s].ipc_wait_queue
         /\ procs'[s].blocked_sender = procs[s].blocked_sender
  BY <1>2, <1>4 DEF Process
<1>7. \A s \in Slots :
        /\ procs'[s].ipc_wait_queue # <<>> => procs'[s].blocked_sender # NULL
        /\ Len(procs'[s].ipc_wait_queue) <= PROCS_MAX
  BY ZenonT(30), <1>1, <1>3, <1>6, SlotFacts
<1> QED
  BY <1>1, <1>5, <1>6, <1>7, SlotsType, SwitchAwayStep DEF SendingTo

\* A send to a waiting receiver, switched to directly, preserves IInv.
LEMMA DirectStep ==
  ASSUME IInv, NEW p \in Slots \ {Idle}, NEW pid, NEW flags \in FlagSets, NEW arg \in Args,
         IpcSendDirect(p, pid, flags, arg)
  PROVE  IInv'
<1>1. PICK t \in Slots :
        /\ Running(p)
        /\ procs' = [procs EXCEPT ![t] = [Locked(t, p, flags, arg) EXCEPT !.state = "RUNNABLE"]]
        /\ SwitchAway(p, t, "send")
  BY DEF IpcSendDirect, SendingTo
<1> DEFINE new == [Locked(t, p, flags, arg) EXCEPT !.state = "RUNNABLE"]
<1>2. procs \in [Slots -> Process]
  BY DEF IInv, TypeOK
<1>3. /\ new \in Process
      /\ new.pid = procs[t].pid /\ new.state = "RUNNABLE"
      /\ new.ipc_wait_queue = procs[t].ipc_wait_queue
      /\ new.blocked_sender # NULL
  BY SMTT(30), LockedType DEF Process, States
<1> HIDE DEF new
<1>4. \A s \in Slots : procs'[s] = IF s = t THEN new ELSE procs[s]
  BY <1>1, <1>2 DEF new
<1>5. procs' \in [Slots -> Process]
  BY <1>1, <1>2, <1>3 DEF new
<1>6. \A s \in Slots :
        /\ procs'[s].pid = procs[s].pid
        /\ procs'[s].ipc_wait_queue # <<>> => procs'[s].blocked_sender # NULL
        /\ Len(procs'[s].ipc_wait_queue) <= PROCS_MAX
  BY <1>3, <1>4, SlotFacts
<1> QED
  BY <1>1, <1>3, <1>4, <1>5, <1>6, SwitchAwayStep

\* A send to a target that is not receiving yet preserves IInv.
LEMMA BlocksStep ==
  ASSUME IInv, NEW p \in Slots \ {Idle}, NEW pid, NEW flags \in FlagSets, NEW arg \in Args,
         IpcSendBlocks(p, pid, flags, arg)
  PROVE  IInv'
<1> DEFINE locked(t) == [procs EXCEPT ![t] = Locked(t, p, flags, arg)]
<1>1. PICK t \in Slots :
        /\ Running(p)
        /\ procs' = [locked(t) EXCEPT ![p].state = "IPC_SEND_WAIT"]
        /\ SwitchAway(p, NULL, "send")
  BY DEF IpcSendBlocks, SendingTo
<1> DEFINE new == Locked(t, p, flags, arg)
           mid == [procs EXCEPT ![t] = new]
<1>2. procs \in [Slots -> Process]
  BY DEF IInv, TypeOK
<1>3. /\ new \in Process
      /\ new.pid = procs[t].pid
      /\ new.ipc_wait_queue = procs[t].ipc_wait_queue
      /\ new.blocked_sender # NULL
  BY LockedType
<1> HIDE DEF new
<1>4. mid \in [Slots -> Process] /\ \A s \in Slots : mid[s] = IF s = t THEN new ELSE procs[s]
  BY <1>2, <1>3
<1>5. procs' = [mid EXCEPT ![p].state = "IPC_SEND_WAIT"]
  BY <1>1 DEF new
<1> HIDE DEF mid, locked
<1>6. procs' \in [Slots -> Process]
  BY ZenonT(30), <1>4, <1>5 DEF Process, States
<1>7. \A s \in Slots :
        /\ procs'[s].pid = mid[s].pid
        /\ procs'[s].ipc_wait_queue = mid[s].ipc_wait_queue
        /\ procs'[s].blocked_sender = mid[s].blocked_sender
  BY <1>4, <1>5 DEF Process
<1>8. \A s \in Slots :
        /\ procs'[s].pid = procs[s].pid
        /\ procs'[s].ipc_wait_queue # <<>> => procs'[s].blocked_sender # NULL
        /\ Len(procs'[s].ipc_wait_queue) <= PROCS_MAX
  BY <1>3, <1>4, <1>7, SlotFacts
<1> QED
  BY <1>1, <1>6, <1>8, SlotsType, SwitchAwayStep

\* ou_ipc_reply preserves IInv.
LEMMA ReplyStep ==
  ASSUME IInv, NEW p \in Slots, NEW response \in Responses, OuIpcReply(p, response)
  PROVE  IInv'
<1> DEFINE sender == procs[p].blocked_sender
           page == IF "RECV_COMM_DATA" \in procs[p].pending_message.flags
                   THEN CopyPage(procs[p].comm_page, procs[sender].comm_page)
                   ELSE procs[sender].comm_page
           answered == [procs EXCEPT ![sender].comm_page = page,
                                     ![sender].pending_response = response]
           activated == [answered EXCEPT ![p] = ActivateNext(answered, p)]
<1>1. /\ procs \in [Slots -> Process] /\ procs[p] \in Process
      /\ sender \in Slots /\ procs[sender] \in Process
  BY SlotFacts DEF IInv, TypeOK
<1>2. /\ Running(p)
      /\ procs' = [activated EXCEPT ![sender].state = "RUNNABLE"]
      /\ SwitchAway(p, sender, "user")
  BY <1>1 DEF OuIpcReply
<1>3. page \in Pages \cup {NullPage} /\ response \in Response
  BY <1>1, KernelAssumption DEF CopyPage, Process, Response
<1> HIDE DEF sender, page
<1>4. /\ answered \in [Slots -> Process]
      /\ \A s \in Slots : /\ answered[s].pid = procs[s].pid
                          /\ answered[s].ipc_wait_queue = procs[s].ipc_wait_queue
                          /\ answered[s].blocked_sender = procs[s].blocked_sender
  <2> DEFINE mid == [procs EXCEPT ![sender].comm_page = page]
  <2>1. mid \in [Slots -> Process]
    BY <1>1, <1>3 DEF Process
  <2>2. \A s \in Slots : /\ mid[s].pid = procs[s].pid
                         /\ mid[s].ipc_wait_queue = procs[s].ipc_wait_queue
                         /\ mid[s].blocked_sender = procs[s].blocked_sender
    BY <1>1 DEF Process
  <2>3. answered = [mid EXCEPT ![sender].pending_response = response]
    BY <1>1
  <2> HIDE DEF mid, answered
  <2>4. answered \in [Slots -> Process]
    BY <1>1, <1>3, <2>1, <2>3 DEF Process
  <2>5. \A s \in Slots : /\ answered[s].pid = mid[s].pid
                         /\ answered[s].ipc_wait_queue = mid[s].ipc_wait_queue
                         /\ answered[s].blocked_sender = mid[s].blocked_sender
    BY <1>1, <2>1, <2>3 DEF Process
  <2> QED
    BY <2>2, <2>4, <2>5
<1> HIDE DEF answered
<1> DEFINE next == ActivateNext(answered, p)
<1>5. /\ next \in Process
      /\ next.pid = procs[p].pid
      /\ next.ipc_wait_queue # <<>> => next.blocked_sender # NULL
      /\ Len(next.ipc_wait_queue) <= PROCS_MAX
  <2>1. /\ next \in Process
        /\ next.pid = answered[p].pid
        /\ next.ipc_wait_queue = IF answered[p].ipc_wait_queue = <<>> THEN <<>>
                                 ELSE Tail(answered[p].ipc_wait_queue)
        /\ next.blocked_sender = NULL => answered[p].ipc_wait_queue = <<>>
    BY <1>4, ActivateNextType
  <2>2. /\ answered[p].ipc_wait_queue \in Seq(QueuedRequest)
        /\ Len(answered[p].ipc_wait_queue) <= PROCS_MAX
    BY <1>4, SlotFacts
  <2>3. answered[p].ipc_wait_queue # <<>>
        => Len(Tail(answered[p].ipc_wait_queue)) <= PROCS_MAX
    BY <2>2, SlotsType, HeadTailProperties
  <2> HIDE DEF next
  <2> QED
    BY <1>4, <2>1, <2>2, <2>3
<1> HIDE DEF next
<1>6. /\ activated \in [Slots -> Process]
      /\ \A s \in Slots : activated[s] = IF s = p THEN next ELSE answered[s]
  BY <1>4, <1>5 DEF next
<1> HIDE DEF activated
<1>7. procs' \in [Slots -> Process] /\ procs'[sender].state = "RUNNABLE"
  BY <1>1, <1>2, <1>6 DEF Process, States
<1>8. \A s \in Slots :
        /\ procs'[s].pid = activated[s].pid
        /\ procs'[s].ipc_wait_queue = activated[s].ipc_wait_queue
        /\ procs'[s].blocked_sender = activated[s].blocked_sender
  BY <1>1, <1>2, <1>6 DEF Process
<1>9. \A s \in Slots :
        /\ procs'[s].pid = procs[s].pid
        /\ procs'[s].ipc_wait_queue # <<>> => procs'[s].blocked_sender # NULL
        /\ Len(procs'[s].ipc_wait_queue) <= PROCS_MAX
  BY <1>4, <1>5, <1>6, <1>8, SlotFacts
<1> QED
  BY <1>1, <1>2, <1>7, <1>9, SwitchAwayStep

\* The switch preserves IInv, with the clean-up of a terminated process on WASM.
LEMMA ScheduleStep ==
  ASSUME IInv, Schedule
  PROVE  IInv'
<1> DEFINE reap == Platform = "wasm" /\ procs[current_proc].state = "TERMINATED"
           table == IF reap THEN process_exit(procs, current_proc) ELSE procs
           next == IF scheduler_next_process # NULL THEN scheduler_next_process
                   ELSE process_next_runnable(table, Pidx(table, current_proc))
<1>1. /\ yielding /\ procs' = table /\ current_proc' = next
      /\ process_pids' = IF reap THEN [process_pids EXCEPT ![current_proc] = PidNone]
                         ELSE process_pids
      /\ yielding' = FALSE /\ scheduler_next_process' = NULL
      /\ kernel' = CASE next = Idle -> "exited"
                     [] next # Idle /\ (table[next].pid = PidNone \/ resume[next] = "exited")
                        -> "undefined"
                     [] OTHER -> "up"
      /\ UNCHANGED <<proc_pid_counter, resume>>
  BY DEF Schedule
<1>2. /\ procs \in [Slots -> Process] /\ current_proc \in Slots
      /\ scheduler_next_process \in Slots
      /\ process_pids \in [Slots -> Nat] /\ proc_pid_counter \in Nat \ {0}
      /\ resume \in [Slots -> {"user", "send", "recv", "exited"}]
  BY DEF IInv, TypeOK
<1>3. /\ table \in [Slots -> Process]
      /\ reap => table[current_proc] = Zeroed
      /\ \A s \in Slots : ~reap \/ s # current_proc =>
           /\ table[s].pid = procs[s].pid /\ table[s].state = procs[s].state
           /\ Len(table[s].ipc_wait_queue) <= Len(procs[s].ipc_wait_queue)
           /\ table[s].blocked_sender = NULL /\ table[s].ipc_wait_queue # <<>>
              => procs[s].blocked_sender = NULL /\ procs[s].ipc_wait_queue # <<>>
  <2>1. CASE reap
    BY <1>2, <2>1, ProcessExitType
  <2>2. CASE ~reap
    <3>1. \A s \in Slots : Len(procs[s].ipc_wait_queue) <= Len(procs[s].ipc_wait_queue)
      BY SlotFacts
    <3> QED
      BY <1>2, <2>2, <3>1
  <2> QED
    BY <2>1, <2>2
<1>4. reap => procs[current_proc].state = "TERMINATED"
  OBVIOUS
<1> HIDE DEF reap, table
<1>5. next \in Slots /\ (next # Idle => table[next].state = "RUNNABLE")
  <2>1. CASE scheduler_next_process # NULL
    <3>1. next = scheduler_next_process
      BY <2>1
    <3>2. procs[next].state = "RUNNABLE"
      BY <1>1, <2>1, <3>1 DEF IInv, RunnerIsRunnable
    <3>3. ~reap \/ next # current_proc
      BY <1>4, <3>2
    <3> QED
      BY <1>2, <1>3, <3>1, <3>2, <3>3
  <2>2. CASE scheduler_next_process = NULL
    <3>1. Pidx(table, current_proc) \in Slots
      BY <1>2, SlotsType DEF Pidx, NULL
    <3> QED
      BY <1>3, <2>2, <3>1, NextRunnable
  <2> QED
    BY <2>1, <2>2
<1> HIDE DEF next
<1>6. TypeOK'
  <2>1. process_pids' \in [Slots -> Nat]
    BY <1>1, <1>2 DEF PidNone
  <2>2. kernel' \in KernelStates
    BY <1>1 DEF KernelStates
  <2> QED
    BY <1>1, <1>2, <1>3, <1>5, <2>1, <2>2, SlotsType DEF TypeOK
<1>7. Zeroed.pid = PidNone /\ Zeroed.ipc_wait_queue = <<>>
  BY DEF Zeroed
<1>8. PidsUnique'
  <2>1. \A s \in Slots : procs'[s].pid = IF reap /\ s = current_proc THEN PidNone ELSE procs[s].pid
    BY <1>1, <1>3, <1>7
  <2>2. \A s \in Slots :
          process_pids'[s] = IF reap /\ s = current_proc THEN PidNone ELSE process_pids[s]
    BY <1>1, <1>2
  <2>3. PidNone < proc_pid_counter
    BY <1>2 DEF PidNone
  <2>4. \A s \in Slots : process_pids[s] = procs[s].pid
    BY DEF Schedule, IInv, PidsUnique
  <2>5. \A s \in Slots : process_pids'[s] = procs'[s].pid
    BY <2>1, <2>2, <2>4
  <2>6. \A s \in Slots : procs'[s].pid < proc_pid_counter'
    BY <1>1, <2>1, <2>3 DEF IInv, PidsUnique
  <2>7. \A s, t \in Slots : procs'[s].pid = procs'[t].pid /\ s # t => procs'[s].pid = PidNone
    BY <2>1 DEF IInv, PidsUnique
  <2> QED
    BY <2>5, <2>6, <2>7 DEF PidsUnique
<1>9. QueueOnlyWhenLocked'
  BY <1>1, <1>3, <1>7 DEF IInv, QueueOnlyWhenLocked
<1>10. QueueBounded'
  <2> SUFFICES ASSUME NEW s \in Slots PROVE Len(table[s].ipc_wait_queue) <= PROCS_MAX
    BY <1>1 DEF QueueBounded
  <2>1. CASE reap /\ s = current_proc
    BY <1>3, <1>7, <2>1, SlotsType
  <2>2. CASE ~reap \/ s # current_proc
    <3>1. /\ Len(table[s].ipc_wait_queue) <= Len(procs[s].ipc_wait_queue)
          /\ Len(procs[s].ipc_wait_queue) <= PROCS_MAX
      BY <1>3, <2>2, SlotFacts
    <3>2. table[s].ipc_wait_queue \in Seq(QueuedRequest) /\ procs[s].ipc_wait_queue \in Seq(QueuedRequest)
      BY <1>2, <1>3 DEF Process
    <3> QED
      BY <3>1, <3>2, SlotsType
  <2> QED
    BY <2>1, <2>2
<1>11. RunnerIsRunnable'
  BY <1>1, <1>5 DEF RunnerIsRunnable
<1> QED
  BY <1>6, <1>8, <1>9, <1>10, <1>11 DEF IInv

\* Every system call preserves IInv.
LEMMA SystemCallStep ==
  ASSUME IInv, NEW p \in Slots \ {Idle}, SystemCall(p)
  PROVE  IInv'
<1>1. CASE OuYield(p)
  BY <1>1, YieldStep
<1>2. CASE OuExit(p)
  BY <1>2, StateStep DEF OuExit, States
<1>3. CASE OuShutdown(p)
  BY <1>3, ShutdownStep
<1>4. ASSUME NEW name \in Programs, OuProcSpawn(p, name) PROVE IInv'
  BY <1>4, SpawnStep
<1>5. ASSUME NEW pid \in Targets, NEW flags \in FlagSets, NEW arg \in Args,
             \/ IpcSendNotFound(p, pid)
             \/ IpcSendTerminated(p, pid)
             \/ IpcSendQueueFull(p, pid)
             \/ IpcSendQueued(p, pid, flags, arg)
             \/ IpcSendDirect(p, pid, flags, arg)
             \/ IpcSendBlocks(p, pid, flags, arg)
      PROVE IInv'
  <2>1. CASE IpcSendNotFound(p, pid) \/ IpcSendQueueFull(p, pid)
    BY <2>1, StutterStep DEF IpcSendNotFound, IpcSendQueueFull
  <2>2. CASE IpcSendTerminated(p, pid)
    BY <2>2 DEF IpcSendTerminated, Running, IInv, TypeOK, KernelStates, PidsUnique,
                QueueOnlyWhenLocked, QueueBounded, RunnerIsRunnable
  <2>3. CASE IpcSendQueued(p, pid, flags, arg)
    BY <2>3, QueuedStep
  <2>4. CASE IpcSendDirect(p, pid, flags, arg)
    BY <2>4, DirectStep
  <2>5. CASE IpcSendBlocks(p, pid, flags, arg)
    BY <2>5, BlocksStep
  <2> QED
    BY <1>5, <2>1, <2>2, <2>3, <2>4, <2>5
<1>6. CASE IpcSendReturn(p) \/ IpcRecvPending(p) \/ IpcRecvReturn(p)
  BY <1>6, RecvStep
<1>7. CASE IpcRecvWait(p)
  BY <1>7, StateStep DEF IpcRecvWait, States
<1>8. CASE IpcReply(p)
  <2>1. ASSUME NEW response \in Responses, OuIpcReply(p, response) PROVE IInv'
    BY <2>1, ReplyStep
  <2>2. CASE IpcReplyNobody(p)
    BY <2>2, StutterStep DEF IpcReplyNobody
  <2> QED
    BY <1>8, <2>1, <2>2 DEF IpcReply
<1>9. ASSUME NEW page \in Pages, WriteCommPage(p, page) PROVE IInv'
  BY <1>9, WriteStep
<1> QED
  BY <1>1, <1>2, <1>3, <1>4, <1>5, <1>6, <1>7, <1>8, <1>9 DEF SystemCall, IpcSend

\* Every step preserves IInv.
LEMMA NextIInv == IInv /\ [Next]_vars => IInv'
<1> SUFFICES ASSUME IInv, [Next]_vars PROVE IInv'
  OBVIOUS
<1>1. CASE Schedule
  BY <1>1, ScheduleStep
<1>2. ASSUME NEW p \in Slots \ {Idle}, SystemCall(p) PROVE IInv'
  BY <1>2, SystemCallStep
<1>3. CASE UNCHANGED vars
  BY <1>3, StutterStep
<1> QED
  BY <1>1, <1>2, <1>3 DEF Next

\* IInv holds in every state, whatever the programs do: the process table, the
\* queues and the scheduler's choice are consistent after every system call and switch.
THEOREM InductiveInvariant == Spec => []IInv
BY InitIInv, NextIInv, PTL DEF Spec

-----------------------------------------------------------------------------
(* The invariants *)

\* The table, the counter and the scheduler's variables always have their types,
\* whatever the programs do.
THEOREM TypeCorrect == Spec => []TypeOK
BY InductiveInvariant, PTL DEF IInv

\* No two processes ever share a pid, and the two tables that record pids agree
\* (process_create_impl, process_exit).
THEOREM PidsAreUnique == Spec => []PidsUnique
BY InductiveInvariant, PTL DEF IInv

\* Whoever releases a lock, by a reply or by exiting, hands it to the next queued
\* request (ou_ipc_reply, process_exit).
THEOREM QueuesAreServed == Spec => []QueueOnlyWhenLocked
BY InductiveInvariant, PTL DEF IInv

\* ou_ipc_send never writes past ipc_wait_queue[PROCS_MAX].
THEOREM QueuesAreBounded == Spec => []QueueBounded
BY InductiveInvariant, PTL DEF IInv

\* Every switch is to a runnable process (process_next_runnable, ou_ipc_send,
\* ou_ipc_reply).
THEOREM OnlyRunnableRuns == Spec => []RunnerIsRunnable
BY InductiveInvariant, PTL DEF IInv

-----------------------------------------------------------------------------
(* The action properties *)

\* No step gives a slot a pid that the counter has already passed.
LEMMA NeverReusedStep ==
  ASSUME IInv, IInv', [Next]_vars
  PROVE  /\ proc_pid_counter' >= proc_pid_counter
         /\ \A s \in Slots : procs'[s].pid \in {procs[s].pid, PidNone, proc_pid_counter}
<1>1. procs \in [Slots -> Process] /\ process_pids \in [Slots -> Nat] /\ proc_pid_counter \in Nat
  BY DEF IInv, TypeOK
<1>2. CASE UNCHANGED vars
  BY <1>1, <1>2 DEF vars
<1>3. ASSUME NEW p \in Slots, OuShutdown(p)
      PROVE  /\ proc_pid_counter' >= proc_pid_counter
             /\ \A s \in Slots : procs'[s].pid \in {procs[s].pid, PidNone, proc_pid_counter}
  <2>1. \A s \in Slots : procs'[s].pid = procs[s].pid
    <3> TAKE s \in Slots
    <3>1. procs[s] \in Process /\ procs'[s] = [procs[s] EXCEPT !.state = "UNUSED"]
      BY <1>1, <1>3 DEF OuShutdown
    <3> QED
      BY <3>1 DEF Process
  <2>2. proc_pid_counter' = proc_pid_counter
    BY <1>3 DEF OuShutdown
  <2> QED
    BY <1>1, <2>1, <2>2
<1>4. ASSUME kernel = "up", kernel' # "shut down",
             proc_pid_counter' \in {proc_pid_counter, proc_pid_counter + 1},
             \A s \in Slots : process_pids'[s] \in {process_pids[s], PidNone, proc_pid_counter}
      PROVE  /\ proc_pid_counter' >= proc_pid_counter
             /\ \A s \in Slots : procs'[s].pid \in {procs[s].pid, PidNone, proc_pid_counter}
  <2>1. \A s \in Slots : process_pids'[s] = procs'[s].pid /\ process_pids[s] = procs[s].pid
    BY <1>4 DEF IInv, PidsUnique
  <2>2. proc_pid_counter' >= proc_pid_counter
    <3>1. proc_pid_counter \in Nat
      BY <1>1
    <3>2. proc_pid_counter' = proc_pid_counter \/ proc_pid_counter' = proc_pid_counter + 1
      BY <1>4
    <3> QED
      BY <3>1, <3>2
  <2> QED
    BY <1>4, <2>1, <2>2
<1>5. CASE Schedule
  <2>1. kernel = "up" /\ kernel' # "shut down" /\ proc_pid_counter' = proc_pid_counter
    BY <1>5 DEF Schedule
  <2>2. \A s \in Slots : process_pids'[s] \in {process_pids[s], PidNone, proc_pid_counter}
    BY <1>1, <1>5 DEF Schedule
  <2> QED
    BY <1>4, <2>1, <2>2
<1>6. ASSUME NEW p \in Slots, NEW name \in Programs, OuProcSpawn(p, name)
      PROVE  /\ kernel = "up" /\ kernel' # "shut down"
             /\ proc_pid_counter' \in {proc_pid_counter, proc_pid_counter + 1}
             /\ \A s \in Slots : process_pids'[s] \in {process_pids[s], PidNone, proc_pid_counter}
  BY <1>1, <1>6 DEF OuProcSpawn, ProcessCreate, ProcessLimitPanic, Running
<1>7. ASSUME NEW p \in Slots, SystemCall(p), ~OuShutdown(p),
             ~ \E name \in Programs : OuProcSpawn(p, name)
      PROVE  /\ kernel = "up" /\ kernel' # "shut down"
             /\ UNCHANGED <<process_pids, proc_pid_counter>>
  <2>1. CASE OuYield(p) \/ OuExit(p)
    BY <2>1 DEF OuYield, OuExit, SwitchAway, Running
  <2>2. CASE IpcSend(p)
    <3>1. PICK pid \in Targets, flags \in FlagSets, arg \in Args :
            \/ IpcSendNotFound(p, pid) \/ IpcSendTerminated(p, pid) \/ IpcSendQueueFull(p, pid)
            \/ IpcSendQueued(p, pid, flags, arg)
            \/ IpcSendDirect(p, pid, flags, arg)
            \/ IpcSendBlocks(p, pid, flags, arg)
      BY <2>2 DEF IpcSend
    <3>2. CASE IpcSendNotFound(p, pid) \/ IpcSendTerminated(p, pid) \/ IpcSendQueueFull(p, pid)
      BY <3>2 DEF IpcSendNotFound, IpcSendTerminated, IpcSendQueueFull, SendingTo, Running, vars
    <3>3. CASE IpcSendQueued(p, pid, flags, arg)
      BY <3>3 DEF IpcSendQueued, SendingTo, SwitchAway, Running
    <3>4. CASE IpcSendDirect(p, pid, flags, arg)
      BY <3>4 DEF IpcSendDirect, SendingTo, SwitchAway, Running
    <3>5. CASE IpcSendBlocks(p, pid, flags, arg)
      BY <3>5 DEF IpcSendBlocks, SendingTo, SwitchAway, Running
    <3> QED
      BY <3>1, <3>2, <3>3, <3>4, <3>5
  <2>3. CASE IpcSendReturn(p) \/ IpcRecvPending(p) \/ IpcRecvWait(p) \/ IpcRecvReturn(p)
    BY <2>3 DEF IpcSendReturn, IpcRecvPending, IpcRecvWait, IpcRecvReturn, SwitchAway, Running, vars
  <2>4. CASE IpcReply(p)
    <3>1. ASSUME NEW response \in Responses, OuIpcReply(p, response)
          PROVE  kernel = "up" /\ UNCHANGED <<process_pids, proc_pid_counter, kernel>>
      BY <3>1 DEF OuIpcReply, SwitchAway, Running
    <3>2. CASE IpcReplyNobody(p)
      BY <3>2 DEF IpcReplyNobody, Running, vars
    <3> QED
      BY <2>4, <3>1, <3>2 DEF IpcReply
  <2>5. CASE \E page \in Pages : WriteCommPage(p, page)
    BY <2>5 DEF WriteCommPage, Running, vars
  <2> QED
    BY <1>7, <2>1, <2>2, <2>3, <2>4, <2>5 DEF SystemCall
<1> QED
  BY <1>2, <1>3, <1>4, <1>5, <1>6, <1>7 DEF Next

\* A pid is never handed out twice (process_create_impl).
THEOREM PidsAreNeverReused == Spec => PidNeverReused
<1>1. IInv /\ IInv' /\ [Next]_vars
      => [/\ proc_pid_counter' >= proc_pid_counter
          /\ \A s \in Slots : procs'[s].pid \in {procs[s].pid, PidNone, proc_pid_counter}]_vars
  BY NeverReusedStep
<1> QED
  BY <1>1, InductiveInvariant, PTL DEF Spec, PidNeverReused

\* As the code is, the exits wake nobody: no step but a reply to the lock holder, or the
\* end of the kernel, takes a process out of IPC_SEND_WAIT.
LEMMA WokenByReplyStep ==
  ASSUME IInv, [Next]_vars, NEW s \in Slots,
         procs[s].state = "IPC_SEND_WAIT", procs'[s].state # "IPC_SEND_WAIT"
  PROVE  kernel' = "shut down" \/ (~yielding /\ procs[current_proc].blocked_sender = s)
<1> DEFINE Goal == kernel' = "shut down" \/ (~yielding /\ procs[current_proc].blocked_sender = s)
<1> HIDE DEF Goal
<1>1. procs \in [Slots -> Process] /\ current_proc \in Slots
  BY DEF IInv, TypeOK
<1>2. UNCHANGED procs => Goal
  OBVIOUS
<1>3. CASE Schedule
  <2>1. /\ procs' = IF Platform = "wasm" /\ procs[current_proc].state = "TERMINATED"
                    THEN process_exit(procs, current_proc) ELSE procs
    BY <1>3 DEF Schedule
  <2>2. CASE procs[current_proc].state = "TERMINATED"
    BY ZenonT(30), <1>1, <2>1, <2>2, ProcessExitType
  <2> QED
    BY <2>1, <2>2
<1>4. ASSUME NEW p \in Slots \ {Idle}, SystemCall(p) PROVE Goal
  <2>1. CASE s = p /\ Running(p)
    BY <2>1 DEF Running, IInv, RunnerIsRunnable
  <2>2. CASE OuYield(p)
    BY <1>2, <2>2 DEF OuYield
  <2>3. CASE s # p /\ (OuExit(p) \/ IpcRecvWait(p))
    BY <1>1, <2>3 DEF OuExit, IpcRecvWait
  <2>4. CASE OuShutdown(p)
    BY <2>4 DEF OuShutdown, Goal
  <2>5. ASSUME NEW name \in Programs, OuProcSpawn(p, name) PROVE Goal
    <3>1. CASE ProcessCreate(name)
      <4> DEFINE f == Min(FreeSlots(procs))
      <4>1. f \in FreeSlots(procs)
        BY <3>1, MinInSet, SlotsType DEF ProcessCreate, FreeSlots
      <4>2. procs' = [procs EXCEPT ![f] = NewProcess(name, proc_pid_counter)]
        BY <3>1 DEF ProcessCreate
      <4> HIDE DEF f
      <4>3. s # f
        BY <4>1 DEF FreeSlots
      <4> QED
        BY <1>1, <4>2, <4>3
    <3> QED
      BY <1>2, <2>5, <3>1 DEF OuProcSpawn, ProcessLimitPanic
  <2>6. ASSUME NEW pid \in Targets, NEW flags \in FlagSets, NEW arg \in Args, s # p,
               \/ IpcSendQueued(p, pid, flags, arg)
               \/ IpcSendDirect(p, pid, flags, arg)
               \/ IpcSendBlocks(p, pid, flags, arg)
        PROVE Goal
    <3>1. CASE IpcSendQueued(p, pid, flags, arg)
      BY <1>1, <2>6, <3>1 DEF IpcSendQueued, Process
    <3>2. CASE IpcSendDirect(p, pid, flags, arg)
      BY <1>1, <2>6, <3>2 DEF IpcSendDirect
    <3>3. CASE IpcSendBlocks(p, pid, flags, arg)
      <4> DEFINE locked(t) == [procs EXCEPT ![t] = Locked(t, p, flags, arg)]
      <4>1. PICK t \in Slots : procs' = [locked(t) EXCEPT ![p].state = "IPC_SEND_WAIT"]
        BY <3>3 DEF IpcSendBlocks
      <4>2. procs'[s] = locked(t)[s]
        BY <1>1, <2>6, <4>1
      <4>3. locked(t)[s].state = procs[s].state
        BY <1>1, LockedType
      <4> QED
        BY <4>2, <4>3
    <3> QED
      BY <2>6, <3>1, <3>2, <3>3
  <2>7. CASE IpcSendReturn(p)
    BY <1>2, <2>7 DEF IpcSendReturn
  <2>8. CASE IpcRecvPending(p) \/ IpcRecvReturn(p)
    BY <1>1, <2>8 DEF IpcRecvPending, IpcRecvReturn, Process
  <2>9. ASSUME NEW page \in Pages, WriteCommPage(p, page) PROVE Goal
    BY <1>1, <2>9 DEF WriteCommPage, Process
  <2>10. ASSUME NEW response \in Responses, OuIpcReply(p, response) PROVE Goal
    <3> DEFINE sender == procs[p].blocked_sender
               answered == [procs EXCEPT
                     ![sender].comm_page =
                        IF "RECV_COMM_DATA" \in procs[p].pending_message.flags
                        THEN CopyPage(procs[p].comm_page, @) ELSE @,
                     ![sender].pending_response = response]
               activated == [answered EXCEPT ![p] = ActivateNext(answered, p)]
    <3>1. procs' = [activated EXCEPT ![sender].state = "RUNNABLE"] /\ p = current_proc /\ ~yielding
      BY <2>10 DEF OuIpcReply, Running
    <3>2. s # p
      BY <2>10 DEF OuIpcReply, Running, IInv, RunnerIsRunnable
    <3>3. CASE s = sender
      BY <3>1, <3>3 DEF Goal
    <3>4. CASE s # sender
      BY <1>1, <3>1, <3>2, <3>4
    <3> QED
      BY <3>3, <3>4
  <2>11. s = p /\ ~Running(p) => Goal
    BY ZenonT(30), <1>1, <1>2, <1>4, <2>7, <2>8
       DEF SystemCall, OuYield, OuExit, OuShutdown, OuProcSpawn, IpcSend, IpcSendNotFound,
           IpcSendTerminated, IpcSendQueueFull, IpcSendQueued, IpcSendDirect, IpcSendBlocks,
           SendingTo, IpcRecvWait, IpcReply, OuIpcReply, IpcReplyNobody, WriteCommPage
  <2>12. CASE s # p
    <3>1. ASSUME IpcSend(p) PROVE Goal
      BY <1>2, <2>6, <2>12, <3>1
         DEF IpcSend, IpcSendNotFound, IpcSendTerminated, IpcSendQueueFull, vars
    <3>2. ASSUME IpcReply(p) PROVE Goal
      BY <1>2, <2>10, <3>2 DEF IpcReply, IpcReplyNobody, vars
    <3> QED
      BY <1>4, <2>2, <2>3, <2>4, <2>5, <2>7, <2>8, <2>9, <2>12, <3>1, <3>2 DEF SystemCall
  <2> QED
    BY <2>1, <2>11, <2>12
<1> QED
  BY <1>2, <1>3, <1>4 DEF Next, vars, Goal

\* A caller in IPC_SEND_WAIT is woken by the process it has called and by nobody else
\* (ou_ipc_reply, process_exit).
THEOREM CallersAreWokenByTheirServers == Spec => WokenByItsServer
<1>1. IInv /\ [Next]_vars
      => [\A s \in Slots :
            procs[s].state = "IPC_SEND_WAIT" /\ procs'[s].state # "IPC_SEND_WAIT"
            => \/ kernel' = "shut down"
               \/ ~yielding /\ procs[current_proc].blocked_sender = s
               \/ /\ yielding /\ procs[current_proc].state = "TERMINATED"
                  /\ WaitsFor(s, current_proc)]_vars
  BY WokenByReplyStep
<1> QED
  BY <1>1, InductiveInvariant, PTL DEF Spec, WokenByItsServer

-----------------------------------------------------------------------------
(***************************************************************************)
(* The end of the kernel.  EInv adds to IInv that a slot in use has a pid, *)
(* but for one that a stale queue entry has brought to life and that the   *)
(* switch under way goes to - the kernel does not survive it -, and that   *)
(* on WASM nobody has terminated but the process that is leaving.          *)
(***************************************************************************)
Born ==
  kernel \in {"up", "exited"} =>
    \A s \in Slots \ {Idle} : procs[s].state # "UNUSED" =>
      procs[s].pid # PidNone \/ (kernel = "up" /\ yielding /\ scheduler_next_process = s)

Departed ==
  Platform = "wasm" =>
    \A s \in Slots : procs[s].state = "TERMINATED" =>
      kernel # "exited" /\ yielding /\ current_proc = s

EInv == IInv /\ Born /\ Departed /\ EndsWhenIdle

\* What a system call of p does to states and pids.
EffectOfCall(p) ==
  /\ kernel = "up" /\ ~yielding /\ current_proc = p /\ kernel' # "exited" /\ current_proc' = p
  /\ \A s \in Slots :
       \/ procs'[s].pid = procs[s].pid /\ procs'[s].state = procs[s].state
       \/ procs'[s].state = "UNUSED"
       \/ s = p /\ procs'[s].pid = procs[s].pid /\ (procs'[s].state = "TERMINATED" => yielding')
       \/ procs'[s].pid # PidNone /\ procs'[s].state = "RUNNABLE"
       \/ /\ kernel' = "up" /\ yielding' /\ scheduler_next_process' = s
          /\ procs'[s].state = "RUNNABLE"

\* When the scheduler finds nobody, there is nobody to be found, or the first process has
\* exited and is still in the table (process_next_runnable scans every slot, whichever it
\* starts from).
LEMMA IdleOnlyWhenIdle ==
  ASSUME NEW table \in [Slots -> Process], NEW s \in Slots,
         process_next_runnable(table, s) = Idle,
         NEW u \in Slots \ {Idle}, table[u].state = "RUNNABLE", table[u].pid # PidNone
  PROVE  table[1].state = "TERMINATED"
<1> DEFINE c == RunnableAfter(table, s)
           i == IF u > s THEN u - s - 1 ELSE u + PROCS_MAX - s - 1
<1>1. u \in Nat /\ s \in Nat /\ u < PROCS_MAX /\ s < PROCS_MAX /\ u > 0 /\ PROCS_MAX \in Nat
  BY SlotsType DEF Slots, Idle
<1>2. i \in Slots
  BY <1>1 DEF Slots
<1>3. (s + i + 1) % PROCS_MAX = u
  <2>1. CASE u > s
    BY <1>1, <2>1
  <2>2. CASE ~(u > s)
    <3>1. s + i + 1 = u + PROCS_MAX
      BY <1>1, <2>2
    <3>2. (u + PROCS_MAX) % PROCS_MAX = u
      BY <1>1
    <3> QED
      BY <3>1, <3>2
  <2> QED
    BY <2>1, <2>2
<1> HIDE DEF i
<1>4. i \in c
  BY <1>1, <1>2, <1>3 DEF RunnableAfter, Pidx
<1>5. SUFFICES ASSUME table[1].state # "TERMINATED" PROVE FALSE
  OBVIOUS
<1> DEFINE m == Min(c)
<1>6. m \in c
  <2>1. c \subseteq Nat
    BY SlotsType DEF RunnableAfter
  <2> HIDE DEF c
  <2> QED
    BY <1>4, <2>1, MinInSet
<1>7. process_next_runnable(table, s) = (s + m + 1) % PROCS_MAX
  BY <1>4, <1>5 DEF process_next_runnable
<1>8. Pidx(table, (s + m + 1) % PROCS_MAX) > 0
  BY <1>6 DEF RunnableAfter
<1> HIDE DEF m
<1>9. Pidx(table, Idle) = 0
  BY DEF Pidx, Idle
<1> QED
  BY <1>7, <1>8, <1>9

\* The system calls, one by one.
LEMMA CallEffects ==
  ASSUME EInv, NEW p \in Slots \ {Idle}, SystemCall(p)
  PROVE  EffectOfCall(p)
<1>1. procs \in [Slots -> Process]
  BY DEF EInv, IInv, TypeOK
<1>2. ASSUME kernel = "up", ~yielding, current_proc = p, UNCHANGED <<procs, current_proc>>,
             kernel' # "exited"
      PROVE  EffectOfCall(p)
  BY <1>2 DEF EffectOfCall
<1>3. CASE OuYield(p)
  BY <1>2, <1>3 DEF OuYield, SwitchAway, Running
<1>4. CASE OuExit(p)
  BY <1>1, <1>4 DEF OuExit, SwitchAway, Running, EffectOfCall, Process
<1>5. CASE OuShutdown(p)
  BY <1>1, <1>5 DEF OuShutdown, Running, EffectOfCall, Process
<1>6. ASSUME NEW name \in Programs, OuProcSpawn(p, name) PROVE EffectOfCall(p)
  <2>1. CASE ProcessCreate(name)
    <3> DEFINE f == Min(FreeSlots(procs))
               new == NewProcess(name, proc_pid_counter)
    <3>1. procs' = [procs EXCEPT ![f] = new]
      BY <2>1 DEF ProcessCreate
    <3>2. new.pid = proc_pid_counter /\ new.state = "RUNNABLE"
      BY DEF NewProcess, Zeroed
    <3>3. proc_pid_counter # PidNone
      BY DEF EInv, IInv, TypeOK, PidNone
    <3> HIDE DEF f, new
    <3>4. \A s \in Slots : procs'[s] = procs[s] \/ procs'[s] = new
      BY <1>1, <3>1
    <3>5. /\ kernel = "up" /\ ~yielding /\ current_proc = p /\ kernel' = "up"
          /\ current_proc' = p
      BY <1>6, <2>1 DEF OuProcSpawn, ProcessCreate, Running
    <3> QED
      BY <3>2, <3>3, <3>4, <3>5 DEF EffectOfCall
  <2>2. CASE ProcessLimitPanic
    BY <1>2, <1>6, <2>2 DEF OuProcSpawn, ProcessLimitPanic, Running
  <2> QED
    BY <1>6, <2>1, <2>2 DEF OuProcSpawn
<1>7. ASSUME NEW pid \in Targets, NEW flags \in FlagSets, NEW arg \in Args,
             \/ IpcSendNotFound(p, pid) \/ IpcSendTerminated(p, pid) \/ IpcSendQueueFull(p, pid)
             \/ IpcSendQueued(p, pid, flags, arg)
             \/ IpcSendDirect(p, pid, flags, arg)
             \/ IpcSendBlocks(p, pid, flags, arg)
      PROVE  EffectOfCall(p)
  <2>1. CASE IpcSendNotFound(p, pid) \/ IpcSendTerminated(p, pid) \/ IpcSendQueueFull(p, pid)
    BY <1>2, <2>1
       DEF IpcSendNotFound, IpcSendTerminated, IpcSendQueueFull, SendingTo, Running, vars
  <2>2. CASE IpcSendQueued(p, pid, flags, arg)
    <3>1. PICK t \in Slots :
            /\ Running(p)
            /\ procs' = [procs EXCEPT
                  ![t].ipc_wait_queue = Append(@, [sender |-> p, message |-> Request(p, flags, arg)]),
                  ![p].state = "IPC_SEND_WAIT"]
            /\ SwitchAway(p, NULL, "send")
      BY <2>2 DEF IpcSendQueued, SendingTo
    <3> DEFINE queue == Append(procs[t].ipc_wait_queue, [sender |-> p, message |-> Request(p, flags, arg)])
    <3>2. procs' = [procs EXCEPT ![t].ipc_wait_queue = queue, ![p].state = "IPC_SEND_WAIT"]
      BY <3>1
    <3> HIDE DEF queue
    <3> DEFINE mid == [procs EXCEPT ![t].ipc_wait_queue = queue]
    <3>4. procs' = [mid EXCEPT ![p].state = "IPC_SEND_WAIT"]
      BY <3>2
    <3>5. \A s \in Slots : mid[s].pid = procs[s].pid /\ mid[s].state = procs[s].state
      BY <1>1 DEF Process
    <3>6. DOMAIN mid = Slots /\ \A s \in Slots : {"pid", "state"} \subseteq DOMAIN mid[s]
      BY <1>1 DEF Process
    <3> HIDE DEF mid
    <3>3. \A s \in Slots :
            /\ procs'[s].pid = procs[s].pid
            /\ procs'[s].state = IF s = p THEN "IPC_SEND_WAIT" ELSE procs[s].state
      BY <3>4, <3>5, <3>6
    <3> QED
      BY <3>1, <3>3 DEF EffectOfCall, SwitchAway, Running
  <2>3. CASE IpcSendDirect(p, pid, flags, arg)
    <3>1. PICK t \in Slots :
            /\ Running(p)
            /\ procs' = [procs EXCEPT ![t] = [Locked(t, p, flags, arg) EXCEPT !.state = "RUNNABLE"]]
            /\ SwitchAway(p, t, "send")
      BY <2>3 DEF IpcSendDirect, SendingTo
    <3>2. /\ \A s \in Slots : s # t => procs'[s] = procs[s]
          /\ procs'[t].state = "RUNNABLE"
      BY <1>1, <3>1, LockedType DEF EInv, Process
    <3> QED
      BY <3>1, <3>2 DEF EffectOfCall, SwitchAway, Running
  <2>4. CASE IpcSendBlocks(p, pid, flags, arg)
    <3> DEFINE locked(t) == [procs EXCEPT ![t] = Locked(t, p, flags, arg)]
    <3>1. PICK t \in Slots : /\ Running(p)
                             /\ procs' = [locked(t) EXCEPT ![p].state = "IPC_SEND_WAIT"]
                             /\ SwitchAway(p, NULL, "send")
      BY <2>4 DEF IpcSendBlocks, SendingTo
    <3> DEFINE new == Locked(t, p, flags, arg)
               mid == [procs EXCEPT ![t] = new]
    <3>2. new \in Process /\ new.pid = procs[t].pid /\ new.state = procs[t].state
      BY LockedType DEF EInv
    <3>3. procs' = [mid EXCEPT ![p].state = "IPC_SEND_WAIT"]
      BY <3>1
    <3> HIDE DEF new
    <3>4. \A s \in Slots : /\ mid[s] \in Process
                           /\ mid[s].pid = procs[s].pid /\ mid[s].state = procs[s].state
      BY <1>1, <3>2
    <3>5. mid \in [Slots -> Process]
      BY <1>1, <3>2
    <3> HIDE DEF mid
    <3>6. \A s \in Slots : /\ procs'[s].pid = mid[s].pid
                           /\ procs'[s].state = IF s = p THEN "IPC_SEND_WAIT" ELSE mid[s].state
      BY <3>3, <3>5 DEF Process
    <3> QED
      BY <3>1, <3>4, <3>6 DEF EffectOfCall, SwitchAway, Running
  <2> QED
    BY <1>7, <2>1, <2>2, <2>3, <2>4
<1>8. CASE IpcSendReturn(p)
  BY <1>2, <1>8 DEF IpcSendReturn
<1>9. CASE IpcRecvPending(p) \/ IpcRecvReturn(p)
  BY <1>1, <1>9 DEF IpcRecvPending, IpcRecvReturn, Running, EffectOfCall, Process
<1>10. CASE IpcRecvWait(p)
  BY <1>1, <1>10 DEF IpcRecvWait, SwitchAway, Running, EffectOfCall, Process
<1>11. ASSUME NEW page \in Pages, WriteCommPage(p, page) PROVE EffectOfCall(p)
  BY <1>1, <1>11 DEF WriteCommPage, Running, EffectOfCall, Process
<1>12. ASSUME NEW response \in Responses, OuIpcReply(p, response) PROVE EffectOfCall(p)
  <2> DEFINE sender == procs[p].blocked_sender
             answered == [procs EXCEPT
                   ![sender].comm_page =
                      IF "RECV_COMM_DATA" \in procs[p].pending_message.flags
                      THEN CopyPage(procs[p].comm_page, @) ELSE @,
                   ![sender].pending_response = response]
             activated == [answered EXCEPT ![p] = ActivateNext(answered, p)]
  <2>1. /\ procs' = [activated EXCEPT ![sender].state = "RUNNABLE"]
        /\ Running(p) /\ SwitchAway(p, sender, "user")
    BY <1>12 DEF OuIpcReply
  <2>2. IInv'
    BY <1>12, ReplyStep DEF EInv
  <2>3. sender # NULL
    BY <1>12 DEF OuIpcReply
  <2>4. \A s \in Slots : s # sender /\ s # p => procs'[s] = procs[s]
    BY <1>1, <2>1
  <2> HIDE DEF sender, activated
  <2>5. procs'[sender].state = "RUNNABLE"
    BY <2>1, <2>2, <2>3 DEF SwitchAway, IInv, RunnerIsRunnable, Running
  <2>6. \A s \in Slots : procs'[s].pid = procs[s].pid
    <3>1. kernel = "up" /\ kernel' = "up" /\ process_pids' = process_pids
      BY <2>1 DEF SwitchAway, Running
    <3> QED
      BY <2>2, <3>1 DEF EInv, IInv, PidsUnique
  <2> QED
    BY <2>1, <2>4, <2>5, <2>6 DEF EffectOfCall, SwitchAway, Running
<1>13. CASE IpcReplyNobody(p)
  BY <1>2, <1>13 DEF IpcReplyNobody, Running, vars
<1> QED
  BY <1>3, <1>4, <1>5, <1>6, <1>7, <1>8, <1>9, <1>10, <1>11, <1>12, <1>13
     DEF SystemCall, IpcSend, IpcReply

\* Every system call keeps EInv.
LEMMA CallKeepsEnd ==
  ASSUME EInv, NEW p \in Slots \ {Idle}, SystemCall(p)
  PROVE  EInv'
<1>1. IInv'
  BY SystemCallStep DEF EInv
<1>2. EffectOfCall(p)
  BY CallEffects
<1>3. p \in Slots /\ procs[p].state = "RUNNABLE"
  BY <1>2 DEF EffectOfCall, EInv, IInv, RunnerIsRunnable
<1>4. \A s \in Slots \ {Idle} : procs[s].state # "UNUSED" => procs[s].pid # PidNone
  BY <1>2 DEF EffectOfCall, EInv, Born
<1>5. Born'
  BY <1>2, <1>3, <1>4 DEF EffectOfCall, Born
<1>6. Departed'
  BY <1>2 DEF EffectOfCall, EInv, Departed
<1>7. EndsWhenIdle'
  BY <1>2 DEF EffectOfCall, EndsWhenIdle
<1> QED
  BY <1>1, <1>5, <1>6, <1>7 DEF EInv

\* The switch keeps EInv: it ends the kernel only when the scan has found nobody.
LEMMA ScheduleKeepsEnd ==
  ASSUME EInv, Schedule
  PROVE  EInv'
<1> DEFINE reap == Platform = "wasm" /\ procs[current_proc].state = "TERMINATED"
           table == IF reap THEN process_exit(procs, current_proc) ELSE procs
           next == IF scheduler_next_process # NULL THEN scheduler_next_process
                   ELSE process_next_runnable(table, Pidx(table, current_proc))
<1>1. IInv'
  BY ScheduleStep DEF EInv
<1>2. /\ kernel = "up" /\ yielding /\ ~yielding' /\ procs' = table
      /\ kernel' = CASE next = Idle -> "exited"
                     [] next # Idle /\ (table[next].pid = PidNone \/ resume[next] = "exited")
                        -> "undefined"
                     [] OTHER -> "up"
  BY DEF Schedule
<1>3. procs \in [Slots -> Process] /\ current_proc \in Slots /\ scheduler_next_process \in Slots
  BY DEF EInv, IInv, TypeOK
<1>4. /\ table \in [Slots -> Process]
      /\ reap => table[current_proc].state = "UNUSED"
      /\ \A s \in Slots : ~reap \/ s # current_proc =>
           table[s].pid = procs[s].pid /\ table[s].state = procs[s].state
  <2>1. CASE reap
    <3>1. Zeroed.state = "UNUSED"
      BY DEF Zeroed
    <3>2. table = process_exit(procs, current_proc)
      BY <2>1
    <3> HIDE DEF reap, table
    <3>3. /\ table \in [Slots -> Process] /\ table[current_proc] = Zeroed
          /\ \A s \in Slots \ {current_proc} :
               table[s].pid = procs[s].pid /\ table[s].state = procs[s].state
      BY <1>3, <3>2, ProcessExitType
    <3> QED
      BY <2>1, <3>1, <3>3
  <2>2. CASE ~reap
    BY <1>3, <2>2
  <2> QED
    BY <2>1, <2>2
<1>5. Platform = "wasm" => \A s \in Slots : table[s].state # "TERMINATED"
  BY <1>2, <1>4 DEF EInv, Departed
<1>6. scheduler_next_process # NULL => next = scheduler_next_process
  OBVIOUS
<1>7. scheduler_next_process = NULL => next = process_next_runnable(table, Pidx(table, current_proc))
  OBVIOUS
<1>8. Pidx(table, current_proc) \in Slots
  BY <1>3, SlotsType DEF Pidx, NULL
<1> HIDE DEF reap, table, next
<1>9. \A s \in Slots \ {Idle} : table[s].state # "UNUSED" => table[s].pid # PidNone \/ next = s
  <2> SUFFICES ASSUME NEW s \in Slots \ {Idle}, table[s].state # "UNUSED"
               PROVE  table[s].pid # PidNone \/ next = s
    OBVIOUS
  <2>1. ~reap \/ s # current_proc
    BY <1>4
  <2>2. procs[s].pid # PidNone \/ scheduler_next_process = s
    BY <1>2, <1>4, <2>1 DEF EInv, Born
  <2> QED
    BY <1>4, <1>6, <2>1, <2>2 DEF NULL, Idle
<1>10. Born'
  BY <1>2, <1>9 DEF Born
<1>11. Departed'
  BY <1>2, <1>5 DEF Departed
<1>12. ASSUME kernel' = "exited", NEW s \in Slots \ {Idle}, table[s].state = "RUNNABLE"
       PROVE  table[1].state = "TERMINATED"
  <2>1. next = Idle
    BY <1>2, <1>12
  <2>2. table[s].pid # PidNone
    BY <1>9, <1>12, <2>1
  <2>3. process_next_runnable(table, Pidx(table, current_proc)) = Idle
    BY <1>6, <1>7, <2>1 DEF NULL, Idle
  <2> QED
    BY <1>4, <1>8, <1>12, <2>2, <2>3, IdleOnlyWhenIdle
<1>13. EndsWhenIdle'
  BY <1>2, <1>12 DEF EndsWhenIdle
<1> QED
  BY <1>1, <1>10, <1>11, <1>13 DEF EInv

\* EInv is inductive.
LEMMA EndInductive == (Init => EInv) /\ (EInv /\ [Next]_vars => EInv')
<1>1. Init => EInv
  <2> SUFFICES ASSUME Init PROVE EInv
    OBVIOUS
  <2>1. IInv
    BY InitIInv
  <2>2. \A s \in Slots :
          procs[s].state # "TERMINATED" /\ (procs[s].state # "UNUSED" => procs[s].pid # PidNone)
    <3>1. Zeroed.state = "UNUSED"
      BY DEF Zeroed
    <3>2. \A name, pid : NewProcess(name, pid).state = "RUNNABLE" /\ NewProcess(name, pid).pid = pid
      BY DEF NewProcess, Zeroed
    <3>3. TAKE s \in Slots
    <3>4. s \in Nat
      BY SlotsType
    <3>5. \/ procs[s] = NewProcess("idle", 1)
          \/ procs[s] = NewProcess(Boot[s], s + 1)
          \/ procs[s] = Zeroed
      BY DEF Init
    <3>6. s + 1 # PidNone /\ 1 # PidNone
      BY <3>4 DEF PidNone
    <3> QED
      BY <3>1, <3>2, <3>5, <3>6
  <2>3. kernel = "up"
    BY DEF Init
  <2> QED
    BY <2>1, <2>2, <2>3 DEF EInv, Born, Departed, EndsWhenIdle
<1>2. EInv /\ [Next]_vars => EInv'
  <2> SUFFICES ASSUME EInv, [Next]_vars PROVE EInv'
    OBVIOUS
  <2>1. CASE UNCHANGED vars
    <3>1. IInv'
      BY <2>1, StutterStep DEF EInv
    <3> QED
      BY <2>1, <3>1 DEF vars, EInv, Born, Departed, EndsWhenIdle
  <2> QED
    BY <2>1, CallKeepsEnd, ScheduleKeepsEnd DEF Next
<1> QED
  BY <1>1, <1>2

\* On either platform the kernel ends only when no process can run, or when the first
\* process has exited and nobody has cleaned up after it (process_next_runnable).
THEOREM KernelEndsWhenIdle == Spec => []EndsWhenIdle
<1>1. EInv => EndsWhenIdle
  BY DEF EInv
<1> QED
  BY <1>1, EndInductive, PTL DEF Spec

\* On WASM, where the scheduler cleans up after every process that exits, it ends only when
\* no process can run (process_next_runnable, process_exit).
THEOREM NothingRunsAtTheEnd ==
  ASSUME Platform = "wasm"
  PROVE  Spec => [](kernel = "exited" => \A s \in Slots \ {Idle} : procs[s].state # "RUNNABLE")
<1>1. EInv => (kernel = "exited" => \A s \in Slots \ {Idle} : procs[s].state # "RUNNABLE")
  BY SlotsType DEF EInv, EndsWhenIdle, Departed
<1> QED
  BY <1>1, EndInductive, PTL DEF Spec
=============================================================================
