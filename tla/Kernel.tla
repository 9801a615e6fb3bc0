------------------------------ MODULE Kernel ------------------------------
(***************************************************************************)
(* The otium/os microkernel: the process table, the cooperative scheduler  *)
(* and synchronous IPC (os/ot/core/process.cpp and the two platform        *)
(* layers).  The programs are left open: whenever a process runs it may    *)
(* make any system call, with any argument.  Module Services restricts     *)
(* them to the servers and applications that ship.                         *)
(*                                                                         *)
(* A system call runs in the kernel without interruption up to the point   *)
(* where it switches stacks; the switch (Schedule) and what the process    *)
(* does when its stack is resumed (IpcSendReturn, IpcRecvReturn) are       *)
(* separate steps, because other processes run in between.                 *)
(***************************************************************************)
EXTENDS Integers, SequencesExt

CONSTANTS
  PROCS_MAX,   \* slots of the process table
  Platform,    \* "wasm" or "riscv": who cleans up, and when
  Boot,        \* names of the processes kernel_start creates, in order
  Programs,    \* names in program_registry
  Args,        \* request arguments and reply values
  Responses,   \* responses programs reply with
  Targets,     \* pids programs send to, in use or not
  FlagSets,    \* combinations of IPC flags that requests carry
  Pages,       \* contents of a comm page
  NilPage,     \* the comm page process_create leaves (a msgpack nil)
  NullPage,    \* a null comm_page pointer
  MaxPid       \* bound on proc_pid_counter

Slots == 0 .. PROCS_MAX - 1

(***************************************************************************)
(* Slot 0 is idle, PIDX_NONE, and it never makes a system call, so 0 also  *)
(* stands for a null Process pointer.                                      *)
(***************************************************************************)
NULL == 0
Idle == 0
PidNone == 0
Flags == {"SEND_COMM_DATA", "RECV_COMM_DATA"}
NullMessage == [sender_pid |-> PidNone, flags |-> {}, arg |-> 0]
NullResponse == [error_code |-> "NONE", value |-> 0]

ASSUME KernelAssumption ==
  /\ PROCS_MAX \in Nat \ {0, 1}
  /\ Platform \in {"wasm", "riscv"}
  /\ Boot \in Seq(STRING) /\ Len(Boot) < PROCS_MAX
  /\ Programs \subseteq STRING
  /\ Args \subseteq Nat /\ Targets \subseteq Nat
  /\ Responses \subseteq [error_code : {"NONE", "ERROR"}, value : Args]
  /\ FlagSets \subseteq SUBSET {"SEND_COMM_DATA", "RECV_COMM_DATA"}
  /\ NilPage \in Pages /\ NullPage \notin Pages
  /\ MaxPid \in Nat

VARIABLES
  procs,                   \* the process table
  process_pids,            \* pid of each slot, PidNone if unused
  proc_pid_counter,        \* next pid
  current_proc,            \* slot that runs, or ran last
  yielding,                \* the running process has left its stack
  scheduler_next_process,  \* target of a direct switch, or NULL
  resume,                  \* where each process' stack continues
  kernel                   \* "up", "exited", "shut down", "panicked" or "undefined"

vars == <<procs, process_pids, proc_pid_counter, current_proc, yielding,
          scheduler_next_process, resume, kernel>>

Message == [sender_pid : Nat, flags : SUBSET Flags, arg : Args \cup {0}]
Response == [error_code : {"NONE", "ERROR"}, value : Args \cup {0}]
QueuedRequest == [sender : Slots \ {Idle}, message : Message]
States == {"UNUSED", "RUNNABLE", "TERMINATED", "IPC_RECV_WAIT", "IPC_SEND_WAIT"}
KernelStates == {"up", "exited", "shut down", "panicked", "undefined"}
Names == {"", "idle"} \cup Programs \cup Range(Boot)
Process == [name : Names, pid : Nat, state : States,
            pending_message : Message, has_pending_message : BOOLEAN,
            blocked_sender : Slots, pending_response : Response,
            ipc_wait_queue : Seq(QueuedRequest), comm_page : Pages \cup {NullPage}]

TypeOK ==
  /\ procs \in [Slots -> Process]
  /\ process_pids \in [Slots -> Nat]
  /\ proc_pid_counter \in Nat \ {0}
  /\ current_proc \in Slots
  /\ yielding \in BOOLEAN
  /\ scheduler_next_process \in Slots
  /\ resume \in [Slots -> {"user", "send", "recv", "exited"}]
  /\ kernel \in KernelStates

-----------------------------------------------------------------------------
(* The process table *)

Zeroed ==
  [name |-> "", pid |-> PidNone, state |-> "UNUSED",
   pending_message |-> NullMessage, has_pending_message |-> FALSE,
   blocked_sender |-> NULL, pending_response |-> NullResponse,
   ipc_wait_queue |-> <<>>, comm_page |-> NullPage]

NewProcess(name, pid) ==
  [Zeroed EXCEPT !.name = name, !.pid = pid, !.state = "RUNNABLE",
                 !.comm_page = NilPage]

process_is_running(p) == p.state \in {"RUNNABLE", "IPC_RECV_WAIT", "IPC_SEND_WAIT"}

\* A zeroed slot says pidx 0, whichever slot it is.
Pidx(table, s) == IF table[s].pid = PidNone THEN 0 ELSE s

FreeSlots(table) == {s \in Slots : table[s].state = "UNUSED"}

SlotsOfPid(pid) == {s \in Slots : process_pids[s] = pid /\ procs[s].state # "UNUSED"}
process_lookup_by_pid(pid) == Min(SlotsOfPid(pid))

is_alive(pid) == SlotsOfPid(pid) # {}

\* Mutant: takes blocked processes for runnable ones.
RunnableAfterBlockedToo(table, s) ==
  {i \in Slots : /\ process_is_running(table[(s + i + 1) % PROCS_MAX])
                 /\ Pidx(table, (s + i + 1) % PROCS_MAX) > 0}
\* Mutant: the scan ends before it is back at the current process.
RunnableAfterSkipsSelf(table, s) ==
  {i \in Slots \ {PROCS_MAX - 1} :
     /\ table[(s + i + 1) % PROCS_MAX].state = "RUNNABLE"
     /\ Pidx(table, (s + i + 1) % PROCS_MAX) > 0}

\* The scan starts at the slot after the one the current process names as its own.
RunnableAfter(table, s) ==
  {i \in Slots : /\ table[(s + i + 1) % PROCS_MAX].state = "RUNNABLE"
                 /\ Pidx(table, (s + i + 1) % PROCS_MAX) > 0}
\* Mutant: always the lowest slot, no round robin.
process_next_runnableLowest(table, s) ==
  IF RunnableAfter(table, s) = {} THEN Idle
  ELSE Min({i \in Slots \ {Idle} : table[i].state = "RUNNABLE"})
process_next_runnable(table, s) ==
  IF RunnableAfter(table, s) = {} \/ table[1].state = "TERMINATED"
  THEN Idle ELSE (s + Min(RunnableAfter(table, s)) + 1) % PROCS_MAX

\* memcpy between comm pages, skipped when either is null.
CopyPage(from, to) == IF NullPage \in {from, to} THEN to ELSE from

-----------------------------------------------------------------------------
(* IPC helpers *)

\* Mutant: releases the lock, and forgets the queue.
ActivateNextDrops(table, s) == [table[s] EXCEPT !.blocked_sender = NULL]
\* Mutant: grants the newest request.
ActivateNextLifo(table, s) ==
  LET p == table[s]
      req == Last(p.ipc_wait_queue)
  IN IF p.ipc_wait_queue = <<>> THEN [p EXCEPT !.blocked_sender = NULL]
     ELSE [p EXCEPT !.ipc_wait_queue = Front(@), !.pending_message = req.message,
                    !.has_pending_message = TRUE, !.blocked_sender = req.sender]
\* Mutant: grants the request and leaves it queued.
ActivateNextKeepsHead(table, s) ==
  LET p == table[s]
      req == Head(p.ipc_wait_queue)
  IN IF p.ipc_wait_queue = <<>> THEN [p EXCEPT !.blocked_sender = NULL]
     ELSE [p EXCEPT !.pending_message = req.message,
                    !.has_pending_message = TRUE, !.blocked_sender = req.sender]

\* Hand s, whose lock is free again, the request at the head of its queue.
ActivateNext(table, s) ==
  LET p == table[s]
      req == Head(p.ipc_wait_queue)
  IN IF p.ipc_wait_queue = <<>> THEN [p EXCEPT !.blocked_sender = NULL]
     ELSE [p EXCEPT !.ipc_wait_queue = Tail(@),
                    !.comm_page = IF "SEND_COMM_DATA" \in req.message.flags
                                  THEN CopyPage(table[req.sender].comm_page, @) ELSE @,
                    !.pending_message = req.message,
                    !.has_pending_message = TRUE,
                    !.blocked_sender = req.sender]

\* Only the first entry of the sender goes.
RemoveSender(queue, s) == RemoveFirstMatch(queue, LAMBDA r : r.sender = s)

\* Mutant: wakes every sender that waits, and not only those that wait for d.
process_exitWakesAll(table, d) ==
  [s \in Slots |-> CASE s = d -> Zeroed
                     [] s # d /\ table[s].state = "IPC_SEND_WAIT" ->
                          [table[s] EXCEPT !.state = "RUNNABLE"]
                     [] OTHER -> table[s]]
\* Mutant: releases every lock, whoever holds it.
process_exitClearsLocks(table, d) ==
  [s \in Slots |-> IF s = d THEN Zeroed ELSE [table[s] EXCEPT !.blocked_sender = NULL]]

(***************************************************************************)
(* Release d's locks, take it off the queues, zero its slot.  A granted    *)
(* request's page is read as it was before the exit; the loop of the code  *)
(* may already have overwritten it when the queued sender is itself a      *)
(* server whose lock d held.                                               *)
(***************************************************************************)
process_exit(table, d) ==
  LET released(s) == IF table[s].blocked_sender = d THEN ActivateNext(table, s) ELSE table[s]
      cleaned(s) == [released(s) EXCEPT !.ipc_wait_queue = RemoveSender(@, d)]
  IN [s \in Slots |-> CASE s = d -> Zeroed
                        [] s # d /\ table[s].state = "UNUSED" -> table[s]
                        [] OTHER -> cleaned(s)]

-----------------------------------------------------------------------------
(* The system calls *)

Running(p) ==
  /\ kernel = "up" /\ ~yielding
  /\ current_proc = p /\ resume[p] = "user"

\* Leave p's stack; it continues at point r.
SwitchAway(p, target, r) ==
  /\ yielding' = TRUE
  /\ scheduler_next_process' = target
  /\ resume' = [resume EXCEPT ![p] = r]
  /\ UNCHANGED <<process_pids, proc_pid_counter, current_proc, kernel>>

OuYield(p) ==
  /\ Running(p)
  /\ SwitchAway(p, NULL, "user")
  /\ UNCHANGED procs

\* ou_exit, a return from the program, and on RISC-V a crash in user mode.
OuExit(p) ==
  /\ Running(p)
  /\ procs' = [procs EXCEPT ![p].state = "TERMINATED"]
  /\ SwitchAway(p, NULL, "exited")

\* Every process is torn down, without zeroing, and the kernel exits.  Nobody reads the
\* table again: what the exits do to each other's locks and queues is left out.
OuShutdown(p) ==
  /\ Running(p)
  /\ procs' = [s \in Slots |-> [procs[s] EXCEPT !.state = "UNUSED"]]
  /\ process_pids' = [s \in Slots |-> PidNone]
  /\ kernel' = "shut down"
  /\ UNCHANGED <<proc_pid_counter, current_proc, yielding, scheduler_next_process, resume>>

\* Mutant: a pid counter of two bits.
ProcessCreateWraps(name) ==
  LET s == Min(FreeSlots(procs)) IN
  /\ FreeSlots(procs) # {}
  /\ procs' = [procs EXCEPT ![s] = NewProcess(name, proc_pid_counter)]
  /\ process_pids' = [process_pids EXCEPT ![s] = proc_pid_counter]
  /\ proc_pid_counter' = (proc_pid_counter + 1) % 4
  /\ resume' = [resume EXCEPT ![s] = "user"]
  /\ UNCHANGED kernel
\* Mutant: numbers processes by slot.
ProcessCreateBySlot(name) ==
  LET s == Min(FreeSlots(procs)) IN
  /\ FreeSlots(procs) # {}
  /\ procs' = [procs EXCEPT ![s] = NewProcess(name, s + 1)]
  /\ process_pids' = [process_pids EXCEPT ![s] = s + 1]
  /\ proc_pid_counter' = proc_pid_counter + 1
  /\ resume' = [resume EXCEPT ![s] = "user"]
  /\ UNCHANGED kernel

ProcessCreate(name) ==
  LET s == Min(FreeSlots(procs)) IN
  /\ FreeSlots(procs) # {}
  /\ procs' = [procs EXCEPT ![s] = NewProcess(name, proc_pid_counter)]
  /\ process_pids' = [process_pids EXCEPT ![s] = proc_pid_counter]
  /\ proc_pid_counter' = proc_pid_counter + 1
  /\ resume' = [resume EXCEPT ![s] = "user"]
  /\ UNCHANGED kernel

ProcessLimitPanic ==
  /\ FreeSlots(procs) = {}
  /\ kernel' = "panicked"
  /\ UNCHANGED <<procs, process_pids, proc_pid_counter, resume>>

OuProcSpawn(p, name) ==
  /\ Running(p)
  /\ proc_pid_counter <= MaxPid
  /\ ProcessCreate(name) \/ ProcessLimitPanic
  /\ UNCHANGED <<current_proc, yielding, scheduler_next_process>>

Request(p, flags, arg) ==
  [sender_pid |-> procs[p].pid, flags |-> flags, arg |-> arg]

\* The call returns at once, with IPC__PID_NOT_FOUND.
IpcSendNotFound(p, pid) ==
  /\ Running(p)
  /\ SlotsOfPid(pid) = {}
  /\ UNCHANGED vars

(***************************************************************************)
(* A terminated process still has its pid, but process_lookup_by_pidx has  *)
(* no pointer for it and the call reads blocked_sender through null: what  *)
(* follows is undefined, and not modelled further.                         *)
(***************************************************************************)
IpcSendTerminated(p, pid) ==
  /\ Running(p)
  /\ SlotsOfPid(pid) # {}
  /\ ~process_is_running(procs[process_lookup_by_pid(pid)])
  /\ kernel' = "undefined"
  /\ UNCHANGED <<procs, process_pids, proc_pid_counter, current_proc, yielding,
                 scheduler_next_process, resume>>

\* p sends to t, a process that can receive.
SendingTo(p, pid, t) ==
  /\ Running(p)
  /\ SlotsOfPid(pid) # {}
  /\ t = process_lookup_by_pid(pid)
  /\ process_is_running(procs[t])

\* The call returns at once, with IPC__QUEUE_FULL.
IpcSendQueueFull(p, pid) ==
  \E t \in Slots :
    /\ SendingTo(p, pid, t)
    /\ procs[t].blocked_sender # NULL
    /\ Len(procs[t].ipc_wait_queue) >= PROCS_MAX
    /\ UNCHANGED vars

\* Mutant: tests the length of the queue off by one.
IpcSendQueuedOffByOne(p, pid, flags, arg) ==
  \E t \in Slots :
    /\ SendingTo(p, pid, t)
    /\ procs[t].blocked_sender # NULL
    /\ Len(procs[t].ipc_wait_queue) <= PROCS_MAX
    /\ procs' = [procs EXCEPT
          ![t].ipc_wait_queue = Append(@, [sender |-> p, message |-> Request(p, flags, arg)]),
          ![p].state = "IPC_SEND_WAIT"]
    /\ SwitchAway(p, NULL, "send")
\* Mutant: copies the page when it queues the request.
IpcSendQueuedCopies(p, pid, flags, arg) ==
  \E t \in Slots :
    /\ SendingTo(p, pid, t)
    /\ procs[t].blocked_sender # NULL
    /\ Len(procs[t].ipc_wait_queue) < PROCS_MAX
    /\ procs' = [procs EXCEPT
          ![t].ipc_wait_queue = Append(@, [sender |-> p, message |-> Request(p, flags, arg)]),
          ![t].comm_page = CopyPage(procs[p].comm_page, @),
          ![p].state = "IPC_SEND_WAIT"]
    /\ SwitchAway(p, NULL, "send")
\* Mutant: stores the message in the target before it tests the lock.
IpcSendQueuedOverwrites(p, pid, flags, arg) ==
  \E t \in Slots :
    /\ SendingTo(p, pid, t)
    /\ procs[t].blocked_sender # NULL
    /\ Len(procs[t].ipc_wait_queue) < PROCS_MAX
    /\ procs' = [procs EXCEPT
          ![t].ipc_wait_queue = Append(@, [sender |-> p, message |-> Request(p, flags, arg)]),
          ![t].pending_message = Request(p, flags, arg),
          ![p].state = "IPC_SEND_WAIT"]
    /\ SwitchAway(p, NULL, "send")

IpcSendQueued(p, pid, flags, arg) ==
  \E t \in Slots :
    /\ SendingTo(p, pid, t)
    /\ procs[t].blocked_sender # NULL
    /\ Len(procs[t].ipc_wait_queue) < PROCS_MAX
    /\ procs' = [procs EXCEPT
          ![t].ipc_wait_queue = Append(@, [sender |-> p, message |-> Request(p, flags, arg)]),
          ![p].state = "IPC_SEND_WAIT"]
    /\ SwitchAway(p, NULL, "send")

\* The target, now locked by p, with p's request pending.
Locked(t, p, flags, arg) ==
  [procs[t] EXCEPT
     !.comm_page = IF "SEND_COMM_DATA" \in flags
                   THEN CopyPage(procs[p].comm_page, @) ELSE @,
     !.pending_message = Request(p, flags, arg),
     !.has_pending_message = TRUE,
     !.blocked_sender = p]

\* The target waits in recv: run it at once.  The sender stays RUNNABLE.
IpcSendDirect(p, pid, flags, arg) ==
  \E t \in Slots :
    /\ SendingTo(p, pid, t)
    /\ procs[t].blocked_sender = NULL
    /\ procs[t].state = "IPC_RECV_WAIT"
    /\ procs' = [procs EXCEPT ![t] = [Locked(t, p, flags, arg) EXCEPT !.state = "RUNNABLE"]]
    /\ SwitchAway(p, t, "send")

\* The target is busy: wait for the reply.
IpcSendBlocks(p, pid, flags, arg) ==
  \E t \in Slots :
    /\ SendingTo(p, pid, t)
    /\ procs[t].blocked_sender = NULL
    /\ procs[t].state # "IPC_RECV_WAIT"
    /\ LET locked == [procs EXCEPT ![t] = Locked(t, p, flags, arg)]
       IN procs' = [locked EXCEPT ![p].state = "IPC_SEND_WAIT"]
    /\ SwitchAway(p, NULL, "send")

\* Back in ou_ipc_send: it returns p's pending_response.
IpcSendReturn(p) ==
  /\ kernel = "up" /\ ~yielding
  /\ current_proc = p /\ resume[p] = "send"
  /\ resume' = [resume EXCEPT ![p] = "user"]
  /\ UNCHANGED <<procs, process_pids, proc_pid_counter, current_proc, yielding,
                 scheduler_next_process, kernel>>

\* A message is there: the call returns it.
IpcRecvPending(p) ==
  /\ Running(p)
  /\ procs[p].has_pending_message
  /\ procs' = [procs EXCEPT ![p].has_pending_message = FALSE]
  /\ UNCHANGED <<process_pids, proc_pid_counter, current_proc, yielding,
                 scheduler_next_process, resume, kernel>>

IpcRecvWait(p) ==
  /\ Running(p)
  /\ ~procs[p].has_pending_message
  /\ procs' = [procs EXCEPT ![p].state = "IPC_RECV_WAIT"]
  /\ SwitchAway(p, NULL, "recv")

\* Back in ou_ipc_recv: it returns p's pending_message.
IpcRecvReturn(p) ==
  /\ kernel = "up" /\ ~yielding
  /\ current_proc = p /\ resume[p] = "recv"
  /\ procs' = [procs EXCEPT ![p].has_pending_message = FALSE]
  /\ resume' = [resume EXCEPT ![p] = "user"]
  /\ UNCHANGED <<process_pids, proc_pid_counter, current_proc, yielding,
                 scheduler_next_process, kernel>>

\* Mutant: activates the next request, then answers whoever has the lock.
OuIpcReplyAfterGrant(p, response) ==
  LET activated == [procs EXCEPT ![p] = ActivateNext(procs, p)]
      sender == IF activated[p].blocked_sender = NULL THEN procs[p].blocked_sender
                ELSE activated[p].blocked_sender
  IN /\ Running(p)
     /\ procs[p].blocked_sender # NULL
     /\ procs' = [activated EXCEPT ![sender].pending_response = response,
                                   ![procs[p].blocked_sender].state = "RUNNABLE"]
     /\ SwitchAway(p, procs[p].blocked_sender, "user")
\* Mutant: lets the next request's page in before the reply's page is copied out.
OuIpcReplyCopiesLate(p, response) ==
  LET sender == procs[p].blocked_sender
      activated == [procs EXCEPT ![p] = ActivateNext(procs, p)]
  IN /\ Running(p)
     /\ sender # NULL
     /\ procs' = [activated EXCEPT
          ![sender].comm_page = IF "RECV_COMM_DATA" \in procs[p].pending_message.flags
                                THEN CopyPage(activated[p].comm_page, @) ELSE @,
          ![sender].pending_response = response,
          ![sender].state = "RUNNABLE"]
     /\ SwitchAway(p, sender, "user")

(***************************************************************************)
(* Answer the request p holds the lock for: copy the page back, store the  *)
(* response, activate the next request, and switch to the sender at once.  *)
(* The page goes back before the next request's page comes in.             *)
(***************************************************************************)
OuIpcReply(p, response) ==
  LET sender == procs[p].blocked_sender
      answered == [procs EXCEPT
                     ![sender].comm_page =
                        IF "RECV_COMM_DATA" \in procs[p].pending_message.flags
                        THEN CopyPage(procs[p].comm_page, @) ELSE @,
                     ![sender].pending_response = response]
      activated == [answered EXCEPT ![p] = ActivateNext(answered, p)]
  IN /\ Running(p)
     /\ sender # NULL
     /\ procs' = [activated EXCEPT ![sender].state = "RUNNABLE"]
     /\ SwitchAway(p, sender, "user")

\* ou_ipc_reply with no sender to answer does nothing.
IpcReplyNobody(p) ==
  /\ Running(p)
  /\ procs[p].blocked_sender = NULL
  /\ UNCHANGED vars

\* A program writes its comm page.
WriteCommPage(p, page) ==
  /\ Running(p)
  /\ procs' = [procs EXCEPT ![p].comm_page = page]
  /\ UNCHANGED <<process_pids, proc_pid_counter, current_proc, yielding,
                 scheduler_next_process, resume, kernel>>

(***************************************************************************)
(* The switch.  On WASM the scheduler first cleans up after the process it *)
(* comes back from, if that has terminated; on RISC-V nobody does.  A      *)
(* direct switch is obeyed, else the next runnable process is picked, and  *)
(* when there is none the kernel exits.  A target that has been zeroed has *)
(* no code to run, one that has exited would return from ou_exit: both are *)
(* undefined.                                                              *)
(***************************************************************************)
Schedule ==
  LET reap == Platform = "wasm" /\ procs[current_proc].state = "TERMINATED"
      table == IF reap THEN process_exit(procs, current_proc) ELSE procs
      next == IF scheduler_next_process # NULL THEN scheduler_next_process
              ELSE process_next_runnable(table, Pidx(table, current_proc))
  IN /\ kernel = "up" /\ yielding
     /\ procs' = table
     /\ process_pids' = IF reap THEN [process_pids EXCEPT ![current_proc] = PidNone]
                        ELSE process_pids
     /\ current_proc' = next
     /\ yielding' = FALSE
     /\ scheduler_next_process' = NULL
     /\ kernel' = CASE next = Idle -> "exited"
                    [] next # Idle /\ (table[next].pid = PidNone \/ resume[next] = "exited")
                       -> "undefined"
                    [] OTHER -> "up"
     /\ UNCHANGED <<proc_pid_counter, resume>>

-----------------------------------------------------------------------------
\* kernel_start: idle in slot 0, the boot processes after it, then the first yield.
Init ==
  /\ procs = [s \in Slots |->
                CASE s = Idle -> NewProcess("idle", 1)
                  [] s \in 1 .. Len(Boot) -> NewProcess(Boot[s], s + 1)
                  [] OTHER -> Zeroed]
  /\ process_pids = [s \in Slots |-> IF s <= Len(Boot) THEN s + 1 ELSE PidNone]
  /\ proc_pid_counter = Len(Boot) + 2
  /\ current_proc = Idle
  /\ yielding = TRUE
  /\ scheduler_next_process = NULL
  /\ resume = [s \in Slots |-> "user"]
  /\ kernel = "up"

IpcSend(p) ==
  \E pid \in Targets, flags \in FlagSets, arg \in Args :
    \/ IpcSendNotFound(p, pid)
    \/ IpcSendTerminated(p, pid)
    \/ IpcSendQueueFull(p, pid)
    \/ IpcSendQueued(p, pid, flags, arg)
    \/ IpcSendDirect(p, pid, flags, arg)
    \/ IpcSendBlocks(p, pid, flags, arg)

IpcReply(p) ==
  \/ \E response \in Responses : OuIpcReply(p, response)
  \/ IpcReplyNobody(p)

SystemCall(p) ==
  \/ OuYield(p)
  \/ OuExit(p)
  \/ OuShutdown(p)
  \/ \E name \in Programs : OuProcSpawn(p, name)
  \/ IpcSend(p)
  \/ IpcSendReturn(p)
  \/ IpcRecvPending(p)
  \/ IpcRecvWait(p)
  \/ IpcRecvReturn(p)
  \/ IpcReply(p)
  \/ \E page \in Pages : WriteCommPage(p, page)

Next ==
  \/ Schedule
  \/ \E p \in Slots \ {Idle} : SystemCall(p)

Spec == Init /\ [][Next]_vars

-----------------------------------------------------------------------------
(* What holds whatever the programs do *)

\* A pid names one slot, both tables agree on it until the kernel shuts down, and it
\* was handed out by the counter (process_create_impl, process_exit).
PidsUnique ==
  /\ kernel # "shut down" => \A s \in Slots : process_pids[s] = procs[s].pid
  /\ \A s \in Slots : procs[s].pid < proc_pid_counter
  /\ \A s, t \in Slots : procs[s].pid = procs[t].pid /\ s # t => procs[s].pid = PidNone

\* "Globally unique process ID counter (never reused)": a slot's pid changes only
\* to none or to a pid no process ever had (process_create_impl, process_exit).
PidNeverReused ==
  [][/\ proc_pid_counter' >= proc_pid_counter
     /\ \A s \in Slots : procs'[s].pid \in {procs[s].pid, PidNone, proc_pid_counter}]_vars

\* Requests queue only behind a lock: no release of the lock, by a reply or by the
\* holder's exit, leaves a queue nobody will serve (ou_ipc_reply, process_exit).
QueueOnlyWhenLocked ==
  \A s \in Slots : procs[s].ipc_wait_queue # <<>> => procs[s].blocked_sender # NULL

\* The queue stays within ipc_wait_queue[PROCS_MAX] (ou_ipc_send).
QueueBounded == \A s \in Slots : Len(procs[s].ipc_wait_queue) <= PROCS_MAX

\* A process that waits, has exited or does not exist never runs: every switch,
\* direct or through the scheduler, is to a runnable process (process_next_runnable,
\* ou_ipc_send, ou_ipc_reply).
RunnerIsRunnable ==
  /\ kernel = "up" /\ ~yielding /\ current_proc # Idle
     => procs[current_proc].state = "RUNNABLE"
  /\ yielding /\ scheduler_next_process # NULL
     => procs[scheduler_next_process].state = "RUNNABLE"

\* "reached end of kernel while programs were running": the kernel ends because nothing
\* is left to run, or because the first process has exited and nobody has cleaned up after
\* it (process_next_runnable and its check on slot 1, kernel_start).
EndsWhenIdle ==
  kernel = "exited" =>
    \/ \A s \in Slots \ {Idle} : procs[s].state # "RUNNABLE"
    \/ procs[1].state = "TERMINATED"

\* s has called t: it holds t's lock or waits in its queue.
WaitsFor(s, t) ==
  \/ procs[t].blocked_sender = s
  \/ \E i \in DOMAIN procs[t].ipc_wait_queue : procs[t].ipc_wait_queue[i].sender = s

\* A process leaves IPC_SEND_WAIT only by the doing of the process it has called: by that
\* one's reply to it and not to another, or by that one's exit (ou_ipc_reply, process_exit).
\* No grant of a lock, no request of others and no stranger's exit or reply wakes it, to
\* return from the call with a response that is not its own.
WokenByItsServer ==
  [][\A s \in Slots :
       procs[s].state = "IPC_SEND_WAIT" /\ procs'[s].state # "IPC_SEND_WAIT"
       => \/ kernel' = "shut down"
          \/ ~yielding /\ procs[current_proc].blocked_sender = s
          \/ /\ yielding /\ procs[current_proc].state = "TERMINATED"
             /\ WaitsFor(s, current_proc)]_vars

-----------------------------------------------------------------------------
(* What the repository says and the code does not do *)

\* "Release locks and wake waiting senders" (process_exit): a process in IPC_SEND_WAIT
\* waits for a process that is there, and has it queued or holds its lock.
WaitersAreRegistered ==
  kernel = "up" =>
    \A s \in Slots : procs[s].state = "IPC_SEND_WAIT" => \E t \in Slots : WaitsFor(s, t)
=============================================================================
