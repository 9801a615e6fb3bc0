------------------------------ MODULE Services ------------------------------
(***************************************************************************)
(* The kernel under the programs that ship: servers that run the loop the  *)
(* IPC code generator emits (receive, handle, reply), and applications     *)
(* that look a server up by name and call it through the generated client  *)
(* stubs.  A server may fail in a handler (ou_malloc exits the process     *)
(* when memory runs out) or be told to shut down, where Failures says so.  *)
(*                                                                         *)
(* Every step is a step of Kernel, taken by a program in the position to   *)
(* take it.                                                                *)
(***************************************************************************)
EXTENDS Kernel

CONSTANTS
  ServerNames,   \* the servers among Boot
  Failures,      \* subset of {"handler_exit", "shutdown_request"}
  ShutdownArg    \* the request that stands for IPC_METHOD_SHUTDOWN

VARIABLES
  serving,       \* the request each server is handling, its copy of the message
  stopping,      \* servers that have answered a shutdown request
  calling        \* each application's outstanding call

servicesVars == <<procs, process_pids, proc_pid_counter, current_proc, yielding,
                  scheduler_next_process, resume, kernel, serving, stopping, calling>>

NoCall == [to |-> PidNone, flags |-> {}, arg |-> 0]

Servers == {s \in Slots \ {Idle} : s <= Len(Boot) /\ Boot[s] \in ServerNames}
ServerPids == {s + 1 : s \in Servers}
ServerOf(pid) == pid - 1

\* A page holds what one side of one call wrote.
Page(kind, pid, arg) == [kind |-> kind, of |-> pid, arg |-> arg]

\* The response a handler computes is a function of the request.
Handle(arg) == [error_code |-> "NONE", value |-> arg]

\* The programs make system calls that Kernel allows.
ASSUME ServicesAssumption ==
  /\ ServerNames \cap Programs = {}
  /\ Failures \subseteq {"handler_exit", "shutdown_request"}
  /\ Args \ {0, ShutdownArg} # {} /\ FlagSets # {}
  /\ ServerPids \subseteq Targets
  /\ \A arg \in Args : Handle(arg) \in Responses
  /\ Len(Boot) < MaxPid
  /\ \A pid \in 0 .. MaxPid, arg \in Args \cup {0} :
       Page("request", pid, arg) \in Pages /\ Page("reply", pid, arg) \in Pages

IsServer(p) == procs[p].name \in ServerNames
IsApp(p) == procs[p].state # "UNUSED" /\ p # Idle /\ ~IsServer(p)

RequestPage(m) == Page("request", m.sender_pid, m.arg)
ReplyPage(m) == Page("reply", m.sender_pid, m.arg)

ServicesTypeOK ==
  /\ TypeOK
  /\ serving \in [Slots -> Message]
  /\ stopping \subseteq Slots
  /\ calling \in [Slots -> [to : {PidNone} \cup ServerPids, flags : SUBSET Flags, arg : Args \cup {0}]]

-----------------------------------------------------------------------------
(* The servers: Server::run and process_request *)

InLoop(s) == IsServer(s) /\ serving[s] = NullMessage /\ s \notin stopping
InHandler(s) == IsServer(s) /\ serving[s] # NullMessage

Serves(s) ==
  /\ serving' = [serving EXCEPT ![s] = procs[s].pending_message]
  /\ UNCHANGED <<stopping, calling>>

ServerRecv(s) ==
  /\ InLoop(s)
  /\ \/ IpcRecvPending(s) /\ Serves(s)
     \/ IpcRecvWait(s) /\ UNCHANGED <<serving, stopping, calling>>

ServerRecvReturn(s) ==
  /\ InLoop(s)
  /\ IpcRecvReturn(s)
  /\ Serves(s)

\* A handler with a buffer result leaves it in the server's comm page.
ServerWrite(s) ==
  /\ InHandler(s)
  /\ "RECV_COMM_DATA" \in serving[s].flags
  /\ procs[s].comm_page # ReplyPage(serving[s])
  /\ WriteCommPage(s, ReplyPage(serving[s]))
  /\ UNCHANGED <<serving, stopping, calling>>

\* The reply ends the handler; after a shutdown request ou_exit comes next.
ServerReply(s) ==
  /\ InHandler(s)
  /\ "RECV_COMM_DATA" \in serving[s].flags => procs[s].comm_page = ReplyPage(serving[s])
  /\ \/ OuIpcReply(s, Handle(serving[s].arg))
     \/ IpcReplyNobody(s)
  /\ serving' = [serving EXCEPT ![s] = NullMessage]
  /\ stopping' = IF serving[s].arg = ShutdownArg THEN stopping \cup {s} ELSE stopping
  /\ UNCHANGED calling

\* ou_malloc found no memory in a handler, or the shutdown request was answered.
ServerExit(s) ==
  /\ IsServer(s)
  /\ s \in stopping \/ (InHandler(s) /\ "handler_exit" \in Failures)
  /\ OuExit(s)
  /\ serving' = [serving EXCEPT ![s] = NullMessage]
  /\ stopping' = stopping \ {s}
  /\ UNCHANGED calling

ServerStep(s) ==
  \/ ServerRecv(s)
  \/ ServerRecvReturn(s)
  \/ ServerWrite(s)
  \/ ServerReply(s)
  \/ ServerExit(s)

-----------------------------------------------------------------------------
(* The applications *)

UNCHANGEDPrograms == UNCHANGED <<serving, stopping, calling>>

AppYield(c) == IsApp(c) /\ OuYield(c) /\ UNCHANGEDPrograms

AppExit(c) == IsApp(c) /\ OuExit(c) /\ UNCHANGEDPrograms

AppSpawn(c) ==
  /\ IsApp(c)
  /\ \E name \in Programs : OuProcSpawn(c, name)
  /\ UNCHANGEDPrograms

\* The stub serialises the arguments into its comm page before it sends.
AppPrepare(c, arg) ==
  LET page == Page("request", procs[c].pid, arg) IN
  /\ IsApp(c)
  /\ procs[c].comm_page # page
  /\ WriteCommPage(c, page)
  /\ UNCHANGEDPrograms

Requestable == IF "shutdown_request" \in Failures THEN Args ELSE Args \ {ShutdownArg}

\* A send that leaves c waiting for the server's reply.
AppSend(c, pid, flags, arg) ==
  /\ IsApp(c)
  /\ "SEND_COMM_DATA" \in flags => procs[c].comm_page = Page("request", procs[c].pid, arg)
  /\ \/ IpcSendQueued(c, pid, flags, arg)
     \/ IpcSendDirect(c, pid, flags, arg)
     \/ IpcSendBlocks(c, pid, flags, arg)
  /\ calling' = [calling EXCEPT ![c] = [to |-> pid, flags |-> flags, arg |-> arg]]
  /\ UNCHANGED <<serving, stopping>>

\* A send that fails at once, or in the kernel.
AppSendFails(c, pid) ==
  /\ IsApp(c)
  /\ \/ IpcSendNotFound(c, pid)
     \/ IpcSendTerminated(c, pid)
     \/ IpcSendQueueFull(c, pid)
  /\ UNCHANGEDPrograms

AppReturn(c) ==
  /\ IsApp(c)
  /\ IpcSendReturn(c)
  /\ calling' = [calling EXCEPT ![c] = NoCall]
  /\ UNCHANGED <<serving, stopping>>

AppCall(c) ==
  \E pid \in ServerPids, arg \in Requestable \ {0}, flags \in FlagSets :
    AppSend(c, pid, flags, arg)

AppStep(c) ==
  \/ AppYield(c)
  \/ AppExit(c)
  \/ AppSpawn(c)
  \/ \E arg \in Requestable \ {0} : AppPrepare(c, arg)
  \/ AppCall(c)
  \/ \E pid \in ServerPids : AppSendFails(c, pid)
  \/ AppReturn(c)

-----------------------------------------------------------------------------
ServicesInit ==
  /\ Init
  /\ serving = [s \in Slots |-> NullMessage]
  /\ stopping = {}
  /\ calling = [s \in Slots |-> NoCall]

Switch == Schedule /\ UNCHANGEDPrograms

ServicesNext ==
  \/ Switch
  \/ \E p \in Slots \ {Idle} : ServerStep(p) \/ AppStep(p)

ServicesSpec == ServicesInit /\ [][ServicesNext]_servicesVars

(***************************************************************************)
(* A process that runs goes on running: the switch happens, a server gets  *)
(* to its next system call, an application takes what its call returned.   *)
(* Every application's main loop reaches ou_yield (or exits) again and     *)
(* again, whatever calls it makes in between.                              *)
(***************************************************************************)
Fairness ==
  /\ WF_servicesVars(Switch)
  /\ \A p \in Slots \ {Idle} :
       /\ WF_servicesVars(ServerStep(p))
       /\ WF_servicesVars(AppReturn(p))
       /\ WF_servicesVars(AppYield(p) \/ AppExit(p) \/ AppCall(p))
       /\ SF_servicesVars(AppYield(p) \/ AppExit(p))

FairSpec == ServicesSpec /\ Fairness

-----------------------------------------------------------------------------
(* What the programs rely on *)

\* The requests s has accepted and not answered: the one that holds its lock, then
\* its queue.
Accepted(s) ==
  LET locked == IF procs[s].blocked_sender = NULL THEN <<>>
                ELSE <<[sender |-> procs[s].blocked_sender, message |-> procs[s].pending_message]>>
  IN locked \o procs[s].ipc_wait_queue

Entries(c) ==
  {e \in Servers \X (1 .. PROCS_MAX + 1) :
     e[2] <= Len(Accepted(e[1])) /\ Accepted(e[1])[e[2]].sender = c}

MatchesCall(c, m) ==
  m = [sender_pid |-> procs[c].pid, flags |-> calling[c].flags, arg |-> calling[c].arg]

\* A caller is registered once, with its own request, at the server it called, until
\* that server answers; nobody else is registered anywhere, and a caller that blocks
\* is registered (ou_ipc_send, ou_ipc_reply, process_exit).
CallersRegisteredOnce ==
  kernel = "up" =>
    \A c \in Slots :
      /\ Cardinality(Entries(c)) <= 1
      /\ \A e \in Entries(c) :
           /\ e[1] = ServerOf(calling[c].to) /\ resume[c] = "send"
           /\ MatchesCall(c, Accepted(e[1])[e[2]].message)
      /\ procs[c].state = "IPC_SEND_WAIT" => Entries(c) # {}

\* While a handler runs, its server's lock is held by the very process whose request
\* it received, so that the reply, and the reply's page, go there
\* (ou_ipc_recv, ou_ipc_reply).
HandlesLockHolder ==
  \A s \in Servers : InHandler(s) =>
    /\ procs[s].pending_message = serving[s]
    /\ procs[procs[s].blocked_sender].pid = serving[s].sender_pid

\* A handler finds its own request's arguments in the comm page, though other
\* requests were accepted meanwhile and the previous reply's page was there before
\* (ou_ipc_send, ou_ipc_reply).
HandlerSeesItsPage ==
  \A s \in Servers : InHandler(s) /\ "SEND_COMM_DATA" \in serving[s].flags =>
    procs[s].comm_page \in {RequestPage(serving[s]), ReplyPage(serving[s])}

\* What a handler relies on from recv to reply.
HandlerUndisturbed == HandlesLockHolder /\ HandlerSeesItsPage

Returning(c) == calling[c] # NoCall /\ calling'[c] = NoCall

\* A call returns the response to that very request, never an older one or another
\* caller's (ou_ipc_send, ou_ipc_reply).
ReplyMatches ==
  [][\A c \in Slots : Returning(c) =>
       procs[c].pending_response = Handle(calling[c].arg)]_servicesVars

\* A call that asked for the reply's page finds it in its own comm page.
ReplyPageMatches ==
  [][\A c \in Slots : Returning(c) /\ "RECV_COMM_DATA" \in calling[c].flags =>
       procs[c].comm_page = Page("reply", procs[c].pid, calling[c].arg)]_servicesVars

\* When servers fail, a call still never returns without its reply unless the server
\* it called is gone (process_exit).
ReplyUnlessServerGone ==
  [][\A c \in Slots : Returning(c) =>
       \/ procs[c].pending_response = Handle(calling[c].arg)
       \/ ~is_alive(calling[c].to)]_servicesVars

\* Every call returns: no reply is lost, and no set of processes waits on itself.
EveryCallReturns ==
  \A c \in Slots : calling[c] # NoCall ~> calling[c] = NoCall

\* A server's failure strands no caller of another server.
CrashIsContained ==
  \A c \in Slots \ ({Idle} \cup Servers) :
    calling[c] # NoCall ~> calling[c] = NoCall \/ ~is_alive(calling[c].to) \/ kernel # "up"

\* No call runs into undefined behaviour in the kernel.
CallsAreDefined == kernel # "undefined"

\* Every runnable process gets to run, though IPC switches around the round robin
\* (process_next_runnable, process_switch_to).
NobodyStarves ==
  \A p \in Slots \ {Idle} :
    procs[p].state = "RUNNABLE" ~> current_proc = p \/ procs[p].state = "UNUSED" \/ kernel # "up"

(***************************************************************************)
(* The services implement remote procedure calls.                          *)
(***************************************************************************)
inboxBar ==
  [s \in Servers |->
    [i \in DOMAIN Accepted(s) |->
      [client |-> Accepted(s)[i].sender, request |-> Accepted(s)[i].message.arg]]]

callBar ==
  [c \in Slots |->
    CASE calling[c] = NoCall -> [is |-> "idle"]
      [] calling[c] # NoCall /\ Entries(c) # {} -> [is |-> "waiting"]
      [] OTHER -> [is |-> "answered", response |-> procs[c].pending_response]]

R == INSTANCE Rpc WITH Clients <- Slots, Requests <- Args, inbox <- inboxBar, call <- callBar

\* Servers answer in the order of the calls, each call once, with its own response.
ImplementsRpc == R!Spec
=============================================================================
