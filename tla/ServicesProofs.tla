--------------------------- MODULE ServicesProofs ---------------------------
(***************************************************************************)
(* What the kernel guarantees to the programs that ship, for any number of *)
(* servers, applications and requests, on either platform.                 *)
(***************************************************************************)
EXTENDS Services, KernelProofs, FiniteSetTheorems

-----------------------------------------------------------------------------
(* The inductive invariant *)

\* A server that is there.
Open(s) ==
  /\ s \in Servers /\ procs[s].name \in ServerNames
  /\ procs[s].state \in {"RUNNABLE", "IPC_RECV_WAIT"}

\* Who a slot belongs to.  Servers keep the pids that kernel_start gave them, and no
\* other process gets one of these.
Identity(s) ==
  /\ procs[s].pid <= MaxPid
  /\ procs[s].pid = PidNone <=> procs[s].state = "UNUSED"
  /\ procs[s].pid \in ServerPids => procs[s].pid = s + 1 /\ procs[s].name \in ServerNames
  /\ procs[s].name \in ServerNames /\ s # Idle /\ procs[s].pid # PidNone
       => s \in Servers /\ procs[s].pid = s + 1
  /\ procs[s].state = "UNUSED" <=> procs[s].comm_page = NullPage
  /\ procs[s].state = "TERMINATED" /\ Platform = "wasm" => yielding /\ current_proc = s
  /\ s = Idle => procs[s].state = "RUNNABLE"

\* Where a server is in its loop.
ServerState(s) ==
  IF ~Open(s)
  THEN /\ serving[s] = NullMessage /\ s \notin stopping
       /\ procs[s].name \notin ServerNames \/ s = Idle
            => procs[s].blocked_sender = NULL /\ procs[s].ipc_wait_queue = <<>>
  ELSE /\ procs[s].has_pending_message
            <=> procs[s].blocked_sender # NULL /\ serving[s] = NullMessage
       /\ serving[s] # NullMessage =>
            /\ procs[s].blocked_sender # NULL /\ procs[s].pending_message = serving[s]
            /\ resume[s] = "user" /\ s \notin stopping
       /\ s \in stopping => resume[s] = "user"
       /\ resume[s] \in {"user", "recv"}
       /\ procs[s].state = "IPC_RECV_WAIT" <=> resume[s] = "recv" /\ procs[s].blocked_sender = NULL

\* Where an application is in its call.
CallerState(c) ==
  IF resume[c] = "send"
  THEN /\ c # Idle /\ procs[c].name \notin ServerNames
       /\ procs[c].state \in {"RUNNABLE", "IPC_SEND_WAIT"}
       /\ calling[c] \in [to : ServerPids, flags : FlagSets, arg : Requestable \ {0}]
  ELSE calling[c] = NoCall /\ procs[c].state # "IPC_SEND_WAIT"

\* c's request m is at server s.
Asks(c, s, m) ==
  /\ c # Idle /\ resume[c] = "send" /\ calling[c].to = s + 1
  /\ MatchesCall(c, m)
  /\ "SEND_COMM_DATA" \in m.flags => procs[c].comm_page = RequestPage(m)

Holder(s) == procs[s].blocked_sender
Queue(s) == procs[s].ipc_wait_queue

\* A server's lock.  Its holder only runs after the server, or instead of a reply.
LockState(s) == Holder(s) # NULL =>
  /\ Asks(Holder(s), s, procs[s].pending_message)
  /\ "SEND_COMM_DATA" \in procs[s].pending_message.flags =>
       \/ procs[s].comm_page = RequestPage(procs[s].pending_message)
       \/ procs[s].comm_page = ReplyPage(procs[s].pending_message) /\ serving[s] # NullMessage
  /\ procs[Holder(s)].state = "RUNNABLE" =>
       IF yielding THEN scheduler_next_process = s ELSE current_proc = s

\* A server's queue.
QueueState(s) == \A i \in 1 .. Len(Queue(s)) :
  /\ Asks(Queue(s)[i].sender, s, Queue(s)[i].message)
  /\ procs[Queue(s)[i].sender].state = "IPC_SEND_WAIT"
  /\ Queue(s)[i].sender # Holder(s)
  /\ \A j \in 1 .. Len(Queue(s)) : Queue(s)[i].sender = Queue(s)[j].sender => i = j

\* What a server has accepted.
Accepts(s) == Open(s) => LockState(s) /\ QueueState(s)

Registered(c, s) ==
  \/ Holder(s) = c
  \/ \E i \in 1 .. Len(Queue(s)) : Queue(s)[i].sender = c

\* The reply to c's call has arrived.
Answered(c) ==
  /\ procs[c].state = "RUNNABLE"
  /\ procs[c].pending_response = Handle(calling[c].arg)
  /\ "RECV_COMM_DATA" \in calling[c].flags
       => procs[c].comm_page = Page("reply", procs[c].pid, calling[c].arg)

\* What a caller waits for, or has got.
Served(c) == resume[c] = "send" /\ Open(ServerOf(calling[c].to)) =>
  Registered(c, ServerOf(calling[c].to)) \/ Answered(c)

\* Servers that do not fail stay.
Stays(s) == Failures = {} /\ s \in Servers => Open(s) /\ s \notin stopping

SlotState(s) ==
  /\ Identity(s) /\ ServerState(s) /\ CallerState(s)
  /\ Accepts(s) /\ Served(s) /\ Stays(s)

SInv ==
  /\ IInv
  /\ ServicesTypeOK
  /\ proc_pid_counter > Len(Boot) + 1
  /\ \A s \in Slots : SlotState(s)

-----------------------------------------------------------------------------
(* Helpers *)

\* What the assumptions say of the servers and their pids.
LEMMA ServerFacts ==
  /\ Servers \subseteq Slots /\ Idle \notin Servers
  /\ Len(Boot) \in Nat /\ Len(Boot) < MaxPid /\ MaxPid \in Nat
  /\ \A s \in Servers : s <= Len(Boot) /\ Boot[s] \in ServerNames /\ s + 1 \in ServerPids
  /\ \A pid \in ServerPids :
       /\ ServerOf(pid) \in Servers /\ pid = ServerOf(pid) + 1
       /\ pid \in Nat /\ pid <= Len(Boot) + 1 /\ pid # PidNone /\ pid \in Targets
<1>1. Len(Boot) \in Nat /\ Len(Boot) < MaxPid /\ MaxPid \in Nat
  BY KernelAssumption, ServicesAssumption
<1>2. Servers \subseteq Slots /\ Idle \notin Servers /\ Slots \subseteq Nat
  BY SlotsType DEF Servers
<1>3. \A s \in Servers : s <= Len(Boot) /\ Boot[s] \in ServerNames /\ s + 1 \in ServerPids
  BY DEF Servers, ServerPids
<1>4. ASSUME NEW pid \in ServerPids
      PROVE  /\ ServerOf(pid) \in Servers /\ pid = ServerOf(pid) + 1
             /\ pid \in Nat /\ pid <= Len(Boot) + 1 /\ pid # PidNone
  <2>1. PICK s \in Servers : pid = s + 1
    BY DEF ServerPids
  <2> QED
    BY <1>1, <1>2, <1>3, <2>1 DEF ServerOf, PidNone
<1> QED
  BY <1>1, <1>2, <1>3, <1>4, ServicesAssumption

\* What SInv says of the types of one slot.
LEMMA SlotTypes ==
  ASSUME SInv, NEW s \in Slots
  PROVE  /\ procs \in [Slots -> Process] /\ procs[s] \in Process
         /\ Queue(s) \in Seq(QueuedRequest) /\ Len(Queue(s)) \in Nat
         /\ \A i \in 1 .. Len(Queue(s)) :
              Queue(s)[i].sender \in Slots \ {Idle} /\ Queue(s)[i].message \in Message
         /\ Holder(s) \in Slots /\ (Queue(s) # <<>> => Holder(s) # NULL)
         /\ serving \in [Slots -> Message] /\ stopping \subseteq Slots
         /\ resume \in [Slots -> {"user", "send", "recv", "exited"}]
         /\ calling \in [Slots -> [to : {PidNone} \cup ServerPids, flags : SUBSET Flags,
                                    arg : Args \cup {0}]]
<1>1. /\ procs \in [Slots -> Process] /\ procs[s] \in Process
      /\ Queue(s) \in Seq(QueuedRequest) /\ Holder(s) \in Slots
      /\ Queue(s) # <<>> => Holder(s) # NULL
      /\ resume \in [Slots -> {"user", "send", "recv", "exited"}]
  BY SlotFacts DEF SInv, IInv, TypeOK, Queue, Holder
<1>2. /\ Len(Queue(s)) \in Nat
      /\ \A i \in 1 .. Len(Queue(s)) : Queue(s)[i] \in QueuedRequest
  BY <1>1
<1>3. \A q \in QueuedRequest : q.sender \in Slots \ {Idle} /\ q.message \in Message
  BY DEF QueuedRequest
<1> QED
  BY <1>1, <1>2, <1>3 DEF SInv, ServicesTypeOK

\* Nothing about slot x changes.
Same(x) ==
  /\ procs'[x] = procs[x] /\ resume'[x] = resume[x]
  /\ serving'[x] = serving[x] /\ calling'[x] = calling[x]
  /\ x \in stopping' <=> x \in stopping

(***************************************************************************)
(* A step that changes only the slots of Q keeps the state of the others,  *)
(* provided none of Q is registered at a server outside Q, and the servers *)
(* of Q keep whom they have registered.                                    *)
(***************************************************************************)
LEMMA Frame ==
  ASSUME SInv, NEW Q \in SUBSET Slots,
         \A x \in Slots \ Q : Same(x),
         \A x \in Slots \ Q, c \in Q : Open(x) => ~Registered(c, x),
         \A x \in Slots \ Q : Open(x) /\ Holder(x) # NULL /\ procs[Holder(x)].state = "RUNNABLE"
           => IF yielding' THEN scheduler_next_process' = x ELSE current_proc' = x,
         \A x \in Slots \ Q : procs[x].state = "TERMINATED" /\ Platform = "wasm"
           => yielding' /\ current_proc' = x,
         \A x \in Q, c \in Slots \ (Q \cup {Idle}) :
           Open(x)' => Open(x) /\ (Registered(c, x) => Registered(c, x)'),
         NEW s \in Slots \ Q
  PROVE  SlotState(s)'
<1>1. /\ SlotState(s) /\ Same(s)
      /\ Open(s)' <=> Open(s)
      /\ Holder(s)' = Holder(s) /\ Queue(s)' = Queue(s)
  BY DEF SInv, Same, Open, Holder, Queue
<1>2. Identity(s)'
  BY <1>1 DEF SlotState, Identity, Same
<1>3. ServerState(s)'
  BY <1>1 DEF SlotState, ServerState, Same
<1>4. CallerState(s)'
  BY <1>1 DEF SlotState, CallerState, Same
<1>5. ASSUME Open(s), NEW c \in Slots, NEW m, Asks(c, s, m), Registered(c, s)
      PROVE  Asks(c, s, m)' /\ procs'[c].state = procs[c].state
  <2>1. c \notin Q
    BY <1>5
  <2>2. Same(c)
    BY <2>1
  <2> QED
    BY <1>5, <2>2 DEF Asks, Same, MatchesCall, RequestPage
<1>6. Accepts(s)'
  <2> SUFFICES ASSUME Open(s) PROVE (LockState(s) /\ QueueState(s))'
    BY <1>1 DEF Accepts
  <2>1. LockState(s) /\ QueueState(s)
    BY <1>1 DEF SlotState, Accepts
  <2>2. ASSUME Holder(s) # NULL
        PROVE  /\ Asks(Holder(s), s, procs[s].pending_message)'
               /\ procs'[Holder(s)].state = procs[Holder(s)].state
    <3>1. Asks(Holder(s), s, procs[s].pending_message) /\ Registered(Holder(s), s)
      BY <2>1, <2>2 DEF LockState, Registered
    <3> QED
      BY <1>1, <1>5, <3>1, SlotTypes DEF Same, Asks, MatchesCall, RequestPage
  <2>3. LockState(s)'
    BY <1>1, <2>1, <2>2 DEF LockState, Same, RequestPage, ReplyPage
  <2>4. QueueState(s)'
    <3> SUFFICES ASSUME NEW i \in 1 .. Len(Queue(s))
                 PROVE  /\ Asks(Queue(s)[i].sender, s, Queue(s)[i].message)'
                        /\ procs'[Queue(s)[i].sender].state = "IPC_SEND_WAIT"
      BY <1>1, <2>1 DEF QueueState
    <3>1. /\ Asks(Queue(s)[i].sender, s, Queue(s)[i].message)
          /\ procs[Queue(s)[i].sender].state = "IPC_SEND_WAIT"
          /\ Registered(Queue(s)[i].sender, s)
      BY <2>1 DEF QueueState, Registered
    <3>2. Queue(s)[i].sender \in Slots
      BY SlotTypes
    <3> QED
      BY <1>1, <1>5, <3>1, <3>2 DEF Asks, MatchesCall, RequestPage
  <2> QED
    BY <2>3, <2>4
<1>7. Served(s)'
  <2> SUFFICES ASSUME NEW t, t = ServerOf(calling[s].to), resume[s] = "send", Open(t)'
               PROVE  Registered(s, t)' \/ Answered(s)'
    BY <1>1 DEF Served, Same
  <2>1. t \in Slots
    BY DEF Open, Servers
  <2>2. /\ Open(t)
        /\ Registered(s, t) => Registered(s, t)'
    <3>0. s # Idle
      BY <1>1 DEF SlotState, CallerState
    <3>1. CASE t \in Q
      BY <3>0, <3>1
    <3>2. CASE t \notin Q
      BY <2>1, <3>2 DEF Same, Open, Registered, Holder, Queue
    <3> QED
      BY <3>1, <3>2
  <2>3. Registered(s, t) \/ Answered(s)
    BY <1>1, <2>2 DEF SlotState, Served
  <2>4. Answered(s) => Answered(s)'
    BY <1>1 DEF Answered, Same
  <2> QED
    BY <2>2, <2>3, <2>4
<1>8. Stays(s)'
  BY <1>1 DEF SlotState, Stays, Same
<1> QED
  BY <1>2, <1>3, <1>4, <1>6, <1>7, <1>8 DEF SlotState

\* Who is registered at a server has called it, and only runs after the server.
LEMMA RegisteredFacts ==
  ASSUME SInv, NEW x \in Slots, Open(x), NEW c \in Slots \ {Idle}, Registered(c, x)
  PROVE  /\ resume[c] = "send" /\ calling[c].to = x + 1 /\ calling[c] # NoCall
         /\ procs[c].name \notin ServerNames
         /\ procs[c].state \in {"RUNNABLE", "IPC_SEND_WAIT"}
         /\ procs[c].state = "RUNNABLE" =>
              Holder(x) = c /\ IF yielding THEN scheduler_next_process = x ELSE current_proc = x
<1>1. LockState(x) /\ QueueState(x)
  BY DEF SInv, SlotState, Accepts
<1>2. CallerState(c)
  BY DEF SInv, SlotState
<1>3. CASE Holder(x) = c
  <2>1. /\ Asks(c, x, procs[x].pending_message)
        /\ procs[c].state = "RUNNABLE" =>
             IF yielding THEN scheduler_next_process = x ELSE current_proc = x
    BY <1>1, <1>3 DEF LockState, Idle, NULL
  <2> QED
    BY <1>2, <1>3, <2>1, ServerFacts DEF Asks, CallerState, NoCall
<1>4. ASSUME NEW i \in 1 .. Len(Queue(x)), Queue(x)[i].sender = c
      PROVE  /\ resume[c] = "send" /\ calling[c].to = x + 1
             /\ procs[c].state = "IPC_SEND_WAIT"
  BY <1>1, <1>4 DEF QueueState, Asks
<1>5. CASE \E i \in 1 .. Len(Queue(x)) : Queue(x)[i].sender = c
  <2>1. PICK i \in 1 .. Len(Queue(x)) : Queue(x)[i].sender = c
    BY <1>5
  <2> QED
    BY <1>2, <1>4, <2>1, ServerFacts DEF CallerState, NoCall
<1> QED
  BY <1>3, <1>5 DEF Registered

\* A server that is there is in no call, and is not a program of its own.
LEMMA OpenFacts ==
  ASSUME SInv, NEW s \in Slots, Open(s)
  PROVE  /\ s \in Servers /\ s # Idle /\ procs[s].name \in ServerNames
         /\ resume[s] \in {"user", "recv"} /\ calling[s] = NoCall
         /\ procs[s].pid # PidNone /\ procs[s].comm_page # NullPage
         /\ procs[s].comm_page \in Pages
         /\ LockState(s) /\ QueueState(s)
<1>1. Identity(s) /\ ServerState(s) /\ CallerState(s) /\ Accepts(s)
  BY DEF SInv, SlotState
<1>2. procs[s].comm_page \in Pages \cup {NullPage}
  BY SlotTypes DEF Process
<1> QED
  BY <1>1, <1>2, ServerFacts DEF Open, Identity, ServerState, CallerState, Accepts

\* Who runs.
LEMMA RunnerFacts ==
  ASSUME SInv, NEW p \in Slots \ {Idle}, kernel = "up", ~yielding, current_proc = p
  PROVE  /\ procs[p].state = "RUNNABLE" /\ procs[p].pid # PidNone
         /\ procs[p].comm_page # NullPage
         /\ IsServer(p) => Open(p)
         /\ ~IsServer(p) => ~Open(p) /\ procs[p].name \notin ServerNames
<1>1. procs[p].state = "RUNNABLE"
  BY DEF SInv, IInv, RunnerIsRunnable
<1>2. Identity(p)
  BY DEF SInv, SlotState
<1> QED
  BY <1>1, <1>2 DEF Identity, IsServer, Open

\* Frame, for the steps of a process that runs.
LEMMA RunFrame ==
  ASSUME SInv, NEW p \in Slots \ {Idle}, kernel = "up", ~yielding, current_proc = p,
         NEW Q \in SUBSET (Slots \ {Idle}), p \in Q \/ ~Open(p),
         \A x \in Slots \ Q : Same(x),
         \A x \in Slots \ Q, c \in Q : Open(x) => ~Registered(c, x),
         \A x \in Q, c \in Slots \ (Q \cup {Idle}) :
           Open(x)' => Open(x) /\ (Registered(c, x) => Registered(c, x)'),
         \A s \in Q : SlotState(s)'
  PROVE  \A s \in Slots : SlotState(s)'
<1>1. ASSUME NEW x \in Slots \ Q, Open(x), Holder(x) # NULL, procs[Holder(x)].state = "RUNNABLE"
      PROVE  FALSE
  <2>1. Holder(x) \in Slots \ {Idle} /\ Registered(Holder(x), x)
    BY <1>1, SlotTypes DEF Registered, Idle, NULL
  <2>2. current_proc = x
    BY <1>1, <2>1, RegisteredFacts
  <2> QED
    BY <1>1, <2>2
<1>2. ASSUME NEW x \in Slots, procs[x].state = "TERMINATED", Platform = "wasm"
      PROVE  FALSE
  BY <1>2 DEF SInv, SlotState, Identity
<1> QED
  BY <1>1, <1>2, Frame

\* Who runs is registered nowhere: not even after its call was answered.
LEMMA RunnerUnregistered ==
  ASSUME SInv, NEW p \in Slots \ {Idle}, kernel = "up", ~yielding, current_proc = p,
         NEW x \in Slots, Open(x)
  PROVE  ~Registered(p, x)
<1> SUFFICES ASSUME Registered(p, x) PROVE FALSE
  OBVIOUS
<1>1. procs[p].state = "RUNNABLE"
  BY RunnerFacts
<1>2. x = p /\ resume[p] = "send"
  BY <1>1, RegisteredFacts
<1> QED
  BY <1>2, OpenFacts

\* What a request the programs make may be.
LEMMA RequestFacts ==
  ASSUME SInv, NEW c \in Slots \ {Idle}, procs[c].pid # PidNone, NEW arg \in Requestable \ {0}
  PROVE  /\ arg \in Args /\ Handle(arg) \in Responses
         /\ procs[c].pid \in 0 .. MaxPid
         /\ Page("request", procs[c].pid, arg) \in Pages
         /\ Page("reply", procs[c].pid, arg) \in Pages
         /\ Failures = {} => arg # ShutdownArg
<1>1. procs[c].pid \in 0 .. MaxPid
  BY SlotTypes, ServerFacts DEF SInv, SlotState, Identity, Process
<1>2. arg \in Args /\ (Failures = {} => arg # ShutdownArg)
  BY DEF Requestable
<1> QED
  BY <1>1, <1>2, ServicesAssumption

\* Who is registered at a server asked a request that the programs make.
LEMMA AsksFacts ==
  ASSUME SInv, NEW s \in Slots, Open(s), NEW c \in Slots, NEW m, Asks(c, s, m)
  PROVE  /\ c \in Slots \ {Idle} /\ c # s /\ ~Open(c)
         /\ procs[c].name \notin ServerNames
         /\ procs[c].pid # PidNone /\ procs[c].comm_page # NullPage
         /\ m.sender_pid = procs[c].pid /\ m.arg = calling[c].arg /\ m.flags = calling[c].flags
         /\ calling[c].arg \in Requestable \ {0} /\ calling[c].flags \in FlagSets
         /\ m # NullMessage
<1>1. CallerState(c) /\ Identity(c) /\ resume[c] = "send" /\ c # Idle
  BY DEF SInv, SlotState, Asks
<1>2. /\ procs[c].name \notin ServerNames /\ procs[c].state \in {"RUNNABLE", "IPC_SEND_WAIT"}
      /\ calling[c].arg \in Requestable \ {0} /\ calling[c].flags \in FlagSets
  BY <1>1 DEF CallerState
<1>3. procs[c].pid # PidNone /\ procs[c].comm_page # NullPage
  BY <1>1, <1>2 DEF Identity
<1>4. m.sender_pid = procs[c].pid /\ m.arg = calling[c].arg /\ m.flags = calling[c].flags
  BY DEF Asks, MatchesCall
<1> QED
  BY <1>1, <1>2, <1>3, <1>4, OpenFacts DEF Open, NullMessage

\* What a handler has.
LEMMA HandlerFacts ==
  ASSUME SInv, NEW s \in Slots, serving[s] # NullMessage
  PROVE  /\ Open(s) /\ Holder(s) \in Slots \ {Idle}
         /\ procs[s].pending_message = serving[s] /\ Asks(Holder(s), s, serving[s])
         /\ ~procs[s].has_pending_message
         /\ resume[s] = "user" /\ s \notin stopping
         /\ serving[s].arg \in Args /\ Handle(serving[s].arg) \in Responses
         /\ ReplyPage(serving[s]) \in Pages /\ RequestPage(serving[s]) \in Pages
         /\ Failures = {} => serving[s].arg # ShutdownArg
<1>1. ServerState(s)
  BY DEF SInv, SlotState
<1>2. /\ Open(s) /\ Holder(s) # NULL /\ Holder(s) \in Slots
      /\ procs[s].pending_message = serving[s]
      /\ resume[s] = "user" /\ s \notin stopping
  BY <1>1, SlotTypes DEF ServerState, Holder
<1>3. ~procs[s].has_pending_message
  BY <1>1, <1>2 DEF ServerState
<1>4. Asks(Holder(s), s, serving[s])
  BY <1>2, OpenFacts DEF LockState
<1> QED
  BY <1>2, <1>3, <1>4, AsksFacts, RequestFacts DEF Idle, NULL, ReplyPage, RequestPage

(***************************************************************************)
(* The programs use the kernel as it may be used, so all that is proved of *)
(* the kernel holds of it under these programs.                            *)
(***************************************************************************)
LEMMA KernelStep ==
  ASSUME SInv, ServicesNext
  PROVE  [Next]_vars
<1>1. CASE Switch
  BY <1>1 DEF Switch, Next
<1>2. ASSUME NEW s \in Slots \ {Idle}, ServerStep(s)
      PROVE  SystemCall(s)
  <2>1. CASE ServerRecv(s) \/ ServerRecvReturn(s) \/ ServerExit(s)
    BY <2>1 DEF ServerRecv, ServerRecvReturn, ServerExit, SystemCall
  <2>2. CASE ServerWrite(s)
    BY <2>2, HandlerFacts DEF ServerWrite, InHandler, SystemCall
  <2>3. CASE ServerReply(s)
    BY <2>3, HandlerFacts DEF ServerReply, InHandler, SystemCall, IpcReply
  <2> QED
    BY <1>2, <2>1, <2>2, <2>3 DEF ServerStep
<1>3. ASSUME NEW c \in Slots \ {Idle}, AppStep(c)
      PROVE  SystemCall(c)
  <2>1. CASE AppYield(c) \/ AppExit(c) \/ AppSpawn(c) \/ AppReturn(c)
    BY <2>1 DEF AppYield, AppExit, AppSpawn, AppReturn, SystemCall
  <2>2. ASSUME NEW arg \in Requestable \ {0}, AppPrepare(c, arg)
        PROVE  SystemCall(c)
    <3>1. WriteCommPage(c, Page("request", procs[c].pid, arg))
      BY <2>2 DEF AppPrepare
    <3>2. procs[c].pid # PidNone
      BY <3>1, RunnerFacts DEF WriteCommPage, Running
    <3> QED
      BY <3>1, <3>2, RequestFacts DEF SystemCall
  <2>3. CASE AppCall(c)
    <3>1. PICK pid \in ServerPids, arg \in Requestable \ {0}, flags \in FlagSets :
            AppSend(c, pid, flags, arg)
      BY <2>3 DEF AppCall
    <3>2. pid \in Targets /\ arg \in Args
      BY ServerFacts DEF Requestable
    <3> QED
      BY <3>1, <3>2 DEF AppSend, SystemCall, IpcSend
  <2>4. ASSUME NEW pid \in ServerPids, AppSendFails(c, pid)
        PROVE  IpcSend(c)
    BY <2>4, ServerFacts, ServicesAssumption DEF AppSendFails, IpcSend
  <2> QED
    BY <1>3, <2>1, <2>2, <2>3, <2>4 DEF AppStep, SystemCall
<1> QED
  BY <1>1, <1>2, <1>3 DEF ServicesNext, Next

-----------------------------------------------------------------------------
(* The applications *)

\* A step of an application that concerns nobody else.
LEMMA AppAlone ==
  ASSUME SInv, NEW c \in Slots \ {Idle}, kernel = "up", ~yielding, current_proc = c,
         ~IsServer(c),
         \A x \in Slots \ {c} : Same(x),
         procs'[c].name = procs[c].name, procs'[c].pid = procs[c].pid,
         procs'[c].blocked_sender = procs[c].blocked_sender,
         procs'[c].ipc_wait_queue = procs[c].ipc_wait_queue,
         procs'[c].comm_page # NullPage,
         \/ procs'[c].state = "RUNNABLE"
         \/ procs'[c].state = "TERMINATED" /\ yielding' /\ current_proc' = c,
         resume'[c] \in {"user", "exited"}, calling'[c] = NoCall,
         serving'[c] = serving[c], stopping' = stopping
  PROVE  \A s \in Slots : SlotState(s)'
<1>1. /\ ~Open(c) /\ procs[c].name \notin ServerNames /\ procs[c].pid # PidNone
      /\ Identity(c) /\ ServerState(c) /\ Stays(c)
  BY RunnerFacts DEF SInv, SlotState
<1>2. ~Open(c)' /\ c \notin Slots \ {c}
  BY <1>1 DEF Open
<1>3. SlotState(c)'
  <2>1. Identity(c)'
    BY <1>1 DEF Identity
  <2>2. ServerState(c)'
    BY <1>1, <1>2 DEF ServerState
  <2>3. CallerState(c)'
    BY <1>1 DEF CallerState
  <2>4. Accepts(c)' /\ Served(c)' /\ Stays(c)'
    BY <1>1, <1>2 DEF Accepts, Served, Stays
  <2> QED
    BY <2>1, <2>2, <2>3, <2>4 DEF SlotState
<1> DEFINE Q == {c}
<1>4. /\ Q \in SUBSET (Slots \ {Idle}) /\ c \in Q
      /\ \A x \in Slots \ Q : Same(x)
      /\ \A x \in Slots \ Q, d \in Q : Open(x) => ~Registered(d, x)
      /\ \A x \in Q : ~Open(x)' /\ SlotState(x)'
  BY <1>2, <1>3, RunnerUnregistered
<1> HIDE DEF Q
<1> QED
  BY <1>4, RunFrame

\* What the running process does to its own slot leaves the others as they are.
LEMMA OthersSame ==
  ASSUME SInv, NEW p \in Slots, NEW new, NEW r,
         procs' = [procs EXCEPT ![p] = new],
         resume' = [resume EXCEPT ![p] = r],
         \A x \in Slots \ {p} : serving'[x] = serving[x] /\ calling'[x] = calling[x],
         stopping' \ {p} = stopping \ {p}
  PROVE  /\ \A x \in Slots \ {p} : Same(x)
         /\ procs'[p] = new /\ resume'[p] = r
BY SlotTypes DEF Same

\* ou_yield of an application.
LEMMA AppYieldStep ==
  ASSUME SInv, NEW c \in Slots \ {Idle}, AppYield(c)
  PROVE  \A s \in Slots : SlotState(s)'
<1>1. /\ ~IsServer(c) /\ kernel = "up" /\ ~yielding /\ current_proc = c /\ resume[c] = "user"
      /\ procs' = procs /\ resume' = [resume EXCEPT ![c] = "user"]
      /\ UNCHANGED <<serving, stopping, calling>>
  BY DEF AppYield, IsApp, OuYield, Running, SwitchAway, UNCHANGEDPrograms
<1>2. procs' = [procs EXCEPT ![c] = procs[c]]
  BY <1>1, SlotTypes
<1>3. (\A x \in Slots \ {c} : Same(x)) /\ procs'[c] = procs[c] /\ resume'[c] = "user"
  BY <1>1, <1>2, OthersSame
<1>4. procs[c].state = "RUNNABLE" /\ procs[c].comm_page # NullPage
  BY <1>1, RunnerFacts
<1>5. calling[c] = NoCall
  BY <1>1 DEF SInv, SlotState, CallerState
<1> QED
  BY <1>1, <1>3, <1>4, <1>5, AppAlone

\* ou_exit of an application.
LEMMA AppExitStep ==
  ASSUME SInv, NEW c \in Slots \ {Idle}, AppExit(c)
  PROVE  \A s \in Slots : SlotState(s)'
<1> DEFINE new == [procs[c] EXCEPT !.state = "TERMINATED"]
<1>1. /\ ~IsServer(c) /\ kernel = "up" /\ ~yielding /\ current_proc = c /\ resume[c] = "user"
      /\ procs' = [procs EXCEPT ![c] = new] /\ resume' = [resume EXCEPT ![c] = "exited"]
      /\ yielding' /\ current_proc' = current_proc
      /\ UNCHANGED <<serving, stopping, calling>>
  BY DEF AppExit, IsApp, OuExit, Running, SwitchAway, UNCHANGEDPrograms
<1>2. /\ new.name = procs[c].name /\ new.pid = procs[c].pid /\ new.state = "TERMINATED"
      /\ new.blocked_sender = procs[c].blocked_sender
      /\ new.ipc_wait_queue = procs[c].ipc_wait_queue /\ new.comm_page = procs[c].comm_page
  BY SlotTypes DEF Process
<1> HIDE DEF new
<1>3. (\A x \in Slots \ {c} : Same(x)) /\ procs'[c] = new /\ resume'[c] = "exited"
  BY <1>1, OthersSame
<1>4. procs[c].comm_page # NullPage
  BY <1>1, RunnerFacts
<1>5. calling[c] = NoCall
  BY <1>1 DEF SInv, SlotState, CallerState
<1> QED
  BY <1>1, <1>2, <1>3, <1>4, <1>5, AppAlone

\* The stub's request page, before it sends.
LEMMA AppPrepareStep ==
  ASSUME SInv, NEW c \in Slots \ {Idle}, NEW arg \in Requestable \ {0}, AppPrepare(c, arg)
  PROVE  \A s \in Slots : SlotState(s)'
<1> DEFINE new == [procs[c] EXCEPT !.comm_page = Page("request", procs[c].pid, arg)]
<1>1. /\ ~IsServer(c) /\ kernel = "up" /\ ~yielding /\ current_proc = c /\ resume[c] = "user"
      /\ procs' = [procs EXCEPT ![c] = new] /\ resume' = resume
      /\ UNCHANGED <<serving, stopping, calling>>
  BY DEF AppPrepare, IsApp, WriteCommPage, Running, UNCHANGEDPrograms
<1>2. /\ procs[c].state = "RUNNABLE"
      /\ Page("request", procs[c].pid, arg) # NullPage
  BY <1>1, RunnerFacts, RequestFacts, KernelAssumption
<1>3. /\ new.name = procs[c].name /\ new.pid = procs[c].pid /\ new.state = procs[c].state
      /\ new.blocked_sender = procs[c].blocked_sender
      /\ new.ipc_wait_queue = procs[c].ipc_wait_queue /\ new.comm_page # NullPage
  BY <1>2, SlotTypes DEF Process
<1> HIDE DEF new
<1>4. resume' = [resume EXCEPT ![c] = "user"]
  BY <1>1, SlotTypes
<1>5. (\A x \in Slots \ {c} : Same(x)) /\ procs'[c] = new /\ resume'[c] = "user"
  BY <1>1, <1>4, OthersSame
<1>6. calling[c] = NoCall
  BY <1>1 DEF SInv, SlotState, CallerState
<1> QED
  BY <1>1, <1>2, <1>3, <1>5, <1>6, AppAlone

\* A call returns.
LEMMA AppReturnStep ==
  ASSUME SInv, NEW c \in Slots \ {Idle}, AppReturn(c)
  PROVE  \A s \in Slots : SlotState(s)'
<1>1. /\ ~IsServer(c) /\ kernel = "up" /\ ~yielding /\ current_proc = c
      /\ procs' = procs /\ resume' = [resume EXCEPT ![c] = "user"]
      /\ calling' = [calling EXCEPT ![c] = NoCall]
      /\ UNCHANGED <<serving, stopping>>
  BY DEF AppReturn, IsApp, IpcSendReturn
<1>2. /\ calling'[c] = NoCall
      /\ \A x \in Slots \ {c} : serving'[x] = serving[x] /\ calling'[x] = calling[x]
      /\ stopping' \ {c} = stopping \ {c}
  BY <1>1, SlotTypes
<1>3. (\A x \in Slots \ {c} : Same(x)) /\ procs'[c] = procs[c] /\ resume'[c] = "user"
  BY <1>1, <1>2, SlotTypes DEF Same
<1>4. procs[c].state = "RUNNABLE" /\ procs[c].comm_page # NullPage
  BY <1>1, RunnerFacts
<1> QED
  BY <1>1, <1>2, <1>3, <1>4, AppAlone

\* What the programs see of a new process.
LEMMA NewProcessFields ==
  ASSUME NEW name, NEW pid
  PROVE  /\ NewProcess(name, pid).name = name /\ NewProcess(name, pid).pid = pid
         /\ NewProcess(name, pid).state = "RUNNABLE" /\ NewProcess(name, pid).comm_page = NilPage
         /\ NewProcess(name, pid).blocked_sender = NULL
         /\ ~NewProcess(name, pid).has_pending_message
         /\ NewProcess(name, pid).ipc_wait_queue = <<>>
BY DEF NewProcess, Zeroed

\* ou_proc_spawn of an application.  The new process has a pid no server ever had.
LEMMA AppSpawnStep ==
  ASSUME SInv, NEW c \in Slots \ {Idle}, AppSpawn(c), kernel' = "up"
  PROVE  \A s \in Slots : SlotState(s)'
<1>1. PICK name \in Programs : OuProcSpawn(c, name)
  BY DEF AppSpawn
<1>2. ProcessCreate(name)
  BY <1>1 DEF OuProcSpawn, ProcessLimitPanic
<1>3. PICK f \in Slots : f = Min(FreeSlots(procs)) /\ procs[f].state = "UNUSED"
  BY <1>2, MinInSet, SlotsType DEF ProcessCreate, FreeSlots
<1>4. PICK new :
        /\ new = NewProcess(name, proc_pid_counter)
        /\ ~IsServer(c) /\ kernel = "up" /\ ~yielding /\ current_proc = c
        /\ procs' = [procs EXCEPT ![f] = new] /\ resume' = [resume EXCEPT ![f] = "user"]
        /\ proc_pid_counter <= MaxPid
        /\ UNCHANGED <<serving, stopping, calling>>
  BY <1>1, <1>2, <1>3 DEF AppSpawn, IsApp, OuProcSpawn, ProcessCreate, Running, UNCHANGEDPrograms
<1>5. /\ new.name \notin ServerNames /\ new.pid = proc_pid_counter /\ new.state = "RUNNABLE"
      /\ new.comm_page # NullPage
      /\ new.blocked_sender = NULL /\ new.ipc_wait_queue = <<>>
  BY <1>4, NewProcessFields, KernelAssumption, ServicesAssumption
<1>6. (\A x \in Slots \ {f} : Same(x)) /\ procs'[f] = new /\ resume'[f] = "user"
  BY <1>3, <1>4, OthersSame
<1>7. /\ ~Open(f) /\ f # Idle /\ f # c
      /\ ServerState(f) /\ CallerState(f) /\ Stays(f)
      /\ calling[f] = NoCall /\ resume[f] # "send"
  <2>1. Identity(f) /\ ServerState(f) /\ CallerState(f) /\ Stays(f)
    BY DEF SInv, SlotState
  <2>2. ~Open(f) /\ f # Idle /\ f # c
    BY <1>3, <1>4, <2>1, RunnerFacts DEF Open, Identity
  <2>3. calling[f] = NoCall /\ resume[f] # "send"
    BY <1>3, <2>1 DEF CallerState
  <2> QED
    BY <2>1, <2>2, <2>3
<1>8. ~Open(f)'
  BY <1>5, <1>6 DEF Open
<1>9. SlotState(f)'
  <2>1. proc_pid_counter > Len(Boot) + 1 /\ proc_pid_counter \in Nat
    BY DEF SInv, IInv, TypeOK
  <2>2. proc_pid_counter \notin ServerPids /\ proc_pid_counter # PidNone
    BY <2>1, ServerFacts DEF PidNone
  <2>3. Identity(f)'
    BY <1>4, <1>5, <1>6, <1>7, <2>2 DEF Identity
  <2>4. ServerState(f)'
    BY <1>4, <1>5, <1>6, <1>7, <1>8 DEF ServerState
  <2>5. CallerState(f)'
    BY <1>4, <1>5, <1>6, <1>7 DEF CallerState
  <2>6. Accepts(f)' /\ Served(f)' /\ Stays(f)'
    BY <1>6, <1>7, <1>8 DEF Accepts, Served, Stays
  <2> QED
    BY <2>3, <2>4, <2>5, <2>6 DEF SlotState
<1>10. ASSUME NEW x \in Slots, Open(x) PROVE ~Registered(f, x)
  BY <1>3, <1>7, <1>10, RegisteredFacts
<1> DEFINE Q == {f}
<1>11. /\ Q \in SUBSET (Slots \ {Idle}) /\ ~Open(c)
       /\ \A x \in Slots \ Q : Same(x)
       /\ \A x \in Slots \ Q, d \in Q : Open(x) => ~Registered(d, x)
       /\ \A x \in Q : ~Open(x)' /\ SlotState(x)'
  BY <1>3, <1>4, <1>6, <1>7, <1>8, <1>9, <1>10, RunnerFacts
<1> HIDE DEF Q
<1> QED
  BY <1>4, <1>11, RunFrame

\* Whom an application finds under a server's pid, and how the two stand.
LEMMA SendFacts ==
  ASSUME SInv, NEW c \in Slots \ {Idle}, IsApp(c), NEW pid \in ServerPids, NEW t,
         SendingTo(c, pid, t)
  PROVE  /\ kernel = "up" /\ ~yielding /\ current_proc = c
         /\ ~IsServer(c) /\ ~Open(c) /\ procs[c].name \notin ServerNames
         /\ procs[c].state = "RUNNABLE" /\ procs[c].pid # PidNone
         /\ procs[c].comm_page # NullPage
         /\ t \in Slots \ {Idle} /\ t # c /\ Open(t) /\ pid = t + 1 /\ ServerOf(pid) = t
         /\ \A x \in Slots : Open(x) => ~Registered(c, x) /\ ~Registered(t, x)
         /\ Holder(t) # NULL => procs[Holder(t)].state = "IPC_SEND_WAIT"
<1>1. /\ kernel = "up" /\ ~yielding /\ current_proc = c /\ ~IsServer(c)
      /\ t = process_lookup_by_pid(pid) /\ SlotsOfPid(pid) # {}
      /\ process_is_running(procs[t])
  BY DEF IsApp, SendingTo, Running
<1>2. /\ procs[c].state = "RUNNABLE" /\ procs[c].pid # PidNone /\ procs[c].comm_page # NullPage
      /\ ~Open(c) /\ procs[c].name \notin ServerNames
  BY <1>1, RunnerFacts
<1>3. t \in Slots /\ process_pids[t] = pid
  BY <1>1, MinInSet, SlotsType DEF process_lookup_by_pid, SlotsOfPid
<1>4. procs[t].pid = pid
  BY <1>1, <1>3 DEF SInv, IInv, PidsUnique
<1>5. Identity(t) /\ CallerState(t)
  BY <1>3 DEF SInv, SlotState
<1>6. pid = t + 1 /\ t \in Servers /\ procs[t].name \in ServerNames /\ pid # PidNone
  <2>1. pid = t + 1 /\ procs[t].name \in ServerNames
    BY <1>4, <1>5 DEF Identity
  <2>2. pid = ServerOf(pid) + 1 /\ ServerOf(pid) \in Servers /\ pid # PidNone
    BY ServerFacts
  <2>3. ServerOf(pid) = t
    BY <2>1, <1>3, SlotsType DEF ServerOf
  <2> QED
    BY <2>1, <2>2, <2>3
<1>7. Open(t) /\ t # Idle /\ t # c /\ ServerOf(pid) = t
  BY <1>1, <1>2, <1>3, <1>5, <1>6, ServerFacts, SlotsType
     DEF process_is_running, Open, CallerState, ServerOf
<1>8. ASSUME NEW x \in Slots, Open(x)
      PROVE  ~Registered(c, x) /\ ~Registered(t, x)
  <2>1. ~Registered(c, x)
    BY <1>1, <1>8, RunnerUnregistered
  <2>2. resume[t] # "send"
    BY <1>3, <1>7, OpenFacts
  <2> QED
    BY <1>3, <1>7, <1>8, <2>1, <2>2, RegisteredFacts
<1>9. ASSUME Holder(t) # NULL PROVE procs[Holder(t)].state = "IPC_SEND_WAIT"
  <2>1. Holder(t) \in Slots \ {Idle} /\ Registered(Holder(t), t)
    BY <1>3, <1>9, SlotTypes DEF Registered, NULL, Idle
  <2> QED
    BY <1>1, <1>3, <1>7, <2>1, RegisteredFacts
<1> QED
  BY <1>1, <1>2, <1>3, <1>6, <1>7, <1>8, <1>9

\* What the three ways to send have in common.
LEMMA AppSendFrame ==
  ASSUME SInv, NEW c \in Slots \ {Idle}, IsApp(c), NEW pid \in ServerPids, NEW t,
         SendingTo(c, pid, t), NEW flags \in FlagSets, NEW arg \in Requestable \ {0},
         \A x \in Slots \ {c, t} : Same(x),
         procs'[c].name = procs[c].name, procs'[c].pid = procs[c].pid,
         procs'[c].blocked_sender = procs[c].blocked_sender,
         procs'[c].ipc_wait_queue = procs[c].ipc_wait_queue,
         procs'[c].comm_page = procs[c].comm_page,
         procs'[c].state \in {"RUNNABLE", "IPC_SEND_WAIT"},
         resume'[c] = "send", calling'[c] = [to |-> pid, flags |-> flags, arg |-> arg],
         UNCHANGED <<serving, stopping>>,
         resume'[t] = resume[t], calling'[t] = calling[t],
         procs'[t].name = procs[t].name, procs'[t].pid = procs[t].pid,
         procs'[t].comm_page # NullPage, procs'[t].state \in {"RUNNABLE", "IPC_RECV_WAIT"},
         ServerState(t)', LockState(t)', QueueState(t)',
         Registered(c, t)',
         \A d \in Slots \ {Idle} : Registered(d, t) => Registered(d, t)'
  PROVE  \A s \in Slots : SlotState(s)'
<1>1. /\ kernel = "up" /\ ~yielding /\ current_proc = c
      /\ ~IsServer(c) /\ ~Open(c) /\ procs[c].name \notin ServerNames
      /\ procs[c].pid # PidNone /\ procs[c].comm_page # NullPage
      /\ t \in Slots \ {Idle} /\ t # c /\ Open(t) /\ ServerOf(pid) = t
      /\ \A x \in Slots : Open(x) => ~Registered(c, x) /\ ~Registered(t, x)
  BY SendFacts
<1>2. ~Open(c)' /\ Open(t)'
  BY <1>1 DEF Open
<1>3. SlotState(c)'
  <2>1. Identity(c) /\ ServerState(c) /\ Stays(c)
    BY DEF SInv, SlotState
  <2>2. Identity(c)'
    BY <1>1, <2>1 DEF Identity
  <2>3. ServerState(c)'
    BY <1>1, <1>2, <2>1 DEF ServerState
  <2>4. CallerState(c)'
    BY <1>1 DEF CallerState
  <2>5. Served(c)'
    BY <1>1 DEF Served
  <2>6. Accepts(c)' /\ Stays(c)'
    BY <1>1, <1>2, <2>1 DEF Accepts, Stays
  <2> QED
    BY <2>2, <2>3, <2>4, <2>5, <2>6 DEF SlotState
<1>4. SlotState(t)'
  <2>1. Identity(t) /\ Stays(t)
    BY <1>1 DEF SInv, SlotState
  <2>2. resume[t] # "send" /\ calling[t] = NoCall /\ procs[t].pid # PidNone
    BY <1>1, OpenFacts
  <2>3. Identity(t)'
    BY <1>1, <2>1, <2>2 DEF Identity
  <2>4. CallerState(t)' /\ Served(t)'
    BY <2>2 DEF CallerState, Served
  <2>5. Accepts(t)'
    BY DEF Accepts
  <2>6. Stays(t)'
    BY <1>1, <1>2, <2>1 DEF Stays
  <2> QED
    BY <2>3, <2>4, <2>5, <2>6 DEF SlotState
<1> DEFINE Q == {c, t}
<1>5. /\ Q \in SUBSET (Slots \ {Idle}) /\ c \in Q
      /\ \A x \in Slots \ Q : Same(x)
      /\ \A x \in Slots \ Q, d \in Q : Open(x) => ~Registered(d, x)
      /\ \A x \in Q, d \in Slots \ (Q \cup {Idle}) :
           Open(x)' => Open(x) /\ (Registered(d, x) => Registered(d, x)')
      /\ \A x \in Q : SlotState(x)'
  BY <1>1, <1>2, <1>3, <1>4
<1> HIDE DEF Q
<1> QED
  BY <1>1, <1>5, RunFrame

\* A caller that does not change goes on asking.
LEMMA AsksKept ==
  ASSUME NEW d, NEW s, NEW m, Asks(d, s, m), Same(d)
  PROVE  Asks(d, s, m)' /\ procs'[d].state = procs[d].state
BY DEF Asks, Same, MatchesCall, RequestPage

\* What the request of a call says.
LEMMA NewRequest ==
  ASSUME SInv, NEW c \in Slots \ {Idle}, NEW pid \in ServerPids, NEW flags, NEW arg, NEW t,
         t = ServerOf(pid), pid = t + 1,
         "SEND_COMM_DATA" \in flags => procs[c].comm_page = Page("request", procs[c].pid, arg),
         procs'[c].pid = procs[c].pid, procs'[c].comm_page = procs[c].comm_page,
         resume'[c] = "send", calling'[c] = [to |-> pid, flags |-> flags, arg |-> arg]
  PROVE  /\ Asks(c, t, Request(c, flags, arg))'
         /\ Request(c, flags, arg).flags = flags
         /\ RequestPage(Request(c, flags, arg)) = Page("request", procs[c].pid, arg)
BY DEF Asks, MatchesCall, Request, RequestPage

\* A call to a server whose lock is taken.
LEMMA AppSendQueuedStep ==
  ASSUME SInv, NEW c \in Slots \ {Idle}, NEW pid \in ServerPids, NEW flags \in FlagSets,
         NEW arg \in Requestable \ {0}, AppSend(c, pid, flags, arg),
         IpcSendQueued(c, pid, flags, arg)
  PROVE  \A s \in Slots : SlotState(s)'
<1>1. PICK t \in Slots :
        /\ SendingTo(c, pid, t)
        /\ procs[t].blocked_sender # NULL
        /\ procs' = [procs EXCEPT
              ![t].ipc_wait_queue = Append(@, [sender |-> c, message |-> Request(c, flags, arg)]),
              ![c].state = "IPC_SEND_WAIT"]
        /\ SwitchAway(c, NULL, "send")
  BY DEF IpcSendQueued
<1>2. PICK m : m = Request(c, flags, arg)
  OBVIOUS
<1>3. PICK entry : entry = [sender |-> c, message |-> m]
  OBVIOUS
<1>4. PICK q : q = Append(Queue(t), entry)
  OBVIOUS
<1>5. /\ kernel = "up" /\ ~yielding /\ current_proc = c
      /\ procs[c].state = "RUNNABLE" /\ procs[c].pid # PidNone
      /\ t \in Slots \ {Idle} /\ t # c /\ Open(t) /\ pid = t + 1 /\ ServerOf(pid) = t
      /\ ~Registered(c, t)
      /\ procs[Holder(t)].state = "IPC_SEND_WAIT"
      /\ LockState(t) /\ QueueState(t) /\ ServerState(t)
      /\ IsApp(c)
      /\ "SEND_COMM_DATA" \in flags => procs[c].comm_page = Page("request", procs[c].pid, arg)
  BY <1>1, SendFacts, OpenFacts DEF AppSend, Holder, SInv, SlotState
<1>6. /\ procs'[t] = [procs[t] EXCEPT !.ipc_wait_queue = q]
      /\ procs'[c] = [procs[c] EXCEPT !.state = "IPC_SEND_WAIT"]
      /\ \A x \in Slots \ {c, t} : procs'[x] = procs[x]
  BY <1>1, <1>2, <1>3, <1>4, <1>5, SlotTypes DEF Queue
<1>7. /\ procs'[c].name = procs[c].name /\ procs'[c].pid = procs[c].pid
      /\ procs'[c].blocked_sender = procs[c].blocked_sender
      /\ procs'[c].ipc_wait_queue = procs[c].ipc_wait_queue
      /\ procs'[c].comm_page = procs[c].comm_page /\ procs'[c].state = "IPC_SEND_WAIT"
  BY <1>6, SlotTypes DEF Process
<1>8. /\ procs'[t].name = procs[t].name /\ procs'[t].pid = procs[t].pid
      /\ procs'[t].blocked_sender = procs[t].blocked_sender /\ Queue(t)' = q
      /\ procs'[t].comm_page = procs[t].comm_page /\ procs'[t].state = procs[t].state
      /\ procs'[t].pending_message = procs[t].pending_message
      /\ procs'[t].has_pending_message = procs[t].has_pending_message
      /\ Holder(t)' = Holder(t)
  BY <1>6, SlotTypes DEF Process, Queue, Holder
<1>9. /\ resume' = [resume EXCEPT ![c] = "send"]
      /\ calling' = [calling EXCEPT ![c] = [to |-> pid, flags |-> flags, arg |-> arg]]
      /\ UNCHANGED <<serving, stopping>>
  BY <1>1 DEF SwitchAway, AppSend
<1>10. /\ resume'[c] = "send" /\ calling'[c] = [to |-> pid, flags |-> flags, arg |-> arg]
       /\ resume'[t] = resume[t] /\ calling'[t] = calling[t]
       /\ \A x \in Slots \ {c, t} : Same(x)
  BY <1>5, <1>6, <1>9, SlotTypes DEF Same
<1>11. Asks(c, t, m)'
  BY <1>2, <1>5, <1>7, <1>10, NewRequest DEF Request
<1>12. ServerState(t)'
  <2>1. Open(t)'
    BY <1>5, <1>8 DEF Open
  <2> QED
    BY <1>5, <1>8, <1>9, <1>10, <2>1 DEF ServerState
<1>13. LockState(t)'
  <2>1. Asks(Holder(t), t, procs[t].pending_message) /\ Holder(t) # NULL
    BY <1>1, <1>5 DEF LockState, Holder
  <2>2. PICK h : h = Holder(t)
    OBVIOUS
  <2>3. PICK pm : pm = procs[t].pending_message
    OBVIOUS
  <2>4. h \in Slots \ {c, t}
    <3>1. h \in Slots /\ h # t
      BY <1>5, <2>1, <2>2, AsksFacts, SlotTypes
    <3> QED
      BY <1>5, <2>2, <3>1 DEF Registered
  <2>5. Asks(h, t, pm)' /\ procs'[h].state = "IPC_SEND_WAIT"
    BY <1>5, <1>10, <2>1, <2>2, <2>3, <2>4, AsksKept
  <2>6. Asks(Holder(t), t, procs[t].pending_message)'
    BY <1>8, <2>2, <2>3, <2>5 DEF Asks, MatchesCall, RequestPage
  <2>7. Holder(t)' = h
    BY <1>8, <2>2
  <2> QED
    BY <1>5, <1>8, <1>9, <2>1, <2>5, <2>6, <2>7 DEF LockState, RequestPage, ReplyPage
<1>14. /\ Len(Queue(t)) \in Nat /\ Len(q) = Len(Queue(t)) + 1
       /\ \A i \in 1 .. Len(Queue(t)) : q[i] = Queue(t)[i]
       /\ q[Len(Queue(t)) + 1] = entry
  BY <1>4, <1>5, SlotTypes, AppendProperties
<1>15. QueueState(t)'
  <2>1. ASSUME NEW i \in 1 .. Len(Queue(t))
        PROVE  /\ q[i].sender # c /\ q[i].sender # Holder(t)
               /\ Asks(q[i].sender, t, q[i].message)'
               /\ procs'[q[i].sender].state = "IPC_SEND_WAIT"
    <3>1. PICK d, dm : d = Queue(t)[i].sender /\ dm = Queue(t)[i].message
      OBVIOUS
    <3>2. /\ Asks(d, t, dm) /\ procs[d].state = "IPC_SEND_WAIT" /\ d # Holder(t)
          /\ d \in Slots /\ Registered(d, t)
      BY <1>5, <3>1, SlotTypes DEF QueueState, Registered
    <3>3. d # c /\ d # t
      BY <1>5, <3>2, AsksFacts
    <3>4. Asks(d, t, dm)' /\ procs'[d].state = "IPC_SEND_WAIT"
      BY <1>10, <3>2, <3>3, AsksKept
    <3>5. q[i].sender = d /\ q[i].message = dm
      BY <1>14, <3>1
    <3> QED
      BY <3>2, <3>3, <3>4, <3>5
  <2>2. q[Len(Queue(t)) + 1].sender = c /\ q[Len(Queue(t)) + 1].message = m
    BY <1>3, <1>14
  <2>3. Holder(t) # c
    BY <1>5 DEF Registered
  <2>4. ASSUME NEW i \in 1 .. Len(q)
        PROVE  /\ Asks(q[i].sender, t, q[i].message)'
               /\ procs'[q[i].sender].state = "IPC_SEND_WAIT"
               /\ q[i].sender # Holder(t)
    <3>1. i \in 1 .. Len(Queue(t)) \/ i = Len(Queue(t)) + 1
      BY <1>14
    <3> QED
      BY <1>7, <1>11, <2>1, <2>2, <2>3, <3>1
  <2>5. ASSUME NEW i \in 1 .. Len(q), NEW j \in 1 .. Len(q), q[i].sender = q[j].sender
        PROVE  i = j
    <3>1. /\ i \in 1 .. Len(Queue(t)) \/ i = Len(Queue(t)) + 1
          /\ j \in 1 .. Len(Queue(t)) \/ j = Len(Queue(t)) + 1
      BY <1>14
    <3>2. CASE i \in 1 .. Len(Queue(t)) /\ j \in 1 .. Len(Queue(t))
      BY <1>5, <1>14, <2>5, <3>2 DEF QueueState
    <3> QED
      BY <2>1, <2>2, <2>5, <3>1, <3>2
  <2> QED
    BY <1>8, <2>4, <2>5 DEF QueueState, Asks, MatchesCall, RequestPage
<1>16. Registered(c, t)'
  <2>1. Len(q) \in 1 .. Len(q) /\ q[Len(q)].sender = c
    BY <1>3, <1>14
  <2> QED
    BY <1>8, <2>1 DEF Registered
<1>17. ASSUME NEW d \in Slots \ {Idle}, Registered(d, t) PROVE Registered(d, t)'
  BY <1>8, <1>14, <1>17 DEF Registered
<1>18. procs'[t].comm_page # NullPage /\ procs'[t].state \in {"RUNNABLE", "IPC_RECV_WAIT"}
  BY <1>5, <1>8, OpenFacts DEF Open
<1> QED
  BY <1>1, <1>5, <1>7, <1>8, <1>9, <1>10, <1>12, <1>13, <1>15, <1>16, <1>17, <1>18,
     AppSendFrame

\* t's slot once c has taken its lock, and t can run.
Locks(new, t, c, flags, arg) ==
  /\ new.name = procs[t].name /\ new.pid = procs[t].pid /\ new.state = "RUNNABLE"
  /\ new.blocked_sender = c /\ new.ipc_wait_queue = procs[t].ipc_wait_queue
  /\ new.comm_page = IF "SEND_COMM_DATA" \in flags
                     THEN CopyPage(procs[c].comm_page, procs[t].comm_page)
                     ELSE procs[t].comm_page
  /\ new.pending_message = Request(c, flags, arg)
  /\ new.has_pending_message = TRUE

\* What Locked leaves, in a slot that can run or is made to.
LEMMA LocksFields ==
  ASSUME SInv, NEW t \in Slots, NEW c, NEW flags, NEW arg
  PROVE  /\ procs[t].state = "RUNNABLE" => Locks(Locked(t, c, flags, arg), t, c, flags, arg)
         /\ Locks([Locked(t, c, flags, arg) EXCEPT !.state = "RUNNABLE"], t, c, flags, arg)
<1> DEFINE page == IF "SEND_COMM_DATA" \in flags
                   THEN CopyPage(procs[c].comm_page, procs[t].comm_page)
                   ELSE procs[t].comm_page
           new == Locked(t, c, flags, arg)
<1>1. procs[t] \in Process
  BY SlotTypes
<1>2. new = [procs[t] EXCEPT !.comm_page = page,
                             !.pending_message = Request(c, flags, arg),
                             !.has_pending_message = TRUE,
                             !.blocked_sender = c]
  BY <1>1 DEF Locked, Process
<1> HIDE DEF page, new
<1>3. /\ new.name = procs[t].name /\ new.pid = procs[t].pid /\ new.state = procs[t].state
      /\ new.blocked_sender = c /\ new.ipc_wait_queue = procs[t].ipc_wait_queue
      /\ new.comm_page = page /\ new.pending_message = Request(c, flags, arg)
      /\ new.has_pending_message = TRUE
  BY <1>1, <1>2 DEF Process
<1> DEFINE run == [new EXCEPT !.state = "RUNNABLE"]
<1>4. /\ run.name = new.name /\ run.pid = new.pid /\ run.state = "RUNNABLE"
      /\ run.blocked_sender = new.blocked_sender /\ run.ipc_wait_queue = new.ipc_wait_queue
      /\ run.comm_page = new.comm_page /\ run.pending_message = new.pending_message
      /\ run.has_pending_message = new.has_pending_message
  BY <1>1, <1>2 DEF Process
<1> HIDE DEF run
<1>5. (procs[t].state = "RUNNABLE" => Locks(new, t, c, flags, arg)) /\ Locks(run, t, c, flags, arg)
  BY <1>3, <1>4 DEF Locks, page
<1> QED
  BY <1>5 DEF new, run

\* The step of such a call: c's state is st from now on, and t runs next if c does not wait.
Posts(c, st, t, new) ==
  /\ procs'[t] = new /\ procs'[c] = [procs[c] EXCEPT !.state = st]
  /\ \A x \in Slots \ {c, t} : procs'[x] = procs[x]
  /\ yielding' /\ resume' = [resume EXCEPT ![c] = "send"]
  /\ st = "RUNNABLE" => scheduler_next_process' = t

\* A call that takes the server's lock: the request and its page are the server's.
LEMMA AppSendLocks ==
  ASSUME SInv, NEW c \in Slots \ {Idle}, NEW pid \in ServerPids, NEW flags \in FlagSets,
         NEW arg \in Requestable \ {0}, AppSend(c, pid, flags, arg),
         NEW t, SendingTo(c, pid, t), procs[t].blocked_sender = NULL,
         NEW new, Locks(new, t, c, flags, arg),
         NEW st \in {"RUNNABLE", "IPC_SEND_WAIT"}, Posts(c, st, t, new)
  PROVE  \A s \in Slots : SlotState(s)'
<1>0. /\ procs'[t] = new /\ procs'[c] = [procs[c] EXCEPT !.state = st]
      /\ \A x \in Slots \ {c, t} : procs'[x] = procs[x]
      /\ yielding' /\ resume' = [resume EXCEPT ![c] = "send"]
      /\ st = "RUNNABLE" => scheduler_next_process' = t
  BY DEF Posts
<1>1. PICK m : m = Request(c, flags, arg)
  OBVIOUS
<1>2. /\ kernel = "up" /\ ~yielding /\ current_proc = c
      /\ procs[c].state = "RUNNABLE" /\ procs[c].pid # PidNone /\ procs[c].comm_page # NullPage
      /\ t \in Slots \ {Idle} /\ t # c /\ Open(t) /\ pid = t + 1 /\ ServerOf(pid) = t
      /\ IsApp(c)
      /\ "SEND_COMM_DATA" \in flags => procs[c].comm_page = Page("request", procs[c].pid, arg)
  BY SendFacts DEF AppSend
<1>3. ServerState(t) /\ procs[t].comm_page # NullPage
  BY <1>2, OpenFacts DEF SInv, SlotState
<1>4. Holder(t) = NULL /\ Queue(t) = <<>>
  BY <1>2, SlotTypes DEF Holder
<1>6. /\ procs'[c].name = procs[c].name /\ procs'[c].pid = procs[c].pid
      /\ procs'[c].blocked_sender = procs[c].blocked_sender
      /\ procs'[c].ipc_wait_queue = procs[c].ipc_wait_queue
      /\ procs'[c].comm_page = procs[c].comm_page /\ procs'[c].state = st
  BY <1>0, SlotTypes DEF Process
<1>7. /\ new.name = procs[t].name /\ new.pid = procs[t].pid /\ new.state = "RUNNABLE"
      /\ new.blocked_sender = c /\ new.ipc_wait_queue = procs[t].ipc_wait_queue
      /\ new.comm_page = IF "SEND_COMM_DATA" \in flags
                         THEN CopyPage(procs[c].comm_page, procs[t].comm_page)
                         ELSE procs[t].comm_page
      /\ new.pending_message = m
  BY <1>0, <1>1 DEF Locks
<1>8. new.has_pending_message = TRUE
  BY DEF Locks
<1>9. /\ resume' = [resume EXCEPT ![c] = "send"] /\ yielding'
      /\ st = "RUNNABLE" => scheduler_next_process' = t
      /\ calling' = [calling EXCEPT ![c] = [to |-> pid, flags |-> flags, arg |-> arg]]
      /\ UNCHANGED <<serving, stopping>>
  BY <1>0 DEF AppSend
<1>10. /\ resume'[c] = "send" /\ calling'[c] = [to |-> pid, flags |-> flags, arg |-> arg]
       /\ resume'[t] = resume[t] /\ calling'[t] = calling[t]
       /\ \A x \in Slots \ {c, t} : Same(x)
  BY <1>0, <1>2, <1>9, SlotTypes DEF Same
<1>11. /\ Asks(c, t, m)' /\ m.flags = flags
       /\ RequestPage(m) = Page("request", procs[c].pid, arg)
  <2>1. Asks(c, t, m)'
    BY <1>0, <1>1, <1>2, <1>6, <1>10, NewRequest DEF Request
  <2> QED
    BY <1>0, <1>1, <2>1 DEF Request, RequestPage
<1>12. /\ procs'[t].comm_page # NullPage
       /\ "SEND_COMM_DATA" \in flags => procs'[t].comm_page = RequestPage(m)
  BY <1>0, <1>2, <1>3, <1>7, <1>11 DEF CopyPage
<1>13. Holder(t)' = c /\ Queue(t)' = <<>> /\ c # NULL
  BY <1>0, <1>4, <1>7 DEF Holder, Queue, NULL, Idle
<1>14. ServerState(t)'
  <2>1. Open(t)'
    BY <1>0, <1>2, <1>7 DEF Open
  <2>2. serving[t] = NullMessage /\ resume[t] \in {"user", "recv"}
        /\ (t \in stopping => resume[t] = "user")
    BY <1>0, <1>2, <1>3, <1>4 DEF ServerState, Holder
  <2> QED
    BY <1>0, <1>7, <1>8, <1>9, <1>10, <1>13, <2>1, <2>2 DEF ServerState, Holder
<1>15. LockState(t)'
  <2>1. procs'[t].pending_message = m
    BY <1>0, <1>7
  <2>2. Asks(Holder(t), t, procs[t].pending_message)'
    BY <1>0, <1>11, <1>13, <2>1 DEF Asks, MatchesCall, RequestPage
  <2> QED
    BY <1>0, <1>6, <1>9, <1>11, <1>12, <1>13, <2>1, <2>2 DEF LockState, RequestPage, ReplyPage
<1>16. QueueState(t)'
  BY <1>0, <1>13 DEF QueueState
<1>17. Registered(c, t)' /\ \A d \in Slots \ {Idle} : Registered(d, t) => Registered(d, t)'
  BY <1>0, <1>4, <1>13 DEF Registered, Idle, NULL
<1>18. /\ procs'[t].name = procs[t].name /\ procs'[t].pid = procs[t].pid
       /\ procs'[t].state \in {"RUNNABLE", "IPC_RECV_WAIT"}
       /\ procs'[c].state \in {"RUNNABLE", "IPC_SEND_WAIT"}
       /\ UNCHANGED <<serving, stopping>>
  BY <1>0, <1>6, <1>7, <1>9
<1> QED
  BY <1>2, <1>6, <1>10, <1>12, <1>14, <1>15, <1>16, <1>17, <1>18, AppSendFrame

\* A call to a server whose lock is free, whether or not the server waits.
LEMMA SendLocks ==
  ASSUME SInv, NEW c \in Slots \ {Idle}, NEW pid \in ServerPids, NEW flags \in FlagSets,
         NEW arg \in Requestable \ {0}, AppSend(c, pid, flags, arg),
         IpcSendDirect(c, pid, flags, arg) \/ IpcSendBlocks(c, pid, flags, arg)
  PROVE  \E t \in Slots, st \in {"RUNNABLE", "IPC_SEND_WAIT"} : \E new :
           /\ SendingTo(c, pid, t) /\ procs[t].blocked_sender = NULL
           /\ Locks(new, t, c, flags, arg) /\ Posts(c, st, t, new)
<1>1. CASE IpcSendDirect(c, pid, flags, arg)
  <2>1. PICK t \in Slots :
          /\ SendingTo(c, pid, t) /\ procs[t].blocked_sender = NULL
          /\ procs' = [procs EXCEPT ![t] = [Locked(t, c, flags, arg) EXCEPT !.state = "RUNNABLE"]]
          /\ SwitchAway(c, t, "send")
    BY <1>1 DEF IpcSendDirect
  <2>2. t # c /\ procs[c].state = "RUNNABLE"
    BY <2>1, SendFacts DEF AppSend
  <2> DEFINE new == [Locked(t, c, flags, arg) EXCEPT !.state = "RUNNABLE"]
  <2>3. Locks(new, t, c, flags, arg)
    BY <2>1, LocksFields
  <2>4. /\ procs'[t] = new /\ procs'[c] = [procs[c] EXCEPT !.state = "RUNNABLE"]
        /\ \A x \in Slots \ {c, t} : procs'[x] = procs[x]
    <3>1. [procs[c] EXCEPT !.state = "RUNNABLE"] = procs[c]
      BY <2>2, SlotTypes DEF Process
    <3> HIDE DEF new
    <3>2. procs' = [procs EXCEPT ![t] = new]
      BY <2>1 DEF new
    <3> QED
      BY <2>2, <3>1, <3>2, SlotTypes
  <2>5. Posts(c, "RUNNABLE", t, new)
    BY <2>1, <2>4 DEF SwitchAway, Posts
  <2> HIDE DEF new
  <2> QED
    BY <2>1, <2>3, <2>5
<1>2. CASE IpcSendBlocks(c, pid, flags, arg)
  <2>1. PICK t \in Slots :
          /\ SendingTo(c, pid, t) /\ procs[t].blocked_sender = NULL
          /\ procs[t].state # "IPC_RECV_WAIT"
          /\ LET locked == [procs EXCEPT ![t] = Locked(t, c, flags, arg)]
             IN procs' = [locked EXCEPT ![c].state = "IPC_SEND_WAIT"]
          /\ SwitchAway(c, NULL, "send")
    BY <1>2 DEF IpcSendBlocks
  <2>2. t # c /\ procs[t].state = "RUNNABLE"
    BY <2>1, SendFacts DEF AppSend, Open
  <2> DEFINE new == Locked(t, c, flags, arg)
  <2>3. Locks(new, t, c, flags, arg)
    BY <2>2, LocksFields
  <2>4. /\ procs'[t] = new /\ procs'[c] = [procs[c] EXCEPT !.state = "IPC_SEND_WAIT"]
        /\ \A x \in Slots \ {c, t} : procs'[x] = procs[x]
    BY <2>1, <2>2, SlotTypes
  <2>5. Posts(c, "IPC_SEND_WAIT", t, new)
    BY <2>1, <2>4 DEF SwitchAway, Posts
  <2> HIDE DEF new
  <2> QED
    BY <2>1, <2>3, <2>5
<1> QED
  BY <1>1, <1>2

\* The three ways a call starts.
LEMMA AppSendStep ==
  ASSUME SInv, NEW c \in Slots \ {Idle}, NEW pid \in ServerPids, NEW flags \in FlagSets,
         NEW arg \in Requestable \ {0}, AppSend(c, pid, flags, arg)
  PROVE  \A s \in Slots : SlotState(s)'
<1>1. CASE IpcSendQueued(c, pid, flags, arg)
  BY <1>1, AppSendQueuedStep
<1>2. CASE IpcSendDirect(c, pid, flags, arg) \/ IpcSendBlocks(c, pid, flags, arg)
  BY <1>2, SendLocks, AppSendLocks
<1> QED
  BY <1>1, <1>2 DEF AppSend

-----------------------------------------------------------------------------
(* The servers *)

\* A server's step that changes neither its lock nor its queue.
LEMMA ServerAlone ==
  ASSUME SInv, NEW s \in Slots \ {Idle}, kernel = "up", ~yielding, current_proc = s, Open(s),
         \A x \in Slots \ {s} : Same(x),
         procs'[s].name = procs[s].name, procs'[s].pid = procs[s].pid,
         procs'[s].blocked_sender = procs[s].blocked_sender,
         procs'[s].ipc_wait_queue = procs[s].ipc_wait_queue,
         procs'[s].pending_message = procs[s].pending_message,
         procs'[s].comm_page # NullPage, procs'[s].state \in {"RUNNABLE", "IPC_RECV_WAIT"},
         resume'[s] \in {"user", "recv"}, UNCHANGED <<stopping, calling>>,
         ServerState(s)',
         Holder(s) # NULL => ~yielding' /\ current_proc' = s,
         Holder(s) # NULL /\ "SEND_COMM_DATA" \in procs[s].pending_message.flags =>
           \/ procs'[s].comm_page = RequestPage(procs[s].pending_message)
           \/ /\ procs'[s].comm_page = ReplyPage(procs[s].pending_message)
              /\ serving'[s] # NullMessage
  PROVE  \A x \in Slots : SlotState(x)'
<1>1. /\ s \in Servers /\ procs[s].name \in ServerNames /\ calling[s] = NoCall
      /\ procs[s].pid # PidNone /\ LockState(s) /\ QueueState(s)
      /\ Identity(s) /\ Stays(s)
  BY OpenFacts DEF SInv, SlotState
<1>2. Open(s)' /\ Holder(s)' = Holder(s) /\ Queue(s)' = Queue(s)
  BY <1>1 DEF Open, Holder, Queue
<1>3. LockState(s)'
  <2> SUFFICES ASSUME Holder(s) # NULL PROVE LockState(s)'
    BY <1>2 DEF LockState
  <2>1. PICK h, pm : h = Holder(s) /\ pm = procs[s].pending_message
    OBVIOUS
  <2>2. Asks(h, s, pm) /\ h \in Slots
    BY <1>1, <2>1, SlotTypes DEF LockState
  <2>3. h # s
    BY <2>2, AsksFacts
  <2>4. Asks(h, s, pm)'
    BY <2>2, <2>3, AsksKept
  <2>5. Asks(Holder(s), s, procs[s].pending_message)'
    BY <1>2, <2>1, <2>4 DEF Asks, MatchesCall, RequestPage
  <2> QED
    BY <2>5 DEF LockState, RequestPage, ReplyPage
<1>4. QueueState(s)'
  <2> SUFFICES ASSUME NEW i \in 1 .. Len(Queue(s))
               PROVE  /\ Asks(Queue(s)[i].sender, s, Queue(s)[i].message)'
                      /\ procs'[Queue(s)[i].sender].state = "IPC_SEND_WAIT"
    BY <1>1, <1>2 DEF QueueState
  <2>1. PICK d, dm : d = Queue(s)[i].sender /\ dm = Queue(s)[i].message
    OBVIOUS
  <2>2. Asks(d, s, dm) /\ d \in Slots /\ procs[d].state = "IPC_SEND_WAIT"
    BY <1>1, <2>1, SlotTypes DEF QueueState
  <2>3. d # s
    BY <2>2, AsksFacts
  <2>4. Asks(d, s, dm)' /\ procs'[d].state = "IPC_SEND_WAIT"
    BY <2>2, <2>3, AsksKept
  <2> QED
    BY <1>2, <2>1, <2>4 DEF Asks, MatchesCall, RequestPage
<1>5. SlotState(s)'
  <2>1. Identity(s)'
    BY <1>1 DEF Identity
  <2>2. CallerState(s)' /\ Served(s)'
    BY <1>1 DEF CallerState, Served
  <2>3. Accepts(s)' /\ Stays(s)'
    BY <1>1, <1>2, <1>3, <1>4 DEF Accepts, Stays
  <2> QED
    BY <2>1, <2>2, <2>3 DEF SlotState
<1> DEFINE Q == {s}
<1>6. /\ Q \in SUBSET (Slots \ {Idle}) /\ s \in Q
      /\ \A x \in Slots \ Q : Same(x)
      /\ \A x \in Slots \ Q, d \in Q : Open(x) => ~Registered(d, x)
      /\ \A x \in Q, d \in Slots \ (Q \cup {Idle}) :
           Open(x)' => Open(x) /\ (Registered(d, x) => Registered(d, x)')
      /\ \A x \in Q : SlotState(x)'
  BY <1>2, <1>5, RunnerUnregistered DEF Registered
<1> HIDE DEF Q
<1> QED
  BY <1>6, RunFrame

\* Both ways ou_ipc_recv returns a request: its handler begins.
LEMMA ServesStep ==
  ASSUME SInv, NEW s \in Slots \ {Idle}, InLoop(s), IpcRecvPending(s) \/ IpcRecvReturn(s),
         Serves(s)
  PROVE  \A x \in Slots : SlotState(x)'
<1> DEFINE new == [procs[s] EXCEPT !.has_pending_message = FALSE]
<1>1. /\ IsServer(s) /\ serving[s] = NullMessage /\ s \notin stopping
      /\ kernel = "up" /\ ~yielding /\ current_proc = s
      /\ \/ resume[s] = "user" /\ procs[s].has_pending_message
         \/ resume[s] = "recv"
      /\ procs' = [procs EXCEPT ![s].has_pending_message = FALSE]
      /\ resume' = [resume EXCEPT ![s] = "user"]
      /\ serving' = [serving EXCEPT ![s] = procs[s].pending_message]
      /\ UNCHANGED <<stopping, calling, yielding, current_proc>>
  <2>1. CASE IpcRecvPending(s)
    BY <2>1, SlotTypes DEF InLoop, IpcRecvPending, Running, Serves
  <2>2. CASE IpcRecvReturn(s)
    BY <2>2 DEF InLoop, IpcRecvReturn, Serves
  <2> QED
    BY <2>1, <2>2
<1>2. /\ new.name = procs[s].name /\ new.pid = procs[s].pid /\ new.state = procs[s].state
      /\ new.blocked_sender = procs[s].blocked_sender
      /\ new.ipc_wait_queue = procs[s].ipc_wait_queue /\ new.comm_page = procs[s].comm_page
      /\ new.pending_message = procs[s].pending_message /\ ~new.has_pending_message
  BY SlotTypes DEF Process
<1>3. procs'[s] = new /\ \A x \in Slots \ {s} : procs'[x] = procs[x]
  BY <1>1, SlotTypes
<1> HIDE DEF new
<1>4. /\ resume'[s] = "user" /\ serving'[s] = procs[s].pending_message
      /\ \A x \in Slots \ {s} : Same(x)
  BY <1>1, <1>3, SlotTypes DEF Same
<1>5. Open(s) /\ procs[s].state = "RUNNABLE" /\ procs[s].comm_page # NullPage
  BY <1>1, RunnerFacts
<1>6. ServerState(s) /\ LockState(s)
  BY <1>5, OpenFacts DEF SInv, SlotState
<1>7. Holder(s) # NULL
  <2>1. CASE resume[s] = "recv"
    BY <1>5, <1>6, <2>1 DEF ServerState, Holder
  <2>2. CASE procs[s].has_pending_message
    BY <1>5, <1>6, <2>2 DEF ServerState, Holder
  <2> QED
    BY <1>1, <2>1, <2>2
<1>8. procs[s].pending_message # NullMessage
  BY <1>5, <1>6, <1>7, SlotTypes, AsksFacts DEF LockState
<1>9. ServerState(s)'
  <2>1. Open(s)'
    BY <1>2, <1>3, <1>5 DEF Open
  <2> QED
    BY <1>1, <1>2, <1>3, <1>4, <1>5, <1>7, <1>8, <2>1 DEF ServerState, Holder
<1>10. "SEND_COMM_DATA" \in procs[s].pending_message.flags =>
         procs'[s].comm_page = RequestPage(procs[s].pending_message)
  BY <1>1, <1>2, <1>3, <1>6, <1>7 DEF LockState
<1> QED
  BY <1>1, <1>2, <1>3, <1>4, <1>5, <1>9, <1>10, ServerAlone

\* ou_ipc_recv with nothing pending: nobody holds the lock, and the server waits.
LEMMA ServerWaitStep ==
  ASSUME SInv, NEW s \in Slots \ {Idle}, InLoop(s), IpcRecvWait(s),
         UNCHANGED <<serving, stopping, calling>>
  PROVE  \A x \in Slots : SlotState(x)'
<1> DEFINE new == [procs[s] EXCEPT !.state = "IPC_RECV_WAIT"]
<1>1. /\ IsServer(s) /\ serving[s] = NullMessage /\ s \notin stopping
      /\ kernel = "up" /\ ~yielding /\ current_proc = s
      /\ ~procs[s].has_pending_message
      /\ procs' = [procs EXCEPT ![s] = new]
      /\ resume' = [resume EXCEPT ![s] = "recv"]
  BY DEF InLoop, IpcRecvWait, Running, SwitchAway
<1>2. /\ new.name = procs[s].name /\ new.pid = procs[s].pid /\ new.state = "IPC_RECV_WAIT"
      /\ new.blocked_sender = procs[s].blocked_sender
      /\ new.ipc_wait_queue = procs[s].ipc_wait_queue /\ new.comm_page = procs[s].comm_page
      /\ new.pending_message = procs[s].pending_message
      /\ new.has_pending_message = procs[s].has_pending_message
  BY SlotTypes DEF Process
<1> HIDE DEF new
<1>3. (\A x \in Slots \ {s} : Same(x)) /\ procs'[s] = new /\ resume'[s] = "recv"
  BY <1>1, SlotTypes DEF Same
<1>4. Open(s) /\ procs[s].comm_page # NullPage
  BY <1>1, RunnerFacts
<1>5. ServerState(s)
  BY DEF SInv, SlotState
<1>6. Holder(s) = NULL
  BY <1>1, <1>4, <1>5 DEF ServerState, Holder
<1>7. ServerState(s)'
  <2>1. Open(s)'
    BY <1>2, <1>3, <1>4 DEF Open
  <2> QED
    BY <1>1, <1>2, <1>3, <1>6, <2>1 DEF ServerState, Holder
<1> QED
  BY <1>1, <1>2, <1>3, <1>4, <1>6, <1>7, ServerAlone

\* A handler leaves its result in the comm page.
LEMMA ServerWriteStep ==
  ASSUME SInv, NEW s \in Slots \ {Idle}, ServerWrite(s)
  PROVE  \A x \in Slots : SlotState(x)'
<1> DEFINE new == [procs[s] EXCEPT !.comm_page = ReplyPage(serving[s])]
<1>1. /\ IsServer(s) /\ serving[s] # NullMessage
      /\ kernel = "up" /\ ~yielding /\ current_proc = s
      /\ procs' = [procs EXCEPT ![s] = new]
      /\ UNCHANGED <<resume, serving, stopping, calling, yielding, current_proc>>
  BY DEF ServerWrite, InHandler, WriteCommPage, Running
<1>2. /\ new.name = procs[s].name /\ new.pid = procs[s].pid /\ new.state = procs[s].state
      /\ new.blocked_sender = procs[s].blocked_sender
      /\ new.ipc_wait_queue = procs[s].ipc_wait_queue /\ new.comm_page = ReplyPage(serving[s])
      /\ new.pending_message = procs[s].pending_message
      /\ new.has_pending_message = procs[s].has_pending_message
  BY SlotTypes DEF Process
<1> HIDE DEF new
<1>3. (\A x \in Slots \ {s} : Same(x)) /\ procs'[s] = new
  BY <1>1, SlotTypes DEF Same
<1>4. /\ Open(s) /\ resume[s] = "user" /\ procs[s].pending_message = serving[s]
      /\ ReplyPage(serving[s]) # NullPage
  BY <1>1, HandlerFacts, KernelAssumption
<1>5. procs[s].state = "RUNNABLE" /\ ServerState(s)
  BY <1>1, RunnerFacts DEF SInv, SlotState
<1>6. ServerState(s)'
  <2>1. Open(s)'
    BY <1>2, <1>3, <1>4 DEF Open
  <2> QED
    BY <1>1, <1>2, <1>3, <1>4, <1>5, <2>1 DEF ServerState
<1> QED
  BY <1>1, <1>2, <1>3, <1>4, <1>5, <1>6, ServerAlone

\* A server's exit, which the run has to allow.
LEMMA ServerExitStep ==
  ASSUME SInv, NEW s \in Slots \ {Idle}, ServerExit(s)
  PROVE  \A x \in Slots : SlotState(x)'
<1> DEFINE new == [procs[s] EXCEPT !.state = "TERMINATED"]
<1>1. /\ IsServer(s) /\ kernel = "up" /\ ~yielding /\ current_proc = s /\ resume[s] = "user"
      /\ s \in stopping \/ "handler_exit" \in Failures
      /\ procs' = [procs EXCEPT ![s] = new] /\ resume' = [resume EXCEPT ![s] = "exited"]
      /\ yielding' /\ current_proc' = s
      /\ serving' = [serving EXCEPT ![s] = NullMessage] /\ stopping' = stopping \ {s}
      /\ UNCHANGED calling
  BY DEF ServerExit, OuExit, Running, SwitchAway
<1>2. /\ new.name = procs[s].name /\ new.pid = procs[s].pid /\ new.state = "TERMINATED"
      /\ new.comm_page = procs[s].comm_page
  BY SlotTypes DEF Process
<1> HIDE DEF new
<1>3. /\ \A x \in Slots \ {s} : Same(x)
      /\ procs'[s] = new /\ resume'[s] = "exited" /\ serving'[s] = NullMessage
  BY <1>1, SlotTypes DEF Same
<1>4. /\ Open(s) /\ procs[s].name \in ServerNames /\ calling[s] = NoCall
      /\ s \in Servers /\ procs[s].pid # PidNone /\ procs[s].comm_page # NullPage
      /\ Identity(s) /\ Stays(s)
  BY <1>1, RunnerFacts, OpenFacts DEF SInv, SlotState
<1>5. ~Open(s)'
  BY <1>2, <1>3 DEF Open
<1>6. SlotState(s)'
  <2>1. Identity(s)'
    BY <1>1, <1>2, <1>3, <1>4 DEF Identity
  <2>2. ServerState(s)'
    BY <1>1, <1>2, <1>3, <1>4, <1>5 DEF ServerState
  <2>3. CallerState(s)'
    BY <1>1, <1>2, <1>3, <1>4 DEF CallerState
  <2>4. Accepts(s)' /\ Served(s)'
    BY <1>3, <1>5 DEF Accepts, Served
  <2>5. Stays(s)'
    BY <1>1, <1>4 DEF Stays
  <2> QED
    BY <2>1, <2>2, <2>3, <2>4, <2>5 DEF SlotState
<1> DEFINE Q == {s}
<1>7. /\ Q \in SUBSET (Slots \ {Idle}) /\ s \in Q
      /\ \A x \in Slots \ Q : Same(x)
      /\ \A x \in Slots \ Q, d \in Q : Open(x) => ~Registered(d, x)
      /\ \A x \in Q : ~Open(x)' /\ SlotState(x)'
  BY <1>1, <1>3, <1>5, <1>6, RunnerUnregistered
<1> HIDE DEF Q
<1> QED
  BY <1>1, <1>7, RunFrame

\* Handing on a lock nobody waits for.
LEMMA ActivateNobody ==
  ASSUME NEW table \in [Slots -> Process], NEW s \in Slots, table[s].ipc_wait_queue = <<>>
  PROVE  LET new == ActivateNext(table, s) IN
         /\ new.name = table[s].name /\ new.pid = table[s].pid /\ new.state = table[s].state
         /\ new.comm_page = table[s].comm_page /\ new.ipc_wait_queue = <<>>
         /\ new.blocked_sender = NULL /\ new.pending_message = table[s].pending_message
         /\ new.has_pending_message = table[s].has_pending_message
<1>1. table[s] \in Process /\ ActivateNext(table, s) = [table[s] EXCEPT !.blocked_sender = NULL]
  BY DEF ActivateNext
<1> QED
  BY <1>1 DEF Process

\* A slot like p, with the request req at its head granted.
Granted(new, p, page, req) ==
  /\ new.name = p.name /\ new.pid = p.pid /\ new.state = p.state
  /\ new.comm_page = IF "SEND_COMM_DATA" \in req.message.flags
                     THEN CopyPage(page, p.comm_page) ELSE p.comm_page
  /\ new.ipc_wait_queue = Tail(p.ipc_wait_queue)
  /\ new.blocked_sender = req.sender /\ new.pending_message = req.message
  /\ new.has_pending_message = TRUE

\* Handing on a lock with its page to the head of the queue.
LEMMA ActivateHead ==
  ASSUME NEW table \in [Slots -> Process], NEW s \in Slots, table[s].ipc_wait_queue # <<>>,
         NEW req, req = Head(table[s].ipc_wait_queue)
  PROVE  Granted(ActivateNext(table, s), table[s], table[req.sender].comm_page, req)
<1> DEFINE page == IF "SEND_COMM_DATA" \in req.message.flags
                   THEN CopyPage(table[req.sender].comm_page, table[s].comm_page)
                   ELSE table[s].comm_page
           tail == Tail(table[s].ipc_wait_queue)
<1>1. table[s] \in Process
  OBVIOUS
<1>2. ActivateNext(table, s) = [table[s] EXCEPT !.ipc_wait_queue = tail, !.comm_page = page,
                                 !.pending_message = req.message,
                                 !.has_pending_message = TRUE, !.blocked_sender = req.sender]
  BY <1>1 DEF ActivateNext, Process
<1> HIDE DEF page, tail
<1>3. LET new == ActivateNext(table, s) IN
      /\ new.name = table[s].name /\ new.pid = table[s].pid /\ new.state = table[s].state
      /\ new.comm_page = page /\ new.ipc_wait_queue = tail
      /\ new.blocked_sender = req.sender /\ new.pending_message = req.message
      /\ new.has_pending_message = TRUE
  BY <1>1, <1>2 DEF Process
<1> QED
  BY <1>3 DEF page, tail, Granted

\* s answers h: the response and the page are h's, and h runs next.
Answers(s, h, response) ==
  /\ procs'[h].name = procs[h].name /\ procs'[h].pid = procs[h].pid
  /\ procs'[h].blocked_sender = procs[h].blocked_sender
  /\ procs'[h].ipc_wait_queue = procs[h].ipc_wait_queue
  /\ procs'[h].state = "RUNNABLE" /\ procs'[h].pending_response = response
  /\ procs'[h].comm_page = IF "RECV_COMM_DATA" \in procs[s].pending_message.flags
                           THEN CopyPage(procs[s].comm_page, procs[h].comm_page)
                           ELSE procs[h].comm_page
  /\ \A x \in Slots \ {s, h} : procs'[x] = procs[x]
  /\ kernel = "up" /\ ~yielding /\ current_proc = s
  /\ yielding' /\ scheduler_next_process' = h /\ current_proc' = s
  /\ resume' = [resume EXCEPT ![s] = "user"]

\* The server's own slot after a reply.
Grants(s) ==
  /\ procs'[s].name = procs[s].name /\ procs'[s].pid = procs[s].pid
  /\ procs'[s].state = procs[s].state
  /\ Queue(s) = <<>> =>
       /\ procs'[s].comm_page = procs[s].comm_page /\ Queue(s)' = <<>> /\ Holder(s)' = NULL
       /\ procs'[s].has_pending_message = procs[s].has_pending_message
  /\ Queue(s) # <<>> =>
       Granted(procs'[s], procs[s], procs[Queue(s)[1].sender].comm_page, Queue(s)[1])

\* What ou_ipc_reply does, slot by slot.
LEMMA ReplyEffect ==
  ASSUME SInv, NEW s \in Slots \ {Idle}, NEW response \in Responses, OuIpcReply(s, response),
         NEW h \in Slots \ {Idle}, h = Holder(s), h # s,
         Queue(s) # <<>> => Queue(s)[1].sender \in Slots \ {h}
  PROVE  Answers(s, h, response) /\ Grants(s)
<1> DEFINE page == IF "RECV_COMM_DATA" \in procs[s].pending_message.flags
                   THEN CopyPage(procs[s].comm_page, procs[h].comm_page)
                   ELSE procs[h].comm_page
           told == [procs[h] EXCEPT !.comm_page = page, !.pending_response = response]
           answered == [procs EXCEPT ![h] = told]
           activated == [answered EXCEPT ![s] = ActivateNext(answered, s)]
<1>1. procs \in [Slots -> Process] /\ procs[s] \in Process /\ procs[h] \in Process
  BY SlotTypes
<1>2. /\ kernel = "up" /\ ~yielding /\ current_proc = s
      /\ procs' = [activated EXCEPT ![h].state = "RUNNABLE"]
      /\ yielding' /\ scheduler_next_process' = h /\ current_proc' = s
      /\ resume' = [resume EXCEPT ![s] = "user"]
  <2>1. answered = [procs EXCEPT ![h].comm_page = page, ![h].pending_response = response]
    BY <1>1
  <2> HIDE DEF answered
  <2>2. /\ Running(s) /\ SwitchAway(s, h, "user")
        /\ procs' = [activated EXCEPT ![h].state = "RUNNABLE"]
    BY <2>1 DEF OuIpcReply, Holder
  <2> QED
    BY <2>2 DEF Running, SwitchAway
<1>3. page \in Pages \cup {NullPage} /\ response \in Response
  BY <1>1, KernelAssumption DEF CopyPage, Process, Response
<1> HIDE DEF page
<1>4. /\ told \in Process /\ told.name = procs[h].name /\ told.pid = procs[h].pid
      /\ told.blocked_sender = procs[h].blocked_sender
      /\ told.ipc_wait_queue = procs[h].ipc_wait_queue
      /\ told.comm_page = page /\ told.pending_response = response
  BY <1>1, <1>3 DEF Process
<1> HIDE DEF told
<1>5. /\ answered \in [Slots -> Process] /\ answered[h] = told
      /\ \A x \in Slots \ {h} : answered[x] = procs[x]
  BY <1>1, <1>4
<1> HIDE DEF answered
<1>6. /\ procs'[s] = ActivateNext(answered, s)
      /\ procs'[h] = [told EXCEPT !.state = "RUNNABLE"]
      /\ \A x \in Slots \ {s, h} : procs'[x] = procs[x]
  BY <1>2, <1>5
<1>7. Answers(s, h, response)
  <2>1. /\ procs'[h].name = told.name /\ procs'[h].pid = told.pid
        /\ procs'[h].blocked_sender = told.blocked_sender
        /\ procs'[h].ipc_wait_queue = told.ipc_wait_queue
        /\ procs'[h].state = "RUNNABLE" /\ procs'[h].pending_response = told.pending_response
        /\ procs'[h].comm_page = told.comm_page
    BY <1>4, <1>6 DEF Process
  <2> QED
    BY <1>2, <1>4, <1>6, <2>1 DEF Answers, page
<1>8. Grants(s)
  <2>1. answered[s] = procs[s]
    BY <1>5
  <2>2. CASE Queue(s) = <<>>
    BY <1>5, <1>6, <2>1, <2>2, ActivateNobody DEF Grants, Queue, Holder
  <2>3. CASE Queue(s) # <<>>
    <3>1. PICK req : req = Head(Queue(s))
      OBVIOUS
    <3>2. req = Queue(s)[1] /\ req.sender \in Slots \ {h}
      <4>1. Queue(s) \in Seq(QueuedRequest)
        BY SlotTypes
      <4>2. Head(Queue(s)) = Queue(s)[1]
        BY <4>1
      <4> QED
        BY <2>3, <3>1, <4>2
    <3>3. answered[req.sender] = procs[req.sender]
      BY <1>5, <3>2
    <3>4. Granted(procs'[s], procs[s], procs[req.sender].comm_page, req)
      <4>1. answered[s].ipc_wait_queue # <<>> /\ req = Head(answered[s].ipc_wait_queue)
        BY <2>1, <2>3, <3>1 DEF Queue
      <4>2. Granted(ActivateNext(answered, s), answered[s], answered[req.sender].comm_page, req)
        BY <1>5, <4>1, ActivateHead
      <4> QED
        BY <1>6, <2>1, <3>3, <4>2
    <3>5. procs'[s].name = procs[s].name /\ procs'[s].pid = procs[s].pid
          /\ procs'[s].state = procs[s].state
      BY <3>4 DEF Granted
    <3> QED
      BY <2>3, <3>2, <3>4, <3>5 DEF Grants
  <2> QED
    BY <2>2, <2>3
<1> QED
  BY <1>7, <1>8

\* The caller's slot once it is answered.
LEMMA AnsweredState ==
  ASSUME SInv, NEW s \in Slots \ {Idle}, serving[s] # NullMessage,
         NEW h, h = Holder(s), Answers(s, h, Handle(serving[s].arg)),
         "RECV_COMM_DATA" \in serving[s].flags => procs[s].comm_page = ReplyPage(serving[s]),
         resume'[h] = resume[h], serving'[h] = serving[h], UNCHANGED calling,
         h \in stopping' <=> h \in stopping
  PROVE  SlotState(h)' /\ ~Open(h)'
<1>1. /\ Open(s) /\ h \in Slots \ {Idle} /\ procs[s].pending_message = serving[s]
      /\ Asks(h, s, serving[s]) /\ ReplyPage(serving[s]) # NullPage
  BY HandlerFacts, KernelAssumption
<1>2. /\ ~Open(h) /\ procs[h].name \notin ServerNames /\ resume[h] = "send"
      /\ procs[h].pid # PidNone /\ procs[h].comm_page # NullPage
      /\ serving[s].sender_pid = procs[h].pid /\ serving[s].arg = calling[h].arg
      /\ serving[s].flags = calling[h].flags
  BY <1>1, AsksFacts DEF Asks
<1>3. Identity(h) /\ ServerState(h) /\ CallerState(h) /\ Stays(h)
  BY <1>1 DEF SInv, SlotState
<1>4. /\ procs'[h].name = procs[h].name /\ procs'[h].pid = procs[h].pid
      /\ procs'[h].blocked_sender = procs[h].blocked_sender
      /\ procs'[h].ipc_wait_queue = procs[h].ipc_wait_queue
      /\ procs'[h].state = "RUNNABLE"
      /\ procs'[h].pending_response = Handle(calling[h].arg)
      /\ "RECV_COMM_DATA" \in calling[h].flags
           => procs'[h].comm_page = Page("reply", procs[h].pid, calling[h].arg)
      /\ procs'[h].comm_page # NullPage
  BY <1>1, <1>2 DEF Answers, CopyPage, ReplyPage
<1>5. ~Open(h)'
  BY <1>2, <1>4 DEF Open
<1>6. Identity(h)'
  BY <1>2, <1>3, <1>4 DEF Identity
<1>7. ServerState(h)'
  BY <1>2, <1>3, <1>4, <1>5 DEF ServerState
<1>8. CallerState(h)'
  BY <1>2, <1>3, <1>4 DEF CallerState
<1>9. Served(h)'
  <2>1. Answered(h)'
    BY <1>4 DEF Answered
  <2> QED
    BY <2>1 DEF Served
<1>10. Accepts(h)' /\ Stays(h)'
  BY <1>2, <1>3, <1>5 DEF Accepts, Stays
<1> QED
  BY <1>5, <1>6, <1>7, <1>8, <1>9, <1>10 DEF SlotState

\* Who is queued at s when s answers h stays registered, and goes on asking.
LEMMA QueueMovesUp ==
  ASSUME SInv, NEW s \in Slots \ {Idle}, Open(s), NEW h \in Slots \ {Idle}, h = Holder(s),
         Grants(s), \A x \in Slots \ {s, h} : Same(x),
         NEW q, q = Queue(s)
  PROVE  /\ \A i \in 1 .. Len(q) :
              /\ q[i].sender \in Slots \ {Idle, s, h}
              /\ Asks(q[i].sender, s, q[i].message)'
              /\ procs'[q[i].sender].state = "IPC_SEND_WAIT"
         /\ q # <<>> =>
              /\ 1 \in 1 .. Len(q) /\ Holder(s)' = q[1].sender
              /\ Len(Queue(s)') = Len(q) - 1
              /\ \A i \in 1 .. Len(Queue(s)') :
                   i + 1 \in 1 .. Len(q) /\ Queue(s)'[i] = q[i + 1]
<1>1. QueueState(s)
  BY OpenFacts
<1>2. ASSUME NEW i \in 1 .. Len(q)
      PROVE  /\ q[i].sender \in Slots \ {Idle, s, h}
             /\ Asks(q[i].sender, s, q[i].message)'
             /\ procs'[q[i].sender].state = "IPC_SEND_WAIT"
  <2>1. PICK d, m : d = q[i].sender /\ m = q[i].message
    OBVIOUS
  <2>2. /\ d \in Slots \ {Idle} /\ d # h
        /\ Asks(d, s, m) /\ procs[d].state = "IPC_SEND_WAIT"
    BY <1>1, <2>1, SlotTypes DEF QueueState
  <2>3. d # s
    BY <2>2, AsksFacts
  <2>4. Asks(d, s, m)' /\ procs'[d].state = "IPC_SEND_WAIT"
    BY <2>2, <2>3, AsksKept
  <2> QED
    BY <2>1, <2>2, <2>3, <2>4
<1>3. ASSUME q # <<>>
      PROVE  /\ 1 \in 1 .. Len(q) /\ Holder(s)' = q[1].sender
             /\ Len(Queue(s)') = Len(q) - 1
             /\ \A i \in 1 .. Len(Queue(s)') :
                  i + 1 \in 1 .. Len(q) /\ Queue(s)'[i] = q[i + 1]
  <2>1. Queue(s)' = Tail(q) /\ Holder(s)' = q[1].sender
    BY <1>3 DEF Grants, Granted, Queue, Holder
  <2>2. q \in Seq(QueuedRequest)
    BY SlotTypes
  <2>3. /\ Len(q) \in Nat \ {0}
        /\ Len(Tail(q)) = Len(q) - 1
        /\ \A i \in 1 .. Len(q) - 1 : Tail(q)[i] = q[i + 1]
    BY <1>3, <2>2, HeadTailProperties, EmptySeq
  <2> QED
    BY <2>1, <2>3
<1> QED
  BY <1>2, <1>3

\* The server's slot after a reply: its next request is granted, or its lock is free.
LEMMA GrantedState ==
  ASSUME SInv, NEW s \in Slots \ {Idle}, Open(s), ~procs[s].has_pending_message,
         procs[s].state = "RUNNABLE",
         NEW h \in Slots \ {Idle}, h = Holder(s), h # s,
         Grants(s), \A x \in Slots \ {s, h} : Same(x),
         resume'[s] = "user", serving'[s] = NullMessage, calling'[s] = calling[s],
         s \in stopping' /\ Failures = {} => s \in stopping
  PROVE  /\ SlotState(s)'
         /\ \A d \in Slots \ {Idle, s, h} : Registered(d, s) => Registered(d, s)'
<1>1. /\ s \in Servers /\ procs[s].name \in ServerNames /\ calling[s] = NoCall
      /\ procs[s].pid # PidNone /\ procs[s].comm_page # NullPage
      /\ QueueState(s) /\ Identity(s) /\ Stays(s)
  BY OpenFacts DEF SInv, SlotState
<1>2. PICK q : q = Queue(s)
  OBVIOUS
<1>3. q \in Seq(QueuedRequest) /\ Len(q) \in Nat
  BY <1>2, SlotTypes
<1>4. /\ procs'[s].name = procs[s].name /\ procs'[s].pid = procs[s].pid
      /\ procs'[s].state = "RUNNABLE" /\ Open(s)'
  BY <1>1 DEF Grants, Open
<1>5. /\ \A i \in 1 .. Len(q) :
           /\ q[i].sender \in Slots \ {Idle, s, h}
           /\ Asks(q[i].sender, s, q[i].message)'
           /\ procs'[q[i].sender].state = "IPC_SEND_WAIT"
      /\ q # <<>> =>
           /\ 1 \in 1 .. Len(q) /\ Holder(s)' = q[1].sender
           /\ Len(Queue(s)') = Len(q) - 1
           /\ \A i \in 1 .. Len(Queue(s)') :
                i + 1 \in 1 .. Len(q) /\ Queue(s)'[i] = q[i + 1]
  BY <1>2, QueueMovesUp
<1>6. CASE q = <<>>
  <2>1. /\ Holder(s)' = NULL /\ Queue(s)' = <<>> /\ procs'[s].comm_page = procs[s].comm_page
        /\ procs'[s].has_pending_message = procs[s].has_pending_message
    BY <1>2, <1>6 DEF Grants
  <2>2. Identity(s)'
    BY <1>1, <1>4, <2>1 DEF Identity
  <2>3. ServerState(s)'
    BY <1>4, <2>1 DEF ServerState, Holder
  <2>4. LockState(s)' /\ QueueState(s)'
    BY <2>1 DEF LockState, QueueState
  <2>5. ASSUME NEW d \in Slots \ {Idle, s, h} PROVE ~Registered(d, s)
    BY <1>2, <1>6 DEF Registered
  <2>6. CallerState(s)' /\ Served(s)' /\ Accepts(s)' /\ Stays(s)'
    BY <1>1, <1>4, <2>4 DEF CallerState, Served, Accepts, Stays
  <2> QED
    BY <2>2, <2>3, <2>5, <2>6 DEF SlotState
<1>7. CASE q # <<>>
  <2>1. PICK d, m : d = q[1].sender /\ m = q[1].message
    OBVIOUS
  <2>2. /\ Granted(procs'[s], procs[s], procs[d].comm_page, q[1])
        /\ Holder(s)' = d
    BY <1>2, <1>5, <1>7, <2>1 DEF Grants
  <2>3. /\ d \in Slots \ {Idle, s, h} /\ Asks(d, s, m)' /\ procs'[d].state = "IPC_SEND_WAIT"
        /\ Asks(d, s, m)
    <3>1. 1 \in 1 .. Len(q)
      BY <1>5, <1>7
    <3> QED
      BY <1>1, <1>2, <1>5, <2>1, <3>1 DEF QueueState
  <2>4. /\ procs'[s].pending_message = m /\ procs'[s].has_pending_message = TRUE
        /\ procs'[s].comm_page # NullPage
        /\ "SEND_COMM_DATA" \in m.flags => procs'[s].comm_page = RequestPage(m)
    <3>1. procs[d].comm_page # NullPage
      BY <2>3, AsksFacts
    <3>2. "SEND_COMM_DATA" \in m.flags => procs[d].comm_page = RequestPage(m)
      BY <2>3 DEF Asks
    <3> QED
      BY <1>1, <2>1, <2>2, <3>1, <3>2 DEF Granted, CopyPage
  <2>5. Identity(s)'
    BY <1>1, <1>4, <2>4 DEF Identity
  <2>6. ServerState(s)'
    <3>1. procs'[s].blocked_sender # NULL
      BY <2>2, <2>3 DEF Holder, Idle, NULL
    <3> QED
      BY <1>4, <2>4, <3>1 DEF ServerState
  <2>7. LockState(s)'
    <3>1. Asks(Holder(s), s, procs[s].pending_message)'
      BY <2>2, <2>3, <2>4 DEF Asks, MatchesCall, RequestPage
    <3> QED
      BY <2>2, <2>3, <2>4, <3>1 DEF LockState, RequestPage
  <2>8. QueueState(s)'
    <3>1. ASSUME NEW i \in 1 .. Len(Queue(s)')
          PROVE  /\ i + 1 \in 1 .. Len(q) /\ Queue(s)'[i] = q[i + 1]
                 /\ Asks(q[i + 1].sender, s, q[i + 1].message)'
                 /\ procs'[q[i + 1].sender].state = "IPC_SEND_WAIT"
                 /\ q[i + 1].sender # d
      <4>1. i + 1 \in 1 .. Len(q) /\ 1 \in 1 .. Len(q) /\ i + 1 # 1
            /\ Queue(s)'[i] = q[i + 1]
        BY <1>3, <1>5, <1>7
      <4>2. q[i + 1].sender # q[1].sender
        BY <1>1, <1>2, <4>1 DEF QueueState
      <4> QED
        BY <1>5, <2>1, <4>1, <4>2
    <3>2. ASSUME NEW i \in 1 .. Len(Queue(s)'), NEW j \in 1 .. Len(Queue(s)'),
                 Queue(s)'[i].sender = Queue(s)'[j].sender
          PROVE  i = j
      <4>1. q[i + 1].sender = q[j + 1].sender /\ i + 1 \in 1 .. Len(q) /\ j + 1 \in 1 .. Len(q)
        BY <3>1, <3>2
      <4>2. i + 1 = j + 1
        BY <1>1, <1>2, <4>1 DEF QueueState
      <4> QED
        BY <1>3, <1>5, <1>7, <4>2
    <3>3. ASSUME NEW i \in 1 .. Len(Queue(s)')
          PROVE  /\ Asks(Queue(s)[i].sender, s, Queue(s)[i].message)'
                 /\ procs'[Queue(s)'[i].sender].state = "IPC_SEND_WAIT"
                 /\ Queue(s)'[i].sender # Holder(s)'
      BY <2>2, <3>1 DEF Asks, MatchesCall, RequestPage
    <3> QED
      BY <3>2, <3>3 DEF QueueState
  <2>9. CallerState(s)' /\ Served(s)' /\ Accepts(s)' /\ Stays(s)'
    BY <1>1, <1>4, <2>7, <2>8 DEF CallerState, Served, Accepts, Stays
  <2>10. ASSUME NEW e \in Slots \ {Idle, s, h}, Registered(e, s) PROVE Registered(e, s)'
    <3>1. PICK i \in 1 .. Len(q) : q[i].sender = e
      BY <1>2, <2>10 DEF Registered
    <3>2. CASE i = 1
      BY <2>1, <2>2, <3>1, <3>2 DEF Registered
    <3>3. CASE i # 1
      <4>1. i - 1 \in 1 .. Len(Queue(s)') /\ (i - 1) + 1 = i
        BY <1>3, <1>5, <1>7, <3>3
      <4>2. Queue(s)'[i - 1] = q[i]
        BY <1>5, <1>7, <4>1
      <4> QED
        BY <3>1, <4>1, <4>2 DEF Registered
    <3> QED
      BY <3>2, <3>3
  <2> QED
    BY <2>5, <2>6, <2>9, <2>10 DEF SlotState
<1> QED
  BY <1>6, <1>7

\* A server only replies to the process whose request it handles.
LEMMA ReplyFacts ==
  ASSUME SInv, NEW s \in Slots \ {Idle}, ServerReply(s)
  PROVE  /\ serving[s] # NullMessage /\ OuIpcReply(s, Handle(serving[s].arg))
         /\ Holder(s) \in Slots \ {Idle, s}
         /\ Answers(s, Holder(s), Handle(serving[s].arg)) /\ Grants(s)
<1>1. serving[s] # NullMessage
  BY DEF ServerReply, InHandler
<1>2. PICK h : h = Holder(s)
  OBVIOUS
<1>3. /\ Open(s) /\ h \in Slots \ {Idle} /\ Asks(h, s, serving[s])
      /\ Handle(serving[s].arg) \in Responses
  BY <1>1, <1>2, HandlerFacts
<1>4. OuIpcReply(s, Handle(serving[s].arg))
  BY <1>3, <1>2 DEF ServerReply, IpcReplyNobody, Holder, NULL, Idle
<1>5. h # s
  BY <1>3, AsksFacts
<1>6. ASSUME Queue(s) # <<>> PROVE Queue(s)[1].sender \in Slots \ {h}
  <2>1. 1 \in 1 .. Len(Queue(s))
    <3>1. Queue(s) \in Seq(QueuedRequest)
      BY SlotTypes
    <3> QED
      BY <1>6, <3>1
  <2> QED
    BY <1>2, <1>3, <2>1, SlotTypes, OpenFacts DEF QueueState
<1> QED
  BY <1>1, <1>2, <1>3, <1>4, <1>5, <1>6, ReplyEffect

\* A reply.
LEMMA ServerReplyStep ==
  ASSUME SInv, NEW s \in Slots \ {Idle}, ServerReply(s)
  PROVE  \A x \in Slots : SlotState(x)'
<1>1. PICK h : h = Holder(s)
  OBVIOUS
<1>2. /\ serving[s] # NullMessage /\ h \in Slots \ {Idle} /\ h # s
      /\ Answers(s, h, Handle(serving[s].arg)) /\ Grants(s)
  BY <1>1, ReplyFacts
<1>3. /\ Open(s) /\ ~procs[s].has_pending_message /\ s \notin stopping
      /\ Asks(h, s, serving[s])
      /\ Failures = {} => serving[s].arg # ShutdownArg
  BY <1>1, <1>2, HandlerFacts
<1>4. /\ serving' = [serving EXCEPT ![s] = NullMessage]
      /\ stopping' = IF serving[s].arg = ShutdownArg THEN stopping \cup {s} ELSE stopping
      /\ UNCHANGED calling
      /\ "RECV_COMM_DATA" \in serving[s].flags => procs[s].comm_page = ReplyPage(serving[s])
  BY DEF ServerReply
<1>5. /\ kernel = "up" /\ ~yielding /\ current_proc = s
      /\ resume' = [resume EXCEPT ![s] = "user"]
      /\ \A x \in Slots \ {s, h} : procs'[x] = procs[x]
  BY <1>2 DEF Answers
<1>6. procs[s].state = "RUNNABLE"
  BY <1>5, RunnerFacts
<1>7. /\ \A x \in Slots \ {s, h} : Same(x)
      /\ resume'[s] = "user" /\ serving'[s] = NullMessage /\ calling'[s] = calling[s]
      /\ resume'[h] = resume[h] /\ serving'[h] = serving[h]
      /\ s \in stopping' /\ Failures = {} => s \in stopping
      /\ h \in stopping' <=> h \in stopping
  BY <1>2, <1>3, <1>4, <1>5, SlotTypes DEF Same
<1>8. SlotState(h)' /\ ~Open(h)'
  BY <1>1, <1>2, <1>4, <1>7, AnsweredState
<1>9. /\ SlotState(s)'
      /\ \A d \in Slots \ {Idle, s, h} : Registered(d, s) => Registered(d, s)'
  BY <1>1, <1>2, <1>3, <1>6, <1>7, GrantedState
<1>10. ASSUME NEW x \in Slots \ {s}, Open(x), Registered(h, x)
       PROVE  FALSE
  <2>1. calling[h].to = x + 1
    BY <1>2, <1>10, RegisteredFacts
  <2>2. calling[h].to = s + 1
    BY <1>3 DEF Asks
  <2> QED
    BY <2>1, <2>2, SlotsType
<1> DEFINE Q == {s, h}
<1>11. /\ Q \in SUBSET (Slots \ {Idle}) /\ s \in Q
       /\ \A x \in Slots \ Q : Same(x)
       /\ \A x \in Slots \ Q, d \in Q : Open(x) => ~Registered(d, x)
       /\ \A x \in Q, d \in Slots \ (Q \cup {Idle}) :
            Open(x)' => Open(x) /\ (Registered(d, x) => Registered(d, x)')
       /\ \A x \in Q : SlotState(x)'
  BY <1>2, <1>3, <1>5, <1>7, <1>8, <1>9, <1>10, RunnerUnregistered
<1> HIDE DEF Q
<1> QED
  BY <1>5, <1>11, RunFrame

-----------------------------------------------------------------------------
(* The switch *)

\* Nobody but the process that exited has it in its slot: process_exit touches no
\* server and no application.
LEMMA ReapTouchesNobody ==
  ASSUME SInv, NEW d \in Slots \ {Idle}, procs[d].state = "TERMINATED", Platform = "wasm",
         NEW x \in Slots \ {d}
  PROVE  process_exit(procs, d)[x] = procs[x]
<1> DEFINE released(s) == IF procs[s].blocked_sender = d THEN ActivateNext(procs, s) ELSE procs[s]
           cleaned(s) == [released(s) EXCEPT !.ipc_wait_queue = RemoveSender(@, d)]
<1>1. process_exit(procs, d)[x] = IF procs[x].state = "UNUSED" THEN procs[x] ELSE cleaned(x)
  BY DEF process_exit
<1>2. SUFFICES ASSUME procs[x].state # "UNUSED" PROVE cleaned(x) = procs[x]
  BY <1>1
<1>3. /\ Identity(x) /\ Identity(d) /\ ServerState(x)
      /\ procs[x] \in Process /\ Queue(x) \in Seq(QueuedRequest)
  BY SlotTypes DEF SInv, SlotState
<1>4. Holder(x) # d /\ \A i \in 1 .. Len(Queue(x)) : Queue(x)[i].sender # d
  <2>1. CASE Open(x)
    <3>1. ~Registered(d, x)
      BY <2>1, RegisteredFacts
    <3> QED
      BY <3>1 DEF Registered
  <2>2. CASE ~Open(x)
    <3>1. CASE procs[x].name \notin ServerNames \/ x = Idle
      BY <1>3, <2>2, <3>1 DEF ServerState, Holder, Queue, NULL, Idle
    <3>2. CASE procs[x].name \in ServerNames /\ x # Idle
      <4>1. x \in Servers /\ procs[x].state # "TERMINATED"
        BY <1>2, <1>3, <3>2 DEF Identity
      <4>2. procs[x].state = "IPC_SEND_WAIT"
        BY <1>2, <1>3, <2>2, <3>2, <4>1 DEF Open, Process, States
      <4> QED
        BY <3>2, <4>2 DEF SInv, SlotState, CallerState
    <3> QED
      BY <3>1, <3>2
  <2> QED
    BY <2>1, <2>2
<1>5. released(x) = procs[x]
  BY <1>4 DEF Holder
<1>6. RemoveSender(procs[x].ipc_wait_queue, d) = procs[x].ipc_wait_queue
  BY <1>3, <1>4 DEF RemoveSender, RemoveFirstMatch, Queue
<1>7. [procs[x] EXCEPT !.ipc_wait_queue = procs[x].ipc_wait_queue] = procs[x]
  BY <1>3 DEF Process
<1> HIDE DEF released
<1> QED
  BY <1>5, <1>6, <1>7

\* What the programs see of a process that is gone.
LEMMA ZeroedFields ==
  /\ Zeroed.pid = PidNone /\ Zeroed.state = "UNUSED" /\ Zeroed.comm_page = NullPage
  /\ Zeroed.blocked_sender = NULL /\ Zeroed.ipc_wait_queue = <<>>
BY DEF Zeroed

\* The switch, with the clean-up after a process that exited.
LEMMA SwitchStep ==
  ASSUME SInv, Switch
  PROVE  \A s \in Slots : SlotState(s)'
<1>1. PICK d : d = current_proc
  OBVIOUS
<1> DEFINE reap == Platform = "wasm" /\ procs[d].state = "TERMINATED"
<1>2. /\ kernel = "up" /\ yielding /\ yielding' = FALSE /\ d \in Slots
      /\ procs' = IF reap THEN process_exit(procs, d) ELSE procs
      /\ scheduler_next_process # NULL => current_proc' = scheduler_next_process
      /\ resume' = resume /\ UNCHANGED <<serving, stopping, calling>>
  BY <1>1 DEF Switch, Schedule, UNCHANGEDPrograms, SInv, IInv, TypeOK
<1>3. ASSUME reap PROVE d # Idle
  BY <1>2, <1>3 DEF SInv, SlotState, Identity
<1> DEFINE Q == IF reap THEN {d} ELSE {}
<1>4. Q \in SUBSET Slots /\ Q \subseteq {d} /\ (Q # {} => reap)
  BY <1>2
<1>5. ASSUME NEW x \in Slots \ Q PROVE procs'[x] = procs[x]
  <2>1. CASE reap
    <3>1. d \in Slots \ {Idle} /\ x \in Slots \ {d}
      BY <1>2, <1>3, <2>1
    <3>2. procs' = process_exit(procs, d)
      BY <1>2, <2>1
    <3> QED
      BY <2>1, <3>1, <3>2, ReapTouchesNobody
  <2>2. CASE ~reap
    BY <1>2, <2>2
  <2> QED
    BY <2>1, <2>2
<1>6. \A x \in Slots \ Q : Same(x)
  BY <1>2, <1>5 DEF Same
<1>7. ASSUME NEW x \in Slots, procs[x].state = "TERMINATED", Platform = "wasm"
      PROVE  x \in Q
  <2>1. x = d
    BY <1>1, <1>7 DEF SInv, SlotState, Identity
  <2> QED
    BY <1>7, <2>1
<1>8. ASSUME reap
      PROVE  /\ procs'[d] = Zeroed /\ ~Open(d)' /\ SlotState(d)'
             /\ \A x \in Slots : Open(x) => ~Registered(d, x)
  <2>1. /\ d \in Slots \ {Idle} /\ procs[d].state = "TERMINATED" /\ ~Open(d)
        /\ ServerState(d) /\ CallerState(d) /\ Stays(d)
    BY <1>2, <1>3, <1>8 DEF SInv, SlotState, Open
  <2>2. procs'[d] = Zeroed
    BY <1>2, <1>8, ProcessExitType DEF SInv, IInv, TypeOK
  <2>3. ~Open(d)'
    BY <2>2, ZeroedFields DEF Open
  <2>4. serving[d] = NullMessage /\ d \notin stopping /\ calling[d] = NoCall /\ resume[d] # "send"
    BY <2>1 DEF ServerState, CallerState
  <2>5. Identity(d)'
    BY <2>1, <2>2, ZeroedFields, ServerFacts DEF Identity, PidNone
  <2>6. ServerState(d)'
    BY <1>2, <2>2, <2>3, <2>4, ZeroedFields DEF ServerState
  <2>7. CallerState(d)'
    BY <1>2, <2>2, <2>4, ZeroedFields DEF CallerState
  <2>8. Accepts(d)' /\ Served(d)' /\ Stays(d)'
    BY <1>2, <2>1, <2>3, <2>4 DEF Accepts, Served, Stays
  <2>9. \A x \in Slots : Open(x) => ~Registered(d, x)
    BY <2>1, RegisteredFacts
  <2> QED
    BY <2>2, <2>3, <2>5, <2>6, <2>7, <2>8, <2>9 DEF SlotState
<1>9. ASSUME NEW x \in Slots, Open(x), Holder(x) # NULL, procs[Holder(x)].state = "RUNNABLE"
      PROVE  current_proc' = x
  <2>1. Holder(x) \in Slots \ {Idle} /\ Registered(Holder(x), x)
    BY <1>9, SlotTypes DEF Registered, Idle, NULL
  <2>2. scheduler_next_process = x /\ x # NULL
    BY <1>2, <1>9, <2>1, RegisteredFacts, OpenFacts DEF Idle, NULL
  <2> QED
    BY <1>2, <2>2
<1>10. /\ \A x \in Slots \ Q, c \in Q : Open(x) => ~Registered(c, x)
       /\ \A x \in Q : ~Open(x)' /\ SlotState(x)'
  BY <1>4, <1>8
<1> HIDE DEF Q, reap
<1>11. \A s \in Slots \ Q : SlotState(s)'
  BY <1>2, <1>4, <1>6, <1>7, <1>9, <1>10, Frame
<1> QED
  BY <1>10, <1>11

\* A step that changes nothing but the kernel's own state.
LEMMA NobodyStep ==
  ASSUME SInv, UNCHANGED <<procs, current_proc, yielding, scheduler_next_process, resume,
                           serving, stopping, calling>>
  PROVE  \A s \in Slots : SlotState(s)'
<1> DEFINE Q == {}
<1>1. /\ Q \in SUBSET Slots
      /\ \A x \in Slots \ Q : Same(x)
      /\ \A x \in Q : FALSE
  BY DEF Same
<1>2. ASSUME NEW x \in Slots, Open(x), Holder(x) # NULL, procs[Holder(x)].state = "RUNNABLE"
      PROVE  IF yielding' THEN scheduler_next_process' = x ELSE current_proc' = x
  <2>1. Holder(x) \in Slots \ {Idle} /\ Registered(Holder(x), x)
    BY <1>2, SlotTypes DEF Registered, Idle, NULL
  <2> QED
    BY <1>2, <2>1, RegisteredFacts
<1>3. ASSUME NEW x \in Slots, procs[x].state = "TERMINATED", Platform = "wasm"
      PROVE  yielding' /\ current_proc' = x
  BY <1>3 DEF SInv, SlotState, Identity
<1> HIDE DEF Q
<1>4. \A s \in Slots \ Q : SlotState(s)'
  BY <1>1, <1>2, <1>3, Frame
<1> QED
  BY <1>1, <1>4

-----------------------------------------------------------------------------
(* The inductive invariant holds *)

\* A spawn, or the panic when the table is full.
LEMMA SpawnKept ==
  ASSUME SInv, NEW c \in Slots \ {Idle}, AppSpawn(c)
  PROVE  \A s \in Slots : SlotState(s)'
<1>1. PICK name \in Programs : OuProcSpawn(c, name)
  BY DEF AppSpawn
<1>2. CASE ProcessCreate(name)
  BY <1>1, <1>2, AppSpawnStep DEF OuProcSpawn, Running, ProcessCreate
<1>3. CASE ProcessLimitPanic
  <2>1. UNCHANGED <<procs, current_proc, yielding, scheduler_next_process, resume,
                    serving, stopping, calling>>
    BY <1>1, <1>3 DEF OuProcSpawn, ProcessLimitPanic, AppSpawn, UNCHANGEDPrograms
  <2> QED
    BY <2>1, NobodyStep
<1> QED
  BY <1>1, <1>2, <1>3 DEF OuProcSpawn

\* A send that fails.
LEMMA SendFailsKept ==
  ASSUME SInv, NEW c \in Slots \ {Idle}, NEW pid, AppSendFails(c, pid)
  PROVE  \A s \in Slots : SlotState(s)'
<1>1. UNCHANGED <<procs, current_proc, yielding, scheduler_next_process, resume,
                  serving, stopping, calling>>
  BY DEF AppSendFails, IpcSendNotFound, IpcSendTerminated, IpcSendQueueFull, vars,
         UNCHANGEDPrograms
<1> QED
  BY <1>1, NobodyStep

\* Every step keeps the state of every slot.
LEMMA SlotsStep ==
  ASSUME SInv, [ServicesNext]_servicesVars
  PROVE  \A s \in Slots : SlotState(s)'
<1>1. CASE Switch
  BY <1>1, SwitchStep
<1>2. ASSUME NEW p \in Slots \ {Idle}, ServerStep(p)
      PROVE  \A s \in Slots : SlotState(s)'
  <2>1. CASE ServerRecv(p)
    BY <2>1, ServesStep, ServerWaitStep DEF ServerRecv
  <2>2. CASE ServerRecvReturn(p)
    BY <2>2, ServesStep DEF ServerRecvReturn
  <2>3. CASE ServerWrite(p)
    BY <2>3, ServerWriteStep
  <2>4. CASE ServerReply(p)
    BY <2>4, ServerReplyStep
  <2>5. CASE ServerExit(p)
    BY <2>5, ServerExitStep
  <2> QED
    BY <1>2, <2>1, <2>2, <2>3, <2>4, <2>5 DEF ServerStep
<1>3. ASSUME NEW p \in Slots \ {Idle}, AppStep(p)
      PROVE  \A s \in Slots : SlotState(s)'
  <2>1. CASE AppYield(p) \/ AppExit(p) \/ AppReturn(p)
    BY <2>1, AppYieldStep, AppExitStep, AppReturnStep
  <2>2. CASE AppSpawn(p)
    BY <2>2, SpawnKept
  <2>3. CASE \E arg \in Requestable \ {0} : AppPrepare(p, arg)
    BY <2>3, AppPrepareStep
  <2>4. CASE AppCall(p)
    BY <2>4, AppSendStep DEF AppCall
  <2>5. CASE \E pid \in ServerPids : AppSendFails(p, pid)
    BY <2>5, SendFailsKept
  <2> QED
    BY <1>3, <2>1, <2>2, <2>3, <2>4, <2>5 DEF AppStep
<1>4. CASE UNCHANGED servicesVars
  BY <1>4, NobodyStep DEF servicesVars
<1> QED
  BY <1>1, <1>2, <1>3, <1>4 DEF ServicesNext

\* The programs' own state has its types.
ProgramsTyped ==
  /\ serving \in [Slots -> Message] /\ stopping \subseteq Slots
  /\ calling \in [Slots -> [to : {PidNone} \cup ServerPids, flags : SUBSET Flags,
                            arg : Args \cup {0}]]

\* Every step keeps the types of the programs' own state.
LEMMA ServicesTypeStep ==
  ASSUME SInv, [ServicesNext]_servicesVars
  PROVE  ProgramsTyped'
<1> DEFINE Call == [to : {PidNone} \cup ServerPids, flags : SUBSET Flags, arg : Args \cup {0}]
<1>1. /\ serving \in [Slots -> Message] /\ stopping \subseteq Slots /\ calling \in [Slots -> Call]
      /\ NullMessage \in Message /\ NoCall \in Call
      /\ \A s \in Slots : procs[s].pending_message \in Message
  <2>1. NullMessage \in Message /\ NoCall \in Call
    BY DEF NullMessage, NoCall, Message, PidNone
  <2>2. \A s \in Slots : procs[s].pending_message \in Message
    BY SlotTypes DEF Process
  <2> QED
    BY <2>1, <2>2 DEF SInv, ServicesTypeOK
<1>2. ASSUME NEW pid \in ServerPids, NEW flags \in FlagSets, NEW arg \in Requestable
      PROVE  [to |-> pid, flags |-> flags, arg |-> arg] \in Call
  BY KernelAssumption DEF Requestable, Flags
<1> HIDE DEF Call
<1>3. ProgramsTyped' <=> /\ serving' \in [Slots -> Message] /\ stopping' \subseteq Slots
                          /\ calling' \in [Slots -> Call]
  BY DEF ProgramsTyped, Call
<1>4. CASE UNCHANGED <<serving, stopping, calling>>
  BY <1>1, <1>3, <1>4
<1>5. ASSUME NEW p \in Slots, Serves(p)
      PROVE  ProgramsTyped'
  BY <1>1, <1>3, <1>5 DEF Serves
<1>6. ASSUME NEW p \in Slots, ServerReply(p) \/ ServerExit(p)
      PROVE  ProgramsTyped'
  BY <1>1, <1>3, <1>6 DEF ServerReply, ServerExit
<1>7. ASSUME NEW p \in Slots, NEW pid \in ServerPids, NEW flags \in FlagSets,
             NEW arg \in Requestable \ {0}, AppSend(p, pid, flags, arg)
      PROVE  ProgramsTyped'
  BY <1>1, <1>2, <1>3, <1>7 DEF AppSend
<1>8. ASSUME NEW p \in Slots, AppReturn(p)
      PROVE  ProgramsTyped'
  BY <1>1, <1>3, <1>8 DEF AppReturn
<1>9. ASSUME NEW p \in Slots \ {Idle}, ServerStep(p)
      PROVE  ProgramsTyped'
  BY <1>4, <1>5, <1>6, <1>9 DEF ServerStep, ServerRecv, ServerRecvReturn, ServerWrite
<1>10. ASSUME NEW p \in Slots \ {Idle}, AppStep(p)
      PROVE  ProgramsTyped'
  BY <1>4, <1>7, <1>8, <1>10
     DEF AppStep, AppYield, AppExit, AppSpawn, AppPrepare, AppCall, AppSendFails, UNCHANGEDPrograms
<1>11. CASE Switch \/ UNCHANGED servicesVars
  BY <1>4, <1>11 DEF Switch, servicesVars, UNCHANGEDPrograms
<1> QED
  BY <1>9, <1>10, <1>11 DEF ServicesNext

\* Every step preserves the invariant.
LEMMA NextSInv == SInv /\ [ServicesNext]_servicesVars => SInv'
<1> SUFFICES ASSUME SInv, [ServicesNext]_servicesVars PROVE SInv'
  OBVIOUS
<1>1. IInv /\ [Next]_vars
  BY KernelStep DEF SInv, servicesVars, vars
<1>2. IInv'
  BY <1>1, NextIInv
<1>3. ServicesTypeOK'
  BY <1>2, ServicesTypeStep DEF ServicesTypeOK, ProgramsTyped, IInv
<1>4. proc_pid_counter' >= proc_pid_counter
  BY <1>1, <1>2, NeverReusedStep
<1>5. proc_pid_counter' > Len(Boot) + 1
  BY <1>2, <1>4, ServerFacts DEF SInv, IInv, TypeOK
<1> QED
  BY <1>2, <1>3, <1>5, SlotsStep DEF SInv

\* The programs that kernel_start creates satisfy it.
LEMMA InitSInv == ServicesInit => SInv
<1> SUFFICES ASSUME ServicesInit PROVE SInv
  OBVIOUS
<1>1. Init /\ IInv
  BY InitIInv DEF ServicesInit
<1>2. ServicesTypeOK
  <2>1. NullMessage \in Message /\ NoCall \in [to : {PidNone} \cup ServerPids,
                                               flags : SUBSET Flags, arg : Args \cup {0}]
    BY DEF NullMessage, NoCall, Message, PidNone
  <2> QED
    BY <1>1, <2>1, SlotsType DEF ServicesInit, ServicesTypeOK, IInv
<1>3. proc_pid_counter > Len(Boot) + 1
  BY <1>1, ServerFacts DEF Init
<1>4. ASSUME NEW s \in Slots
      PROVE  SlotState(s)
  <2>1. /\ serving[s] = NullMessage /\ s \notin stopping /\ calling[s] = NoCall
        /\ resume[s] = "user"
    BY <1>1 DEF ServicesInit, Init
  <2>2. /\ procs[s].blocked_sender = NULL /\ procs[s].ipc_wait_queue = <<>>
        /\ procs[s].state # "UNUSED" => ~procs[s].has_pending_message
        /\ \/ /\ s = Idle
              /\ procs[s].pid = 1 /\ procs[s].state = "RUNNABLE" /\ procs[s].comm_page = NilPage
           \/ /\ s \in 1 .. Len(Boot)
              /\ procs[s].name = Boot[s] /\ procs[s].pid = s + 1
              /\ procs[s].state = "RUNNABLE" /\ procs[s].comm_page = NilPage
           \/ /\ s \notin 1 .. Len(Boot) /\ s # Idle
              /\ procs[s].pid = PidNone /\ procs[s].state = "UNUSED"
              /\ procs[s].comm_page = NullPage
    <3>1. CASE s = Idle
      <4>1. procs[s] = NewProcess("idle", 1)
        BY <1>1, <3>1, ServerFacts DEF Init, Idle
      <4> QED
        BY <3>1, <4>1, NewProcessFields
    <3>2. CASE s \in 1 .. Len(Boot)
      <4>1. procs[s] = NewProcess(Boot[s], s + 1)
        BY <1>1, <3>2, ServerFacts DEF Init, Idle
      <4> QED
        BY <3>2, <4>1, NewProcessFields
    <3>3. CASE s # Idle /\ s \notin 1 .. Len(Boot)
      <4>1. procs[s] = Zeroed
        BY <1>1, <3>3 DEF Init
      <4> QED
        BY <3>3, <4>1, ZeroedFields
    <3> QED
      BY <3>1, <3>2, <3>3
  <2>3. s \in Servers <=> s \in 1 .. Len(Boot) /\ Boot[s] \in ServerNames
    BY ServerFacts, SlotsType DEF Servers, Idle
  <2>4. s + 1 \in ServerPids <=> s \in Servers
    BY ServerFacts, SlotsType DEF ServerPids
  <2>5. Identity(s)
    BY <2>2, <2>3, <2>4, ServerFacts, KernelAssumption, SlotsType DEF Identity, PidNone, Idle
  <2>6. ServerState(s)
    BY <2>1, <2>2 DEF ServerState, Open
  <2>7. CallerState(s)
    BY <2>1, <2>2 DEF CallerState
  <2>8. Accepts(s) /\ Served(s)
    BY <2>1, <2>2, SlotsType DEF Accepts, LockState, QueueState, Served, Holder, Queue
  <2>9. Stays(s)
    BY <2>1, <2>2, <2>3, ServerFacts DEF Stays, Open, Idle
  <2> QED
    BY <2>5, <2>6, <2>7, <2>8, <2>9 DEF SlotState
<1> QED
  BY <1>1, <1>2, <1>3, <1>4 DEF SInv

\* What SInv says of every slot holds in every state of the programs that ship: who
\* is registered where, with which request, whose page is in whose comm page, and who
\* may run meanwhile.
THEOREM ServicesInvariant == ServicesSpec => []SInv
BY InitSInv, NextSInv, PTL DEF ServicesSpec

\* The programs that ship use the kernel as it may be used, so every theorem of
\* KernelProofs holds of them: each step is a system call the kernel allows.
THEOREM ServicesUseTheKernel == ServicesSpec => Spec
<1>1. ServicesInit => Init
  BY DEF ServicesInit
<1>2. SInv /\ [ServicesNext]_servicesVars => [Next]_vars
  BY KernelStep DEF servicesVars, vars
<1> QED
  BY <1>1, <1>2, ServicesInvariant, PTL DEF ServicesSpec, Spec

-----------------------------------------------------------------------------
(* What the programs rely on *)

\* A handler keeps its caller, and its page.
LEMMA UndisturbedInSInv == SInv => HandlerUndisturbed
<1> SUFFICES ASSUME SInv, NEW s \in Servers, InHandler(s)
             PROVE  /\ procs[s].pending_message = serving[s]
                    /\ procs[procs[s].blocked_sender].pid = serving[s].sender_pid
                    /\ "SEND_COMM_DATA" \in serving[s].flags =>
                         procs[s].comm_page \in {RequestPage(serving[s]), ReplyPage(serving[s])}
  BY DEF HandlerUndisturbed, HandlesLockHolder, HandlerSeesItsPage
<1>1. s \in Slots /\ serving[s] # NullMessage
  BY ServerFacts DEF InHandler
<1>2. /\ Open(s) /\ Holder(s) \in Slots \ {Idle} /\ procs[s].pending_message = serving[s]
      /\ Asks(Holder(s), s, serving[s])
  BY <1>1, HandlerFacts
<1>3. serving[s].sender_pid = procs[Holder(s)].pid
  BY <1>1, <1>2, AsksFacts
<1>4. LockState(s) /\ Holder(s) # NULL
  BY <1>1, <1>2, OpenFacts DEF Idle, NULL
<1> QED
  BY <1>2, <1>3, <1>4 DEF LockState, Holder

\* From recv to reply a handler keeps the caller whose request it received, and its
\* arguments, whatever else is sent to it, even when servers fail (ou_ipc_send,
\* ou_ipc_recv, ou_ipc_reply).
THEOREM HandlersAreUndisturbed == ServicesSpec => []HandlerUndisturbed
BY ServicesInvariant, UndisturbedInSInv, PTL

\* Where a server's requests are: the lock's first, then the queue's.
LEMMA AcceptedFacts ==
  ASSUME SInv, NEW s \in Slots
  PROVE  /\ Accepted(s) \in Seq([sender : Slots, message : Message])
         /\ Len(Accepted(s)) = IF Holder(s) = NULL THEN 0 ELSE Len(Queue(s)) + 1
         /\ Len(Accepted(s)) <= PROCS_MAX + 1
         /\ Holder(s) # NULL =>
              /\ Accepted(s)[1].sender = Holder(s)
              /\ Accepted(s)[1].message = procs[s].pending_message
              /\ \A i \in 1 .. Len(Queue(s)) : Accepted(s)[i + 1] = Queue(s)[i]
<1> DEFINE entry == [sender |-> procs[s].blocked_sender, message |-> procs[s].pending_message]
           Entry == [sender : Slots, message : Message]
<1>1. PICK q : q = Queue(s)
  OBVIOUS
<1>2. /\ q \in Seq(QueuedRequest) /\ Len(q) \in Nat /\ Len(q) <= PROCS_MAX
      /\ q # <<>> => Holder(s) # NULL
      /\ Holder(s) \in Slots /\ procs[s].pending_message \in Message
  BY <1>1, SlotTypes, SlotFacts DEF SInv, Process, Queue
<1>3. q \in Seq(Entry)
  <2>1. QueuedRequest \subseteq Entry
    BY DEF QueuedRequest
  <2>2. Len(q) \in Nat /\ q = [i \in 1 .. Len(q) |-> q[i]] /\ \A i \in 1 .. Len(q) : q[i] \in Entry
    BY <1>2, <2>1
  <2> HIDE DEF Entry
  <2> QED
    BY <2>2
<1>4. entry \in Entry /\ entry.sender = Holder(s) /\ entry.message = procs[s].pending_message
  BY <1>2 DEF Holder
<1> HIDE DEF entry, Entry
<1>5. Accepted(s) = (IF Holder(s) = NULL THEN <<>> ELSE <<entry>>) \o q
  BY <1>1 DEF Accepted, entry, Holder, Queue
<1>6. CASE Holder(s) = NULL
  <2>1. q = <<>>
    BY <1>2, <1>6
  <2>2. Accepted(s) = <<>> \o <<>>
    BY <1>5, <1>6, <2>1
  <2>3. Accepted(s) = <<>>
    BY <2>2
  <2> QED
    BY <1>6, <2>3, SlotsType DEF Entry
<1>7. CASE Holder(s) # NULL
  <2>1. Accepted(s) = <<entry>> \o q
    BY <1>5, <1>7
  <2>2. Accepted(s) \in Seq(Entry) /\ Len(Accepted(s)) = Len(q) + 1
    BY <1>2, <1>3, <1>4, <2>1
  <2>3. Accepted(s)[1] = entry
    BY <1>2, <1>3, <1>4, <2>1
  <2>4. \A i \in 1 .. Len(q) : Accepted(s)[i + 1] = q[i]
    BY <1>2, <1>3, <1>4, <2>1
  <2> QED
    BY <1>1, <1>2, <1>4, <1>7, <2>2, <2>3, <2>4, SlotsType DEF Entry
<1> QED
  BY <1>6, <1>7

\* Whatever a server has accepted is its sender's outstanding call, and is there once.
LEMMA AcceptedAsks ==
  ASSUME SInv, NEW s \in Slots, Open(s), NEW i \in 1 .. Len(Accepted(s))
  PROVE  /\ Accepted(s)[i].sender \in Slots \ {Idle}
         /\ Registered(Accepted(s)[i].sender, s)
         /\ Asks(Accepted(s)[i].sender, s, Accepted(s)[i].message)
         /\ \A k \in 1 .. Len(Accepted(s)) : Accepted(s)[k].sender = Accepted(s)[i].sender => k = i
<1>1. PICK a, q : a = Accepted(s) /\ q = Queue(s)
  OBVIOUS
<1>2. /\ Len(q) \in Nat /\ Holder(s) \in Slots
      /\ \A j \in 1 .. Len(q) : q[j].sender \in Slots \ {Idle}
  BY <1>1, SlotTypes
<1>3. Holder(s) # NULL /\ Len(a) = Len(q) + 1
  BY <1>1, <1>2, AcceptedFacts
<1>4. /\ a[1].sender = Holder(s) /\ a[1].message = procs[s].pending_message
      /\ \A j \in 1 .. Len(q) : a[j + 1] = q[j]
  BY <1>1, <1>3, AcceptedFacts
<1>5. LockState(s) /\ QueueState(s)
  BY OpenFacts
<1>6. /\ Asks(Holder(s), s, procs[s].pending_message) /\ Registered(Holder(s), s)
      /\ \A j \in 1 .. Len(q) :
           /\ Asks(q[j].sender, s, q[j].message) /\ Registered(q[j].sender, s)
           /\ q[j].sender # Holder(s)
           /\ \A l \in 1 .. Len(q) : q[j].sender = q[l].sender => j = l
  BY <1>1, <1>3, <1>5 DEF LockState, QueueState, Registered
<1>7. \A k \in 1 .. Len(a) : k = 1 \/ (k - 1 \in 1 .. Len(q) /\ a[k] = q[k - 1])
  <2> SUFFICES ASSUME NEW k \in 1 .. Len(a), k # 1
               PROVE  k - 1 \in 1 .. Len(q) /\ a[k] = q[k - 1]
    OBVIOUS
  <2>1. k - 1 \in 1 .. Len(q) /\ (k - 1) + 1 = k
    BY <1>2, <1>3
  <2> QED
    BY <1>4, <2>1
<1>8. i \in 1 .. Len(a)
  BY <1>1
<1>9. CASE i = 1
  <2>1. /\ a[1].sender \in Slots \ {Idle} /\ Registered(a[1].sender, s)
        /\ Asks(a[1].sender, s, a[1].message)
    BY <1>2, <1>3, <1>4, <1>6 DEF NULL, Idle
  <2>2. \A k \in 1 .. Len(a) : a[k].sender = a[1].sender => k = 1
    BY <1>4, <1>6, <1>7
  <2> QED
    BY <1>1, <1>9, <2>1, <2>2
<1>10. CASE i # 1
  <2>1. i - 1 \in 1 .. Len(q) /\ a[i] = q[i - 1]
    BY <1>7, <1>8, <1>10
  <2>2. /\ a[i].sender \in Slots \ {Idle} /\ Registered(a[i].sender, s)
        /\ Asks(a[i].sender, s, a[i].message) /\ a[i].sender # Holder(s)
    BY <1>2, <1>6, <2>1
  <2>3. ASSUME NEW k \in 1 .. Len(a), a[k].sender = a[i].sender PROVE k = i
    <3>1. k # 1
      BY <1>4, <2>2, <2>3
    <3>2. k - 1 \in 1 .. Len(q) /\ q[k - 1].sender = q[i - 1].sender
      BY <1>7, <2>1, <2>3, <3>1
    <3>3. k - 1 = i - 1
      BY <1>6, <2>1, <3>2
    <3> QED
      BY <1>8, <3>3, <1>2, <1>3
  <2> QED
    BY <1>1, <2>2, <2>3
<1> QED
  BY <1>9, <1>10

\* Where a caller is registered, when no server fails.
LEMMA EntriesFacts ==
  ASSUME SInv, Failures = {}, NEW c \in Slots
  PROVE  /\ \A e \in Entries(c) :
              /\ e[1] = ServerOf(calling[c].to) /\ resume[c] = "send" /\ c # Idle
              /\ MatchesCall(c, Accepted(e[1])[e[2]].message)
         /\ \A e, f \in Entries(c) : e = f
         /\ Entries(c) # {} <=> /\ c # Idle /\ resume[c] = "send"
                                /\ Registered(c, ServerOf(calling[c].to))
<1>1. ASSUME NEW s \in Servers PROVE s \in Slots /\ Open(s) /\ ServerOf(s + 1) = s
  BY <1>1, ServerFacts, SlotsType DEF SInv, SlotState, Stays, ServerOf
<1>2. ASSUME NEW e \in Entries(c)
      PROVE  /\ e[1] \in Servers /\ e[2] \in 1 .. Len(Accepted(e[1])) /\ e = <<e[1], e[2]>>
             /\ Accepted(e[1])[e[2]].sender = c
  <2>1. /\ e \in Servers \X (1 .. PROCS_MAX + 1)
        /\ e[2] <= Len(Accepted(e[1])) /\ Accepted(e[1])[e[2]].sender = c
    BY <1>2 DEF Entries
  <2>2. e[1] \in Servers /\ e[2] \in 1 .. PROCS_MAX + 1 /\ e = <<e[1], e[2]>>
    BY <2>1
  <2>3. Len(Accepted(e[1])) \in Nat
    BY <1>1, <2>2, AcceptedFacts
  <2> QED
    BY <2>1, <2>2, <2>3, SlotsType
<1>3. ASSUME NEW e \in Entries(c)
      PROVE  /\ e[1] = ServerOf(calling[c].to) /\ resume[c] = "send" /\ c # Idle
             /\ MatchesCall(c, Accepted(e[1])[e[2]].message)
             /\ Registered(c, e[1])
  <2>1. /\ e[1] \in Slots /\ Open(e[1]) /\ ServerOf(e[1] + 1) = e[1]
        /\ e[2] \in 1 .. Len(Accepted(e[1])) /\ Accepted(e[1])[e[2]].sender = c
    BY <1>1, <1>2
  <2>2. Registered(c, e[1]) /\ Asks(c, e[1], Accepted(e[1])[e[2]].message)
    BY <2>1, AcceptedAsks
  <2> QED
    BY <2>1, <2>2 DEF Asks
<1>4. ASSUME NEW e \in Entries(c), NEW f \in Entries(c) PROVE e = f
  <2>1. e[1] = f[1]
    BY <1>3
  <2>2. /\ e[1] \in Slots /\ Open(e[1])
        /\ e[2] \in 1 .. Len(Accepted(e[1])) /\ f[2] \in 1 .. Len(Accepted(e[1]))
        /\ Accepted(e[1])[e[2]].sender = c /\ Accepted(e[1])[f[2]].sender = c
    BY <1>1, <1>2, <2>1
  <2>3. f[2] = e[2]
    BY <2>2, AcceptedAsks
  <2> QED
    BY <1>2, <2>1, <2>3
<1>5. ASSUME c # Idle, resume[c] = "send", Registered(c, ServerOf(calling[c].to))
      PROVE  Entries(c) # {}
  <2>1. PICK s : s = ServerOf(calling[c].to)
    OBVIOUS
  <2>2. calling[c].to \in ServerPids
    BY <1>5 DEF SInv, SlotState, CallerState
  <2>3. s \in Servers /\ s \in Slots /\ Open(s)
    BY <1>1, <2>1, <2>2, ServerFacts
  <2>4. PICK q : q = Queue(s)
    OBVIOUS
  <2>5. /\ Len(q) \in Nat /\ (q # <<>> => Holder(s) # NULL)
        /\ \A i \in 1 .. Len(q) : q # <<>>
    BY <2>3, <2>4, SlotTypes
  <2>6. Holder(s) = c \/ \E i \in 1 .. Len(q) : q[i].sender = c
    BY <1>5, <2>1, <2>4 DEF Registered
  <2>7. Holder(s) # NULL
    BY <1>5, <2>5, <2>6 DEF Idle, NULL
  <2>8. \E i \in 1 .. Len(Accepted(s)) : Accepted(s)[i].sender = c
    <3>1. /\ Len(Accepted(s)) = Len(q) + 1 /\ Accepted(s)[1].sender = Holder(s)
          /\ \A i \in 1 .. Len(q) : Accepted(s)[i + 1] = q[i]
      BY <2>3, <2>4, <2>7, AcceptedFacts
    <3>2. 1 \in 1 .. Len(Accepted(s)) /\ \A i \in 1 .. Len(q) : i + 1 \in 1 .. Len(Accepted(s))
      BY <2>5, <3>1
    <3> QED
      BY <2>6, <3>1, <3>2
  <2>9. PICK i \in 1 .. Len(Accepted(s)) : Accepted(s)[i].sender = c
    BY <2>8
  <2>10. i \in 1 .. PROCS_MAX + 1 /\ i <= Len(Accepted(s))
    BY <2>3, <2>5, <2>9, AcceptedFacts, SlotsType
  <2>11. <<s, i>> \in Entries(c)
    BY <2>3, <2>9, <2>10 DEF Entries
  <2> QED
    BY <2>11
<1> QED
  BY <1>3, <1>4, <1>5

\* A caller is registered once, with its own request, where it called.
LEMMA RegisteredOnceInSInv ==
  ASSUME Failures = {}, SInv
  PROVE  CallersRegisteredOnce
<1> SUFFICES ASSUME NEW c \in Slots
             PROVE  /\ Cardinality(Entries(c)) <= 1
                    /\ procs[c].state = "IPC_SEND_WAIT" => Entries(c) # {}
  BY EntriesFacts DEF CallersRegisteredOnce
<1>1. Cardinality(Entries(c)) <= 1
  <2>1. CASE Entries(c) = {}
    BY <2>1, FS_EmptySet
  <2>2. CASE Entries(c) # {}
    <3>1. PICK e : e \in Entries(c)
      BY <2>2
    <3>2. Entries(c) = {e}
      BY <3>1, EntriesFacts
    <3>3. Cardinality({e}) = 1
      BY FS_Singleton
    <3> QED
      BY <3>2, <3>3
  <2> QED
    BY <2>1, <2>2
<1>2. ASSUME procs[c].state = "IPC_SEND_WAIT" PROVE Entries(c) # {}
  <2>1. /\ c # Idle /\ resume[c] = "send" /\ calling[c].to \in ServerPids
        /\ Served(c)
    BY <1>2 DEF SInv, SlotState, CallerState
  <2>2. ServerOf(calling[c].to) \in Servers
    BY <2>1, ServerFacts
  <2>3. Open(ServerOf(calling[c].to))
    BY <2>2, ServerFacts DEF SInv, SlotState, Stays
  <2>4. Registered(c, ServerOf(calling[c].to))
    BY <1>2, <2>1, <2>3 DEF Served, Answered
  <2> QED
    BY <2>1, <2>4, EntriesFacts
<1> QED
  BY <1>1, <1>2

\* When no server fails, who waits for a reply holds the lock of the server it called
\* or is in its queue, once, with its own request, and nobody else is registered
\* anywhere: no request is lost, doubled or changed (ou_ipc_send, ou_ipc_reply,
\* process_exit).
THEOREM CallersAreRegisteredOnce ==
  ASSUME Failures = {}
  PROVE  ServicesSpec => []CallersRegisteredOnce
BY ServicesInvariant, RegisteredOnceInSInv, PTL

\* A call ends only by returning to a caller that runs, and if the server it called is
\* still there, with the reply.
LEMMA ReturningFacts ==
  ASSUME SInv, [ServicesNext]_servicesVars, NEW c \in Slots, Returning(c)
  PROVE  /\ kernel = "up" /\ ~yielding /\ calling[c].to \in ServerPids
         /\ Open(ServerOf(calling[c].to)) => Answered(c)
<1>1. calling \in [Slots -> [to : {PidNone} \cup ServerPids, flags : SUBSET Flags,
                             arg : Args \cup {0}]]
  BY DEF SInv, ServicesTypeOK
<1>2. calling[c] # NoCall /\ calling'[c] = NoCall
  BY DEF Returning
<1>3. ASSUME NEW p \in Slots \ {Idle}, ServerStep(p) PROVE FALSE
  BY <1>2, <1>3 DEF ServerStep, ServerRecv, ServerRecvReturn, ServerWrite, ServerReply, ServerExit,
                    Serves
<1>4. ASSUME NEW p \in Slots \ {Idle}, AppStep(p) PROVE p = c /\ AppReturn(c)
  <2>1. ASSUME NEW pid \in ServerPids, NEW flags \in FlagSets, NEW arg \in Requestable \ {0},
               AppSend(p, pid, flags, arg)
        PROVE  FALSE
    <3>1. calling' = [calling EXCEPT ![p] = [to |-> pid, flags |-> flags, arg |-> arg]]
      BY <2>1 DEF AppSend
    <3>2. pid # PidNone
      BY ServerFacts
    <3>3. calling'[c] = [to |-> pid, flags |-> flags, arg |-> arg] \/ calling'[c] = calling[c]
      BY <1>1, <3>1
    <3> QED
      BY <1>2, <3>2, <3>3 DEF NoCall
  <2>2. CASE AppReturn(p)
    <3>1. calling' = [calling EXCEPT ![p] = NoCall]
      BY <2>2 DEF AppReturn
    <3> QED
      BY <1>1, <1>2, <2>2, <3>1
  <2> QED
    BY <1>2, <1>4, <2>1, <2>2
       DEF AppStep, AppYield, AppExit, AppSpawn, AppPrepare, AppCall, AppSendFails, UNCHANGEDPrograms
<1>5. c # Idle /\ AppReturn(c)
  <2>1. CASE ServicesNext
    <3>1. PICK p \in Slots \ {Idle} : ServerStep(p) \/ AppStep(p)
      BY <1>2, <2>1 DEF ServicesNext, Switch, UNCHANGEDPrograms
    <3> QED
      BY <1>3, <1>4, <3>1
  <2>2. CASE UNCHANGED servicesVars
    BY <1>2, <2>2 DEF servicesVars
  <2> QED
    BY <2>1, <2>2
<1>6. kernel = "up" /\ ~yielding /\ current_proc = c /\ resume[c] = "send"
  BY <1>5 DEF AppReturn, IpcSendReturn
<1>7. calling[c].to \in ServerPids /\ Served(c)
  BY <1>6 DEF SInv, SlotState, CallerState
<1>8. Open(ServerOf(calling[c].to)) => Answered(c)
  BY <1>5, <1>6, <1>7, RunnerUnregistered, ServerFacts DEF Served
<1> QED
  BY <1>6, <1>7, <1>8

\* With servers that do not fail every call returns with its own reply.
LEMMA ReturnsAnswered ==
  ASSUME Failures = {}, SInv, [ServicesNext]_servicesVars, NEW c \in Slots, Returning(c)
  PROVE  Answered(c)
<1>1. calling[c].to \in ServerPids /\ (Open(ServerOf(calling[c].to)) => Answered(c))
  BY ReturningFacts
<1>2. ServerOf(calling[c].to) \in Servers
  BY <1>1, ServerFacts
<1>3. Open(ServerOf(calling[c].to))
  BY <1>2, ServerFacts DEF SInv, SlotState, Stays
<1> QED
  BY <1>1, <1>3

\* When no server fails, ou_ipc_send returns the response to the request it sent: not
\* an older one, nor another caller's (ou_ipc_send, ou_ipc_reply).
THEOREM RepliesMatch ==
  ASSUME Failures = {}
  PROVE  ServicesSpec => ReplyMatches
<1>1. SInv /\ [ServicesNext]_servicesVars
        => [\A c \in Slots : Returning(c) =>
              procs[c].pending_response = Handle(calling[c].arg)]_servicesVars
  BY ReturnsAnswered DEF Answered
<1> QED
  BY <1>1, ServicesInvariant, PTL DEF ServicesSpec, ReplyMatches

\* When no server fails, a call that asked for the reply's page has it in its own comm
\* page when it returns, though the server has gone on to the next request's page
\* (ou_ipc_reply).
THEOREM ReplyPagesMatch ==
  ASSUME Failures = {}
  PROVE  ServicesSpec => ReplyPageMatches
<1>1. SInv /\ [ServicesNext]_servicesVars
        => [\A c \in Slots : Returning(c) /\ "RECV_COMM_DATA" \in calling[c].flags =>
              procs[c].comm_page = Page("reply", procs[c].pid, calling[c].arg)]_servicesVars
  BY ReturnsAnswered DEF Answered
<1> QED
  BY <1>1, ServicesInvariant, PTL DEF ServicesSpec, ReplyPageMatches

\* Who is found under a server's pid is that server, and open, once an exit is cleaned up.
LEMMA AliveServerIsOpen ==
  ASSUME SInv, Platform = "wasm", kernel = "up", ~yielding, NEW pid \in ServerPids, is_alive(pid)
  PROVE  Open(ServerOf(pid))
<1>1. PICK x \in Slots : process_pids[x] = pid /\ procs[x].state # "UNUSED"
  BY DEF is_alive, SlotsOfPid
<1>2. procs[x].pid = pid /\ procs[x].state \in States
  BY <1>1, SlotTypes DEF SInv, IInv, PidsUnique, Process
<1>3. pid = x + 1 /\ procs[x].name \in ServerNames /\ procs[x].state # "TERMINATED"
  BY <1>2 DEF SInv, SlotState, Identity
<1>4. procs[x].state # "IPC_SEND_WAIT"
  BY <1>3 DEF SInv, SlotState, CallerState
<1>5. x = ServerOf(pid) /\ x \in Servers
  BY <1>3, ServerFacts, SlotsType DEF ServerOf
<1> QED
  BY <1>1, <1>2, <1>3, <1>4, <1>5 DEF Open, States

\* Where exited processes are cleaned up, a call returns without its reply only when
\* the server it called is gone, whatever fails (process_exit, ou_ipc_send).
THEOREM RepliesUnlessServerGone ==
  ASSUME Platform = "wasm"
  PROVE  ServicesSpec => ReplyUnlessServerGone
<1>1. SInv /\ [ServicesNext]_servicesVars
        => [\A c \in Slots : Returning(c) =>
              \/ procs[c].pending_response = Handle(calling[c].arg)
              \/ ~is_alive(calling[c].to)]_servicesVars
  BY ReturningFacts, AliveServerIsOpen DEF Answered
<1> QED
  BY <1>1, ServicesInvariant, PTL DEF ServicesSpec, ReplyUnlessServerGone

-----------------------------------------------------------------------------
(***************************************************************************)
(* The programs that ship, over the kernel's IPC, make remote procedure    *)
(* calls as module Rpc promises them, for any number of servers,           *)
(* applications and requests, as long as no server fails.                  *)
(***************************************************************************)

-----------------------------------------------------------------------------
(* The mapping *)

\* The requests of a sequence of accepted ones, as Rpc sees them.
Inbox(a) == [i \in DOMAIN a |-> [client |-> a[i].sender, request |-> a[i].message.arg]]

\* c's request is at some server.
Listed(c) == \E s \in Servers : \E i \in 1 .. Len(Accepted(s)) : Accepted(s)[i].sender = c

\* Where c is in its call.
Phase(c) ==
  IF calling[c] = NoCall THEN R!Idle
  ELSE IF Listed(c) THEN R!Waiting ELSE R!Answered(procs[c].pending_response)

\* What a server has accepted fits in ipc_wait_queue and the lock.
LEMMA ListedFacts ==
  ASSUME SInv, NEW c \in Slots
  PROVE  Entries(c) # {} <=> Listed(c)
<1>1. ASSUME NEW e \in Entries(c) PROVE Listed(c)
  <2>1. /\ e \in Servers \X (1 .. PROCS_MAX + 1)
        /\ e[2] <= Len(Accepted(e[1])) /\ Accepted(e[1])[e[2]].sender = c
    BY <1>1 DEF Entries
  <2>2. e[1] \in Servers /\ e[2] \in 1 .. PROCS_MAX + 1
    BY <2>1
  <2>3. Len(Accepted(e[1])) \in Nat
    BY <2>2, ServerFacts, AcceptedFacts
  <2>4. e[2] \in 1 .. Len(Accepted(e[1]))
    BY <2>1, <2>2, <2>3, SlotsType
  <2> QED
    BY <2>1, <2>2, <2>4 DEF Listed
<1>2. ASSUME NEW s \in Servers, NEW i \in 1 .. Len(Accepted(s)), Accepted(s)[i].sender = c
      PROVE  Entries(c) # {}
  <2>1. s \in Slots
    BY ServerFacts
  <2>2. Len(Accepted(s)) \in Nat /\ Len(Accepted(s)) <= PROCS_MAX + 1
    BY <2>1, AcceptedFacts
  <2>3. i \in 1 .. PROCS_MAX + 1 /\ i <= Len(Accepted(s))
    BY <2>2, SlotsType
  <2>4. <<s, i>> \in Entries(c)
    BY <1>2, <2>3 DEF Entries
  <2> QED
    BY <2>4
<1> QED
  BY <1>1, <1>2 DEF Listed

\* The mapping in these terms.
Mapping ==
  /\ inboxBar = [s \in Servers |-> Inbox(Accepted(s))]
  /\ callBar = [c \in Slots |-> Phase(c)]

\* The mapping in terms of what SInv speaks of.
LEMMA MappingFacts == SInv => Mapping
<1> SUFFICES ASSUME SInv PROVE Mapping
  OBVIOUS
<1>1. inboxBar = [s \in Servers |-> Inbox(Accepted(s))]
  BY DEF inboxBar, Inbox
<1>2. \A c \in Slots : callBar[c] = Phase(c)
  BY ListedFacts DEF callBar, Phase, R!Idle, R!Waiting, R!Answered
<1> QED
  BY <1>1, <1>2 DEF callBar, Mapping

\* The rest of the mapping follows from what servers have accepted and what calls are out.
LEMMA SameMapping ==
  ASSUME SInv, SInv',
         \A s \in Servers : Accepted(s)' = Accepted(s),
         \A c \in Slots : /\ calling'[c] = calling[c]
                          /\ calling[c] # NoCall =>
                               procs'[c].pending_response = procs[c].pending_response
  PROVE  UNCHANGED <<inboxBar, callBar>>
<1>1. Mapping /\ Mapping'
  BY MappingFacts, PTL
<1>2. \A c \in Slots : Listed(c)' <=> Listed(c)
  BY DEF Listed
<1>3. \A c \in Slots : Phase(c)' = Phase(c)
  BY <1>2 DEF Phase
<1>4. \A s \in Servers : Inbox(Accepted(s))' = Inbox(Accepted(s))
  BY DEF Inbox
<1> QED
  BY <1>1, <1>3, <1>4 DEF Mapping

-----------------------------------------------------------------------------
(* The steps Rpc does not see *)

\* Nothing about the requests and the answers in slot x changes.
SameMail(x) ==
  /\ procs'[x].blocked_sender = procs[x].blocked_sender
  /\ procs'[x].ipc_wait_queue = procs[x].ipc_wait_queue
  /\ procs'[x].pending_message = procs[x].pending_message
  /\ procs'[x].pending_response = procs[x].pending_response

\* A step that changes no mail of a server or of a caller is one that Rpc does not see.
LEMMA SilentStep ==
  ASSUME SInv, SInv', UNCHANGED calling,
         \A x \in Slots : SameMail(x) \/ (x \notin Servers /\ calling[x] = NoCall)
  PROVE  UNCHANGED <<inboxBar, callBar>>
<1>1. \A s \in Servers : SameMail(s)
  BY ServerFacts
<1>2. \A s \in Servers : Accepted(s)' = Accepted(s)
  BY <1>1 DEF SameMail, Accepted
<1>3. \A c \in Slots : /\ calling'[c] = calling[c]
                       /\ calling[c] # NoCall =>
                            procs'[c].pending_response = procs[c].pending_response
  BY DEF SameMail
<1> QED
  BY <1>2, <1>3, SameMapping

\* Mail is not what most system calls are about.
LEMMA MailKept ==
  ASSUME SInv, NEW p \in Slots,
         \/ UNCHANGED procs
         \/ \E state : procs' = [procs EXCEPT ![p].state = state]
         \/ \E page : procs' = [procs EXCEPT ![p].comm_page = page]
         \/ procs' = [procs EXCEPT ![p].has_pending_message = FALSE]
  PROVE  \A x \in Slots : SameMail(x)
<1>1. CASE UNCHANGED procs
  BY <1>1 DEF SameMail
<1>2. ASSUME NEW state, procs' = [procs EXCEPT ![p].state = state]
      PROVE  \A x \in Slots : SameMail(x)
  <2>1. /\ \A x \in Slots \ {p} : procs'[x] = procs[x]
        /\ procs'[p] = [procs[p] EXCEPT !.state = state]
    BY <1>2, SlotTypes
  <2>2. SameMail(p)
    BY <2>1, SlotTypes DEF SameMail, Process
  <2> QED
    BY <2>1, <2>2 DEF SameMail
<1>3. ASSUME NEW page, procs' = [procs EXCEPT ![p].comm_page = page]
      PROVE  \A x \in Slots : SameMail(x)
  <2>1. /\ \A x \in Slots \ {p} : procs'[x] = procs[x]
        /\ procs'[p] = [procs[p] EXCEPT !.comm_page = page]
    BY <1>3, SlotTypes
  <2>2. SameMail(p)
    BY <2>1, SlotTypes DEF SameMail, Process
  <2> QED
    BY <2>1, <2>2 DEF SameMail
<1>4. CASE procs' = [procs EXCEPT ![p].has_pending_message = FALSE]
  BY <1>4, SlotTypes DEF SameMail, Process
<1> QED
  BY <1>1, <1>2, <1>3, <1>4

\* The servers, when they do not fail.
LEMMA ServersStay ==
  ASSUME SInv, Failures = {}, NEW s \in Servers
  PROVE  s \in Slots \ {Idle} /\ Open(s) /\ s \notin stopping
BY ServerFacts DEF SInv, SlotState, Stays

\* The switch.
LEMMA SwitchIsSilent ==
  ASSUME SInv, SInv', Failures = {}, Switch
  PROVE  UNCHANGED <<inboxBar, callBar>>
<1>1. PICK d : d = current_proc
  OBVIOUS
<1>2. /\ d \in Slots
      /\ procs' = IF Platform = "wasm" /\ procs[d].state = "TERMINATED"
                  THEN process_exit(procs, d) ELSE procs
      /\ UNCHANGED calling
  BY <1>1 DEF Switch, Schedule, UNCHANGEDPrograms, SInv, IInv, TypeOK
<1>3. CASE Platform = "wasm" /\ procs[d].state = "TERMINATED"
  <2>1. d # Idle /\ resume[d] # "send" /\ calling[d] = NoCall
    BY <1>2, <1>3 DEF SInv, SlotState, Identity, CallerState
  <2>2. d \notin Servers
    BY <1>3, ServersStay DEF Open
  <2>3. ASSUME NEW x \in Slots \ {d} PROVE SameMail(x)
    <3>1. procs'[x] = procs[x]
      BY <1>2, <1>3, <2>1, <2>3, ReapTouchesNobody
    <3> QED
      BY <3>1 DEF SameMail
  <2> QED
    BY <1>2, <2>1, <2>2, <2>3, SilentStep
<1>4. CASE ~(Platform = "wasm" /\ procs[d].state = "TERMINATED")
  BY <1>2, <1>4, MailKept, SilentStep
<1> QED
  BY <1>3, <1>4

\* A server on the way from recv to reply.
LEMMA HandlingIsSilent ==
  ASSUME SInv, SInv', NEW s \in Slots \ {Idle},
         ServerRecv(s) \/ ServerRecvReturn(s) \/ ServerWrite(s)
  PROVE  UNCHANGED <<inboxBar, callBar>>
<1>1. /\ UNCHANGED calling
      /\ \/ \E state : procs' = [procs EXCEPT ![s].state = state]
         \/ \E page : procs' = [procs EXCEPT ![s].comm_page = page]
         \/ procs' = [procs EXCEPT ![s].has_pending_message = FALSE]
  BY DEF ServerRecv, ServerRecvReturn, ServerWrite, Serves, IpcRecvPending, IpcRecvWait,
         IpcRecvReturn, WriteCommPage
<1> QED
  BY <1>1, MailKept, SilentStep

\* A server that does not fail does not exit.
LEMMA NoServerExits ==
  ASSUME SInv, Failures = {}, NEW s \in Slots \ {Idle}, ServerExit(s)
  PROVE  FALSE
<1>1. IsServer(s) /\ s \in stopping /\ kernel = "up" /\ ~yielding /\ current_proc = s
  BY DEF ServerExit, OuExit, Running
<1>2. s \in Servers
  BY <1>1, RunnerFacts DEF Open
<1> QED
  BY <1>1, <1>2, ServersStay

\* What an application does between its calls.
LEMMA AppsAreSilent ==
  ASSUME SInv, SInv', NEW c \in Slots \ {Idle},
         \/ AppYield(c) \/ AppExit(c)
         \/ \E arg \in Requestable \ {0} : AppPrepare(c, arg)
         \/ \E pid \in ServerPids : AppSendFails(c, pid)
  PROVE  UNCHANGED <<inboxBar, callBar>>
<1>1. UNCHANGED calling
  BY DEF AppYield, AppExit, AppPrepare, AppSendFails, UNCHANGEDPrograms
<1>2. \/ UNCHANGED procs
      \/ \E state : procs' = [procs EXCEPT ![c].state = state]
      \/ \E page : procs' = [procs EXCEPT ![c].comm_page = page]
  BY DEF AppYield, OuYield, AppExit, OuExit, AppPrepare, WriteCommPage, AppSendFails,
         IpcSendNotFound, IpcSendTerminated, IpcSendQueueFull, vars
<1> QED
  BY <1>1, <1>2, MailKept, SilentStep

\* A new process takes a slot that was no server's and no caller's.
LEMMA SpawnIsSilent ==
  ASSUME SInv, SInv', Failures = {}, NEW c \in Slots \ {Idle}, AppSpawn(c)
  PROVE  UNCHANGED <<inboxBar, callBar>>
<1>1. PICK name \in Programs : OuProcSpawn(c, name)
  BY DEF AppSpawn
<1>2. UNCHANGED calling
  BY DEF AppSpawn, UNCHANGEDPrograms
<1>3. CASE ProcessLimitPanic
  BY <1>2, <1>3, MailKept, SilentStep DEF ProcessLimitPanic
<1>4. CASE ProcessCreate(name)
  <2>1. PICK f \in Slots : f = Min(FreeSlots(procs)) /\ procs[f].state = "UNUSED"
    BY <1>4, MinInSet, SlotsType DEF ProcessCreate, FreeSlots
  <2>2. PICK new : procs' = [procs EXCEPT ![f] = new]
    BY <1>4, <2>1 DEF ProcessCreate
  <2>3. f \notin Servers
    BY <2>1, ServersStay DEF Open
  <2>4. calling[f] = NoCall
    BY <2>1 DEF SInv, SlotState, CallerState
  <2>5. \A x \in Slots \ {f} : SameMail(x)
    BY <2>2, SlotTypes DEF SameMail
  <2> QED
    BY <1>2, <2>3, <2>4, <2>5, SilentStep
<1> QED
  BY <1>1, <1>3, <1>4 DEF OuProcSpawn

-----------------------------------------------------------------------------
(* The steps Rpc sees *)

\* An accepted request, as the kernel keeps it.
Entry == [sender : Slots, message : Message]

\* A request accepted last is last in the inbox.
LEMMA InboxAppend ==
  ASSUME NEW a \in Seq(Entry), NEW e \in Entry
  PROVE  Inbox(Append(a, e)) = Append(Inbox(a), [client |-> e.sender, request |-> e.message.arg])
<1>1. PICK r : r = [client |-> e.sender, request |-> e.message.arg]
  OBVIOUS
<1>2. PICK b : b = Inbox(a)
  OBVIOUS
<1>3. /\ DOMAIN a = 1 .. Len(a) /\ Len(a) \in Nat
      /\ b = [i \in 1 .. Len(a) |-> [client |-> a[i].sender, request |-> a[i].message.arg]]
  BY <1>2 DEF Inbox
<1> DEFINE F(x) == [client |-> x.sender, request |-> x.message.arg]
<1>4. b = [i \in 1 .. Len(a) |-> F(a[i])] /\ r = F(e)
  BY <1>1, <1>3
<1>5. Inbox(Append(a, e)) = [i \in 1 .. Len(a) + 1 |-> F(Append(a, e)[i])]
  BY DEF Inbox
<1> HIDE DEF F
<1>6. b \in Seq({F(x) : x \in Entry}) /\ Len(b) = Len(a)
  <2>1. \A i \in 1 .. Len(a) : b[i] \in {F(x) : x \in Entry}
    BY <1>4
  <2> QED
    BY <1>3, <1>4, <2>1
<1>7. Append(b, r) = [i \in 1 .. Len(a) + 1 |-> IF i = Len(a) + 1 THEN r ELSE b[i]]
  BY <1>3, <1>6
<1>8. \A i \in 1 .. Len(a) + 1 :
        F(Append(a, e)[i]) = IF i = Len(a) + 1 THEN r ELSE b[i]
  BY <1>3, <1>4
<1> QED
  BY <1>1, <1>2, <1>5, <1>7, <1>8

\* The server answers the head of the inbox.
LEMMA InboxTail ==
  ASSUME NEW a \in Seq(Entry), a # <<>>
  PROVE  /\ Inbox(a) # <<>> /\ Inbox(Tail(a)) = Tail(Inbox(a))
         /\ Head(Inbox(a)) = [client |-> a[1].sender, request |-> a[1].message.arg]
<1> DEFINE F(x) == [client |-> x.sender, request |-> x.message.arg]
<1>1. PICK b : b = Inbox(a)
  OBVIOUS
<1>2. /\ Len(a) \in Nat /\ Len(a) >= 1 /\ DOMAIN a = 1 .. Len(a)
      /\ Tail(a) \in Seq(Entry) /\ Len(Tail(a)) = Len(a) - 1 /\ DOMAIN Tail(a) = 1 .. Len(a) - 1
      /\ \A i \in 1 .. Len(a) - 1 : Tail(a)[i] = a[i + 1]
  BY HeadTailProperties
<1>3. /\ b = [i \in 1 .. Len(a) |-> F(a[i])]
      /\ Inbox(Tail(a)) = [i \in 1 .. Len(a) - 1 |-> F(Tail(a)[i])]
  BY <1>1, <1>2 DEF Inbox
<1> HIDE DEF F
<1>4. PICK S : S = {F(x) : x \in Entry}
  OBVIOUS
<1>5. b \in Seq(S) /\ Len(b) = Len(a)
  <2>1. \A i \in 1 .. Len(a) : b[i] \in S
    BY <1>2, <1>3, <1>4
  <2> QED
    BY <1>2, <1>3, <2>1
<1>6. b # <<>> /\ Head(b) = F(a[1])
  BY <1>2, <1>3, <1>5
<1>7. Tail(b) = [i \in 1 .. Len(a) - 1 |-> b[i + 1]]
  <2>1. Tail(b) \in Seq(S) /\ Len(Tail(b)) = Len(a) - 1
    BY <1>2, <1>5, <1>6, HeadTailProperties
  <2>2. \A i \in 1 .. Len(a) - 1 : Tail(b)[i] = b[i + 1]
    BY <1>2, <1>5, <1>6, <2>1, HeadTailProperties
  <2>3. ASSUME NEW t \in Seq(S) PROVE t = [i \in 1 .. Len(t) |-> t[i]]
    OBVIOUS
  <2> QED
    BY <2>1, <2>2, <2>3
<1>8. \A i \in 1 .. Len(a) - 1 : F(Tail(a)[i]) = b[i + 1]
  BY <1>2, <1>3
<1>9. Inbox(Tail(a)) = Tail(b)
  BY <1>3, <1>7, <1>8
<1> QED
  BY <1>1, <1>6, <1>9 DEF F

-----------------------------------------------------------------------------
\* c's request m goes to t and nowhere else.
Sends(c, t, m) ==
  /\ Accepted(t)' = Append(Accepted(t), [sender |-> c, message |-> m])
  /\ \A x \in Slots \ {t} : SameMail(x)
  /\ t \in Servers /\ calling[t] = NoCall /\ calling[c] = NoCall

\* A call appends its request to what the server has accepted, whether it takes the
\* lock or queues.
LEMMA CallEffect ==
  ASSUME SInv, NEW c \in Slots \ {Idle}, NEW pid \in ServerPids, NEW flags \in FlagSets,
         NEW arg \in Requestable \ {0}, AppSend(c, pid, flags, arg)
  PROVE  Sends(c, ServerOf(pid), Request(c, flags, arg))
<1>1. PICK m : m = Request(c, flags, arg)
  OBVIOUS
<1>2. PICK e : e = [sender |-> c, message |-> m]
  OBVIOUS
<1>3. calling[c] = NoCall
  <2>1. resume[c] = "user"
    BY DEF AppSend, IpcSendQueued, IpcSendDirect, IpcSendBlocks, SendingTo, Running
  <2> QED
    BY <2>1 DEF SInv, SlotState, CallerState
<1>4. CASE IpcSendQueued(c, pid, flags, arg)
  <2>1. PICK t \in Slots :
          /\ SendingTo(c, pid, t)
          /\ procs[t].blocked_sender # NULL
          /\ procs' = [procs EXCEPT
                ![t].ipc_wait_queue = Append(@, [sender |-> c, message |-> Request(c, flags, arg)]),
                ![c].state = "IPC_SEND_WAIT"]
    BY <1>4 DEF IpcSendQueued
  <2>2. t # c /\ ServerOf(pid) = t /\ Open(t)
    BY <2>1, SendFacts DEF AppSend
  <2>3. PICK q : q = Queue(t)
    OBVIOUS
  <2>4. PICK new : new = Append(q, e)
    OBVIOUS
  <2>5. /\ procs'[t] = [procs[t] EXCEPT !.ipc_wait_queue = new]
        /\ procs'[c] = [procs[c] EXCEPT !.state = "IPC_SEND_WAIT"]
        /\ \A x \in Slots \ {c, t} : procs'[x] = procs[x]
    BY <1>1, <1>2, <2>1, <2>2, <2>3, <2>4, SlotTypes DEF Queue
  <2>6. /\ procs'[t].blocked_sender = procs[t].blocked_sender
        /\ procs'[t].pending_message = procs[t].pending_message
        /\ procs'[t].ipc_wait_queue = new
    BY <2>5, SlotTypes DEF Process
  <2>7. PICK l : l = [sender |-> procs[t].blocked_sender, message |-> procs[t].pending_message]
    OBVIOUS
  <2>8. Accepted(t) = <<l>> \o q /\ Accepted(t)' = <<l>> \o new
    BY <2>1, <2>3, <2>6, <2>7 DEF Accepted, Queue
  <2>9. q \in Seq(QueuedRequest)
    BY <2>3, SlotTypes
  <2>10. <<l>> \o Append(q, e) = Append(<<l>> \o q, e)
    BY <2>9
  <2>11. Accepted(t)' = Append(Accepted(t), e)
    BY <2>4, <2>8, <2>10
  <2>12. SameMail(c)
    BY <2>5, SlotTypes DEF SameMail, Process
  <2>13. \A x \in Slots \ {t} : SameMail(x)
    BY <2>5, <2>12 DEF SameMail
  <2>14. t \in Servers /\ calling[t] = NoCall
    BY <2>2, OpenFacts
  <2> QED
    BY <1>1, <1>2, <1>3, <2>2, <2>11, <2>13, <2>14 DEF Sends
<1>5. CASE IpcSendDirect(c, pid, flags, arg) \/ IpcSendBlocks(c, pid, flags, arg)
  <2>1. PICK t \in Slots, st \in {"RUNNABLE", "IPC_SEND_WAIT"} : \E new :
          /\ SendingTo(c, pid, t) /\ procs[t].blocked_sender = NULL
          /\ Locks(new, t, c, flags, arg) /\ Posts(c, st, t, new)
    BY <1>5, SendLocks
  <2>2. t # c /\ ServerOf(pid) = t /\ Open(t)
    BY <2>1, SendFacts DEF AppSend
  <2>3. procs[t].ipc_wait_queue = <<>>
    BY <2>1, SlotTypes DEF Queue, Holder
  <2>4. /\ procs'[t].blocked_sender = c /\ procs'[t].pending_message = m
        /\ procs'[t].ipc_wait_queue = <<>>
        /\ procs'[c] = [procs[c] EXCEPT !.state = st]
        /\ \A x \in Slots \ {c, t} : procs'[x] = procs[x]
    BY <1>1, <2>1, <2>3 DEF Locks, Posts
  <2>5. Accepted(t) = <<>> \o <<>> /\ Accepted(t)' = <<e>> \o <<>>
    BY <1>2, <2>1, <2>3, <2>4 DEF Accepted, NULL, Idle
  <2>6. Accepted(t) = <<>> /\ Accepted(t)' = <<e>>
    BY <2>5
  <2>7. Append(<<>>, e) = <<e>>
    OBVIOUS
  <2>8. SameMail(c)
    BY <2>4, SlotTypes DEF SameMail, Process
  <2>9. \A x \in Slots \ {t} : SameMail(x)
    BY <2>4, <2>8 DEF SameMail
  <2>10. t \in Servers /\ calling[t] = NoCall
    BY <2>2, OpenFacts
  <2> QED
    BY <1>1, <1>2, <1>3, <2>2, <2>6, <2>7, <2>9, <2>10 DEF Sends
<1> QED
  BY <1>4, <1>5 DEF AppSend

\* A call is Rpc's call.
LEMMA CallStep ==
  ASSUME SInv, SInv', NEW c \in Slots \ {Idle}, NEW pid \in ServerPids, NEW flags \in FlagSets,
         NEW arg \in Requestable \ {0}, AppSend(c, pid, flags, arg)
  PROVE  R!Call(c, ServerOf(pid), arg)
<1>1. Mapping /\ Mapping'
  BY MappingFacts, PTL
<1>2. PICK t, m, a : t = ServerOf(pid) /\ m = Request(c, flags, arg) /\ a = Accepted(t)
  OBVIOUS
<1>3. PICK e : e = [sender |-> c, message |-> m]
  OBVIOUS
<1>4. /\ Accepted(t)' = Append(a, e)
      /\ \A x \in Slots \ {t} : SameMail(x)
      /\ t \in Servers /\ calling[t] = NoCall /\ calling[c] = NoCall
  BY <1>2, <1>3, CallEffect DEF Sends
<1>5. calling' = [calling EXCEPT ![c] = [to |-> pid, flags |-> flags, arg |-> arg]]
  BY DEF AppSend
<1>6. /\ t \in Slots /\ Servers \subseteq Slots
      /\ a \in Seq(Entry) /\ e \in Entry /\ e.message.arg = arg /\ e.sender = c
  <2>1. arg \in Args /\ m \in Message
    BY <1>2, RequestType DEF SInv, Requestable
  <2>2. m.arg = arg
    BY <1>2 DEF Request
  <2> QED
    BY <1>2, <1>3, <1>4, <2>1, <2>2, AcceptedFacts, ServerFacts DEF Entry
<1>7. calling'[c] # NoCall /\ \A d \in Slots \ {c} : calling'[d] = calling[d]
  <2>1. calling'[c] = [to |-> pid, flags |-> flags, arg |-> arg]
    BY <1>5, SlotTypes
  <2> QED
    BY <1>5, <2>1, SlotTypes, ServerFacts DEF NoCall
<1>8. \A s \in Servers \ {t} : Accepted(s)' = Accepted(s)
  BY <1>4, <1>6 DEF SameMail, Accepted
<1>9. /\ Len(Append(a, e)) = Len(a) + 1 /\ Len(a) \in Nat
      /\ Append(a, e)[Len(a) + 1] = e
      /\ \A i \in 1 .. Len(a) : Append(a, e)[i] = a[i]
  BY <1>6
<1>10. Listed(c)'
  <2>1. Len(a) + 1 \in 1 .. Len(Append(a, e))
    BY <1>9
  <2>2. \E i \in 1 .. Len(Accepted(t)') : Accepted(t)'[i].sender = c
    BY <1>4, <1>6, <1>9, <2>1
  <2> QED
    BY <1>4, <2>2 DEF Listed
<1>11. ASSUME NEW d \in Slots \ {c} PROVE Listed(d)' <=> Listed(d)
  <2>1. \A i \in 1 .. Len(a) + 1 : i \in 1 .. Len(a) \/ i = Len(a) + 1
    BY <1>9
  <2>2. (\E i \in 1 .. Len(Append(a, e)) : Append(a, e)[i].sender = d)
          <=> \E i \in 1 .. Len(a) : a[i].sender = d
    BY <1>6, <1>9, <2>1
  <2>3. (\E i \in 1 .. Len(Accepted(t)') : Accepted(t)'[i].sender = d)
          <=> \E i \in 1 .. Len(Accepted(t)) : Accepted(t)[i].sender = d
    BY <1>2, <1>4, <2>2
  <2>4. \A s \in Servers :
          (\E i \in 1 .. Len(Accepted(s)') : Accepted(s)'[i].sender = d)
          <=> \E i \in 1 .. Len(Accepted(s)) : Accepted(s)[i].sender = d
    BY <1>8, <2>3
  <2> QED
    BY <2>4 DEF Listed
<1>12. Phase(c) = R!Idle /\ Phase(c)' = R!Waiting
  BY <1>4, <1>7, <1>10 DEF Phase
<1>13. \A d \in Slots \ {c} : Phase(d)' = Phase(d)
  BY <1>4, <1>7, <1>11 DEF Phase, SameMail
<1>14. callBar[c] = R!Idle /\ callBar' = [callBar EXCEPT ![c] = R!Waiting]
  BY <1>1, <1>12, <1>13 DEF Mapping
<1>15. inboxBar' = [inboxBar EXCEPT ![t] = Append(@, [client |-> c, request |-> arg])]
  <2>1. Inbox(Accepted(t))' = Append(Inbox(a), [client |-> c, request |-> arg])
    <3>1. Inbox(Accepted(t))' = Inbox(Append(a, e))
      BY <1>4 DEF Inbox
    <3> QED
      BY <1>6, <3>1, InboxAppend
  <2>2. \A s \in Servers \ {t} : Inbox(Accepted(s))' = Inbox(Accepted(s))
    BY <1>8 DEF Inbox
  <2> QED
    BY <1>1, <1>2, <1>4, <2>1, <2>2 DEF Mapping
<1> QED
  BY <1>2, <1>14, <1>15 DEF R!Call

\* A reply takes the request it answers, and it alone, out of what the server has accepted.
LEMMA ReplyTakesHead ==
  ASSUME SInv, NEW s \in Slots \ {Idle}, Grants(s), Holder(s) # NULL
  PROVE  Accepted(s) # <<>> /\ Accepted(s)' = Tail(Accepted(s))
<1>1. PICK q : q = Queue(s)
  OBVIOUS
<1>2. PICK l : l = [sender |-> procs[s].blocked_sender, message |-> procs[s].pending_message]
  OBVIOUS
<1>3. Accepted(s) = <<l>> \o q
  BY <1>1, <1>2 DEF Accepted, Holder, Queue
<1>4. q \in Seq(QueuedRequest)
  BY <1>1, SlotTypes
<1>5. <<l>> \o q # <<>> /\ Tail(<<l>> \o q) = q
  BY <1>4
<1>6. Accepted(s)' = q
  <2>1. CASE q = <<>>
    <3>1. procs'[s].blocked_sender = NULL /\ procs'[s].ipc_wait_queue = <<>>
      BY <1>1, <2>1 DEF Grants, Holder, Queue
    <3>2. Accepted(s)' = <<>> \o <<>>
      BY <3>1 DEF Accepted
    <3> QED
      BY <2>1, <3>2
  <2>2. CASE q # <<>>
    <3>1. q[1] \in QueuedRequest /\ q[1] = [sender |-> q[1].sender, message |-> q[1].message]
      <4>1. q[1] \in QueuedRequest
        BY <1>4, <2>2
      <4> QED
        BY <4>1 DEF QueuedRequest
    <3>2. /\ procs'[s].blocked_sender = q[1].sender /\ procs'[s].pending_message = q[1].message
          /\ procs'[s].ipc_wait_queue = Tail(q)
      BY <1>1, <2>2 DEF Grants, Granted, Queue
    <3>3. q[1].sender # NULL
      BY <3>1 DEF QueuedRequest, Idle, NULL
    <3>4. Accepted(s)' = <<q[1]>> \o Tail(q)
      BY <3>1, <3>2, <3>3 DEF Accepted
    <3>5. <<q[1]>> \o Tail(q) = q
      BY <1>4, <2>2
    <3> QED
      BY <3>4, <3>5
  <2> QED
    BY <2>1, <2>2
<1> QED
  BY <1>3, <1>5, <1>6

\* A reply is Rpc's answer.
LEMMA AnswerStep ==
  ASSUME SInv, SInv', Failures = {}, NEW s \in Slots \ {Idle}, ServerReply(s)
  PROVE  s \in Servers /\ R!Answer(s)
<1>1. Mapping /\ Mapping'
  BY MappingFacts, PTL
<1>2. PICK h, a : h = Holder(s) /\ a = Accepted(s)
  OBVIOUS
<1>3. /\ serving[s] # NullMessage /\ h \in Slots \ {Idle, s}
      /\ Answers(s, h, Handle(serving[s].arg)) /\ Grants(s)
      /\ UNCHANGED calling
  BY <1>2, ReplyFacts DEF ServerReply
<1>4. /\ Open(s) /\ procs[s].pending_message = serving[s] /\ Asks(h, s, serving[s])
  BY <1>2, <1>3, HandlerFacts
<1>5. s \in Servers /\ calling[s] = NoCall
  BY <1>4, OpenFacts
<1>6. h \notin Servers /\ calling[h].to = s + 1 /\ calling[h] # NoCall
  <2>1. ~Open(h) /\ calling[h].to = s + 1
    BY <1>3, <1>4, AsksFacts DEF Asks
  <2> QED
    BY <1>5, <2>1, ServersStay, ServerFacts DEF NoCall
<1>7. \A x \in Slots \ {s, h} : procs'[x] = procs[x]
  BY <1>3 DEF Answers
<1>8. \A x \in Servers \ {s} : Accepted(x)' = Accepted(x)
  BY <1>6, <1>7, ServerFacts DEF Accepted
<1>9. a # <<>> /\ Accepted(s)' = Tail(a)
  BY <1>2, <1>3, ReplyTakesHead DEF Idle, NULL
<1>10. /\ a \in Seq(Entry) /\ a[1].sender = h /\ a[1].message = serving[s]
  BY <1>2, <1>3, <1>4, AcceptedFacts DEF Entry, Idle, NULL
<1>11. /\ Len(a) \in Nat /\ Len(a) >= 1 /\ Len(Tail(a)) = Len(a) - 1
       /\ \A i \in 1 .. Len(Tail(a)) : i + 1 \in 1 .. Len(a) /\ Tail(a)[i] = a[i + 1]
       /\ \A i \in 1 .. Len(a) : i = 1 \/ (i - 1 \in 1 .. Len(Tail(a)) /\ Tail(a)[i - 1] = a[i])
  <2>1. /\ Len(a) \in Nat /\ Len(a) >= 1 /\ Len(Tail(a)) = Len(a) - 1
        /\ \A i \in 1 .. Len(Tail(a)) : Tail(a)[i] = a[i + 1]
    BY <1>9, <1>10, HeadTailProperties
  <2>2. ASSUME NEW i \in 1 .. Len(a), i # 1
        PROVE  i - 1 \in 1 .. Len(Tail(a)) /\ Tail(a)[i - 1] = a[i]
    <3>1. i - 1 \in 1 .. Len(Tail(a)) /\ (i - 1) + 1 = i
      BY <2>1, <2>2
    <3> QED
      BY <2>1, <3>1
  <2> QED
    BY <2>1, <2>2
<1>12. ~Listed(h)'
  <2>1. ASSUME NEW x \in Servers \ {s}, NEW i \in 1 .. Len(Accepted(x)),
               Accepted(x)[i].sender = h
        PROVE  FALSE
    <3>1. x \in Slots /\ Open(x)
      BY ServersStay
    <3>2. Asks(h, x, Accepted(x)[i].message)
      BY <2>1, <3>1, AcceptedAsks
    <3>3. x + 1 = s + 1
      BY <1>6, <3>2 DEF Asks
    <3> QED
      BY <3>1, <3>3, SlotsType
  <2>2. ASSUME NEW i \in 1 .. Len(Tail(a)), Tail(a)[i].sender = h
        PROVE  FALSE
    <3>1. /\ i + 1 \in 1 .. Len(a) /\ 1 \in 1 .. Len(a)
          /\ a[i + 1].sender = h /\ i + 1 # 1
      BY <1>11, <2>2
    <3> QED
      BY <1>2, <1>4, <1>10, <3>1, AcceptedAsks
  <2> QED
    BY <1>8, <1>9, <2>1, <2>2 DEF Listed
<1>13. ASSUME NEW d \in Slots \ {h} PROVE Listed(d)' <=> Listed(d)
  <2>1. (\E i \in 1 .. Len(Tail(a)) : Tail(a)[i].sender = d)
          <=> \E i \in 1 .. Len(a) : a[i].sender = d
    BY <1>10, <1>11
  <2>2. \A x \in Servers :
          (\E i \in 1 .. Len(Accepted(x)') : Accepted(x)'[i].sender = d)
          <=> \E i \in 1 .. Len(Accepted(x)) : Accepted(x)[i].sender = d
    BY <1>2, <1>8, <1>9, <2>1
  <2> QED
    BY <2>2 DEF Listed
<1>14. Phase(h)' = R!Answered(Handle(serving[s].arg))
  BY <1>3, <1>6, <1>12 DEF Phase, Answers
<1>15. \A d \in Slots \ {h} : Phase(d)' = Phase(d)
  BY <1>3, <1>5, <1>7, <1>13 DEF Phase
<1>16. callBar' = [callBar EXCEPT ![h] = R!Answered(Handle(serving[s].arg))]
  BY <1>1, <1>14, <1>15 DEF Mapping
<1>17. /\ inboxBar[s] = Inbox(a)
       /\ inboxBar' = [inboxBar EXCEPT ![s] = Tail(Inbox(a))]
  <2>1. Inbox(Accepted(s))' = Tail(Inbox(a))
    <3>1. Inbox(Accepted(s))' = Inbox(Tail(a))
      BY <1>9 DEF Inbox
    <3> QED
      BY <1>9, <1>10, <3>1, InboxTail
  <2>2. \A x \in Servers \ {s} : Inbox(Accepted(x))' = Inbox(Accepted(x))
    BY <1>8 DEF Inbox
  <2> QED
    BY <1>1, <1>2, <1>5, <2>1, <2>2 DEF Mapping
<1>18. /\ Inbox(a) # <<>>
       /\ Head(Inbox(a)).client = h /\ Head(Inbox(a)).request = serving[s].arg
  BY <1>9, <1>10, InboxTail
<1> QED
  BY <1>5, <1>16, <1>17, <1>18 DEF R!Answer

\* The return of a call is Rpc's return.
LEMMA ReturnStep ==
  ASSUME SInv, SInv', Failures = {}, NEW c \in Slots \ {Idle}, AppReturn(c)
  PROVE  R!Return(c)
<1>1. Mapping /\ Mapping'
  BY MappingFacts, PTL
<1>2. /\ kernel = "up" /\ ~yielding /\ current_proc = c /\ resume[c] = "send"
      /\ UNCHANGED procs /\ calling' = [calling EXCEPT ![c] = NoCall]
  BY DEF AppReturn, IpcSendReturn
<1>3. calling[c].to \in ServerPids /\ calling[c] # NoCall
  BY <1>2, ServerFacts DEF SInv, SlotState, CallerState, NoCall
<1>4. ~Listed(c)
  <2> SUFFICES ASSUME NEW x \in Servers, NEW i \in 1 .. Len(Accepted(x)),
                      Accepted(x)[i].sender = c
               PROVE  FALSE
    BY DEF Listed
  <2>1. x \in Slots /\ Open(x)
    BY ServersStay
  <2> QED
    BY <1>2, <2>1, AcceptedAsks, RunnerUnregistered
<1>5. calling'[c] = NoCall /\ \A d \in Slots \ {c} : calling'[d] = calling[d]
  BY <1>2, SlotTypes
<1>6. \A x \in Servers : Accepted(x)' = Accepted(x)
  BY <1>2 DEF Accepted
<1>7. \A d \in Slots : Listed(d)' <=> Listed(d)
  BY <1>6 DEF Listed
<1>8. Phase(c).is = "answered" /\ Phase(c)' = R!Idle
  BY <1>3, <1>4, <1>5 DEF Phase, R!Answered
<1>9. \A d \in Slots \ {c} : Phase(d)' = Phase(d)
  BY <1>2, <1>5, <1>7 DEF Phase
<1>10. callBar[c].is = "answered" /\ callBar' = [callBar EXCEPT ![c] = R!Idle]
  BY <1>1, <1>8, <1>9 DEF Mapping
<1>11. UNCHANGED inboxBar
  <2>1. \A x \in Servers : Inbox(Accepted(x))' = Inbox(Accepted(x))
    BY <1>6 DEF Inbox
  <2> QED
    BY <1>1, <2>1 DEF Mapping
<1> QED
  BY <1>10, <1>11 DEF R!Return

-----------------------------------------------------------------------------
(* The refinement *)

\* No call is out and no request is accepted when the kernel starts.
LEMMA InitIsRpcInit == ServicesInit => R!Init
<1> SUFFICES ASSUME ServicesInit PROVE R!Init
  OBVIOUS
<1>1. SInv /\ Mapping
  BY InitSInv, MappingFacts
<1>2. ASSUME NEW s \in Servers PROVE Inbox(Accepted(s)) = <<>>
  <2>1. s \in Slots /\ serving[s] = NullMessage
    BY ServerFacts DEF ServicesInit
  <2>2. Holder(s) = NULL
    <3>1. s # Idle /\ s \in 1 .. Len(Boot)
      BY <2>1, ServerFacts, SlotsType DEF Servers, Idle
    <3>2. procs[s] = NewProcess(Boot[s], s + 1)
      BY <2>1, <3>1 DEF ServicesInit, Init
    <3> QED
      BY <3>2, NewProcessFields DEF Holder
  <2>3. Accepted(s) \in Seq(Entry) /\ Len(Accepted(s)) = 0
    BY <1>1, <2>1, <2>2, AcceptedFacts DEF Entry
  <2>4. Accepted(s) = <<>>
    BY <2>3
  <2> QED
    BY <2>4 DEF Inbox
<1>3. ASSUME NEW c \in Slots PROVE Phase(c) = R!Idle
  BY <1>3 DEF Phase, ServicesInit
<1> QED
  BY <1>1, <1>2, <1>3 DEF R!Init, Mapping

\* Every step of the programs is a step of Rpc, or one that Rpc does not see.
LEMMA StepIsRpcStep ==
  ASSUME SInv, SInv', Failures = {}, [ServicesNext]_servicesVars
  PROVE  [R!Next]_(R!vars)
<1>1. ASSUME UNCHANGED <<inboxBar, callBar>> PROVE UNCHANGED R!vars
  BY <1>1 DEF R!vars
<1>2. CASE Switch
  BY <1>1, <1>2, SwitchIsSilent
<1>3. ASSUME NEW s \in Slots \ {Idle}, ServerStep(s) PROVE [R!Next]_(R!vars)
  <2>1. CASE ServerRecv(s) \/ ServerRecvReturn(s) \/ ServerWrite(s)
    BY <1>1, <2>1, HandlingIsSilent
  <2>2. CASE ServerReply(s)
    BY <2>2, AnswerStep DEF R!Next
  <2>3. CASE ServerExit(s)
    BY <2>3, NoServerExits
  <2> QED
    BY <1>3, <2>1, <2>2, <2>3 DEF ServerStep
<1>4. ASSUME NEW c \in Slots \ {Idle}, AppStep(c) PROVE [R!Next]_(R!vars)
  <2>1. CASE \/ AppYield(c) \/ AppExit(c)
             \/ \E arg \in Requestable \ {0} : AppPrepare(c, arg)
             \/ \E pid \in ServerPids : AppSendFails(c, pid)
    BY <1>1, <2>1, AppsAreSilent
  <2>2. CASE AppSpawn(c)
    BY <1>1, <2>2, SpawnIsSilent
  <2>3. CASE AppCall(c)
    <3>1. PICK pid \in ServerPids, arg \in Requestable \ {0}, flags \in FlagSets :
            AppSend(c, pid, flags, arg)
      BY <2>3 DEF AppCall
    <3>2. ServerOf(pid) \in Servers /\ arg \in Args
      BY ServerFacts DEF Requestable
    <3>3. R!Call(c, ServerOf(pid), arg)
      BY <3>1, CallStep
    <3> QED
      BY <3>2, <3>3 DEF R!Next
  <2>4. CASE AppReturn(c)
    BY <2>4, ReturnStep DEF R!Next
  <2> QED
    BY <1>4, <2>1, <2>2, <2>3, <2>4 DEF AppStep
<1>5. CASE UNCHANGED servicesVars
  <2>1. UNCHANGED procs /\ UNCHANGED calling
    BY <1>5 DEF servicesVars
  <2>2. \A x \in Slots : SameMail(x)
    BY <2>1 DEF SameMail
  <2> QED
    BY <1>1, <2>1, <2>2, SilentStep
<1> QED
  BY <1>2, <1>3, <1>4, <1>5 DEF ServicesNext

\* When no server fails, ou_ipc_send, ou_ipc_recv and ou_ipc_reply together are remote
\* procedure calls: servers answer requests in the order of the calls, each once, and a
\* call returns with the response to its own request.
THEOREM ServicesImplementRpc ==
  ASSUME Failures = {}
  PROVE  ServicesSpec => ImplementsRpc
<1>1. ServicesInit => R!Init
  BY InitIsRpcInit
<1>2. SInv /\ SInv' /\ [ServicesNext]_servicesVars => [R!Next]_(R!vars)
  BY StepIsRpcStep
<1> QED
  BY <1>1, <1>2, ServicesInvariant, PTL DEF ServicesSpec, ImplementsRpc, R!Spec
=============================================================================
