-------------------------------- MODULE Rpc --------------------------------
(***************************************************************************)
(* What otium's IPC promises to the programs: a remote procedure call.     *)
(* Each server has an inbox and answers its requests one at a time, in the *)
(* order in which the calls were made.  A call returns once, with the      *)
(* response to that very request.                                          *)
(***************************************************************************)
EXTENDS Integers, Sequences

CONSTANTS
  Servers,      \* the processes that answer
  Clients,      \* the processes that call
  Requests,     \* what can be asked
  Handle(_)     \* the response to a request

Idle == [is |-> "idle"]
Waiting == [is |-> "waiting"]
Answered(r) == [is |-> "answered", response |-> r]

VARIABLES
  inbox,    \* requests each server has accepted and not answered yet
  call      \* where each client is in its call

vars == <<inbox, call>>

Init ==
  /\ inbox = [s \in Servers |-> <<>>]
  /\ call = [c \in Clients |-> Idle]

Call(c, s, r) ==
  /\ call[c] = Idle
  /\ call' = [call EXCEPT ![c] = Waiting]
  /\ inbox' = [inbox EXCEPT ![s] = Append(@, [client |-> c, request |-> r])]

\* The server answers its oldest request, and it alone.
Answer(s) ==
  /\ inbox[s] # <<>>
  /\ LET r == Head(inbox[s])
     IN call' = [call EXCEPT ![r.client] = Answered(Handle(r.request))]
  /\ inbox' = [inbox EXCEPT ![s] = Tail(@)]

Return(c) ==
  /\ call[c].is = "answered"
  /\ call' = [call EXCEPT ![c] = Idle]
  /\ UNCHANGED inbox

Next ==
  \/ \E c \in Clients, s \in Servers, r \in Requests : Call(c, s, r)
  \/ \E s \in Servers : Answer(s)
  \/ \E c \in Clients : Return(c)

Spec == Init /\ [][Next]_vars
=============================================================================
