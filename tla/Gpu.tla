-------------------------------- MODULE Gpu --------------------------------
(***************************************************************************)
(* The graphics driver (os/ot/user/graphics/backend-virtio.cpp): commands  *)
(* to the device go through one command page and one response page, one at *)
(* a time.  The driver spins until the device has answered or its patience *)
(* is over; the device runs on its own and reads the command page when it  *)
(* gets to it.                                                             *)
(*                                                                         *)
(* The countdown is an unsigned number: testing it once more when it is 0  *)
(* leaves it at its largest value, here Wrapped.                           *)
(***************************************************************************)
EXTENDS VirtQueue

CONSTANTS
  Patience,   \* spins before the driver gives up, 1000000 in the code
  Frames,     \* contents of the framebuffer
  Late        \* whether the device may take longer than that

ASSUME GpuAssumption == Patience \in Nat \ {0} /\ Late \in BOOLEAN /\ QUEUE_SIZE >= 2

VARIABLES
  controlq,
  cmd_page,    \* the command the page holds
  resp_page,   \* the type field of the response page
  script,      \* the commands the routine at hand has still to send
  timeout,     \* the countdown, NotWaiting outside send_command
  result,      \* what the last send_command returned
  frame,       \* the framebuffer
  asked,       \* the framebuffer when the last flush was asked for
  host         \* the device's resource, and what it shows

gpuVars == <<controlq, cmd_page, resp_page, script, timeout, result, frame, asked, host>>

NotWaiting == -1
Wrapped == Patience + 1
CommandTimeout == "0xFFFFFFFF"
Zeroed == "0"
SetUp == <<"CREATE_2D", "ATTACH_BACKING", "SET_SCANOUT">>
\* Mutant: a flush goes out before the transfer.
TransferSwapped == <<"RESOURCE_FLUSH", "TRANSFER_TO_HOST_2D">>
Transfer == <<"TRANSFER_TO_HOST_2D", "RESOURCE_FLUSH">>
Blank == "blank"

NoResource == [stage |-> 0, copy |-> Blank, shown |-> Blank]

-----------------------------------------------------------------------------
(* The device, as the driver relies on it *)

\* What a command does to the resource, and whether the device can accept it.
Acceptable(command) ==
  CASE command = "CREATE_2D"      -> host.stage = 0
    [] command = "ATTACH_BACKING" -> host.stage = 1
    [] command = "SET_SCANOUT"    -> host.stage >= 2
    [] OTHER                      -> host.stage >= 2

Executed(command) ==
  CASE command \in {"CREATE_2D", "ATTACH_BACKING"} -> [host EXCEPT !.stage = @ + 1]
    [] command = "SET_SCANOUT"                     -> [host EXCEPT !.stage = 3]
    [] command = "TRANSFER_TO_HOST_2D"             -> [host EXCEPT !.copy = frame]
    [] command = "RESOURCE_FLUSH" /\ host.stage = 3 -> [host EXCEPT !.shown = host.copy]
    [] OTHER                                       -> host

\* The device may refuse any command: the driver looks at the type of every response.
GpuAnswers(accepts) ==
  /\ has_avail(controlq)
  /\ LET bufs == ChainBufs(controlq, FirstAvail(controlq))
     IN bufs[1].buf = "cmd" /\ bufs[2].buf = "resp" /\ bufs[2].writable
  /\ accepts => Acceptable(cmd_page)
  /\ host' = IF accepts THEN Executed(cmd_page) ELSE host
  /\ resp_page' = IF accepts THEN "RESP_OK_NODATA" ELSE "RESP_ERR_UNSPEC"
  /\ controlq' = DeviceUses(controlq)
  /\ UNCHANGED <<cmd_page, script, timeout, result, frame, asked>>

GpuRuns == \E accepts \in BOOLEAN : GpuAnswers(accepts)

-----------------------------------------------------------------------------
(* send_command *)

\* The command is put together in the command page, the response page zeroed.
Send ==
  /\ script # <<>> /\ timeout = NotWaiting
  /\ cmd_page' = Head(script)
  /\ resp_page' = Zeroed
  /\ controlq' = Submit(ChainFrom(controlq, 0, <<Out("cmd"), In("resp")>>), 0)
  /\ timeout' = Patience
  /\ UNCHANGED <<script, result, frame, asked, host>>

Spin ==
  /\ ~has_used(controlq)
  /\ timeout > IF Late THEN 0 ELSE 1
  /\ timeout' = timeout - 1
  /\ UNCHANGED <<controlq, cmd_page, resp_page, script, result, frame, asked, host>>

\* The routine goes on after an OK response and gives up after any other.  Giving up is
\* only logged: init returns true, and flushes are served, whatever became of the set-up.
Returns(type) ==
  /\ result' = type
  /\ script' = IF type = "RESP_OK_NODATA" THEN Tail(script) ELSE <<>>
  /\ timeout' = NotWaiting
  /\ UNCHANGED <<cmd_page, resp_page, frame, asked, host>>

\* The used entry stays where it is.
ReportsTimeout(countdown) ==
  /\ countdown = 0
  /\ Returns(CommandTimeout)
  /\ UNCHANGED controlq

\* Mutant: leaves the used entry for the next command.
ReturnsResponseUnused(countdown) ==
  /\ countdown # 0
  /\ Returns(resp_page)
  /\ UNCHANGED controlq
ReturnsResponse(countdown) ==
  /\ countdown # 0
  /\ Returns(resp_page)
  /\ controlq' = GetUsed(controlq)

\* The loop ends because there is a used entry, or because the countdown is over; the
\* test that finds it over wraps it.
LoopEnds ==
  /\ timeout # NotWaiting
  /\ \/ /\ has_used(controlq)
        /\ ReportsTimeout(timeout) \/ ReturnsResponse(timeout)
     \/ /\ ~has_used(controlq) /\ timeout = 0
        /\ ReturnsResponse(Wrapped)

\* The graphics server is asked to flush.  Until then applications draw.
Flush ==
  /\ script = <<>>
  /\ script' = Transfer
  /\ asked' = frame
  /\ UNCHANGED <<controlq, cmd_page, resp_page, timeout, result, frame, host>>

Draw ==
  /\ script = <<>>
  /\ frame' \in Frames
  /\ UNCHANGED <<controlq, cmd_page, resp_page, script, timeout, result, asked, host>>

\* VirtioGraphicsBackend::init, up to the first command of create_framebuffer.
GpuInit ==
  /\ controlq = EmptyQueue
  /\ cmd_page = "none"
  /\ resp_page = Zeroed
  /\ script = SetUp
  /\ timeout = NotWaiting
  /\ result = Zeroed
  /\ frame = Blank
  /\ asked = Blank
  /\ host = NoResource

GpuNext == Send \/ Spin \/ LoopEnds \/ Flush \/ Draw \/ GpuRuns

GpuSpec == GpuInit /\ [][GpuNext]_gpuVars

-----------------------------------------------------------------------------
\* While the device answers in time, accepting commands or refusing them, the two pages are
\* the driver's whenever it writes them, and one command is under way at most.  A flush whose
\* commands were all accepted, those of the set-up included (stage 3), has put on the screen
\* what the applications had drawn.  One that is refused anywhere shows nothing, but leaves
\* nothing behind that a later one would show: the device's copy is the frame of the flush at
\* hand whenever it is told to show it (send_command, create_framebuffer, flush).
FlushShowsTheFrame ==
  /\ QueueSound(controlq)
  /\ timeout = NotWaiting => WithDevice(controlq) \cup GivenBack(controlq) = {}
  /\ script = <<>> /\ result = "RESP_OK_NODATA" /\ host.stage = 3 => host.shown = asked
  /\ script = <<"RESOURCE_FLUSH">> => host.copy = asked

\* "Wait for response (simple polling)" and "Command timeout!": send_command returns the
\* type the device has answered with, or says that time was out.
WaitsForResponse ==
  [][timeout # NotWaiting /\ timeout' = NotWaiting =>
       result' = CommandTimeout \/ resp_page # Zeroed]_gpuVars
=============================================================================
