------------------------------ MODULE Keyboard ------------------------------
(***************************************************************************)
(* The keyboard driver (os/ot/user/keyboard/backend-virtio.cpp) over its   *)
(* event queue.  The device runs on its own: it fills a posted buffer for  *)
(* each event, and loses the event when none is posted.  A poll takes one  *)
(* used buffer, reads it, clears it and posts it again.                    *)
(*                                                                         *)
(* A descriptor index of KEYBOARD_EVENT_BUFFERS or more is refused by the  *)
(* code; no device gives one back, as none was posted.                     *)
(***************************************************************************)
EXTENDS VirtQueue

CONSTANTS
  KEYBOARD_EVENT_BUFFERS,
  Keys,           \* keys that are reported
  ModifierKeys,   \* shift, control and alt keys
  ModifierOf      \* the modifier each of them is

ASSUME KeyboardAssumption ==
  /\ KEYBOARD_EVENT_BUFFERS \in 1 .. QUEUE_SIZE
  /\ ModifierOf \in [ModifierKeys -> {"SHIFT", "CTRL", "ALT"}]
  /\ Keys \cap ModifierKeys = {} /\ "sync" \notin Keys \cup ModifierKeys

VARIABLES
  eventq,
  event_buffers,
  mods,        \* shift_held, ctrl_held, alt_held
  polling,     \* the descriptor poll_key has in hand, or NoDesc
  key_event    \* what the last poll reported

keyboardVars == <<eventq, event_buffers, mods, polling, key_event>>

Buffers == 0 .. KEYBOARD_EVENT_BUFFERS - 1
NoDesc == -1
NoKey == [key |-> "none", pressed |-> FALSE, mods |-> {}]
InputEvents == [key : Keys \cup ModifierKeys \cup {"sync"}, pressed : BOOLEAN]
Cleared == [key |-> "cleared", pressed |-> FALSE]

\* Mutant: puts the buffer back without making it available.
PostUnavailable(q, d) == ChainFrom(q, d, <<In(d)>>)
Post(q, d) == Submit(ChainFrom(q, d, <<In(d)>>), d)

\* Mutant: a modifier's release is taken for another press.
HeldAfterSticky(down, ev) ==
  IF ev.key \in ModifierKeys THEN down \cup {ModifierOf[ev.key]} ELSE down
\* process_raw_event: what a modifier key does.
HeldAfter(down, ev) ==
  CASE ev.key \in ModifierKeys /\ ev.pressed  -> down \cup {ModifierOf[ev.key]}
    [] ev.key \in ModifierKeys /\ ~ev.pressed -> down \ {ModifierOf[ev.key]}
    [] OTHER                                  -> down

KeyEvent(down, ev) == [key |-> ev.key, pressed |-> ev.pressed, mods |-> down]

-----------------------------------------------------------------------------
\* poll_key up to where it has read the event.
PollTake ==
  /\ polling = NoDesc
  /\ has_used(eventq)
  /\ LET d == FirstUsed(eventq)
         ev == event_buffers[d]
     IN /\ polling' = d
        /\ mods' = HeldAfter(mods, ev)
        /\ key_event' = IF ev.key \in Keys THEN KeyEvent(mods, ev) ELSE NoKey
  /\ eventq' = GetUsed(eventq)
  /\ UNCHANGED event_buffers

\* The rest of it: the buffer is cleared and posted again.
PollRepost ==
  /\ polling # NoDesc
  /\ event_buffers' = [event_buffers EXCEPT ![polling] = Cleared]
  /\ eventq' = Post(eventq, polling)
  /\ polling' = NoDesc
  /\ UNCHANGED <<mods, key_event>>

PollNothing ==
  /\ polling = NoDesc
  /\ ~has_used(eventq)
  /\ key_event' = NoKey
  /\ UNCHANGED <<eventq, event_buffers, mods, polling>>

\* The device delivers an event.
DeviceEvent(ev) ==
  /\ has_avail(eventq)
  /\ event_buffers' = [event_buffers EXCEPT ![eventq.desc[FirstAvail(eventq)].buf] = ev]
  /\ eventq' = DeviceUses(eventq)
  /\ UNCHANGED <<mods, polling, key_event>>

\* No buffer is posted: the event is lost.
DeviceLoses == ~has_avail(eventq) /\ UNCHANGED keyboardVars

\* VirtioKeyboardBackend::init: every buffer is posted.
KeyboardInit ==
  LET posted[n \in 0 .. KEYBOARD_EVENT_BUFFERS] ==
        IF n = 0 THEN EmptyQueue ELSE Post(posted[n - 1], n - 1)
  IN /\ eventq = posted[KEYBOARD_EVENT_BUFFERS]
     /\ event_buffers = [b \in Buffers |-> Cleared]
     /\ mods = {}
     /\ polling = NoDesc
     /\ key_event = NoKey

KeyboardNext ==
  \/ PollTake
  \/ PollRepost
  \/ PollNothing
  \/ \E ev \in InputEvents : DeviceEvent(ev)
  \/ DeviceLoses

KeyboardSpec == KeyboardInit /\ [][KeyboardNext]_keyboardVars

-----------------------------------------------------------------------------
\* Every event buffer is posted to the device, given back by it, or in the hands of
\* poll_key, one of the three and once, and what the device has is a cleared buffer:
\* none leaks however often the indices wrap (post_buffers, poll_key, submit, get_used).
EventBuffersAccounted ==
  LET taken == IF polling = NoDesc THEN {} ELSE {polling}
  IN /\ QueueSound(eventq)
     /\ WithDevice(eventq) \cup GivenBack(eventq) \cup taken = Buffers
     /\ taken \cap (WithDevice(eventq) \cup GivenBack(eventq)) = {}
     /\ \A d \in WithDevice(eventq) : event_buffers[d] = Cleared /\ eventq.desc[d] =
          [buf |-> d, writable |-> TRUE, chained |-> FALSE, next |-> 0]

\* The events the device has given back and no poll has taken, in their order.
Delivered ==
  [i \in 1 .. (eventq.used_idx - eventq.last_used_idx) % IDX_MOD |->
    event_buffers[eventq.used[RingIdx((eventq.last_used_idx + i - 1) % IDX_MOD)]]]

\* The modifiers before the first of the events, and after each.
HeldThrough(down, evs) ==
  LET after[i \in 0 .. Len(evs)] == IF i = 0 THEN down ELSE HeldAfter(after[i - 1], evs[i])
  IN after

\* Each of these events with the modifiers that the events before it leave, and the
\* modifiers that the last leaves.
streamBar ==
  [i \in 1 .. Len(Delivered) |-> KeyEvent(HeldThrough(mods, Delivered)[i - 1], Delivered[i])]
heldBar == HeldThrough(mods, Delivered)[Len(Delivered)]

K == INSTANCE KeyStream WITH stream <- streamBar, held <- heldBar, reported <- key_event,
                             None <- NoKey

\* Polls report what the device delivered, in its order, once, with the modifiers that
\* the deliveries before it left down (poll_key, process_raw_event, get_used).
KeyboardImplementsStream == K!Spec
=============================================================================
