----------------------------- MODULE KeyStream -----------------------------
(***************************************************************************)
(* What the keyboard promises: the keys that are pressed and released come *)
(* out in order, once, each with the modifiers that were down by then.  A  *)
(* modifier may have two keys: it is down from when one of them is pressed *)
(* until one of them is released, whichever they are.                      *)
(***************************************************************************)
EXTENDS Integers, Sequences

CONSTANTS
  Keys,         \* keys that are reported
  ModifierKeys,
  ModifierOf,   \* what each modifier key means
  None          \* the answer when there is no key to report

VARIABLES
  stream,    \* what happened and has not been asked for
  held,      \* the modifiers that are down
  reported   \* the answer to the last poll

vars == <<stream, held, reported>>

Happens(key, pressed) ==
  /\ stream' = Append(stream, [key |-> key, pressed |-> pressed, mods |-> held])
  /\ held' = CASE key \in ModifierKeys /\ pressed  -> held \cup {ModifierOf[key]}
               [] key \in ModifierKeys /\ ~pressed -> held \ {ModifierOf[key]}
               [] OTHER                            -> held
  /\ UNCHANGED reported

\* Modifiers, and events that are not keys, are answered with "no key".
Poll ==
  /\ stream # <<>>
  /\ stream' = Tail(stream)
  /\ reported' = IF Head(stream).key \in Keys THEN Head(stream) ELSE None
  /\ UNCHANGED held

PollNothing ==
  /\ stream = <<>>
  /\ reported' = None
  /\ UNCHANGED <<stream, held>>

Init == stream = <<>> /\ held = {} /\ reported = None

Next ==
  \/ \E key \in Keys \cup ModifierKeys \cup {"sync"}, pressed \in BOOLEAN : Happens(key, pressed)
  \/ Poll
  \/ PollNothing

Spec == Init /\ [][Next]_vars
=============================================================================
