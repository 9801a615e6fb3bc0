----------------------------- MODULE Conditions -----------------------------
(***************************************************************************)
(* Conditions and restarts of the language (lang/src/otium.c): the special *)
(* forms that bind handlers, restarts and params for their extent, the     *)
(* walk over the handlers, the ways to unwind, and interrupts.             *)
(*                                                                         *)
(* The bindings are linked lists of frames that live in the C frames of    *)
(* the forms.  stack holds the forms and calls that are under way, the     *)
(* innermost last.  Unless it is unwinding, the code inside the innermost  *)
(* one runs: any code, which may enter forms, signal, raise, invoke        *)
(* restarts, quit and return.  A list is the sequence of its frames, the   *)
(* innermost first; prev pointers are its tails.                           *)
(***************************************************************************)
EXTENDS Integers, SequencesExt, FiniteSetsExt

CONSTANTS
  MaxStack,      \* bound on the forms under way
  MaxBindings    \* bound on the handlers, and on the params, that are bound at a time

ASSUME ConditionsAssumption == MaxStack \in Nat /\ MaxBindings \in Nat

VARIABLES
  stack,
  handlers, restarts, params,   \* the lists, of vm
  unwind,         \* unwind_kind, unwind_restart_id, and whether the code is being unwound
  interrupted,
  in_interrupt_hook,
  stale           \* handler frames whose functions a collection moved and left untold

conditionVars ==
  <<stack, handlers, restarts, params, unwind, interrupted, in_interrupt_hook, stale>>

NoId == 0
Running == [active |-> FALSE, kind |-> "NONE", id |-> NoId]
Unwinding(kind, id) == [active |-> TRUE, kind |-> kind, id |-> id]

\* What is under way, and where in it the code inside runs.
Top == Last(stack)
TopIs(form, at) == stack # <<>> /\ Top.form = form /\ Top.at = at
Runs == ~unwind.active
Push(form) == Len(stack) < MaxStack /\ stack' = Append(stack, form)
Pop == stack' = Front(stack)
TopGoesTo(at) == stack' = [stack EXCEPT ![Len(stack)].at = at]

\* A binding's frame: the form it belongs to, and its number there.
Frame(nth) == [owner |-> Len(stack), nth |-> nth]
RestartFrame(ids) == [owner |-> Len(stack) + 1, ids |-> ids]

\* Identities of restarts are counted up; what matters is that one is not in use.
Ids == 1 .. 2 * MaxStack + 2
IdsOf(form) == CASE form.form = "restart-case" -> {form.id}
                 [] form.form = "hook" -> {form.continue, form.abort}
                 [] form.form = "unwind-protect" -> {form.saved.id}
                 [] OTHER -> {}
UnusedIds == Ids \ ({unwind.id} \cup UNION {IdsOf(stack[i]) : i \in DOMAIN stack})
FreshId == Min(UnusedIds)
FreshId2 == Min(UnusedIds \ {FreshId})

Active == UNION {restarts[i].ids : i \in DOMAIN restarts}

-----------------------------------------------------------------------------
(* try: the body runs; if a condition unwinds it, the predicates and then the body of
   the clause that matches. *)

Try ==
  /\ Runs
  /\ Push([form |-> "try", at |-> "body"])
  /\ UNCHANGED <<handlers, restarts, params, unwind, interrupted, in_interrupt_hook, stale>>

\* Mutant: catches whatever unwinds.
TryCatchesAll ==
  /\ unwind.active /\ TopIs("try", "body")
  /\ TopGoesTo("catching")
  /\ unwind' = Running
  /\ UNCHANGED <<handlers, restarts, params, interrupted, in_interrupt_hook, stale>>
TryCatches ==
  /\ unwind.active /\ TopIs("try", "body")
  /\ unwind.kind = "CONDITION"
  /\ TopGoesTo("catching")
  /\ unwind' = Running
  /\ UNCHANGED <<handlers, restarts, params, interrupted, in_interrupt_hook, stale>>

TryNoMatch ==
  /\ Runs /\ TopIs("try", "catching")
  /\ Pop
  /\ unwind' = Unwinding("CONDITION", NoId)
  /\ UNCHANGED <<handlers, restarts, params, interrupted, in_interrupt_hook, stale>>

TryReturns ==
  /\ Runs /\ stack # <<>> /\ Top.form = "try"
  /\ Pop
  /\ UNCHANGED <<handlers, restarts, params, unwind, interrupted, in_interrupt_hook, stale>>

TryUnwinds ==
  /\ unwind.active /\ stack # <<>> /\ Top.form = "try"
  /\ ~(Top.at = "body" /\ unwind.kind = "CONDITION")
  /\ Pop
  /\ UNCHANGED <<handlers, restarts, params, unwind, interrupted, in_interrupt_hook, stale>>

-----------------------------------------------------------------------------
(* handler-bind and with-params: the expressions of each binding run, and the binding is
   installed before those of the next. *)

HandlerBind ==
  /\ Runs
  /\ Push([form |-> "handler-bind", at |-> "binding", bound |-> 0, old |-> handlers])
  /\ UNCHANGED <<handlers, restarts, params, unwind, interrupted, in_interrupt_hook, stale>>

\* The bindings of the forms under way.
Installed(form) ==
  UNION {{[owner |-> i, nth |-> k] : k \in 1 .. stack[i].bound} :
           i \in {j \in DOMAIN stack : stack[j].form = form}}

Bound == [stack EXCEPT ![Len(stack)].bound = @ + 1]

InstallHandler ==
  /\ Runs /\ TopIs("handler-bind", "binding")
  /\ Cardinality(Installed("handler-bind")) < MaxBindings
  /\ stack' = Bound
  /\ handlers' = <<Frame(Top.bound + 1)>> \o handlers
  /\ UNCHANGED <<restarts, params, unwind, interrupted, in_interrupt_hook, stale>>

WithParams ==
  /\ Runs
  /\ Push([form |-> "with-params", at |-> "binding", bound |-> 0, old |-> params])
  /\ UNCHANGED <<handlers, restarts, params, unwind, interrupted, in_interrupt_hook, stale>>

InstallParam ==
  /\ Runs /\ TopIs("with-params", "binding")
  /\ Cardinality(Installed("with-params")) < MaxBindings
  /\ stack' = Bound
  /\ params' = <<Frame(Top.bound + 1)>> \o params
  /\ UNCHANGED <<handlers, restarts, unwind, interrupted, in_interrupt_hook, stale>>

RunBody ==
  /\ Runs /\ (TopIs("handler-bind", "binding") \/ TopIs("with-params", "binding"))
  /\ TopGoesTo("body")
  /\ UNCHANGED <<handlers, restarts, params, unwind, interrupted, in_interrupt_hook, stale>>

\* The body returns, or anything in the form unwinds.  Mutant: an expression of the
\* second binding that fails leaves the first one installed.
HandlerBindEndsLeaves ==
  /\ stack # <<>> /\ Top.form = "handler-bind"
  /\ Runs => Top.at = "body"
  /\ Pop
  /\ handlers' = IF Top.at = "body" THEN Top.old ELSE handlers
  /\ stale' = {frame \in stale : frame.owner # Len(stack)}
  /\ UNCHANGED <<restarts, params, unwind, interrupted, in_interrupt_hook>>
HandlerBindEnds ==
  /\ stack # <<>> /\ Top.form = "handler-bind"
  /\ Runs => Top.at = "body"
  /\ Pop
  /\ handlers' = Top.old
  /\ stale' = {frame \in stale : frame.owner # Len(stack)}
  /\ UNCHANGED <<restarts, params, unwind, interrupted, in_interrupt_hook>>

WithParamsEnds ==
  /\ stack # <<>> /\ Top.form = "with-params"
  /\ Runs => Top.at = "body"
  /\ Pop
  /\ params' = Top.old
  /\ UNCHANGED <<handlers, restarts, unwind, interrupted, in_interrupt_hook, stale>>

-----------------------------------------------------------------------------
(* signal, error, and string->number, whose reader raises what it cannot read: the walk over
   the handlers.  The predicate, and the handler if it matches, of the nth frame run with the
   frames beyond it. *)

Beyond(saved, nth) == SubSeq(saved, nth + 1, Len(saved))

Walks == {"signal", "error", "string->number"}

Signal(by) ==
  /\ Runs /\ handlers # <<>>
  /\ Push([form |-> "signal", at |-> "predicate", by |-> by, nth |-> 1,
           saved |-> handlers])
  /\ handlers' = Beyond(handlers, 1)
  /\ UNCHANGED <<restarts, params, unwind, interrupted, in_interrupt_hook, stale>>

\* error, with no handler; string->number clears what it raises there.
Raise ==
  /\ Runs /\ handlers = <<>>
  /\ unwind' = Unwinding("CONDITION", NoId)
  /\ UNCHANGED <<stack, handlers, restarts, params, interrupted, in_interrupt_hook, stale>>

Matches ==
  /\ Runs /\ TopIs("signal", "predicate")
  /\ TopGoesTo("handler")
  /\ UNCHANGED <<handlers, restarts, params, unwind, interrupted, in_interrupt_hook, stale>>

\* The predicate does not hold, or the handler returns.
NextHandler ==
  /\ Runs /\ stack # <<>> /\ Top.form = "signal"
  /\ Top.nth < Len(Top.saved)
  /\ stack' = [stack EXCEPT ![Len(stack)].nth = @ + 1, ![Len(stack)].at = "predicate"]
  /\ handlers' = Beyond(Top.saved, Top.nth + 1)
  /\ UNCHANGED <<restarts, params, unwind, interrupted, in_interrupt_hook, stale>>

AllDecline ==
  /\ Runs /\ stack # <<>> /\ Top.form = "signal"
  /\ Top.nth = Len(Top.saved)
  /\ Pop
  /\ handlers' = Top.saved
  /\ unwind' = IF Top.by = "error" THEN Unwinding("CONDITION", NoId) ELSE unwind
  /\ UNCHANGED <<restarts, params, interrupted, in_interrupt_hook, stale>>

SignalUnwinds ==
  /\ unwind.active /\ stack # <<>> /\ Top.form = "signal"
  /\ Top.by # "string->number"
  /\ Pop
  /\ handlers' = Top.saved
  /\ UNCHANGED <<restarts, params, unwind, interrupted, in_interrupt_hook, stale>>

\* string->number takes whatever unwinds out of a handler for its own condition.
StringNumberClears ==
  /\ unwind.active /\ stack # <<>> /\ Top.form = "signal"
  /\ Top.by = "string->number"
  /\ Pop
  /\ handlers' = Top.saved
  /\ unwind' = Running
  /\ UNCHANGED <<restarts, params, interrupted, in_interrupt_hook, stale>>

-----------------------------------------------------------------------------
(* restart-case.  Its frame stays in the list while the clause runs. *)

RestartCase ==
  /\ Runs
  /\ Push([form |-> "restart-case", at |-> "expr", id |-> FreshId, prev |-> restarts])
  /\ restarts' = <<RestartFrame({FreshId})>> \o restarts
  /\ UNCHANGED <<handlers, params, unwind, interrupted, in_interrupt_hook, stale>>

InvokeRestart(id) ==
  /\ Runs
  /\ id \in Active
  /\ unwind' = Unwinding("RESTART", id)
  /\ UNCHANGED <<stack, handlers, restarts, params, interrupted, in_interrupt_hook, stale>>

ForThis == Top.at = "expr" /\ unwind.kind = "RESTART" /\ unwind.id = Top.id

RestartLands ==
  /\ unwind.active /\ stack # <<>> /\ Top.form = "restart-case" /\ ForThis
  /\ TopGoesTo("clause")
  /\ unwind' = Running
  /\ UNCHANGED <<handlers, restarts, params, interrupted, in_interrupt_hook, stale>>

\* The expression or the clause returns, or is unwound to somewhere else.
RestartCaseEnds ==
  /\ stack # <<>> /\ Top.form = "restart-case"
  /\ unwind.active => ~ForThis
  /\ Pop
  /\ restarts' = Top.prev
  /\ UNCHANGED <<handlers, params, unwind, interrupted, in_interrupt_hook, stale>>

-----------------------------------------------------------------------------
(* unwind-protect: the expression runs, then the cleanup, and then what was under way
   goes on unless the cleanup itself unwinds. *)

UnwindProtect ==
  /\ Runs
  /\ Push([form |-> "unwind-protect", at |-> "expr", saved |-> Running])
  /\ UNCHANGED <<handlers, restarts, params, unwind, interrupted, in_interrupt_hook, stale>>

\* Mutant: the cleanup runs with the unwinding still noted.
RunCleanupKeepsKind ==
  /\ TopIs("unwind-protect", "expr")
  /\ stack' = [stack EXCEPT ![Len(stack)].at = "cleanup", ![Len(stack)].saved = unwind]
  /\ unwind' = [unwind EXCEPT !.active = FALSE]
  /\ UNCHANGED <<handlers, restarts, params, interrupted, in_interrupt_hook, stale>>
RunCleanup ==
  /\ TopIs("unwind-protect", "expr")
  /\ stack' = [stack EXCEPT ![Len(stack)].at = "cleanup", ![Len(stack)].saved = unwind]
  /\ unwind' = Running
  /\ UNCHANGED <<handlers, restarts, params, interrupted, in_interrupt_hook, stale>>

CleanupReturns ==
  /\ Runs /\ TopIs("unwind-protect", "cleanup")
  /\ Pop
  /\ unwind' = Top.saved
  /\ UNCHANGED <<handlers, restarts, params, interrupted, in_interrupt_hook, stale>>

CleanupUnwinds ==
  /\ unwind.active /\ TopIs("unwind-protect", "cleanup")
  /\ Pop
  /\ UNCHANGED <<handlers, restarts, params, unwind, interrupted, in_interrupt_hook, stale>>

-----------------------------------------------------------------------------
(* quit, and interrupts.  The host may run a break loop, whose code finds the restarts
   continue and abort first. *)

Quit ==
  /\ Runs
  /\ unwind' = Unwinding("QUIT", NoId)
  /\ UNCHANGED <<stack, handlers, restarts, params, interrupted, in_interrupt_hook, stale>>

Interrupt ==
  /\ ~interrupted
  /\ interrupted' = TRUE
  /\ UNCHANGED <<stack, handlers, restarts, params, unwind, in_interrupt_hook, stale>>

\* The poll of vm_execute_loop, without a hook or inside of it.
PollUnwinds ==
  /\ Runs /\ interrupted
  /\ interrupted' = FALSE
  /\ unwind' = Unwinding("QUIT", NoId)
  /\ UNCHANGED <<stack, handlers, restarts, params, in_interrupt_hook, stale>>

PollBreaks ==
  /\ Runs /\ interrupted /\ ~in_interrupt_hook
  /\ interrupted' = FALSE
  /\ Push([form |-> "hook", at |-> "hook", continue |-> FreshId, abort |-> FreshId2,
           prev |-> restarts])
  /\ restarts' = <<RestartFrame({FreshId, FreshId2})>> \o restarts
  /\ in_interrupt_hook' = TRUE
  /\ UNCHANGED <<handlers, params, unwind, stale>>

\* A condition that reaches the break loop is shown, and the loop goes on.
HookShows ==
  /\ unwind.active /\ TopIs("hook", "hook") /\ unwind.kind = "CONDITION"
  /\ unwind' = Running
  /\ UNCHANGED <<stack, handlers, restarts, params, interrupted, in_interrupt_hook, stale>>

\* The break loop is left: by one of its restarts, by an end of its input, or by an
\* unwinding to somewhere else.  A second interrupt turns continue into abort.
HookEnds(continues) ==
  /\ TopIs("hook", "hook")
  /\ unwind.kind # "CONDITION"
  /\ Pop
  /\ restarts' = Top.prev
  /\ in_interrupt_hook' = FALSE
  /\ interrupted' = FALSE
  /\ LET own == unwind.kind = "RESTART" /\ unwind.id \in {Top.continue, Top.abort}
     IN /\ own => continues = (unwind.id = Top.continue)
        /\ unwind' = IF unwind.active /\ ~own THEN unwind
                     ELSE IF continues /\ ~interrupted THEN Running
                     ELSE Unwinding("QUIT", NoId)
  /\ UNCHANGED <<handlers, params, stale>>

-----------------------------------------------------------------------------
(* A collection may come with any allocation of the code that runs.  It finds the handlers
   in the list, and those that walks are running in their C frames, from which they are
   written back; the collectors move what they find. *)

Traced ==
  Range(handlers) \cup
    {stack[i].saved[stack[i].nth] : i \in {j \in DOMAIN stack : stack[j].form = "signal"}}

Collect ==
  /\ Runs
  /\ stale' = stale \cup (Installed("handler-bind") \ Traced)
  /\ UNCHANGED <<stack, handlers, restarts, params, unwind, interrupted, in_interrupt_hook>>

-----------------------------------------------------------------------------
\* ot_clear_condition: what reaches the host is shown, and the next input is read.
HostClears ==
  /\ unwind.active /\ stack = <<>>
  /\ unwind' = Running
  /\ UNCHANGED <<stack, handlers, restarts, params, interrupted, in_interrupt_hook, stale>>

ConditionsInit ==
  /\ stack = <<>>
  /\ handlers = <<>> /\ restarts = <<>> /\ params = <<>>
  /\ unwind = Running
  /\ interrupted = FALSE /\ in_interrupt_hook = FALSE
  /\ stale = {}

ConditionsNext ==
  \/ Try \/ TryCatches \/ TryNoMatch \/ TryReturns \/ TryUnwinds
  \/ HandlerBind \/ InstallHandler \/ HandlerBindEnds
  \/ WithParams \/ InstallParam \/ WithParamsEnds \/ RunBody
  \/ \E by \in Walks : Signal(by)
  \/ Raise \/ Matches \/ NextHandler \/ AllDecline \/ SignalUnwinds \/ StringNumberClears
  \/ RestartCase \/ RestartLands \/ RestartCaseEnds
  \/ \E id \in Ids : InvokeRestart(id)
  \/ UnwindProtect \/ RunCleanup \/ CleanupReturns \/ CleanupUnwinds
  \/ Quit \/ Interrupt \/ PollUnwinds \/ PollBreaks \/ HookShows
  \/ \E continues \in BOOLEAN : HookEnds(continues)
  \/ Collect
  \/ HostClears

ConditionsSpec == ConditionsInit /\ [][ConditionsNext]_conditionVars

-----------------------------------------------------------------------------
\* Frame g is of a form further out than that of f, or bound before it by the same form.
Outer(g, f) == g.owner < f.owner \/ (g.owner = f.owner /\ g.nth < f.nth)

\* The handlers that no walk has reached: a walk of a signal inside of their form runs the
\* handler nth, and only those outer to it are left.
InForce ==
  {f \in Installed("handler-bind") :
     ~ \E j \in DOMAIN stack :
          /\ stack[j].form = "signal" /\ f.owner < j
          /\ ~Outer(f, stack[j].saved[stack[j].nth])}

RestartFrames ==
  {[owner |-> i, ids |-> IdsOf(stack[i])] :
     i \in {j \in DOMAIN stack : stack[j].form \in {"restart-case", "hook"}}}

\* Whichever way forms are left, the lists are those of the forms that are still under way,
\* the innermost binding first: no frame outlives the C frame it is in, those that the body of
\* a handler-bind, a with-params, the expression of a restart-case and the break loop are to
\* see are there, and a handler that runs sees neither itself nor those inside of it
\* (signal_condition, vm_execute_handler_bind, vm_execute_restart_case,
\* vm_execute_with_params, run_interrupt_hook).  Where the code goes beyond the documentation
\* the property takes no side: a handler-bind that still evaluates its bindings has the
\* earlier ones in force, and a restart-case whose clause runs still offers its restarts
\* (spec.md 8.3 and 8.4 bind them for the body and for the expression).
ListsFollowStack ==
  /\ {f \in InForce : stack[f.owner].at = "body"} \subseteq Range(handlers)
  /\ Range(handlers) \subseteq InForce
  /\ \A i, j \in DOMAIN handlers : i < j => Outer(handlers[j], handlers[i])
  /\ Range(params) = Installed("with-params")
  /\ \A i, j \in DOMAIN params : i < j => Outer(params[j], params[i])
  /\ {f \in RestartFrames : stack[f.owner].at # "clause"} \subseteq Range(restarts)
  /\ Range(restarts) \subseteq RestartFrames
  /\ \A i, j \in DOMAIN restarts : i < j => restarts[j].owner < restarts[i].owner

\* Code never runs with an unwinding noted, cleanups and handlers included, or the next
\* form to be left would take it up (vm_execute_try, vm_execute_unwind_protect,
\* run_interrupt_hook); and what is noted is one of the ways to unwind.
UnwindSound ==
  /\ ~unwind.active => unwind = Running
  /\ unwind.active => unwind.kind # "NONE"
  /\ in_interrupt_hook <=> \E i \in DOMAIN stack : stack[i].form = "hook"

\* Under way: the unwinding, and those that wait for a cleanup.
InFlight ==
  {unwind} \cup {stack[i].saved : i \in {j \in DOMAIN stack : stack[j].form = "unwind-protect"}}

Awaits(form, id) == form.form \in {"restart-case", "hook"} /\ form.at # "clause" /\ id \in IdsOf(form)
Awaited(id) == \E i \in DOMAIN stack : Awaits(stack[i], id)

\* A quit, and an unwinding to a restart, go on through every try, handler and cleanup until
\* they arrive, at the host or at the form of that restart, unless a cleanup that unwinds
\* replaces them (vm_execute_try, vm_execute_unwind_protect, vm_execute_restart_case), or a
\* handler began them that string->number asked about a text it cannot read: nothing else
\* drops them.  That last case is not what is documented: "quit and exit use the same
\* uncatchable path" (spec.md:649), and nat_string_number clears them and returns nil.
UnwindsArrive ==
  [][\A u \in InFlight :
       u.kind = "QUIT" \/ (u.kind = "RESTART" /\ Awaited(u.id)) =>
         \/ u \in InFlight' /\ (u.kind = "RESTART" => Awaited(u.id)')
         \/ u = unwind /\ (stack = <<>> \/ Awaits(Top, u.id))
         \/ unwind.active /\ TopIs("unwind-protect", "cleanup") /\ Top.saved = u
         \/ u = unwind /\ Top.form = "signal" /\ Top.by = "string->number"]_conditionVars

(***************************************************************************)
(* What the documentation says and the code does not do: "Precise roots    *)
(* come from: [...] active condition handlers" (gc-gen.md).  While a walk  *)
(* has reached an outer handler, the inner ones that declined are in no    *)
(* list the collectors see; afterwards they are in force again.            *)
(***************************************************************************)
HandlersAreRoots == Range(handlers) \cap stale = {}
=============================================================================
