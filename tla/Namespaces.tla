----------------------------- MODULE Namespaces -----------------------------
(***************************************************************************)
(* The language's namespaces (lang/src/otium.c): definitions, references   *)
(* to the public definitions of others, and loading.  A symbol remembers   *)
(* the last namespace it was resolved in, and to what.  Aliases, which     *)
(* only abbreviate a namespace's name, are left out.  Code that runs is    *)
(* any sequence of definitions, switches, references and requires; a load  *)
(* runs such code, and is left when it ends or something in it fails.      *)
(***************************************************************************)
EXTENDS Integers, SequencesExt, Functions

CONSTANTS
  Spaces,         \* names of namespaces
  CoreSpace,      \* otium.core
  UserSpace,      \* user
  Symbols,
  Sources,        \* the namespaces that the loader finds
  CoreVars        \* what is defined in the core when the program starts

ASSUME NamespacesAssumption ==
  /\ {CoreSpace, UserSpace} \subseteq Spaces /\ CoreSpace # UserSpace
  /\ "none" \notin Spaces
  /\ CoreVars \subseteq Symbols /\ Sources \subseteq Spaces

VARIABLES
  vars_of,      \* each namespace's vars, and whether they are private
  refers,       \* each namespace's references to vars of others
  loaded,       \* the namespaces that have been loaded
  loading,      \* the namespaces that are being loaded
  cache,        \* cache_namespace and cache_var of each symbol
  current_namespace,
  loads         \* the calls to require_one that are under way, the last one running

namespaceVars == <<vars_of, refers, loaded, loading, cache, current_namespace, loads>>

\* f, and what it has for x.
Entered(f, x, y) == [z \in DOMAIN f \cup {x} |-> IF z = x THEN y ELSE f[z]]

\* A var is the cell of a namespace's definition: redefining keeps it.
Var(n, s) == <<n, s>>
NoVar == <<>>
NotCached == [space |-> "none", var |-> NoVar]

Exists(n) == n \in DOMAIN vars_of
Private(v) == vars_of[v[1]][v[2]]

-----------------------------------------------------------------------------
(* Finding, defining and resolving *)

\* Mutant: a new namespace refers every var of the core.
CreatedWithAll(n) ==
  IF Exists(n) THEN UNCHANGED <<vars_of, refers>>
  ELSE /\ vars_of' = Entered(vars_of, n, <<>>)
       /\ refers' = Entered(refers, n, [s \in DOMAIN vars_of[CoreSpace] |-> Var(CoreSpace, s)])
\* namespace_find with create.
Created(n) ==
  IF Exists(n) THEN UNCHANGED <<vars_of, refers>>
  ELSE /\ vars_of' = Entered(vars_of, n, <<>>)
       /\ refers' = Entered(refers, n,
            [s \in {c \in DOMAIN vars_of[CoreSpace] : ~Private(Var(CoreSpace, c))} |->
               Var(CoreSpace, s)])

namespace_var(n, s) ==
  CASE s \in DOMAIN vars_of[n] -> Var(n, s)
    [] s \notin DOMAIN vars_of[n] /\ s \in DOMAIN refers[n] -> refers[n][s]
    [] OTHER -> NoVar

\* What resolve_var answers, from the cache if it is for this namespace.
Resolved(n, s) == IF cache[s].space = n THEN cache[s].var ELSE namespace_var(n, s)

InNs(n) ==
  /\ Created(n)
  /\ current_namespace' = n
  /\ UNCHANGED <<loaded, loading, cache, loads>>

\* Mutant: only what is resolved is cached.
DefineKeepsCache(s, private) ==
  /\ vars_of' = [vars_of EXCEPT ![current_namespace] = Entered(@, s, private)]
  /\ UNCHANGED <<refers, loaded, loading, cache, current_namespace, loads>>
Define(s, private) ==
  /\ vars_of' = [vars_of EXCEPT ![current_namespace] = Entered(@, s, private)]
  /\ cache' = [cache EXCEPT ![s] =
                 [space |-> current_namespace, var |-> Var(current_namespace, s)]]
  /\ UNCHANGED <<refers, loaded, loading, current_namespace, loads>>

\* Code refers to a symbol from the namespace it was defined in.
Resolve(n, s) ==
  /\ Exists(n)
  /\ Resolved(n, s) # NoVar
  /\ cache' = [cache EXCEPT ![s] = [space |-> n, var |-> Resolved(n, s)]]
  /\ UNCHANGED <<vars_of, refers, loaded, loading, current_namespace, loads>>

-----------------------------------------------------------------------------
(* require.  refer is the set of symbols to refer, of which each is known and public
   or the rest is not done. *)

MustLoad(n, reload) == n \notin loaded \/ reload

Referable(n, s) == s \in DOMAIN vars_of[n] /\ ~Private(Var(n, s))

Referred(caller, n, s) ==
  /\ refers' = [refers EXCEPT ![caller] = Entered(@, s, Var(n, s))]
  /\ cache' = [cache EXCEPT ![s] = IF @.space = caller THEN NotCached ELSE @]

\* The options of a require: a symbol is referred, or none is given or may be.
Options(caller, n) ==
  \/ \E s \in Symbols : Referable(n, s) /\ Referred(caller, n, s)
  \/ UNCHANGED <<refers, cache>>

\* The namespace is loaded, and perhaps being loaded again: its flag is not looked at.
RequireLoaded(n) ==
  /\ n \in loaded
  /\ Options(current_namespace, n)
  /\ UNCHANGED <<vars_of, loaded, loading, current_namespace, loads>>

RequireLoads(n, reload) ==
  /\ n \in Sources
  /\ MustLoad(n, reload)
  /\ n \notin loading
  /\ Created(n)
  /\ loading' = loading \cup {n}
  /\ loads' = Append(loads, [target |-> n, caller |-> current_namespace])
  /\ current_namespace' = n
  /\ UNCHANGED <<loaded, cache>>

\* Nothing to load is found: the namespace stays.
RequireNotFound(n) ==
  /\ n \notin Sources
  /\ Created(n)
  /\ UNCHANGED <<loaded, loading, cache, current_namespace, loads>>

LoadEnds ==
  /\ loads # <<>>
  /\ LET l == Last(loads) IN
     /\ loading' = loading \ {l.target}
     /\ loaded' = loaded \cup {l.target}
     /\ current_namespace' = l.caller
     /\ Options(l.caller, l.target)
  /\ loads' = Front(loads)
  /\ UNCHANGED vars_of

\* Mutant: the flag stays up, and the namespace can never be loaded again.
LoadFailsStaysLoading ==
  /\ loads # <<>>
  /\ current_namespace' = Last(loads).caller
  /\ loads' = Front(loads)
  /\ UNCHANGED <<vars_of, refers, loaded, loading, cache>>
LoadFails ==
  /\ loads # <<>>
  /\ loading' = loading \ {Last(loads).target}
  /\ current_namespace' = Last(loads).caller
  /\ loads' = Front(loads)
  /\ UNCHANGED <<vars_of, refers, loaded, cache>>

NamespacesInit ==
  /\ vars_of = [n \in {CoreSpace, UserSpace} |->
                  [s \in {c \in CoreVars : n = CoreSpace} |-> FALSE]]
  /\ refers = [n \in {CoreSpace, UserSpace} |->
                 [s \in {c \in CoreVars : n = UserSpace} |-> Var(CoreSpace, s)]]
  /\ loaded = {} /\ loading = {}
  /\ cache = [s \in Symbols |-> IF s \in CoreVars
                                THEN [space |-> CoreSpace, var |-> Var(CoreSpace, s)]
                                ELSE NotCached]
  /\ current_namespace = UserSpace
  /\ loads = <<>>

NamespacesNext ==
  \/ \E n \in Spaces :
       \/ InNs(n)
       \/ \E s \in Symbols : Resolve(n, s)
       \/ RequireLoaded(n)
       \/ \E reload \in BOOLEAN : RequireLoads(n, reload)
       \/ RequireNotFound(n)
  \/ \E s \in Symbols, private \in BOOLEAN : Define(s, private)
  \/ LoadEnds
  \/ LoadFails

NamespacesSpec == NamespacesInit /\ [][NamespacesNext]_namespaceVars

-----------------------------------------------------------------------------
\* What a symbol remembers is what would be found without: definitions that shadow a
\* reference, references added later, and the same symbol resolved from other namespaces
\* in between (define_var, resolve_var, require_one).
CacheIsFresh ==
  \A s \in Symbols : cache[s].space # "none" =>
    cache[s].var = namespace_var(cache[s].space, s)

\* The namespaces marked as loading are those whose load is under way, and no load begins
\* inside one of the same namespace: whichever way loads end, the flag comes down with
\* them, and one that failed can be loaded again (require_one).  That is not to say that
\* every require in a circle fails, as the manual has it ("already mid-load [...] is an
\* error").  The code tests the flag only when it is about to load: while a namespace that
\* is loaded is loaded again with :reload, a require of it in a circle finds it loaded and
\* succeeds (RequireLoaded).
LoadsSound ==
  /\ loading = {loads[i].target : i \in DOMAIN loads}
  /\ IsInjective([i \in DOMAIN loads |-> loads[i].target])

\* What namespaces find that is not theirs.
KnownAbroad ==
  {known \in Spaces \X (Spaces \X Symbols) :
     LET n == known[1]
         v == known[2]
     IN Exists(n) /\ v[1] # n /\ \E s \in Symbols : Resolved(n, s) = v}

\* No step makes a private var known to another namespace than its own (namespace_find,
\* require_one).
PrivateStaysOut ==
  [][\A known \in KnownAbroad' \ KnownAbroad :
       ~vars_of'[known[2][1]][known[2][2]]]_namespaceVars
=============================================================================
