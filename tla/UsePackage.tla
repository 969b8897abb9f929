------------------------------ MODULE UsePackage ------------------------------
(***************************************************************************)
(* How the configuration is loaded.  Every file of .emacs.d/setup is a     *)
(* list of `use-package' forms; what a form does, and when, is decided by  *)
(* the macro of use-package-core.el, which turns its keywords into         *)
(* `require', `autoload', `eval-after-load', `run-with-idle-timer' and     *)
(* `add-hook' calls.                                                       *)
(*                                                                         *)
(* Emacs Lisp is single threaded, so the interleavings are those of nested *)
(* loading: a `require' in the middle of a form runs the forms that were   *)
(* waiting for that feature, which load others, before the first form goes *)
(* on.  `todo' is that call stack: the work left, innermost first.         *)
(***************************************************************************)
EXTENDS Forms, Naturals, FiniteSets, Functions

CONSTANTS
    Features,   \* the features (libraries) the forms name
    Decls,      \* the use-package forms
    Decl,       \* what the keywords of a form say
    DotEmacs,   \* the work .emacs starts with: its forms, in order
    Conds,      \* the facts about the environment that :if predicates test
    Requires,   \* the features a library requires before it provides its own
    Missing,    \* features whose library is not installed
    Faulty,     \* forms whose :init or :config may signal an error
    Elsewhere   \* features that something outside the forms may load

VARIABLES
    env,        \* the facts that hold in this session
    todo,       \* the work left, innermost first
    phase,      \* "init", "error", "after-init" or "up": how far startup is
    loaded,     \* `features'
    afterLoad,  \* `after-load-alist': the work waiting for each feature
    autoloads,  \* forms whose commands are autoloaded
    idle,       \* features with a pending idle timer
    initHook,   \* `after-init-hook', first function first
    seen,       \* forms evaluated, :disabled and :if not preventing it
    inited,     \* forms whose :init has been processed
    configured, \* forms whose :config has been processed
    called,     \* forms one of whose commands has run
    lost        \* the work an error unwound past

vars == <<env, todo, phase, loaded, afterLoad, autoloads, idle, initHook,
          seen, inited, configured, called, lost>>

-----------------------------------------------------------------------------
(* Tasks, see Forms: the calls the expansion of a form consists of.         *)

DeclOps    == {"use", "settle", "demand", "config", "configured",
               "hook", "call", "catch"}
FeatureOps == {"require", "load", "provide"}

Task == [op : DeclOps, arg : Decls, left : {0}]
           \cup [op : {"await"}, arg : Decls, left : Nat]
           \cup [op : FeatureOps, arg : Features, left : {0}]

\* What a section's own code may contain: nested forms, `require', commands.
ScriptTask == {t \in Task : t.op \in {"use", "require", "call", "catch"}}

\* A form, its keywords normalised; Forms says what the fields mean.
DeclRecord ==
    [feature : Features, disabled : BOOLEAN,
     when : SUBSET Conds, unless : SUBSET Conds,
     after : Seq(Features), demand : BOOLEAN, defer : {"no", "t", "idle"},
     noRequire : BOOLEAN, commands : BOOLEAN, initHook : BOOLEAN,
     init : Seq(ScriptTask), config : Seq(ScriptTask)]

ASSUME DeclAssumption == Decl \in [Decls -> DeclRecord]
ASSUME DotEmacsAssumption == DotEmacs \in Seq(ScriptTask)
ASSUME RequiresAssumption == Requires \in [Features -> Seq(Features)]
ASSUME SetsAssumption ==
    Missing \subseteq Features /\ Faulty \subseteq Decls /\ Elsewhere \subseteq Features

\* :commands implies :defer t unless :demand was given.
Deferred(d) ==
    \/ Decl[d].defer # "no"
    \/ Decl[d].commands /\ ~Decl[d].demand

\* :no-require with nothing to defer: :config runs without the package.
Inline(d) == ~Deferred(d) /\ Decl[d].noRequire

-----------------------------------------------------------------------------
Holds(d) == Decl[d].when \subseteq env /\ Decl[d].unless \cap env = {}

Init ==
    /\ env \in SUBSET Conds
    /\ todo = DotEmacs
    /\ phase = "init"
    /\ loaded = {}
    /\ afterLoad = [f \in Features |-> <<>>]
    /\ autoloads = {}
    /\ idle = {}
    /\ initHook = <<>>
    /\ seen = {}
    /\ inited = {}
    /\ configured = {}
    /\ called = {}
    /\ lost = {}

Now == todo[1]
Doing(op) == todo # <<>> /\ Now.op = op

\* The head task is replaced by the work it expands to.
Expand(work) == todo' = work \o Tail(todo)

\* `eval-after-load': now if the feature is loaded, else when it is provided.
EvalAfterLoad(f, task) ==
    IF f \in loaded
    THEN Expand(<<task>>) /\ UNCHANGED afterLoad
    ELSE /\ Expand(<<>>)
         /\ afterLoad' = [afterLoad EXCEPT ![f] = Append(@, task)]

\* Mutant: the debugger opens for errors that are ignored as well.
SignalLoudly ==
    /\ todo' = <<>>
    /\ lost' = lost \cup Range(todo)
    /\ phase' = IF phase = "init" THEN "error" ELSE phase

\* An error unwinds to the end of the nearest `ignore-errors', else all the
\* way, and what it unwinds past never runs.  debug-on-error is t while
\* .emacs is read: there, an error nobody ignores opens the debugger.
Catches == {i \in 1..Len(todo) : todo[i].op = "catch"}

Signal ==
    \/ \E n \in Catches :
         /\ \A i \in Catches : n <= i
         /\ todo' = SubSeq(todo, n, Len(todo))
         /\ lost' = lost \cup {todo[i] : i \in 1..(n - 1)}
         /\ UNCHANGED phase
    \/ /\ Catches = {}
       /\ todo' = <<>>
       /\ lost' = lost \cup Range(todo)
       /\ phase' = IF phase = "init" THEN "error" ELSE phase

-----------------------------------------------------------------------------
(* The handlers, in the order use-package-keywords lists them.              *)

\* :disabled and :if come first: the rest of the form is not even expanded,
\* or sits in a `when' that is evaluated now, outside every :after.
SkipUse ==
    /\ Doing("use")
    /\ Decl[Now.arg].disabled \/ ~Holds(Now.arg)
    /\ Expand(<<>>)
    /\ UNCHANGED <<env, phase, loaded, afterLoad, autoloads, idle, initHook,
                   seen, inited, configured, called, lost>>

\* Mutant: the last feature of :after is forgotten.
EvalUseButLast ==
    /\ Doing("use")
    /\ ~Decl[Now.arg].disabled /\ Holds(Now.arg)
    /\ seen' = seen \cup {Now.arg}
    /\ LET n == Len(Decl[Now.arg].after)
       IN  Expand(<<Await(Now.arg, IF n = 0 THEN 0 ELSE n - 1)>>)
    /\ UNCHANGED <<env, phase, loaded, afterLoad, autoloads, idle, initHook,
                   inited, configured, called, lost>>

EvalUse ==
    /\ Doing("use")
    /\ ~Decl[Now.arg].disabled /\ Holds(Now.arg)
    /\ seen' = seen \cup {Now.arg}
    /\ Expand(<<Await(Now.arg, Len(Decl[Now.arg].after))>>)
    /\ UNCHANGED <<env, phase, loaded, afterLoad, autoloads, idle, initHook,
                   inited, configured, called, lost>>

\* Mutant: it is the package itself that is waited for.
AwaitItself ==
    /\ Doing("await")
    /\ Now.left > 0
    /\ EvalAfterLoad(Decl[Now.arg].feature, Await(Now.arg, Now.left - 1))
    /\ UNCHANGED <<env, phase, loaded, autoloads, idle, initHook, seen,
                   inited, configured, called, lost>>

\* :after nests one eval-after-load per feature, the last feature outermost.
AwaitAfter ==
    /\ Doing("await")
    /\ Now.left > 0
    /\ EvalAfterLoad(Decl[Now.arg].after[Now.left],
                     Await(Now.arg, Now.left - 1))
    /\ UNCHANGED <<env, phase, loaded, autoloads, idle, initHook, seen,
                   inited, configured, called, lost>>

\* Mutant: autoloads for the forms that are demanded, not for the others.
EvalBodyDemanded ==
    /\ Doing("await")
    /\ Now.left = 0
    /\ LET d == Now.arg IN
       /\ autoloads' =
            IF Decl[d].commands /\ Decl[d].demand /\ Decl[d].feature \notin loaded
            THEN autoloads \cup {d} ELSE autoloads
       /\ Expand(Decl[d].init \o <<T("settle", d), T("hook", d)>>)
    /\ UNCHANGED <<env, phase, loaded, afterLoad, idle, initHook, seen,
                   inited, configured, called, lost>>

\* Inside every :after: autoloads, then :init, then the loading, then :hook.
EvalBody ==
    /\ Doing("await")
    /\ Now.left = 0
    /\ LET d == Now.arg IN
       /\ autoloads' =
            IF Decl[d].commands /\ ~Decl[d].demand /\ Decl[d].feature \notin loaded
            THEN autoloads \cup {d} ELSE autoloads
       /\ Expand(Decl[d].init \o <<T("settle", d), T("hook", d)>>)
    /\ UNCHANGED <<env, phase, loaded, afterLoad, idle, initHook, seen,
                   inited, configured, called, lost>>

\* Mutant: :defer does not keep :config back.
SettleAtOnce ==
    /\ Doing("settle")
    /\ LET d == Now.arg IN
       /\ inited' = inited \cup {d}
       /\ idle' = IF Decl[d].defer = "idle"
                  THEN idle \cup {Decl[d].feature} ELSE idle
       /\ Expand(<<T(IF Deferred(d) \/ Inline(d) THEN "config" ELSE "demand", d)>>)
    /\ UNCHANGED <<env, phase, loaded, afterLoad, autoloads, initHook, seen,
                   configured, called, lost>>

\* Mutant: what is deferred is loaded here and now as well.
SettleBoth ==
    /\ Doing("settle")
    /\ LET d == Now.arg IN
       /\ inited' = inited \cup {d}
       /\ idle' = IF Decl[d].defer = "idle"
                  THEN idle \cup {Decl[d].feature} ELSE idle
       /\ afterLoad' = IF Deferred(d) /\ Decl[d].feature \notin loaded
                       THEN [afterLoad EXCEPT ![Decl[d].feature] =
                               Append(@, T("config", d))]
                       ELSE afterLoad
       /\ Expand(<<T(IF Inline(d) THEN "config" ELSE "demand", d)>>)
    /\ UNCHANGED <<env, phase, loaded, autoloads, initHook, seen,
                   configured, called, lost>>

\* :init is over; :defer N starts a timer, :defer wraps :config in an
\* eval-after-load, else the package is required on the spot.
Settle ==
    /\ Doing("settle")
    /\ LET d == Now.arg IN
       /\ inited' = inited \cup {d}
       /\ idle' = IF Decl[d].defer = "idle"
                  THEN idle \cup {Decl[d].feature} ELSE idle
       /\ \/ /\ Deferred(d)
             /\ EvalAfterLoad(Decl[d].feature, T("config", d))
          \/ /\ ~Deferred(d)
             /\ Expand(<<T(IF Inline(d) THEN "config" ELSE "demand", d)>>)
             /\ UNCHANGED afterLoad
    /\ UNCHANGED <<env, phase, loaded, autoloads, initHook, seen,
                   configured, called, lost>>

InitFails ==
    /\ Doing("settle")
    /\ Now.arg \in Faulty
    /\ Signal
    /\ UNCHANGED <<env, loaded, afterLoad, autoloads, idle, initHook, seen,
                   inited, configured, called>>

\* :load, then :config.  `use-package-expand-minimally' is t: a plain
\* `require', whose error is not caught.
Demand ==
    /\ Doing("demand")
    /\ LET d == Now.arg
           f == Decl[d].feature
       IN  Expand(IF f \in loaded THEN <<T("config", d)>>
                                  ELSE <<T("load", f), T("demand", d)>>)
    /\ UNCHANGED <<env, phase, loaded, afterLoad, autoloads, idle, initHook,
                   seen, inited, configured, called, lost>>

EvalConfig ==
    /\ Doing("config")
    /\ Expand(Decl[Now.arg].config \o <<T("configured", Now.arg)>>)
    /\ UNCHANGED <<env, phase, loaded, afterLoad, autoloads, idle, initHook,
                   seen, inited, configured, called, lost>>

ConfigDone ==
    /\ Doing("configured")
    /\ configured' = configured \cup {Now.arg}
    /\ Expand(<<>>)
    /\ UNCHANGED <<env, phase, loaded, afterLoad, autoloads, idle, initHook,
                   seen, inited, called, lost>>

ConfigFails ==
    /\ Doing("configured")
    /\ Now.arg \in Faulty
    /\ Signal
    /\ UNCHANGED <<env, loaded, afterLoad, autoloads, idle, initHook, seen,
                   inited, configured, called>>

\* `add-hook' on after-init-hook prepends, and only once.
AddHook ==
    /\ Doing("hook")
    /\ initHook' = IF Decl[Now.arg].initHook /\ Now.arg \notin Range(initHook)
                   THEN <<Now.arg>> \o initHook ELSE initHook
    /\ Expand(<<>>)
    /\ UNCHANGED <<env, phase, loaded, afterLoad, autoloads, idle, seen,
                   inited, configured, called, lost>>

-----------------------------------------------------------------------------
(* Emacs itself: `require', `load', `provide', autoloaded commands.         *)

RequireFeature ==
    /\ Doing("require")
    /\ Expand(IF Now.arg \in loaded THEN <<>> ELSE <<T("load", Now.arg)>>)
    /\ UNCHANGED <<env, phase, loaded, afterLoad, autoloads, idle, initHook,
                   seen, inited, configured, called, lost>>

LoadFile ==
    /\ Doing("load")
    /\ Now.arg \notin Missing
    /\ Expand([i \in 1..Len(Requires[Now.arg]) |-> Require(Requires[Now.arg][i])]
              \o <<T("provide", Now.arg)>>)
    /\ UNCHANGED <<env, phase, loaded, afterLoad, autoloads, idle, initHook,
                   seen, inited, configured, called, lost>>

LoadMissing ==
    /\ Doing("load")
    /\ Now.arg \in Missing
    /\ Signal
    /\ UNCHANGED <<env, loaded, afterLoad, autoloads, idle, initHook, seen,
                   inited, configured, called>>

\* The after-load functions run in the order they were registered; the
\* library has replaced the autoloads of its commands.
Provide ==
    /\ Doing("provide")
    /\ LET f == Now.arg IN
       /\ loaded' = loaded \cup {f}
       /\ Expand(afterLoad[f])
       /\ afterLoad' = [afterLoad EXCEPT ![f] = <<>>]
       /\ autoloads' = {d \in autoloads : Decl[d].feature # f}
    /\ UNCHANGED <<env, phase, idle, initHook, seen, inited, configured,
                   called, lost>>

\* Mutant: a command whose library is loaded loads it again.
CallCommandAgain ==
    /\ Doing("call")
    /\ LET d == Now.arg
           f == Decl[d].feature
       IN  /\ f \in loaded \/ d \in autoloads
           /\ Expand(<<T("load", f), Call(d)>>)
    /\ UNCHANGED <<env, phase, loaded, afterLoad, autoloads, idle, initHook,
                   seen, inited, configured, called, lost>>

\* Calling a command of the package loads it first if need be.
CallCommand ==
    /\ Doing("call")
    /\ LET d == Now.arg
           f == Decl[d].feature
       IN  /\ f \in loaded \/ d \in autoloads
           /\ IF f \in loaded
              THEN Expand(<<>>) /\ called' = called \cup {d}
              ELSE Expand(<<T("load", f), Call(d)>>) /\ UNCHANGED called
    /\ UNCHANGED <<env, phase, loaded, afterLoad, autoloads, idle, initHook,
                   seen, inited, configured, lost>>

LeaveCatch ==
    /\ Doing("catch")
    /\ Expand(<<>>)
    /\ UNCHANGED <<env, phase, loaded, afterLoad, autoloads, idle, initHook,
                   seen, inited, configured, called, lost>>

-----------------------------------------------------------------------------
(* Startup and the command loop.                                            *)

\* Mutant: the hook stops after its first function.
RunFirstInitHook ==
    /\ todo = <<>> /\ phase \in {"init", "error"}
    /\ phase' = "after-init"
    /\ todo' = IF initHook = <<>> THEN <<>> ELSE <<Call(Head(initHook))>>
    /\ UNCHANGED <<env, loaded, afterLoad, autoloads, idle, initHook, seen,
                   inited, configured, called, lost>>

\* `run-hooks' goes through the list as it is when it starts.  The debugger
\* that an error opened can be left with "continue", ...
RunAfterInitHook ==
    /\ todo = <<>> /\ phase \in {"init", "error"}
    /\ phase' = "after-init"
    /\ todo' = [i \in 1..Len(initHook) |-> Call(initHook[i])]
    /\ UNCHANGED <<env, loaded, afterLoad, autoloads, idle, initHook, seen,
                   inited, configured, called, lost>>

\* ... or with "quit", which abandons startup, after-init-hook included.
QuitDebugger ==
    /\ todo = <<>> /\ phase = "error"
    /\ phase' = "up"
    /\ UNCHANGED <<env, todo, loaded, afterLoad, autoloads, idle, initHook,
                   seen, inited, configured, called, lost>>

EnterCommandLoop ==
    /\ todo = <<>> /\ phase = "after-init"
    /\ phase' = "up"
    /\ UNCHANGED <<env, todo, loaded, afterLoad, autoloads, idle, initHook,
                   seen, inited, configured, called, lost>>

AtRest == todo = <<>> /\ phase = "up"

\* A key, a file visited or a hook reaches an autoloaded command.
Invoke(d) ==
    /\ AtRest
    /\ d \in autoloads
    /\ todo' = <<Call(d)>>
    /\ UNCHANGED <<env, phase, loaded, afterLoad, autoloads, idle, initHook,
                   seen, inited, configured, called, lost>>

\* Emacs, or another part of the configuration, loads a library.
LoadElsewhere(f) ==
    /\ AtRest
    /\ f \in Elsewhere \ loaded
    /\ todo' = <<T("load", f)>>
    /\ UNCHANGED <<env, phase, loaded, afterLoad, autoloads, idle, initHook,
                   seen, inited, configured, called, lost>>

\* Mutant: the timer only goes off.
IdleTimerMute(f) ==
    /\ AtRest
    /\ f \in idle
    /\ idle' = idle \ {f}
    /\ UNCHANGED <<env, todo, phase, loaded, afterLoad, autoloads, initHook,
                   seen, inited, configured, called, lost>>

\* `require' with noerror: a missing library is passed over in silence.
IdleTimer(f) ==
    /\ AtRest
    /\ f \in idle
    /\ idle' = idle \ {f}
    /\ todo' = IF f \in Missing THEN <<>> ELSE <<Require(f)>>
    /\ UNCHANGED <<env, phase, loaded, afterLoad, autoloads, initHook, seen,
                   inited, configured, called, lost>>

Evaluate ==
    \/ SkipUse \/ EvalUse \/ AwaitAfter \/ EvalBody \/ Settle \/ InitFails
    \/ Demand \/ EvalConfig \/ ConfigDone \/ ConfigFails \/ AddHook
    \/ RequireFeature \/ LoadFile \/ LoadMissing \/ Provide
    \/ CallCommand \/ LeaveCatch

Startup == RunAfterInitHook \/ QuitDebugger \/ EnterCommandLoop

Next ==
    \/ Evaluate
    \/ Startup
    \/ \E d \in Decls : Invoke(d)
    \/ \E f \in Features : LoadElsewhere(f) \/ IdleTimer(f)

Spec == Init /\ [][Next]_vars

\* The interpreter does not stop in the middle of its work, and an idle timer
\* runs once Emacs has been idle for long enough, if that happens again and
\* again: the commands in between may be many.
FairSpec ==
    /\ Spec
    /\ WF_vars(Evaluate) /\ WF_vars(Startup)
    /\ \A f \in Features : SF_vars(IdleTimer(f))

-----------------------------------------------------------------------------
(* Properties.                                                              *)

\* The call stack and the queues of after-load-alist hold only tasks the
\* macro can produce, and every set is one of forms or of features.
TypeOK ==
    /\ env \subseteq Conds
    /\ todo \in Seq(Task)
    /\ phase \in {"init", "error", "after-init", "up"}
    /\ loaded \subseteq Features
    /\ afterLoad \in [Features -> Seq(Task)]
    /\ autoloads \subseteq Decls
    /\ idle \subseteq Features
    /\ initHook \in Seq(Decls)
    /\ seen \subseteq Decls
    /\ inited \subseteq Decls
    /\ configured \subseteq Decls
    /\ called \subseteq Decls
    /\ lost \subseteq Task

\* A form's :config has run only after its :init, with every feature named
\* by :after loaded, and with its own package loaded unless the form says
\* :no-require: whatever order nested `require's, after-load functions, idle
\* timers and commands load things in.
SectionOrder ==
    \A d \in configured :
      /\ d \in inited
      /\ Range(Decl[d].after) \subseteq loaded
      /\ Inline(d) \/ Decl[d].feature \in loaded

\* Why that is so: what each piece of work has been promised by the time it
\* is on the stack, ...
AfterLoaded(d, n) ==
    \A i \in (n + 1)..Len(Decl[d].after) : Decl[d].after[i] \in loaded

Ready(t) ==
    /\ t.op = "await" =>
         /\ t.arg \in seen
         /\ t.left <= Len(Decl[t.arg].after) /\ AfterLoaded(t.arg, t.left)
    /\ t.op \in {"settle", "demand", "config", "configured"} =>
         t.arg \in seen /\ AfterLoaded(t.arg, 0)
    /\ t.op \in {"demand", "config", "configured"} => t.arg \in inited
    /\ t.op \in {"config", "configured"} =>
         Inline(t.arg) \/ Decl[t.arg].feature \in loaded

\* ... and what is still missing of that while it waits for feature f.
Stored(f, t) ==
    \/ /\ t.op = "await" /\ t.arg \in seen
       /\ t.left < Len(Decl[t.arg].after) /\ AfterLoaded(t.arg, t.left + 1)
       /\ f = Decl[t.arg].after[t.left + 1]
    \/ /\ t.op = "config" /\ t.arg \in seen /\ t.arg \in inited
       /\ AfterLoaded(t.arg, 0)
       /\ f = Decl[t.arg].feature

StackReady  == \A t \in Range(todo) : Ready(t)
QueuesReady == \A f \in Features : \A t \in Range(afterLoad[f]) : Stored(f, t)
StagesNest  == configured \subseteq inited /\ inited \subseteq seen

\* The inductive invariant behind SectionOrder.
IInv == TypeOK /\ StackReady /\ QueuesReady /\ StagesNest /\ SectionOrder

\* The continuations of form d, the tasks that do the rest of its work: on
\* the stack, and in what waits for a feature.
Continues(t, d) ==
    t.arg = d /\ t.op \in {"await", "settle", "demand", "config", "configured"}
OnStack(d) == {i \in DOMAIN todo : Continues(todo[i], d)}
Waiting(d) ==
    UNION {{<<f, i>> : i \in {j \in DOMAIN afterLoad[f] : Continues(afterLoad[f][j], d)}} :
           f \in Features}

\* A form that was evaluated is never dropped and never run twice: until it
\* is configured, or an error unwound past it, exactly one continuation of it
\* exists, and none of those that wait waits for a feature that is loaded.
EveryFormOnce ==
    /\ \A d \in seen :
         Cardinality(OnStack(d)) + Cardinality(Waiting(d)) =
           IF d \in configured \/ \E t \in lost : Continues(t, d) THEN 0 ELSE 1
    /\ \A f \in loaded : afterLoad[f] = <<>>

\* The places of the code that evaluate form d: in .emacs, and in the sections
\* of other forms.
UsesIn(d, script) == {i \in DOMAIN script : script[i] = Use(d)}
Places(d) ==
    ({".emacs"} \X {d} \X UsesIn(d, DotEmacs))
    \cup UNION {({"init"} \X {c} \X UsesIn(d, Decl[c].init))
                \cup ({"config"} \X {c} \X UsesIn(d, Decl[c].config)) : c \in Decls}

\* No form is written down, or included, twice.
UsedOnce == \A d \in Decls : \A p, q \in Places(d) : p = q

\* The forms of .emacs that are evaluated in every session, and those of them
\* whose packages are required as .emacs is read.
Certain(d) ==
    /\ Use(d) \in Range(DotEmacs) /\ ~Decl[d].disabled
    /\ Decl[d].when = {} /\ Decl[d].unless = {}
Prompt(d) ==
    Certain(d) /\ Decl[d].after = <<>> /\ ~Deferred(d) /\ ~Decl[d].noRequire

\* These and what they require are loaded by the end of .emacs.
EarlyLibraries ==
    UNION {{Decl[d].feature} \cup Range(Requires[Decl[d].feature]) :
           d \in {e \in Decls : Prompt(e)}}

\* What :hook puts on after-init-hook runs: once Emacs is up after a startup
\* without errors, each of those functions has been called.
HookedAtInitRuns ==
    AtRest /\ lost = {} => Range(initHook) \subseteq called

\* A form with a function for that hook is in .emacs itself, and what it waits
\* for is loaded by the end of .emacs.
HookedEarly ==
    \A d \in {e \in Decls : Decl[e].initHook} :
      /\ \A c \in Decls : Use(d) \notin Range(Decl[c].init) \cup Range(Decl[c].config)
      /\ Range(Decl[d].after) \subseteq EarlyLibraries

\* Nothing that could still load something is left to happen.
Exhausted ==
    /\ AtRest
    /\ \A d \in autoloads : Decl[d].feature \in Missing
    /\ idle = {} /\ Elsewhere \subseteq loaded

\* A form with a way in of its own, a command or a demand, gets to offer it:
\* it does not wait for ever for a feature that nothing loads.
EntryPointsInstalled ==
    Exhausted /\ lost = {} =>
      \A d \in seen : Decl[d].commands \/ Decl[d].demand => d \in inited

\* What such a form waits for is loaded by others or by the end of .emacs, or it
\* is the installed library of a form of .emacs with commands; and forms that wait
\* for others' commands do not do so in a circle, those of a smaller rank come first.
Grounded(rank) ==
    \A d \in {c \in Decls : Decl[c].commands \/ Decl[c].demand} :
      \A f \in Range(Decl[d].after) \ (EarlyLibraries \cup Elsewhere) :
        \E e \in Decls :
          /\ Certain(e) /\ Decl[e].commands /\ ~Decl[e].demand
          /\ Decl[e].feature = f /\ f \notin Missing
          /\ rank[e] < rank[d]

\* .emacs goes on after the last `ignore-errors' whatever fails in it, and the
\* debugger stays shut: the forms behind it are evaluated.
BehindCatches ==
    {d \in Decls :
       \E i \in DOMAIN DotEmacs :
         /\ DotEmacs[i] = Use(d)
         /\ \A k \in DOMAIN DotEmacs : DotEmacs[k].op = "catch" => k < i}
ErrorsContained ==
    /\ phase # "error"
    /\ phase # "init" =>
         \A d \in BehindCatches : Decl[d].disabled \/ ~Holds(d) \/ d \in seen

\* The work that stays with the forms G and the libraries H.  None of these fails
\* or is missing, none of them needs another form or library, and none of the other
\* forms is about, or waits for, a library of H; what else is in .emacs comes
\* before the end of an `ignore-errors'.
Within(G, H) ==
    {t \in Task : \/ t.op = "catch"
                  \/ t.op \in DeclOps \cup {"await"} /\ t.arg \in G
                  \/ t.op \in FeatureOps /\ t.arg \in H}
Dependable(G, H) ==
    /\ \A d \in G \cap Decls :
         /\ d \notin Faulty /\ Decl[d].feature \in H
         /\ Range(Decl[d].init) \cup Range(Decl[d].config) \subseteq Within(G, H)
    /\ \A f \in H \cap Features : f \notin Missing /\ Range(Requires[f]) \subseteq H
    /\ \A d \in Decls \ G : ({Decl[d].feature} \cup Range(Decl[d].after)) \cap H = {}
    /\ \A i \in DOMAIN DotEmacs :
         \/ DotEmacs[i] \in Within(G, H)
         \/ \E k \in DOMAIN DotEmacs : k > i /\ DotEmacs[k].op = "catch"

\* No hook, :init or :config calls a command that neither its library nor an
\* autoload defines: the autoloads of a form precede all that refers to them.
CommandsBound ==
    Doing("call") => Now.arg \in autoloads \/ Decl[Now.arg].feature \in loaded

\* A form calls commands of its own only, and only where they are defined: in
\* :init or a hook when it has autoloads, in :config when the package is there.
OwnCommands ==
    /\ \A t \in Range(DotEmacs) : t.op # "call"
    /\ \A d \in Decls :
         /\ \A t \in Range(Decl[d].init) :
              t.op = "call" => t.arg = d /\ Decl[d].commands /\ ~Decl[d].demand
         /\ \A t \in Range(Decl[d].config) :
              t.op = "call" => t.arg = d /\ ~Inline(d)
         /\ Decl[d].initHook => Decl[d].commands /\ ~Decl[d].demand

\* The libraries in C wait for one another: each form about one of them waits
\* for one of them, or is deferred with neither a command nor a timer, and
\* nothing else loads one of them.
Passive(d) ==
    Deferred(d) /\ Decl[d].defer # "idle" /\ ~Decl[d].commands
Scripts == {DotEmacs} \cup UNION {{Decl[d].init, Decl[d].config} : d \in Decls}
Stuck(C) ==
    /\ C \cap Elsewhere = {}
    /\ \A d \in Decls :
         Decl[d].feature \in C => Range(Decl[d].after) \cap C # {} \/ Passive(d)
    /\ \A f \in Features \ C : Range(Requires[f]) \cap C = {}
    /\ \A s \in Scripts : \A t \in Range(s) : t.op = "require" => t.arg \notin C

Circles == {C \in SUBSET (Features \ Elsewhere) : Stuck(C)}

\* A circle of waiting libraries stays as it is: none of them is ever loaded,
\* whatever commands, timers and other libraries do.
NeverLoads(C) == loaded \cap C = {}
CirclesStay == \A C \in Circles : NeverLoads(C)

\* Startup ends, whatever is missing or fails on the way.
StartupEnds == <>AtRest

\* What :defer N announces happens: a form whose timer was set is configured,
\* unless its library is missing or an error got in the way.
IdleFormsConfigured ==
    \A d \in Decls :
      Decl[d].defer = "idle" /\ d \in inited
        ~> \/ d \in configured
           \/ Decl[d].feature \in Missing
           \/ \E t \in lost : Continues(t, d)

\* Seen through the statuses of use-package-report, the handlers do what the
\* report says.
Lifecycle ==
    INSTANCE PackageLifecycle WITH
        Feature <- [d \in Decls |-> Decl[d].feature],
        After <- [d \in Decls |-> Range(Decl[d].after)],
        Standalone <- {d \in Decls : Inline(d)},
        stage <- [d \in Decls |->
                    IF d \in configured THEN "configured"
                    ELSE IF d \in inited THEN "initialized"
                    ELSE IF d \in seen THEN "declared" ELSE "none"]
ImplementsLifecycle == Lifecycle!Spec
=============================================================================
