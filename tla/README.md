# TLA+ models of an Emacs configuration and of the programs it carries

The repository is one person's Emacs: `.emacs`, 105 files in `.emacs.d/setup`,
and some 13,000 files of packages kept beside them.  Two kinds of program in it
have a logic of their own that is hard to test, and both are modelled here:

- **the configuration**, which is a matter of *when things happen*: about 630
  `use-package` forms decide which package is loaded by what and which code runs
  before or after it, and a handful of hooks and replaced functions keep lists
  across commands, sessions and processes;
- **the JavaScript programs** that packages bring along and that Emacs talks to
  or writes pages for: slides with a presenter's popup and touch gestures
  (`ox-ioslide`), pages that evaluate code sent from Emacs (`skewer`), a Node
  process that typesets equations (`math-preview`), an XUL program that saves
  what MathJax made of a page (`staticmathjax`).

Both worlds are single threaded and full of interleavings all the same: nested
loads, hooks and idle timers here; browser events, timers, history, popups, HTTP
requests that stay open, pipes and dying processes there.

## The parts

| part | state | operations | interacts with | hard part |
|---|---|---|---|---|
| `use-package` macro (`use-package-core.el`) | call stack, `features`, `after-load-alist`, autoloads, idle timers, `after-init-hook` | one handler per keyword | every setup file, Emacs's loader | nested loading, order of sections, errors that unwind |
| `use-package-report` | a status per form | the statistics calls in the handlers | the handlers | says what the handlers promise |
| startup (`.emacs`, `setup-package.el`) | `debug-on-error`, hooks | `require` of 97 files, `ignore-errors` round one | all files | failures, the debugger |
| setup files | the forms | none of their own | wait for each other's packages with `:after` | circles, conditions, things too early or too late |
| recent files (`setup-recentf.el`) | a list per process, a file | visit, read-merge-write, exit | other processes | no lock, limit, crash |
| visible bookmarks (`setup-bookmarks.el`, `bm.el`) | overlays, repository, file | find, kill, exit hooks | files changed by others | crash between hooks, stale positions |
| slide deck (`slide-deck.js`) | current slide, lists, overview, iframes, history | keys, clicks, gestures, timers, `popstate` | `SlideController`, Hammer | the current slide is kept in five places |
| presenter mode (`slide-controller.js`) | popup, `localStorage`, posted keys | open, block, load, post, obey | both windows' decks | two windows drift apart |
| gestures (`hammer.js`) | a dozen variables beginning with `_` | touch, mouse, hold timer | the deck's `ondragend` | fingers that come and go, a late timer |
| skewer (`skewer.js`, userscript, `skewer-mode.el`) | queue, clients, callbacks, an open request per page | eval, long poll, post, inject, time-out | pages and connections that go | messages without pages, pages without messages |
| math preview (`math-preview.js`, `.el`) | jobs, overlays, pipes | start, submit, typeset, filter, stop, reap | a process that dies | answers out of order, in pieces, cut off, from the one before |
| static MathJax (`main.js`) | loop counters, the DOM's list, the text | load, wait, three loops, save | MathJax in an iframe | a list that shrinks while it is gone through |

The other parts (language lists, org, mail, keys, themes, third-party packages)
are listed in `PROJECT.json` with the reason why they are not modelled.

What makes each part correct:

- *macro*: a form's sections run in order, `:config` with all that it was
  promised; no form is lost or run twice; commands exist before they are used.
- *setup files*: what a form offers is offered in the end; what goes on a hook
  is there when the hook runs; an ignored error stays contained.
- *recent files*: a session never forgets its files, a save takes none out.
- *visible bookmarks*: bookmarks survive all moves between buffer, memory and
  disk, and are lost in known ways only.
- *slides*: what is marked, laid out, preloaded and named by the URL is the
  slide shown, and the audience's window follows the presenter's.
- *gestures*: what ends has started; a press is one thing only, and becomes it.
- *skewer*: a message meets a page whenever there are both; none disappears or
  changes places with another.
- *math preview*: each equation gets its own image, and gets it in the end.
- *static MathJax*: the saved page is free of MathJax, its fonts are found, and
  whoever called the program gets an end.

## The modules

| module | models |
|---|---|
| `Forms` | what a form says (its normalised keywords) and the tasks it expands to |
| `UsePackage` | the handlers, `require`/`load`/`provide`, `after-load-alist`, errors, startup, timers; for any forms |
| `PackageLifecycle` | abstract: a form is declared, initialized, configured |
| `SetupForms`, `MCUsePackage` | the forms of the setup files, and groups of files that interact as instances of `UsePackage` |
| `Recentf`, `MCRecentf` | the shared list of recent files |
| `Bookmarks`, `MCBookmarks` | `bm` with the hooks of `setup-bookmarks.el` |
| `SlideDeck` | the deck of one window: a record, and the page's handlers as operators on it |
| `Presenter`, `MCPresenter` | composes two decks, their histories and the messages between them |
| `Hammer`, `MCHammer` | `handleEvents` and the hold timer, with fingers, a mouse and time |
| `Skewer`, `MCSkewer` | pages, requests and the server in Emacs |
| `MathPreview`, `MCMathPreview` | Emacs, the Node program and the pipes between them |
| `StaticMathJax`, `MCStaticMathJax` | from the command line to the saved file |
| `UsePackage_proofs`, `Recentf_proofs`, `Bookmarks_proofs`, `Presenter_proofs`, `Hammer_proofs`, `Skewer_proofs`, `MathJax_proofs` | theorems |
| `Folding` | lemmas about folds over finite sets and sequences, and about recursive functions on sets |

### `UsePackage` and the code

A `use-package` form is a macro call; what is modelled is the code it expands
to under the settings of `setup-package.el:88-93` (`use-package-expand-minimally`
t, so an error of `require` is not caught).  `todo` is the Lisp call stack seen
from inside: the head is what runs next, and a task is replaced by the work it
expands to.

| action | code |
|---|---|
| `SkipUse`, `EvalUse` | the macro, `:disabled`, `:if`/`:when`/`:unless` |
| `AwaitAfter` | one `eval-after-load` of `use-package-require-after-load`; the last feature is outermost |
| `EvalBody` | `:commands` (also implied by `:bind`, `:mode`, `:hook`...): autoloads unless `:demand` or defined; then `:init` |
| `Settle` | end of `:init`; `:defer` (timer, `eval-after-load`) or `:load` |
| `Demand`, `EvalConfig`, `ConfigDone` | `:load` (a plain `require`), `:config` |
| `AddHook` | `:hook`, last; only functions on `after-init-hook` are followed |
| `InitFails`, `ConfigFails`, `LoadMissing` | an error: unwinds to the nearest `ignore-errors`, else opens the debugger (while `.emacs` is read) or ends the command |
| `RequireFeature`, `LoadFile`, `Provide`, `CallCommand` | Emacs: a library requires others, then provides itself, then its after-load functions run in order |
| `RunAfterInitHook`, `QuitDebugger`, `EnterCommandLoop` | the end of startup |
| `Invoke`, `LoadElsewhere`, `IdleTimer` | the command loop |

The rows of `SetupForms` follow the files.  `commands` stands for any keyword
that creates an autoload; `init` and `config` list only the nested forms,
`require`s and commands of the package in those sections.

Assumptions about what is outside the forms: `package-initialize` is never
called, so packages' own autoload files are not loaded; `Requires` lists what a
library requires among the features the forms name; `Elsewhere` lists what Emacs
or setup files outside the group may load, at any time after startup.
Left out: after-load functions stay registered in Emacs 27 and run again when a
file is loaded again; no model loads a file twice.  The statistics record
`:config` when it begins; the model sets `configured` when it is over, as the
report's text has it.

### `Recentf` and the code

`recentf-save-list` is two actions: `BeginSave` copies the list and reads the
file (lines 51-52), `EndSave` merges and writes (53-79), `EndSaveFails` is the
`condition-case` that warns.  Between them other processes take steps and this
one may be killed.  `Merge` is `add-to-list` folded over the copy.
`recentf-mode`, `recentf-load-list` and `recentf-add-file` are Emacs's own and
modelled from how the file uses them; the write is taken to be atomic;
exclusion patterns and the idle cleanup of files that no longer exist are left out.

### `Bookmarks` and the code

The hooks are those of `setup-bookmarks.el:57-60`.  Functions of `bm.el`:
`bm-buffer-restore-2` is the fold `RestoreEntry`, with the search of
`bm-get-position-from-context` (`FromContext`), the error on a nil position
included; `bm-buffer-save`, `bm-repository-add` and `-remove` are `SaveBuffer`, with `Without`;
the order of an entry's bookmarks comes from `bm-lists` and depends on where
point is (`Listed`).  A text is a list of different lines of one length, longer
than the 16 characters of context, so that a context identifies a line.  A file
changes only while it is not visited; it is visited with point at its beginning;
one Emacs at a time.  `wanted` and `newest` are history variables: what the user
has bookmarked, and where the newest copy of that is.

### `SlideDeck`, `Presenter` and the code

A deck is a record whose fields are the variables, classes and timers of
`slide-deck.js` and the window's session history; each handler is an operator
from record to record, made of the same calls in the same order (`Move`,
`UpdateSlides`, `Push`, `FocusOverview`...).  `Presenter` holds one record per
window.  A key pressed in the popup is posted by `onBodyKeyDown_` and obeyed
there at once; `OnMessage` is the main window getting to it.  Such a key is
dispatched on the document, so that `F` and `W`, which look at the event's
target, do nothing (`OnKey`'s `pressed`).  `PopupLoads` has both outcomes of the
race between the popup's `load` event and the deck in it that would listen to
the `P` sent then.  A click in the overview leaves a timer behind (`closing`)
that *toggles* the overview, whatever has been done to it meanwhile.
`MainDeck` takes `setupDone` with it: the query goes off the URL, the mode is
stored, and a popup that is blocked is null, at which the constructor throws and
leaves the deck without a controller.  The timer that loads the next slide's
iframes is not an action: loading twice is loading once, so `preload` keeps what
it will have loaded.  The history is the browser's: `Push` drops what is ahead,
`Go` is back or forward, a reload makes the deck anew at the entry's URL.

### `Hammer` and the code

`OnStart`, `OnMove` and `OnEnd` are the cases of `handleEvents`, with the
gestures they call.  Places are further apart than `drag_min_distance`, so that
moving is dragging; scale and rotation are past their thresholds or not
(`turned`), as the browser pleases.  A device has touches or, where there is no
`ontouchstart`, a mouse with buttons, of which the code does not know more than
down, move, up and out.  Time passes in ticks up to the two time-outs that are
compared with; `HoldTimer` fires when it is due *or later*, which is what
`setTimeout` promises.  The timer is not cleared when a press ends, only when the
next one begins: it fires into whatever there is by then.  `fired`, `held`, `started` and `many`
are history variables.

### `Skewer` and the code

A *chain* is what `skewer()` starts in a page: a request, its answer, the
handler, the next request.  It is on its way (`getting`, or `posting` with a
result), `waiting` in `skewer-clients`, or `answered` with a message that the
page has not handled yet.  `ProcessQueue` is `skewer-process-queue` with all
that it does at once: the message goes to all clients, those of closed pages
included; TCP may take what is sent to those (`takes`), and then the message is
lost and counts as sent.  `Outcomes` says for each type of `skewer.fn` whether it
returns a result, none, or throws, which ends the chain, as nothing catches it.
`SwitchOn`/`SwitchOff`/`ScriptLoads` are the userscript; `Expire` is
`skewer-timeout`; `Cut` is a connection that breaks, or a hook that fails after
the request was queued, so that the status is not 200 and no callback is called.

### `MathPreview` and the code

Each overlay is one job.  `Submit` takes `math-preview-start-process` with it,
which is also a command of its own (`StartProcess`, `StartFails`); it empties the
queue only when there is no process, and deletes the overlays that wait in what
is visible of the current buffer (`Prepare`, `WithoutProcessing`).  `Views` are
the equations of one buffer or, as it may be narrowed, some of them.

An answer is three pieces, the text up to somewhere, the rest of it and the end
of its line, and is read in any portions (`Filter(n)`); what the filter does with
them is a fold of `ReadPiece`, which stops processing at the first line that
cannot be parsed, as the error leaves the filter.  `json-read-from-string` reads
the first value of a line and ignores what follows: a line is parsed when it
begins with a whole answer, and as that answer (`Parses`).  Output of a program
that was killed is still read, up to where it was cut off (`Dies`), until Emacs
deletes the process (`Reap`); what it leaves in the input buffer stays there, as
neither a stop nor a start resets that.  `OnLine` answers what does not match
the schema as job 0.  `late` is a history variable: a job was submitted while
`get-process` still found a dead process, or a process was started while a whole
answer of the one before, without the end of its line, was in the input buffer
(`Stale`).

### `StaticMathJax` and the code

One action per turn of each of the three loops of `serialize()`, with what makes
them throw.  The list of script tags is the DOM's live list and shrinks under
the loop.  A text is the list of the urls in it and what each was replaced by;
`Within` says which url is the beginning of another, as `String.replace`
replaces the first occurrence of a text.  An exception in the hook on MathJax's
end is shown nowhere: `at` is then `"stuck"`.

## The runs

| run | instance | properties |
|---|---|---|
| `company` | 15 forms of `setup-company.el` and one after it, three of which may fail | `IInv`, `SectionOrder`, `EveryFormOnce`, `ErrorsContained`, `ImplementsLifecycle` |
| `html` | 12 forms of three files | `CirclesStay` |
| `windows` | 21 forms of two files | `HookedAtInitRuns`, `EntryPointsInstalled`, `CommandsBound` |
| `idle` | 6 forms with timers, two libraries missing (`bm`, `docker-tramp`), one form failing; fair | `StartupEnds`, `IdleFormsConfigured` |
| `recentf` | 2 processes, 3 files, limit 2 | `TypeOK`, `SessionRemembered`, `MergedWhenUnraced` |
| `bookmarks` | 2 files of up to 2 lines, room for 1 | `TypeOK`, `BookmarksKept` |
| `slides` | 3 slides, one with a list of two, 4 inputs, 4 ways to open the deck | `TypeOK`, `ShowsCurrent`, `FramesReady`, `Mirrored`, `HashShowsSlide`, `BuildsFirst` |
| `hammer` | 2 fingers or buttons, 2 places, hold after 2 ticks; fair | `TypeOK`, `OneFingerDrag`, `EndsAfterStart`, `HoldOrTap`, `PressesResolve` |
| `skewer` | 2 pages, 2 chains, 2 messages, 3 clicks; fair | `TypeOK`, `Drained`, `MessageKept`, `InOrder`, `AnsweredInOrder`, `QueueMoves` |
| `math_preview` | 3 equations in 2 buffers, narrowed or not, 3 jobs, 1 fault; fair | `IdsDescend`, `RightImage`, `Tracked`, `JobsFinish` |
| `static_mathjax` | all pages with up to 4 script tags or 3 font rules; fair | `ScriptsGone`, `FontsReplaced`, `Closes` |
| `queues_again` | one page, one evaluation | violates `QueuesAgain` |

What they show:

- `IInv` is checked before it is proved.  `EveryFormOnce` counts the
  continuations of a form: exactly one, on the stack or waiting, until it is
  configured or an error has unwound past it.  `CirclesStay` holds and is
  nothing to be glad of: `web-mode` waits for `web-completion-data`, which only
  `web-mode` or `company-web` would load.  `htmlize` waits for `web-mode` too,
  but Org's HTML export requires it.  The run goes through all sets of libraries of these files; that
  `web-mode`'s is one of the `Circles` is assumed in `MCUsePackage`, so that the
  property is not about the empty one only.
- `ErrorsContained`: whichever of company's forms fails, in whatever nested
  load, the debugger stays shut and what `.emacs` has behind
  `(ignore-errors (require 'setup-company))` is evaluated.
- `BookmarksKept` says in one invariant that the only ways to lose bookmarks
  are: the session ending while they are in a buffer (or, in a crash, in
  memory), a file changed by others, and the repository's limit.
- `Mirrored`: as long as the presenter uses the popup's keyboard only, the
  audience's window, once it has obeyed the keys on their way, shows what the
  popup shows; notes are not part of it.  It is a statement about two decks that
  treat the same keys differently (notes, `F` and `W`, the query).
  `HashShowsSlide` holds only without slide areas, whose click listeners pass
  the event as `opt_dontPush`: the condition says where the URL falls behind.
- `HoldOrTap` holds even with a late timer, because `gestures.tap` compares the
  time itself; `OneFingerDrag` needs that nothing else joined, as a
  second finger makes a drag a `hold` again, and then there is no `dragend`.
- `Drained` is the heart of skewer: pages and messages cannot wait for each
  other.  `InOrder` and `AnsweredInOrder` hold for pages in which `skewer()` was
  started once; switched off and on again, the old request has a second life.
- `RightImage` holds although numbers are used again, and fails, without its
  condition, in two cases: a job is submitted to a process that is dead but not
  yet deleted; or the answer to an old job 1 was cut off just before the end of
  its line, so that the new process's first answer is appended to it, and the
  line is parsed as the old answer: the new job 1 gets the old image.
- `Tracked`: when the queue is emptied the overlays that wait are deleted, but
  only those in view; in another buffer, or outside of a narrowing, they wait for
  ever.  `JobsFinish` is about runs without a fault; after one, an error in the
  filter may take answers with it that were good, and nothing is said of them.
- `Closes` names the pages on which the window stays open without a word
  (`"stuck"`).  staticmathjax's `README.org:76-79` says that "when an error
  occurs, graphical message boxes are displayed": those of the `catch` blocks
  are, but there is none around the hook on MathJax's end.
- `ScriptsGone` and `FontsReplaced` name the pages for which the loops work.
- `queues_again` is the one statement of the code's comments checked here that
  the code does not keep: `skewer.js:7-9` says that the page "queues itself for
  another request"; code that throws `null` makes `errorResult` throw, and the
  page never asks again.

Some divergences are visible in the modules without a run of their own: the
form of `epa-file` puts a function on `after-init-hook` when that may have been
run; `magit` is loaded in the middle of its own `:init`, by the `magit-p4`
nested there; of two `recentf` saves at once the later wins; `bm` loses at an
exit what was set since a buffer was opened; `slideleave` goes to the slide
that was current before the last *move*, also after a jump; an overview
that a key left during the half second after a click comes back with the click's
timer.

### Bounds, and why they are enough

The instances of `UsePackage` are not scaled down: they are the real forms of
the files named, over all values of the `:if` tests, and their state spaces are
finite and explored completely.  What is bounded is which files make up a group
(those that wait for each other's features) and, with `Faulty` and `Missing`,
which forms and libraries fail.  `Recentf` needs two processes for a race, and
three files, with room for two of them (`Limit`), for a list to be reordered and
cut; instances and files are
interchangeable, hence the symmetry.  `Bookmarks` needs two files to evict one
another from a repository of size one, and two lines for an order.

`Presenter`: a first, a middle and a last slide; the middle one's list needs two
items to be faded.  With four inputs (`MaxInputs`) a popup opens, is used, and
is left for another way of moving, and an overview's timer meets two other
actions; messages, timers and page loads are not counted.  `Hammer` is unbounded
but for its fingers: two of them make a transform and outlive one another, three
were checked once and add nothing, as the code only asks for one, two or more; hold
needs two ticks to be "not yet", due and late.  `Skewer`: two pages, so that a
message goes to several clients or to a closed one; two messages, so that
there is an order; three clicks (`MaxClicks`) are enough to inject, switch off
and on again, or to close a page that has a request and open another.
`MathPreview`: three jobs (`MaxJobs`) so that one is answered, another not, and a
third takes a number again; one fault (`MaxFaults`) at any point.
`StaticMathJax`: four tags have neighbours and a tag after them; three rules can
have the same url twice and another that begins with it.

`CHECK_DEADLOCK FALSE` is set where the system really may stop: an Emacs in
which all is loaded has nothing left to do; a deck's or a page's user has used
up the inputs; the mouse is out and no timer runs; the job is done; the window
is closed.  `Recentf` and `Bookmarks` are checked for deadlock.

### Fairness

`UsePackage`: weak fairness of `Evaluate` and `Startup`, as the interpreter does
not stop in the middle of its work.  `IdleTimer(f)` is strongly fair: it is
enabled only between commands, and Emacs becomes idle again and again, but not
for good.  `Hammer`: time passes, and the event loop gets to a timer that is due.
`Skewer`: requests and answers of a connection that is not cut arrive, and a page
that is open handles them (one weak fairness per chain).  `MathPreview`: the
program gets on with its work, and Emacs goes on reading what there is (weak
fairness of taking some of it, in whatever portions).  `StaticMathJax`: pages load, MathJax finishes, users dismiss messages.
Nothing is assumed of what users do, of which way an error goes, or of faults.

## The proofs

Everything is proved for every value of the constants that satisfies the
module's named assumption (the constants have their types); none is about a
bounded instance.

`UsePackage_proofs`, for any forms, libraries, conditions and failures:

- `Invariance`, `TypeCorrect`, `SectionOrderHolds`: `Spec => []IInv`, and with
  it `[]TypeOK` and `[]SectionOrder`.
- `Refinement`: `Spec => ImplementsLifecycle`.
- `CirclesForever`: `[]CirclesStay`, of every set of libraries that is `Stuck`
  none is ever loaded.
- `CommandsAlwaysBound`: `[]CommandsBound`, for forms with `OwnCommands`.
- `FormsRunOnce`: `[]EveryFormOnce`, for forms with `UsedOnce`.
- `HooksCalled`: `[]HookedAtInitRuns`, for forms with `HookedEarly` and `UsedOnce`.
- `EntryPointsReached`: `[]EntryPointsInstalled`, for forms with `UsedOnce` that
  are `Grounded(rank)` for some `rank`.
- `FailuresContained`: `[]ErrorsContained`, if there are forms `G` and libraries
  `H` with `Dependable(G, H)`.

`SectionOrder` is not inductive: nothing in it says why a task that is about to
configure a form may do so.  `IInv` adds what each task has been promised by the
time it is on the stack (`Ready`: an `await` with `n` features left has all the
later ones loaded, a `config` has its `:init` behind it and its package loaded)
and what is missing of that while it waits for a feature (`Stored`: exactly that
feature), so that `Provide`, which moves tasks from the queue to the stack as it
loads the feature, turns `Stored` into `Ready`.  `loaded`, `inited` and `seen`
only grow, so promises are kept (`ReadyGrows`, `StoredGrows`).  There is one
lemma per action (`DemandStep`, `ProvideStep`, ...), on lemmas about replacing
the head of the stack (`ExpandStep`, `ReplaceStep`) and unwinding it
(`SignalStep`); `NextInvariant` puts them together.  The refinement needs `IInv`
too: that a form is configured only from "initialized" is `Ready`.
`CirclesForever` has an invariant of its own, `Unreached(C)`: no task on the stack
will load a library of `C`, and forms of `C` still have a feature of `C` to wait for.

These conditions say of the forms what the properties need of them, and the
properties fail without.  `OwnCommands`: a hook that names another package's
command calls it before that package has autoloads.  `UsedOnce`: a form that two
files include is evaluated twice.  `HookedEarly`: a form that waits for a library
loaded only later puts its function on `after-init-hook` when that has been run,
as `epa-file`'s does.  `Grounded`: of two forms that wait for each other's
commands, neither gets to offer them.  `Dependable`: what comes behind an
`ignore-errors` must not fail itself, nor load a library that other forms have
work waiting for, as their errors would be signalled there.  They are predicates on the
constants alone, and never stated of anything that happens; `MCUsePackage` assumes
of each group of setup files what the properties of its run need (`HookedEarly`,
`OwnCommands` and `UsedOnce` of all, `Grounded` of windows and helm, `Dependable`
of company, each with its `rank`, forms and libraries), so TLC evaluates them on
the real forms, and the theorems apply to those.

`CommandsBound` speaks of the head of the stack; `AllCallable` of all of it and of
`after-init-hook`: whatever calls a command, or may put one on the hook, does so
when the command has its autoload or its library (`Bound`).  `StaysBound` is the
point: `Provide` takes autoloads away, but only those of the library that it
provides.

`EveryFormOnce` counts continuations, and a count is no invariant by itself: what
keeps a second one from appearing is that `use-package` of the form is not
evaluated again.  `Tidy(d)` therefore counts the continuations together with the
form's `use` task (`Work`), over stack and queues (`Alone`: at most one in all),
says when there is a continuation and when there is none, and that a form that is
written in a section of another is neither waiting nor seen before that section
was opened (`Reached`; `InitOpen` and `ConfigOpen` say by the outer form's own
tasks when that was).  The lemmas on stacks and queues say what putting work on the stack
(`HeadReplaced`), putting it off (`HeadQueued`), taking it from a queue
(`QueueRuns`), or unwinding it (`SignalLoses`) does to the tasks of any set; the
lemmas on forms (`TidyOn`, `TidyBegins`, `TidyEnds`, `TidySignal`, `TidyQuiet`)
say what each of those does to a form; then there is one lemma per action.
`NoneLeft` is the other half of the property.  `FormsCounted` turns the
invariant into the numbers of `EveryFormOnce`.

The last three theorems ask what a step without an error does to the stack as a
whole.  Every such step replaces the head task by some work `w`: `Rewrites(w)` says
what `w` is made of (`Brings`), what it does not leave out (`Keeps`), what the
queues and the hook get (`Queues`, `Hooks`) and what is loaded or inited
(`Marks`).  `Rewriting` shows it of each handler once, `Erring` that the three
others lose something, `Starting` what happens at rest; the invariants are
then kept by one lemma each.

- `OnTime`: each form of `.emacs` that is not conditional is seen or on the stack,
  each library required on the way is loaded or somebody on the stack is about to
  require it, and a library is provided only after those that it requires
  (`InTurn`), so that at the end of `.emacs` the `EarlyLibraries` are loaded
  (`EarlyLoaded`).  With `HookedEarly` and `NoneLeft` then nothing that could extend
  `after-init-hook` is left, on the stack or waiting, when that is run (`HooksRun`).
- `EntryPointsReached` takes, of the forms with a way in that are seen and not
  inited, one of the least rank (`LeastNumber` of `Folding`).  It waits for a
  library (`WaitsForOne`, from `Tidy`), which a form of smaller rank offers to load:
  that form has been inited, so its command is defined (`AllOffered`), and
  something is left that could happen.
- `Contained`: while `.emacs` is read, each task that is not among the dependable
  ones (`Within`) has the end of an `ignore-errors` behind it, and the forms behind
  the last one are evaluated or still behind it on the stack.  Dependable work
  gives rise to dependable work only (`WithinWork`) and does not fail
  (`FailsOutside`), so an error always finds such an end, and unwinds no further
  than to the nearest (`ContainedSignal`).

`Recentf_proofs`, for any instances, files and limit: `TypeCorrect`,
`NothingForgotten`, `UnracedSaveMerges`.  The merge of `recentf` is a fold, so
what it does is shown for its steps: after each, the list has what it had and
what was added so far, and nothing twice (`MergeSteps`).  `Kept` says of each
instance that what was visited is in its list, or in the copy it is merging from.

`Bookmarks_proofs`, for any files, texts and size of the repository: `TypeCorrect`,
`MarksSurvive`.  `BookmarksKept` compares lines of text; what finds a place again is
its number.  The invariant therefore adds that an entry which holds the newest
bookmarks of a file gives the size the file has and, for each position, the line
that is there (`KeptIn`): then `bm-buffer-restore-2` puts every bookmark where it
was (`RestoreGives`, an induction over the steps of the fold), and the lines are the
same (`RestoredGives`).  On the way back, all bookmarks are listed wherever point is
(`ListedGives`), so the entry is about the lines of the buffer (`EntryGives`), and
saving it takes away nothing but what `Evicted` names (`SaveGives`), as a file has
one entry at most and the new one is last.  `Where` says of each file which of the
copies are as the user wants them, and `AtRest` that without Emacs there is only
the one on disk; there is one lemma per action.

`MathJax_proofs`, about `MathPreview`, for any equations, buffers, regions, jobs and faults:
`TypeCorrect`, `NumbersDescend`, `OwnImage`, `OverlaysTracked`.  `RightImage` says
nothing of how an answer finds its overlay: by the number, which is used again.
The invariant follows every number through the pipes (`Flights`).  The input
buffer and the output are one stream of pieces (`Stream`), in which the answers
that begin a line are whole or not; those that are whole are due (`Due`), as
they and no others will be parsed (`ReadAllGives`).  A request or due answer that
has the number of a job is for that job's equation (`Suits`), and while the
process runs each number is under way at most once (`Once`) and only if a job
has it (`Expected`); what overlays show already is theirs (`Images`).  When a
process is started nothing is due (`NothingDue`), except for a whole answer left
in the input buffer.  So it holds until a process is started with such an answer,
or a job submitted to a dead process (`late`), which is where the code stops
keeping it.

`MathJax_proofs`, about `StaticMathJax`, for any pages, urls and command lines:
`StaticTypeCorrect`, `OthersKept`, `OwnFonts`.  Both properties speak of the saved
page, so the invariants say what each loop has done so far.  `TagsLeft`: which tag
of the page each tag in the shrinking list is, those from the n-th on being the
last ones of the page, moved by what was removed (`Ahead`), and none of MathJax's
before it if no two were neighbours (`CleanBefore`), because the tag that a
removal skips is the next one.  `Searched`: the n-th search is for the n-th of the
rules that gave a url (`Pushed`); when it is made, whatever comes before that url
and begins with the same text has been replaced by its own search, so that the
first occurrence is the right one (`SearchFindsOwn`).  That needs what
`StaticMathJaxAssumption` says of urls: if one is the beginning of another
(a file's name, not a directory above MathJax), both are MathJax's or neither is.

`Folding` is what those three, `AudienceFollows` and `EntryPointsReached` rest on.  The library's induction rules take a
predicate and cannot be used; but a set can be defined by a formula, and a
non-empty set of numbers has a least element (`LeastNumber`), from which follows
induction over the subsets of a finite set, the property being written as the
set of those that have it (`SetInduction`).  With it a fold is shown to be the last of a
sequence of steps (`FoldSteps`), and a recursive function on finite sets to exist
(`FoldExists`).

`Presenter_proofs`, for any number of slides, lists, settings and ways of opening
the deck: `TypeCorrect`, `ShowsTheCurrent`, `FramesAreReady`, `HashNamesSlide`,
`ListsAreShownFirst`, `AudienceFollows`.  The induction is over handlers: there is one lemma for each
(`PrevSlideKept`, `NextSlideKept`, `PickKept`, `OnKeyKept`, `NewDeckGives`, ...),
which says what it keeps of a deck, whichever window it is in (`Kept`), and
`LocallyStep` makes a step of the system of it.  `Good` adds to the properties that
only slides, null and the blank state are in the history (`Tidy`) and that every
entry that was pushed names its slide (`Named`), which says where `onPopState_`
leads; `Follows`, that the entry the window is at is the one of the slide shown,
is kept only without slide areas, whose click listeners do not push.

`AudienceFollows` is `[]Mirrored`.  Two decks of which the audience sees the same
(`Alike`) stay so under any key, pressed in one and dispatched in the other: what a
key does to the slide, the lists, the overview and the highlighting depends on
nothing else of a deck, so that notes, controllers and histories may differ
(`OnKeyAlike`, with a lemma for each handler).  `Mirroring` is the invariant: there
are decks that the main window becomes as it obeys the keys on their way
(`Obeying`), the last of which is like the popup's; a key that is posted adds one to
them (`ObeysMore`), one that is obeyed takes the first off (`ObeysLess`); and no
timer that would toggle an overview is running.  `Obeys` and `ObeysOnce` identify
the last of those decks with the fold in `Mirrored`.

`Skewer_proofs`, for any number of pages, chains, types and messages:
`TypeCorrect`, `AlwaysDrained`, `HandledInOrder`, `HeardAfterHandled`,
`NoMessageLost`.  The invariant comes in three layers, each proved on top of the
ones before.  `Inv1`: types, `Drained`, a closed page has no requests
(`ClosedPages`), a page started once has one chain (`OneChain`).  `Inv2`: the
queue is in order (`QueueInOrder`), what was sent comes before what is still in
it (`SentFirst`), and a message that a page has not handled yet is newer than all
that it has (`NewToPage`); `InOrder` follows, and is kept because the queue gives
its oldest message to a chain that waits.  `Inv3`: a result on its way is newer
than those heard (`ResultsFirst`), which gives `AnsweredInOrder`.
`OneChain` is why these hold for pages started once and for no others.
`MessageKept` has an induction of its own.

`Hammer_proofs`, for any places, options, time-outs and number of fingers:
`GesturesTyped`, `EndsOnlyAfterStart`, `NeverHoldAndTap`, `OneFingerDrags`.
`GestureInv` adds to the properties: without fingers there is no press and
without a press no gesture (`Pressed`); a gesture under way was started, and once
`_first` is false it is a drag, or a transform of exactly two fingers (`Begun`),
which is why a drag that a second finger interrupts still has a start for its end;
a hold that was triggered leaves no time for a tap (`HeldLate`); a finger that is
alone is the only one (`Alone`).  `StartStep`, `MoveStep` and `EndStep` are the
three cases of `handleEvents`; `GestureStep` adds the devices and the clock.

Only model-checked: liveness (`StartupEnds`, `IdleFormsConfigured`,
`PressesResolve`, `QueueMoves`, `JobsFinish`, `Closes`), as fairness and ENABLED are
beyond the prover.  Every invariant that a run checks, and the refinement, is
proved.

## Not modelled

Besides the parts listed as such in `PROJECT.json`:

- within the macro, `:after` with `:or`/`:any`, `:requires`, `:preface`, and what
  `:bind`, `:mode`, `:custom` and faces set; hooks other than `after-init-hook`;
- where an `ignore-errors` begins: the stack holds only its end, so that an error
  of a form before it would be caught there too; in `company`, the forms before
  `setup-company.el` do not fail;
- that `.emacs` sets `debug-on-error` back to nil before its last files (lines
  321-322: the server, desktop, recent files), so that an error there ends startup
  without the debugger, where the model has the debugger too (`Signal`); and that
  `require` takes back the features and autoloads of a load that an error leaves,
  where the model keeps `loaded`: what is required once more after that, and so
  loaded a second time, is not followed;
- the other setup files, which are lists of forms with settings: nothing waits in
  them for what another of them does;
- of the slides: the branch for phones (480 px), keys in input fields, themes,
  fonts, titles and analytics, and `slide-elastic.js`, which lays out in pixels;
- of `hammer.js`: CSS hacks, cancelled events, distances and angles in the events;
- of skewer: `skewer.log`, `skewer.error` without a callback, `safeStringify`, the
  client list and the REPL's buffer;
- of math-preview: finding equations in the text, scaling and copying images, edits
  under an overlay;
- what is third-party JavaScript, minified or generated: MathJax with its jax and
  extension files, its fonts, prettify, Modernizr, polyfills; and MathJax's
  configurations (`default.js`, `Accessible*.js`, the combined ones), each a single
  call with settings.  Together they are by far most of the repository's
  JavaScript, which is why the modelled share of all its lines stays small while
  that of the programs above is nearly complete.

## Plan

Done: all the modules and proofs above.  Left, in this order:

1. `Bookmarks` with several processes; `bookmark.el` under the misspelt advice.
2. `SetupForms` for the remaining files, and an instance for the whole of `.emacs`
   in its order, with `emacs-startup-hook` beside `after-init-hook`.
