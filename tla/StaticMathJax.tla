--------------------------- MODULE StaticMathJax ---------------------------
(***************************************************************************)
(* staticmathjax: load a page that uses MathJax, wait until MathJax is     *)
(* done, and save what it made of the page with its fonts moved elsewhere. *)
(* The loops of serialize() take a step for each turn; the list of script  *)
(* tags is the DOM's own and shrinks while it is gone through.             *)
(***************************************************************************)
EXTENDS Integers, Sequences, SequencesExt, FiniteSetsExt

CONSTANTS
    Urls,          \* what font rules refer to
    Within,        \* <<s, u>>: the text of s is the beginning of u's, or u's
    UnderRoot,     \* the urls that begin with MathJax.Hub.config.root
    Pages,         \* the pages that there are
    CommandLines   \* the command lines it is called with

Plain  == "plain"     \* a rule that has nothing to do with fonts
NoUrl  == "no url"    \* a font rule whose src has no quoted url
NotYet == "not yet"

Rule == [url : Urls \cup {Plain, NoUrl}, inline : BOOLEAN]
Script == {"MathJax.js", "other"}
Page == [scripts : Seq(Script), rules : Seq(Rule), message : BOOLEAN,
         readable : SUBSET Urls, writable : BOOLEAN]
CommandLine == [embed : BOOLEAN, final : BOOLEAN, source : BOOLEAN, dest : BOOLEAN]

ASSUME StaticMathJaxAssumption ==
    /\ Pages \subseteq Page /\ CommandLines \subseteq CommandLine
    /\ UnderRoot \subseteq Urls
    /\ {Plain, NoUrl, NotYet} \cap Urls = {}
    /\ \A u \in Urls : <<u, u>> \in Within
    /\ \A s, u \in Urls : <<s, u>> \in Within => (s \in UnderRoot <=> u \in UnderRoot)

VARIABLES
    page,          \* the page as it is on disk
    args,          \* the command line
    at,            \* what runs next, or that nothing does
    turn,          \* how far the loop has come
    scripts,       \* the script tags in the document
    searchURIList,
    xhtml,         \* the urls in the serialized text, by the number of their rule,
                   \* and by what search each was replaced
    saved          \* the output file is written

work == <<turn, scripts, searchURIList, xhtml, saved>>
staticVars == <<page, args, at, work>>

-----------------------------------------------------------------------------
\* init(): errors are shown, and the window closed.
InitWindow ==
    /\ at = "init"
    /\ at' = IF (args.embed \/ args.final) /\ args.source /\ args.dest
             THEN "loading" ELSE "alert"
    /\ UNCHANGED <<page, args, work>>

\* iframeLoaded() throws when the page does not use MathJax.
IframeLoaded ==
    /\ at = "loading"
    /\ at' = IF Contains(page.scripts, "MathJax.js") THEN "waiting" ELSE "stuck"
    /\ UNCHANGED <<page, args, work>>

\* The hook on MathJax's "End": serialize() until its first loop.  Without
\* MathJax's status window it throws.
Serialize ==
    /\ at = "waiting"
    /\ at' = IF page.message THEN "rules" ELSE "stuck"
    /\ turn' = 1
    /\ UNCHANGED <<page, args, scripts, searchURIList, xhtml, saved>>

\* What makes the loop over the rules throw.
Throws(rule) == rule.url = NoUrl \/ (args.embed /\ rule.url \in Urls \ page.readable)

\* Mutant: a url is pushed once.
CollectRuleOnce ==
    /\ at = "rules" /\ turn <= Len(page.rules)
    /\ LET rule == page.rules[turn]
       IN /\ at' = IF Throws(rule) THEN "stuck" ELSE at
          /\ searchURIList' = IF rule.url \in Urls /\ ~Contains(searchURIList, rule.url)
                              THEN Append(searchURIList, rule.url) ELSE searchURIList
    /\ turn' = turn + 1
    /\ UNCHANGED <<page, args, scripts, xhtml, saved>>

\* A url is pushed once for each rule that has it.
CollectRule ==
    /\ at = "rules" /\ turn <= Len(page.rules)
    /\ LET rule == page.rules[turn]
       IN /\ at' = IF Throws(rule) THEN "stuck" ELSE at
          /\ searchURIList' = IF rule.url \in Urls THEN Append(searchURIList, rule.url)
                              ELSE searchURIList
    /\ turn' = turn + 1
    /\ UNCHANGED <<page, args, scripts, xhtml, saved>>

\* Mutant: the loop starts at the second tag.
RulesDoneFromSecond ==
    /\ at = "rules" /\ turn > Len(page.rules) /\ at' = "scripts" /\ turn' = 2
    /\ UNCHANGED <<page, args, scripts, searchURIList, xhtml, saved>>

RulesDone ==
    /\ at = "rules" /\ turn > Len(page.rules)
    /\ at' = "scripts" /\ turn' = 1
    /\ UNCHANGED <<page, args, scripts, searchURIList, xhtml, saved>>

\* One turn of the loop that removes MathJax's script tags.
ExamineScript ==
    /\ at = "scripts" /\ turn <= Len(scripts)
    /\ scripts' = IF scripts[turn] = "MathJax.js" THEN RemoveAt(scripts, turn) ELSE scripts
    /\ turn' = turn + 1
    /\ UNCHANGED <<page, args, at, searchURIList, xhtml, saved>>

\* The text has the urls of the rules that are in the page itself, in their order.
Serialized ==
    [k \in {j \in DOMAIN page.rules : page.rules[j].url \in Urls /\ page.rules[j].inline}
       |-> [url |-> page.rules[k].url, by |-> NotYet]]

ScriptsDone ==
    /\ at = "scripts" /\ turn > Len(scripts)
    /\ at' = "replacing" /\ turn' = 1
    /\ xhtml' = Serialized
    /\ UNCHANGED <<page, args, scripts, searchURIList, saved>>

\* String.replace replaces the first occurrence.  The replacement of a font that
\* is not MathJax's is its own url, unless fonts are embedded.
Changes(url) == args.embed \/ url \in UnderRoot

Occurrences(search) ==
    {k \in DOMAIN xhtml : xhtml[k].by = NotYet /\ <<search, xhtml[k].url>> \in Within}

Replace ==
    /\ at = "replacing" /\ turn <= Len(searchURIList)
    /\ LET search == searchURIList[turn]
           found  == Occurrences(search)
       IN xhtml' = IF found = {} \/ ~Changes(search) THEN xhtml
                   ELSE [xhtml EXCEPT ![Min(found)].by = search]
    /\ turn' = turn + 1
    /\ UNCHANGED <<page, args, at, scripts, searchURIList, saved>>

\* Mutant: the window stays open after an error.
SaveUncaught ==
    /\ at = "replacing" /\ turn > Len(searchURIList)
    /\ saved' = page.writable /\ at' = IF page.writable THEN "closed" ELSE "stuck"
    /\ UNCHANGED <<page, args, turn, scripts, searchURIList, xhtml>>

\* save() and window.close(); an error is shown before.
Save ==
    /\ at = "replacing" /\ turn > Len(searchURIList)
    /\ saved' = page.writable
    /\ at' = IF page.writable THEN "closed" ELSE "alert"
    /\ UNCHANGED <<page, args, turn, scripts, searchURIList, xhtml>>

\* The user has seen the message.
Dismiss ==
    /\ at = "alert"
    /\ at' = "closed"
    /\ UNCHANGED <<page, args, work>>

-----------------------------------------------------------------------------
StaticInit ==
    /\ page \in Pages /\ args \in CommandLines
    /\ at = "init" /\ turn = 1
    /\ scripts = page.scripts
    /\ searchURIList = <<>> /\ xhtml = <<>> /\ saved = FALSE

StaticNext ==
    \/ InitWindow
    \/ IframeLoaded
    \/ Serialize
    \/ CollectRule
    \/ RulesDone
    \/ ExamineScript
    \/ ScriptsDone
    \/ Replace
    \/ Save
    \/ Dismiss

StaticSpec == StaticInit /\ [][StaticNext]_staticVars

\* Pages load, MathJax finishes, loops go on and users dismiss messages.
StaticFairSpec == StaticSpec /\ WF_staticVars(StaticNext)

-----------------------------------------------------------------------------
(* Properties                                                               *)

\* The loop's lists have their types, and the loops stay within them.
StaticTyped ==
    /\ page \in Pages /\ args \in CommandLines
    /\ at \in {"init", "loading", "waiting", "rules", "scripts", "replacing",
               "alert", "closed", "stuck"}
    /\ scripts \in Seq(Script) /\ Len(scripts) <= Len(page.scripts)
    /\ searchURIList \in Seq(Urls)
    /\ DOMAIN xhtml \subseteq DOMAIN page.rules
    /\ \A k \in DOMAIN xhtml : xhtml[k] \in [url : Urls, by : Urls \cup {NotYet}]
    /\ saved \in BOOLEAN
    /\ turn \in Nat /\ 1 <= turn
    /\ at = "rules" => turn <= Len(page.rules) + 1
    /\ at = "scripts" => turn <= Len(page.scripts) + 1
    /\ at = "replacing" => turn <= Len(searchURIList) + 1

Neighbours(s) == \E k \in 1 .. Len(s) - 1 : s[k] = "MathJax.js" /\ s[k + 1] = "MathJax.js"

\* s is t without some of MathJax's tags: where[k] is where the k-th that is left was.
LeftOut(s, t, where) ==
    /\ \A j, k \in DOMAIN s : j < k => where[j] < where[k]
    /\ \A k \in DOMAIN s : s[k] = t[where[k]]
    /\ \A n \in DOMAIN t : t[n] = "other" => \E k \in DOMAIN s : where[k] = n

\* Removing tags from the list that is gone through skips the next one: still,
\* no tag of MathJax is in the saved page unless two of them were neighbours,
\* and all other tags are, in their order.
ScriptsGone ==
    saved => /\ \E where \in [DOMAIN scripts -> DOMAIN page.scripts] :
                  LeftOut(scripts, page.scripts, where)
             /\ ~Neighbours(page.scripts) => \A k \in DOMAIN scripts : scripts[k] = "other"

\* Each replacement takes the first occurrence only, and one url may begin with
\* another: still, in a page that has its font rules in it every url is replaced,
\* by what replaces that url and no other.
FontsReplaced ==
    saved /\ (\A k \in DOMAIN page.rules : page.rules[k].inline)
      => \A k \in DOMAIN xhtml :
           xhtml[k].by = IF Changes(xhtml[k].url) THEN xhtml[k].url ELSE NotYet

\* The page is one that serialize() copes with.
Copes ==
    /\ Contains(page.scripts, "MathJax.js") /\ page.message
    /\ \A k \in DOMAIN page.rules : ~Throws(page.rules[k])

\* The window closes in the end, with the page saved if it can be; what calls the
\* program waits for ever only for pages that make iframeLoaded or serialize throw.
Closes ==
    /\ Copes => <>(at = "closed" /\ (saved \/ ~page.writable \/ ~args.source \/ ~args.dest
                                       \/ ~(args.embed \/ args.final)))
    /\ <>(at \in {"closed", "stuck"})
=============================================================================
