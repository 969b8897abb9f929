------------------------------- MODULE Skewer -------------------------------
(***************************************************************************)
(* skewer.js in the pages of a browser and the server in skewer-mode.el.   *)
(* A page keeps one request open at the server (a chain of requests, each  *)
(* made when the one before is answered); the server answers all that wait *)
(* with the next message of its queue, and gets a page's result with the   *)
(* request that makes it wait again.  skewer-everything.user.js switches   *)
(* skewer on and off in pages that do not load it themselves.              *)
(***************************************************************************)
EXTENDS Integers, Sequences

CONSTANTS
    Pages,
    Chains,        \* bound: the chains of requests there are at a time
    Types,         \* the types of message that Emacs sends
    MaxMsgs,       \* bound: the messages that Emacs sends
    MaxClicks      \* bound: what happens to pages, connections and callbacks

Msgs == 1 .. MaxMsgs
NoMsg == 0
NoPage == "none"

ASSUME SkewerAssumption ==
    /\ NoPage \notin Pages
    /\ Types # {}
    /\ MaxMsgs \in Nat /\ MaxClicks \in Nat

VARIABLES
    chain,      \* chain |-> where its request is, in which page, with what message
    page,       \* page |-> whether it is there, with which script
    clients,    \* skewer-clients
    queue,      \* skewer-queue
    types,      \* the types of the messages so far, the n-th one numbered n
    callbacks,  \* skewer-callbacks: the messages whose callback is kept
    auto,       \* localStorage._autoskewered
    clicks,     \* how much of that there has been
    ran,        \* page |-> the messages it has handled since it was loaded
    heard,      \* page |-> the messages whose callback got its result since then
    ended       \* the messages that a page handled, or that went when it went

server == <<queue, clients, callbacks, types>>
ghosts == <<ran, heard, ended>>
vars == <<chain, page, server, auto, clicks, ghosts>>

\* Only a request that was answered has a message, until its result is posted.
Over == [at |-> "over", page |-> NoPage, msg |-> NoMsg]
Chain == {Over}
         \cup [at : {"getting", "waiting"}, page : Pages, msg : {NoMsg}]
         \cup [at : {"answered", "posting"}, page : Pages, msg : Msgs]

\* fn: skewer.fn is not there, holds the handlers or was set to null.
Page == [open : BOOLEAN, fn : {"none", "ready", "null"}, injected : BOOLEAN,
         loading : Nat, starts : Nat]

Closed == [open |-> FALSE, fn |-> "none", injected |-> FALSE, loading |-> 0, starts |-> 0]

Moved(r, at, msg) == [at |-> at, page |-> r.page, msg |-> msg]
Live(c) == chain[c].at # "over"
Free == {c \in Chains : ~Live(c) /\ c \notin clients}
Click == clicks < MaxClicks /\ clicks' = clicks + 1

-----------------------------------------------------------------------------
(* The server                                                               *)

Gone(cs) == {c \in cs : ~Live(c)}

\* Mutant: a message goes, sent or not.
ProcessQueueOnce(cs, msgs, ch, takes) ==
    IF msgs = <<>> \/ cs = {}
    THEN clients' = cs /\ queue' = msgs /\ chain' = ch /\ UNCHANGED ended
    ELSE /\ clients' = {}
         /\ chain' = [c \in Chains |->
                        IF c \in cs /\ ch[c].at = "waiting"
                        THEN Moved(ch[c], "answered", Head(msgs))
                        ELSE ch[c]]
         /\ queue' = Tail(msgs)
         /\ ended' = IF takes = {} THEN ended ELSE ended \cup {Head(msgs)}

\* skewer-process-queue: the first message goes to all clients, those of them
\* that have gone and whose connection takes it still (in `takes') included;
\* when it could be sent to none it goes back to the queue.
ProcessQueue(cs, msgs, ch, takes) ==
    IF msgs = <<>> \/ cs = {}
    THEN clients' = cs /\ queue' = msgs /\ chain' = ch /\ UNCHANGED ended
    ELSE /\ clients' = {}
         /\ chain' = [c \in Chains |->
                        IF c \in cs /\ ch[c].at = "waiting"
                        THEN Moved(ch[c], "answered", Head(msgs))
                        ELSE ch[c]]
         /\ queue' = IF cs \ Gone(cs) = {} /\ takes = {} THEN msgs ELSE Tail(msgs)
         /\ ended' = IF takes = {} THEN ended ELSE ended \cup {Head(msgs)}

\* Mutant: the newest message goes first.
EvalInFront(type) ==
    /\ Len(types) < MaxMsgs
    /\ type = "ping" => clients # {}
    /\ types' = Append(types, type)
    /\ callbacks' = callbacks \cup IF type = "ping" THEN {} ELSE {Len(types')}
    /\ \E takes \in SUBSET Gone(clients) :
         ProcessQueue(clients, <<Len(types')>> \o queue, chain, takes)
    /\ UNCHANGED <<page, auto, clicks, ran, heard>>

\* skewer-eval; a ping, which has no callback, is not queued when nobody waits.
Eval(type) ==
    /\ Len(types) < MaxMsgs
    /\ type = "ping" => clients # {}
    /\ types' = Append(types, type)
    /\ callbacks' = callbacks \cup IF type = "ping" THEN {} ELSE {Len(types')}
    /\ \E takes \in SUBSET Gone(clients) :
         ProcessQueue(clients, Append(queue, Len(types')), chain, takes)
    /\ UNCHANGED <<page, auto, clicks, ran, heard>>

\* Mutant: messages do not go to new clients.
QueueClientOnly(c) ==
    /\ clients' = clients \cup {c}
    /\ chain' = [chain EXCEPT ![c] = Moved(@, "waiting", NoMsg)]
    /\ UNCHANGED <<queue, ended>>

\* skewer-queue-client: this chain's request waits.
QueueClient(c) ==
    \E takes \in SUBSET Gone(clients) :
      ProcessQueue(clients \cup {c}, queue,
                   [chain EXCEPT ![c] = Moved(@, "waiting", NoMsg)], takes)

\* httpd/skewer/get
GetArrives(c) ==
    /\ chain[c].at = "getting"
    /\ QueueClient(c)
    /\ UNCHANGED <<page, callbacks, types, auto, clicks, ran, heard>>

\* httpd/skewer/post: the callback gets the result, then the request waits.
PostArrives(c) ==
    /\ chain[c].at = "posting"
    /\ QueueClient(c)
    /\ heard' = IF chain[c].msg \in callbacks
                THEN [heard EXCEPT ![chain[c].page] = Append(@, chain[c].msg)]
                ELSE heard
    /\ UNCHANGED <<page, callbacks, types, auto, clicks, ran>>

\* Mutant: a result is posted again after an error.
CallbackFailsPostsAgain(c) ==
    /\ chain[c].at = "posting" /\ chain[c].msg \in callbacks
    /\ heard' = [heard EXCEPT ![chain[c].page] = Append(@, chain[c].msg)]
    /\ UNCHANGED <<chain, page, server, auto, clicks, ran, ended>>

\* An error in the callback is answered by httpd with status 500.
CallbackFails(c) ==
    /\ chain[c].at = "posting" /\ chain[c].msg \in callbacks
    /\ chain' = [chain EXCEPT ![c] = Over]
    /\ heard' = [heard EXCEPT ![chain[c].page] = Append(@, chain[c].msg)]
    /\ UNCHANGED <<page, server, auto, clicks, ran, ended>>

\* skewer-timeout
Expire(m) ==
    /\ Click /\ m \in callbacks
    /\ callbacks' = callbacks \ {m}
    /\ UNCHANGED <<chain, page, clients, queue, types, auto, ghosts>>

-----------------------------------------------------------------------------
(* skewer.js                                                                *)

\* What the handlers of skewer.fn do: return a result, return none, or throw.
\* eval throws when null was thrown, html when a part of the path cannot be
\* made, fetchselector when nothing matches, completions when its expression
\* throws.  Handlers that skewer-js-hook adds do what they like, and there may
\* be none for the type.
Outcomes(type) ==
    CASE type \in {"script", "ping", "css", "cssClearAll"} -> {"result"}
      [] type \in {"eval", "html", "fetchselector", "completions"} -> {"result", "error"}
      [] OTHER -> {"result", "nothing", "error"}

\* Mutant: a request without a result keeps its message.
AfterKeepingMessage(outcome, r) ==
    CASE outcome = "result"  -> Moved(r, "posting", r.msg)
      [] outcome = "nothing" -> Moved(r, "getting", r.msg)
      [] outcome = "error"   -> Over

\* After a result comes a POST with it, after none a GET, after an error nothing.
After(outcome, r) ==
    CASE outcome = "result"  -> Moved(r, "posting", r.msg)
      [] outcome = "nothing" -> Moved(r, "getting", NoMsg)
      [] outcome = "error"   -> Over

\* callback(request)
Handle(c) ==
    /\ chain[c].at = "answered"
    /\ LET p == chain[c].page
       IN IF page[p].fn = "ready"
          THEN /\ \E outcome \in Outcomes(types[chain[c].msg]) :
                    chain' = [chain EXCEPT ![c] = After(outcome, @)]
               /\ ran' = [ran EXCEPT ![p] = Append(@, chain[c].msg)]
          ELSE chain' = [chain EXCEPT ![c] = Over] /\ UNCHANGED ran
    /\ ended' = ended \cup {chain[c].msg}
    /\ UNCHANGED <<page, server, auto, clicks, heard>>

\* skewer(), run by the script when its page is there.
Start(p, c) ==
    chain' = [chain EXCEPT ![c] = [at |-> "getting", page |-> p, msg |-> NoMsg]]

-----------------------------------------------------------------------------
(* Pages                                                                    *)

CutChains(p) == [c \in Chains |-> IF chain[c].page = p THEN Over ELSE chain[c]]

\* What goes with the chains that are cut.
Undelivered(cs) == {chain[c].msg : c \in {d \in cs : chain[d].at = "answered"}}

\* A page that has skewer's script in it, or has not; the userscript injects it
\* when it did so last time.
LoadPage(p, embedded) ==
    /\ Click /\ ~page[p].open
    /\ page' = [page EXCEPT ![p] =
                  [open |-> TRUE, fn |-> IF embedded THEN "ready" ELSE "none",
                   injected |-> auto, loading |-> IF auto THEN 1 ELSE 0,
                   starts |-> IF embedded THEN 1 ELSE 0]]
    /\ IF embedded THEN \E c \in Free : Start(p, c) ELSE UNCHANGED chain
    /\ UNCHANGED <<server, auto, ghosts>>

\* inject(), on a click on the toggle.  With no skewer yet, `skewer.fn = null'
\* throws and the toggle stays as it is.
SwitchOn(p) ==
    /\ Click /\ page[p].open /\ ~page[p].injected
    /\ page' = [page EXCEPT ![p].injected = TRUE, ![p].loading = @ + 1]
    /\ auto' = TRUE
    /\ UNCHANGED <<chain, server, ghosts>>

SwitchOff(p) ==
    /\ Click /\ page[p].open /\ page[p].injected /\ page[p].fn # "none"
    /\ page' = [page EXCEPT ![p].injected = FALSE, ![p].fn = "null"]
    /\ auto' = FALSE
    /\ UNCHANGED <<chain, server, ghosts>>

\* The injected script arrives: its handlers are there, and skewer() starts.
ScriptLoads(p) ==
    /\ page[p].loading > 0
    /\ page' = [page EXCEPT ![p].loading = @ - 1, ![p].fn = "ready", ![p].starts = @ + 1]
    /\ \E c \in Free : Start(p, c)
    /\ UNCHANGED <<server, auto, clicks, ghosts>>

ClosePage(p) ==
    /\ Click /\ page[p].open
    /\ page' = [page EXCEPT ![p] = Closed]
    /\ chain' = CutChains(p)
    /\ ran' = [ran EXCEPT ![p] = <<>>]
    /\ heard' = [heard EXCEPT ![p] = <<>>]
    /\ ended' = ended \cup Undelivered({c \in Chains : chain[c].page = p})
    /\ UNCHANGED <<server, auto>>

\* A connection is cut, or skewer-response-hook fails after the request was
\* queued: the status is not 200 and no callback is called.
Cut(c) ==
    /\ Click /\ Live(c)
    /\ chain' = [chain EXCEPT ![c] = Over]
    /\ ended' = ended \cup Undelivered({c})
    /\ UNCHANGED <<page, server, auto, ran, heard>>

-----------------------------------------------------------------------------
Init ==
    /\ chain = [c \in Chains |-> Over]
    /\ page = [p \in Pages |-> Closed]
    /\ clients = {} /\ queue = <<>> /\ types = <<>> /\ callbacks = {}
    /\ auto \in BOOLEAN
    /\ clicks = 0
    /\ ran = [p \in Pages |-> <<>>] /\ heard = [p \in Pages |-> <<>>]
    /\ ended = {}

Request(c) == GetArrives(c) \/ PostArrives(c) \/ CallbackFails(c) \/ Handle(c)

User(p) ==
    \/ \E embedded \in BOOLEAN : LoadPage(p, embedded)
    \/ SwitchOn(p) \/ SwitchOff(p) \/ ScriptLoads(p)
    \/ ClosePage(p)

Next ==
    \/ \E type \in Types : Eval(type)
    \/ \E m \in Msgs : Expire(m)
    \/ \E c \in Chains : Request(c) \/ Cut(c)
    \/ \E p \in Pages : User(p)

Spec == Init /\ [][Next]_vars

\* Requests and answers arrive, and pages get to handle them.
FairSpec == Spec /\ \A c \in Chains : WF_vars(Request(c))

-----------------------------------------------------------------------------
(* Properties                                                               *)

\* Chains, pages and the lists of the server have their types.
TypeOK ==
    /\ chain \in [Chains -> Chain]
    /\ page \in [Pages -> Page]
    /\ clients \subseteq Chains
    /\ queue \in Seq(Msgs) /\ types \in Seq(Types) /\ Len(types) <= MaxMsgs
    /\ callbacks \subseteq Msgs /\ ended \subseteq Msgs
    /\ auto \in BOOLEAN /\ clicks \in 0 .. MaxClicks
    /\ ran \in [Pages -> Seq(Msgs)] /\ heard \in [Pages -> Seq(Msgs)]

\* skewer-process-queue leaves no message while there is a client to send it to,
\* and the clients are the requests that wait, each of them, and none that has
\* been answered: a page that waits is always found by the next message.
Drained ==
    /\ queue = <<>> \/ clients = {}
    /\ \A c \in Chains : chain[c].at = "waiting" => c \in clients
    /\ \A c \in clients : chain[c].at \in {"waiting", "over"}

\* No message disappears: it is in the queue or on its way to a page, or a page
\* handled it, or it went when the page or the connection it was sent to went.
MessageKept ==
    \A m \in DOMAIN types :
      \/ \E i \in DOMAIN queue : queue[i] = m
      \/ \E c \in Chains : chain[c].at = "answered" /\ chain[c].msg = m
      \/ m \in ended

Increasing(s) == \A i, j \in DOMAIN s : i < j => s[i] < s[j]

\* A page that skewer() was started in once handles each message at most once
\* and in the order Emacs sent them, whatever is cut, closed or switched off.
\* (Switched off and on again, the request from before has a second life.)
InOrder == \A p \in Pages : page[p].starts <= 1 => Increasing(ran[p])

\* The callback of a message is called with a page's result at most once, after
\* the page handled it, and in the order of the messages.
AnsweredInOrder ==
    \A p \in Pages :
      page[p].starts <= 1 =>
        /\ Increasing(heard[p])
        /\ \A i \in DOMAIN heard[p] : \E j \in DOMAIN ran[p] : ran[p][j] = heard[p][i]

\* A message leaves the queue sooner or later, as long as there is a page with a
\* request under way.
QueueMoves ==
    \A m \in Msgs :
      (\E i \in DOMAIN queue : queue[i] = m)
        ~> ((\A i \in DOMAIN queue : queue[i] # m) \/ (\A c \in Chains : ~Live(c)))

\* "After handling the request it sends back the results and queues itself for
\* another request", skewer.js:7-9.
QueuesAgain ==
    [][\A c \in Chains :
         ran' # ran /\ chain[c].at = "answered" /\ chain'[c].at # "answered"
           => chain'[c].at \in {"posting", "getting"}]_vars
=============================================================================
