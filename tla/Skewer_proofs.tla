---------------------------- MODULE Skewer_proofs ----------------------------
(***************************************************************************)
(* Proofs about Skewer, for any pages, chains, types of message and        *)
(* bounds: types, Drained, MessageKept, InOrder and AnsweredInOrder.       *)
(***************************************************************************)
EXTENDS Skewer, SequenceTheorems, TLAPS

(***************************************************************************)
(* The inductive invariant.                                                *)
(***************************************************************************)

\* A page that is not there is as it was before it was loaded.
ClosedPages == \A p \in Pages : ~page[p].open => page[p] = Closed

\* A page in which skewer was started once has one chain of requests at most,
\* and one in which it was not has none.
OneChain ==
    \A p \in Pages, c, d \in Chains :
      chain[c].page = p /\ chain[d].page = p =>
        page[p].starts > 0 /\ (page[p].starts = 1 => c = d)

\* The queue is in the order in which Emacs sent the messages.
QueueInOrder ==
    /\ Increasing(queue)
    /\ \A i \in DOMAIN queue : queue[i] <= Len(types)

\* Message m was sent before all that is in the queue.
Earlier(m) == m <= Len(types) /\ \A i \in DOMAIN queue : m < queue[i]

\* What pages have got is earlier than what is in the queue.
SentFirst ==
    /\ \A c \in Chains : chain[c].msg # NoMsg => Earlier(chain[c].msg)
    /\ \A p \in Pages : \A i \in DOMAIN ran[p] : Earlier(ran[p][i])

\* What a page handled is earlier than what it has got and not handled.
NewToPage ==
    \A p \in Pages, c \in Chains :
      page[p].starts <= 1 /\ chain[c].page = p /\ chain[c].at = "answered" =>
        \A i \in DOMAIN ran[p] : ran[p][i] < chain[c].msg

HandledBy(p, m) == \E i \in DOMAIN ran[p] : ran[p][i] = m

\* Results are of messages that the page handled, and those that were heard are
\* earlier than the one that is on its way.
ResultsFirst ==
    /\ \A p \in Pages : \A i \in DOMAIN heard[p] : HandledBy(p, heard[p][i])
    /\ \A p \in Pages, c \in Chains :
         chain[c].page = p /\ chain[c].at = "posting" =>
           /\ HandledBy(p, chain[c].msg)
           /\ page[p].starts <= 1 =>
                \A i \in DOMAIN heard[p] : heard[p][i] < chain[c].msg

HeardInOrder == \A p \in Pages : page[p].starts <= 1 => Increasing(heard[p])

Inv1 == TypeOK /\ Drained /\ ClosedPages /\ OneChain
Inv2 == QueueInOrder /\ SentFirst /\ NewToPage /\ InOrder
Inv3 == ResultsFirst /\ HeardInOrder

IInv == Inv1 /\ Inv2 /\ Inv3

(***************************************************************************)
(* Sequences of messages.                                                  *)
(***************************************************************************)

\* The first message of an increasing sequence is the least, and the rest is
\* increasing.
LEMMA TailIncreasing ==
    ASSUME NEW s \in Seq(Nat), s # <<>>, Increasing(s)
    PROVE  /\ Increasing(Tail(s))
           /\ \A i \in DOMAIN Tail(s) : i + 1 \in DOMAIN s /\ Tail(s)[i] = s[i + 1]
           /\ \A i \in DOMAIN Tail(s) : Head(s) < Tail(s)[i]
<1>1. /\ Tail(s) \in Seq(Nat)
      /\ Len(Tail(s)) = Len(s) - 1
      /\ \A i \in 1 .. Len(Tail(s)) : Tail(s)[i] = s[i + 1]
  BY HeadTailProperties
<1>2. Len(s) \in Nat \ {0} /\ DOMAIN s = 1 .. Len(s)
  BY EmptySeq, LenProperties
<1>3. DOMAIN Tail(s) = 1 .. Len(Tail(s)) /\ Len(Tail(s)) \in Nat
  BY <1>1, LenProperties
<1>4. Head(s) = s[1]
  OBVIOUS
<1>5. \A i \in DOMAIN Tail(s) : i + 1 \in DOMAIN s /\ Tail(s)[i] = s[i + 1]
  BY <1>1, <1>2, <1>3
<1>6. \A i \in DOMAIN Tail(s) : Head(s) < Tail(s)[i]
  <2> TAKE i \in DOMAIN Tail(s)
  <2>1. 1 \in DOMAIN s /\ i + 1 \in DOMAIN s /\ 1 < i + 1
    BY <1>1, <1>2, <1>3
  <2> QED
    BY <2>1, <1>4, <1>5 DEF Increasing
<1>7. Increasing(Tail(s))
  <2> SUFFICES ASSUME NEW i \in DOMAIN Tail(s), NEW j \in DOMAIN Tail(s), i < j
               PROVE  Tail(s)[i] < Tail(s)[j]
    BY DEF Increasing
  <2>1. i + 1 \in DOMAIN s /\ j + 1 \in DOMAIN s /\ i + 1 < j + 1
    BY <1>1, <1>2, <1>3
  <2> QED
    BY <2>1, <1>5 DEF Increasing
<1> QED
  BY <1>5, <1>6, <1>7

\* What Append has in it.
LEMMA AppendElements ==
    ASSUME NEW S, NEW s \in Seq(S), NEW m \in S
    PROVE  /\ Append(s, m) \in Seq(S)
           /\ Append(s, m) # <<>>
           /\ \A i \in DOMAIN s : i \in DOMAIN Append(s, m) /\ Append(s, m)[i] = s[i]
           /\ \E i \in DOMAIN Append(s, m) : Append(s, m)[i] = m
           /\ \A i \in DOMAIN Append(s, m) :
                (i \in DOMAIN s /\ Append(s, m)[i] = s[i]) \/ Append(s, m)[i] = m
<1>1. /\ Append(s, m) \in Seq(S)
      /\ Append(s, m) # <<>>
      /\ Len(Append(s, m)) = Len(s) + 1
      /\ \A i \in 1 .. Len(s) : Append(s, m)[i] = s[i]
      /\ Append(s, m)[Len(s) + 1] = m
  BY AppendProperties
<1>2. Len(s) \in Nat /\ DOMAIN s = 1 .. Len(s) /\ DOMAIN Append(s, m) = 1 .. Len(s) + 1
  BY <1>1, LenProperties
<1> QED
  BY <1>1, <1>2

\* A message that is later than all of a sequence goes to its end.
LEMMA AppendIncreasing ==
    ASSUME NEW s \in Seq(Nat), NEW m \in Nat,
           Increasing(s), \A i \in DOMAIN s : s[i] < m
    PROVE  Increasing(Append(s, m))
<1>1. /\ Append(s, m) \in Seq(Nat)
      /\ Len(Append(s, m)) = Len(s) + 1
      /\ \A i \in 1 .. Len(s) : Append(s, m)[i] = s[i]
      /\ Append(s, m)[Len(s) + 1] = m
  BY AppendProperties
<1>2. Len(s) \in Nat /\ DOMAIN s = 1 .. Len(s) /\ DOMAIN Append(s, m) = 1 .. Len(s) + 1
  BY <1>1, LenProperties
<1> QED
  BY <1>1, <1>2 DEF Increasing

\* A sequence of messages is one of numbers.
LEMMA MsgsAreNumbers ==
    /\ Msgs \subseteq Nat /\ NoMsg \notin Msgs
    /\ \A s \in Seq(Msgs) : s \in Seq(Nat)
<1>1. Msgs \subseteq Nat /\ NoMsg \notin Msgs
  BY SkewerAssumption DEF Msgs, NoMsg
<1>2. ASSUME NEW s \in Seq(Msgs)
      PROVE  s \in Seq(Nat)
  BY <1>1, SeqMonotonic
<1> QED
  BY <1>1, <1>2

(***************************************************************************)
(* Chains.                                                                 *)
(***************************************************************************)

\* What the fields of a chain tell of one another.
LEMMA ChainFields ==
    ASSUME NEW r \in Chain
    PROVE  /\ r.at \in {"over", "getting", "waiting", "answered", "posting"}
           /\ r.at = "over" => r = Over
           /\ r.at # "over" <=> r.page \in Pages
           /\ r.at \in {"answered", "posting"} => r.msg \in Msgs
           /\ r.at \in {"over", "getting", "waiting"} => r.msg = NoMsg
           /\ r.msg \in Nat
<1>1. CASE r = Over
  BY <1>1, SkewerAssumption DEF Over, NoMsg
<1>2. CASE r \in [at : {"getting", "waiting"}, page : Pages, msg : {NoMsg}]
  BY <1>2 DEF NoMsg
<1>3. CASE r \in [at : {"answered", "posting"}, page : Pages, msg : Msgs]
  BY <1>3, MsgsAreNumbers
<1> QED
  BY <1>1, <1>2, <1>3 DEF Chain

\* A chain that moves on stays in its page.
LEMMA ChainMoves ==
    ASSUME NEW r \in Chain, r.at # "over", NEW at, NEW m,
           \/ at \in {"getting", "waiting"} /\ m = NoMsg
           \/ at \in {"answered", "posting"} /\ m \in Msgs
    PROVE  /\ Moved(r, at, m) \in Chain
           /\ Moved(r, at, m).at = at /\ Moved(r, at, m).msg = m
           /\ Moved(r, at, m).page = r.page
<1>1. r.page \in Pages
  BY ChainFields
<1> QED
  BY <1>1 DEF Moved, Chain

\* The message that went, if one went, is the first one, those who got it
\* waited, and it went to somebody.
Queued(msgs, ch) ==
    /\ queue' = msgs \/ (msgs # <<>> /\ queue' = Tail(msgs))
    /\ \A c \in Chains :
         \/ chain'[c] = ch[c]
         \/ /\ ch[c].at = "waiting" /\ msgs # <<>> /\ queue' = Tail(msgs)
            /\ chain'[c].at = "answered" /\ chain'[c].page = ch[c].page
            /\ chain'[c].msg = Head(msgs)
    /\ \/ queue' = msgs \/ Head(msgs) \in ended'
       \/ \E c \in Chains : chain'[c].at = "answered" /\ chain'[c].msg = Head(msgs)
    /\ ended \subseteq ended'

\* What skewer-process-queue does, for the clients, the queue and the chains
\* that skewer-eval and skewer-queue-client give it.
LEMMA Processed ==
    ASSUME chain \in [Chains -> Chain], ended \subseteq Msgs,
           NEW cs \in SUBSET Chains, NEW msgs \in Seq(Msgs),
           NEW ch \in [Chains -> Chain], NEW takes,
           \A c \in Chains : ch[c].at = "waiting" => c \in cs /\ Live(c),
           \A c \in cs : ch[c].at = "waiting" \/ (ch[c].at = "over" /\ ~Live(c)),
           ProcessQueue(cs, msgs, ch, takes)
    PROVE  /\ chain' \in [Chains -> Chain] /\ clients' \subseteq Chains
           /\ queue' \in Seq(Msgs) /\ ended' \subseteq Msgs
           /\ Drained' /\ Queued(msgs, ch)
<1>1. CASE msgs = <<>> \/ cs = {}
  BY <1>1 DEF ProcessQueue, Drained, Queued
<1>2. CASE ~(msgs = <<>> \/ cs = {})
  <2> DEFINE Sent(c) == Moved(ch[c], "answered", Head(msgs))
  <2>1. /\ clients' = {}
        /\ chain' = [c \in Chains |->
                        IF c \in cs /\ ch[c].at = "waiting" THEN Sent(c) ELSE ch[c]]
        /\ queue' = IF cs \ Gone(cs) = {} /\ takes = {} THEN msgs ELSE Tail(msgs)
        /\ ended' = IF takes = {} THEN ended ELSE ended \cup {Head(msgs)}
    BY <1>2 DEF ProcessQueue
  <2>2. Head(msgs) \in Msgs /\ Tail(msgs) \in Seq(Msgs)
    BY <1>2, HeadTailProperties
  <2>3. \A c \in Chains : ch[c].at = "waiting" =>
            /\ Sent(c) \in Chain /\ Sent(c).at = "answered"
            /\ Sent(c).page = ch[c].page /\ Sent(c).msg = Head(msgs)
    BY <2>2, ChainMoves, \A c \in Chains : ch[c] \in Chain
  <2> HIDE DEF Sent
  <2>4. chain' \in [Chains -> Chain]
    BY <2>1, <2>3
  <2>5. \A c \in Chains : chain'[c].at # "waiting"
    BY <2>1, <2>3
  <2>6. \A c \in Chains : ch[c].at = "waiting" => queue' = Tail(msgs)
    BY <2>1 DEF Gone, Live
  <2>7. \A c \in Chains :
          \/ chain'[c] = ch[c]
          \/ ch[c].at = "waiting" /\ queue' = Tail(msgs) /\ chain'[c] = Sent(c)
    BY <2>1, <2>6
  <2>8. ASSUME queue' # msgs, Head(msgs) \notin ended'
        PROVE  \E c \in Chains : chain'[c].at = "answered" /\ chain'[c].msg = Head(msgs)
    <3>1. PICK c \in cs \ Gone(cs) : TRUE
      BY <2>1, <2>8
    <3>2. ch[c].at = "waiting" /\ c \in Chains
      BY <3>1 DEF Gone
    <3> QED
      BY <3>1, <3>2, <2>1, <2>3
  <2>9. Drained'
    BY <2>1, <2>5 DEF Drained
  <2>10. Queued(msgs, ch)
    BY <1>2, <2>1, <2>3, <2>7, <2>8 DEF Queued
  <2> QED
    BY <1>2, <2>1, <2>2, <2>4, <2>9, <2>10
<1> QED
  BY <1>1, <1>2

\* What skewer-process-queue is given by skewer-eval and skewer-queue-client.
LEMMA EvalGives ==
    ASSUME TypeOK, Drained, NEW type \in Types, Eval(type)
    PROVE  /\ types' = Append(types, type) /\ types' \in Seq(Types)
           /\ Len(types') = Len(types) + 1 /\ Len(types') \in Msgs
           /\ Len(types) \in Nat
           /\ \E takes : ProcessQueue(clients, Append(queue, Len(types')), chain, takes)
           /\ Append(queue, Len(types')) \in Seq(Msgs)
           /\ \A c \in Chains : chain[c].at = "waiting" => c \in clients /\ Live(c)
           /\ \A c \in clients :
                chain[c].at = "waiting" \/ (chain[c].at = "over" /\ ~Live(c))
<1>1. types \in Seq(Types) /\ Len(types) < MaxMsgs /\ types' = Append(types, type)
  BY DEF TypeOK, Eval
<1>2. /\ types' \in Seq(Types) /\ Len(types') = Len(types) + 1 /\ Len(types) \in Nat
  BY <1>1, AppendProperties, LenProperties
<1>3. Len(types') \in Msgs
  BY <1>1, <1>2, SkewerAssumption DEF Msgs
<1>4. Append(queue, Len(types')) \in Seq(Msgs)
  BY <1>3, AppendProperties DEF TypeOK
<1>5. /\ \A c \in Chains : chain[c].at = "waiting" => c \in clients /\ Live(c)
      /\ \A c \in clients :
           chain[c].at = "waiting" \/ (chain[c].at = "over" /\ ~Live(c))
  BY DEF Drained, Live
<1> QED
  BY <1>1, <1>2, <1>3, <1>4, <1>5 DEF Eval

Waiting(c) == [chain EXCEPT ![c] = Moved(@, "waiting", NoMsg)]

LEMMA QueueClientGives ==
    ASSUME TypeOK, Drained, NEW c \in Chains, QueueClient(c),
           chain[c].at \in {"getting", "posting"}
    PROVE  /\ \E takes : ProcessQueue(clients \cup {c}, queue, Waiting(c), takes)
           /\ Waiting(c) \in [Chains -> Chain]
           /\ Waiting(c)[c].at = "waiting" /\ Waiting(c)[c].msg = NoMsg
           /\ Waiting(c)[c].page = chain[c].page
           /\ \A d \in Chains : d # c => Waiting(c)[d] = chain[d]
           /\ \A d \in Chains :
                Waiting(c)[d].at = "waiting" => d \in clients \cup {c} /\ Live(d)
           /\ \A d \in clients \cup {c} :
                Waiting(c)[d].at = "waiting" \/ (Waiting(c)[d].at = "over" /\ ~Live(d))
<1>1. chain \in [Chains -> Chain] /\ chain[c] \in Chain /\ clients \subseteq Chains
  BY DEF TypeOK
<1>2. /\ Moved(chain[c], "waiting", NoMsg) \in Chain
      /\ Moved(chain[c], "waiting", NoMsg).at = "waiting"
      /\ Moved(chain[c], "waiting", NoMsg).msg = NoMsg
      /\ Moved(chain[c], "waiting", NoMsg).page = chain[c].page
  BY <1>1, ChainMoves
<1>3. /\ Waiting(c) \in [Chains -> Chain]
      /\ Waiting(c)[c] = Moved(chain[c], "waiting", NoMsg)
      /\ \A d \in Chains : d # c => Waiting(c)[d] = chain[d]
  BY <1>1, <1>2 DEF Waiting
<1>4. \E takes : ProcessQueue(clients \cup {c}, queue, Waiting(c), takes)
  BY DEF QueueClient, Waiting
<1> QED
  BY <1>1, <1>2, <1>3, <1>4 DEF Drained, Live

\* skewer-eval.
LEMMA EvalQueues ==
    ASSUME TypeOK, Drained, NEW type \in Types, Eval(type)
    PROVE  /\ chain' \in [Chains -> Chain] /\ clients' \subseteq Chains
           /\ queue' \in Seq(Msgs) /\ ended' \subseteq Msgs /\ Drained'
           /\ Queued(Append(queue, Len(types')), chain)
<1>1. PICK takes : ProcessQueue(clients, Append(queue, Len(types')), chain, takes)
  BY EvalGives
<1>2. chain \in [Chains -> Chain] /\ ended \subseteq Msgs /\ clients \in SUBSET Chains
  BY DEF TypeOK
<1> QED
  BY <1>1, <1>2, EvalGives, Processed

\* skewer-queue-client, of a request that has come by GET or POST.
LEMMA ClientQueues ==
    ASSUME TypeOK, Drained, NEW c \in Chains, GetArrives(c) \/ PostArrives(c)
    PROVE  /\ chain' \in [Chains -> Chain] /\ clients' \subseteq Chains
           /\ queue' \in Seq(Msgs) /\ ended' \subseteq Msgs /\ Drained'
           /\ Queued(queue, Waiting(c))
           /\ \A d \in Chains :
                /\ Waiting(c)[d].page = chain[d].page
                /\ \/ Waiting(c)[d] = chain[d] /\ d # c
                   \/ Waiting(c)[d].at = "waiting" /\ Waiting(c)[d].msg = NoMsg
<1>1. QueueClient(c) /\ chain[c].at \in {"getting", "posting"}
  BY DEF GetArrives, PostArrives
<1>2. PICK takes : ProcessQueue(clients \cup {c}, queue, Waiting(c), takes)
  BY <1>1, QueueClientGives
<1>3. /\ clients \cup {c} \in SUBSET Chains /\ queue \in Seq(Msgs)
      /\ chain \in [Chains -> Chain] /\ ended \subseteq Msgs
  BY DEF TypeOK
<1>4. /\ Waiting(c) \in [Chains -> Chain]
      /\ \A d \in Chains :
           Waiting(c)[d].at = "waiting" => d \in clients \cup {c} /\ Live(d)
      /\ \A d \in clients \cup {c} :
           Waiting(c)[d].at = "waiting" \/ (Waiting(c)[d].at = "over" /\ ~Live(d))
  BY <1>1, QueueClientGives
<1>5. /\ Waiting(c)[c].at = "waiting" /\ Waiting(c)[c].msg = NoMsg
      /\ Waiting(c)[c].page = chain[c].page
      /\ \A d \in Chains : d # c => Waiting(c)[d] = chain[d]
  BY <1>1, QueueClientGives
<1>6. \A d \in Chains :
        /\ Waiting(c)[d].page = chain[d].page
        /\ \/ Waiting(c)[d] = chain[d] /\ d # c
           \/ Waiting(c)[d].at = "waiting" /\ Waiting(c)[d].msg = NoMsg
  <2> HIDE DEF Waiting
  <2> QED
    BY <1>5
<1> HIDE DEF Waiting
<1> QED
  BY <1>2, <1>3, <1>4, <1>6, Processed

\* What becomes of a chain whose page handles its request.
LEMMA HandleGives ==
    ASSUME TypeOK, NEW c \in Chains, Handle(c)
    PROVE  /\ chain' \in [Chains -> Chain]
           /\ \A d \in Chains : d # c => chain'[d] = chain[d]
           /\ chain[c].msg \in Msgs /\ chain[c].page \in Pages
           /\ \/ chain'[c] = Over
              \/ chain'[c].at = "getting" /\ chain'[c].page = chain[c].page
              \/ /\ chain'[c].at = "posting" /\ chain'[c].page = chain[c].page
                 /\ chain'[c].msg = chain[c].msg
           /\ \/ ran' = ran /\ chain'[c] = Over
              \/ ran' = [ran EXCEPT ![chain[c].page] = Append(@, chain[c].msg)]
<1>1. chain[c] \in Chain /\ chain[c].at = "answered" /\ chain \in [Chains -> Chain]
  BY DEF TypeOK, Handle
<1>2. chain[c].msg \in Msgs /\ chain[c].page \in Pages
  BY <1>1, ChainFields
<1>3. Over \in Chain
  BY DEF Chain
<1>4. \A outcome \in {"result", "nothing", "error"} :
        LET r == After(outcome, chain[c])
        IN  /\ r \in Chain
            /\ \/ r = Over
               \/ r.at = "getting" /\ r.page = chain[c].page
               \/ r.at = "posting" /\ r.page = chain[c].page /\ r.msg = chain[c].msg
  <2>1. \A at, m :
          \/ at = "getting" /\ m = NoMsg
          \/ at = "posting" /\ m \in Msgs
          => LET r == Moved(chain[c], at, m)
             IN  r \in Chain /\ r.at = at /\ r.msg = m /\ r.page = chain[c].page
    BY <1>1, ChainMoves
  <2> QED
    BY <2>1, <1>2, <1>3 DEF After
<1>5. CASE page[chain[c].page].fn = "ready"
  <2>1. PICK outcome \in {"result", "nothing", "error"} :
          chain' = [chain EXCEPT ![c] = After(outcome, @)]
    BY <1>5 DEF Handle, Outcomes
  <2>2. ran' = [ran EXCEPT ![chain[c].page] = Append(@, chain[c].msg)]
    BY <1>5 DEF Handle
  <2>3. chain'[c] = After(outcome, chain[c]) /\ \A d \in Chains : d # c => chain'[d] = chain[d]
    BY <2>1, <1>1
  <2> QED
    BY <2>1, <2>2, <2>3, <1>1, <1>2, <1>4
<1>6. CASE page[chain[c].page].fn # "ready"
  BY <1>6, <1>1, <1>2, <1>3 DEF Handle
<1> QED
  BY <1>5, <1>6

(***************************************************************************)
(* Pages.                                                                  *)
(***************************************************************************)

\* How a page changes when it is loaded, switched on or off, gets the script
\* and is closed.
LEMMA PageGives ==
    ASSUME TypeOK, NEW p \in Pages, User(p)
    PROVE  /\ page' \in [Pages -> Page]
           /\ \A q \in Pages : q # p => page'[q] = page[q]
           /\ \A embedded \in BOOLEAN :
                LoadPage(p, embedded) => /\ page'[p].open
                                         /\ page'[p].starts = IF embedded THEN 1 ELSE 0
           /\ SwitchOn(p) \/ SwitchOff(p) => page'[p].open /\ page'[p].starts = page[p].starts
           /\ ScriptLoads(p) => page'[p].open = page[p].open /\ page'[p].starts = page[p].starts + 1
           /\ ClosePage(p) => page'[p] = Closed
<1>1. page \in [Pages -> Page] /\ page[p] \in Page /\ auto \in BOOLEAN
  BY DEF TypeOK
<1>2. ASSUME NEW embedded \in BOOLEAN, LoadPage(p, embedded)
      PROVE  /\ page' \in [Pages -> Page]
             /\ \A q \in Pages : q # p => page'[q] = page[q]
             /\ page'[p].open
             /\ page'[p].starts = IF embedded THEN 1 ELSE 0
  <2> DEFINE new == [open |-> TRUE, fn |-> IF embedded THEN "ready" ELSE "none",
                     injected |-> auto, loading |-> IF auto THEN 1 ELSE 0,
                     starts |-> IF embedded THEN 1 ELSE 0]
  <2>1. page' = [page EXCEPT ![p] = new]
    BY <1>2 DEF LoadPage
  <2>2. new \in Page /\ new.open /\ new.starts = IF embedded THEN 1 ELSE 0
    BY <1>1 DEF Page
  <2> HIDE DEF new
  <2> QED
    BY <2>1, <2>2, <1>1
<1>3. ASSUME SwitchOn(p)
      PROVE  /\ page' \in [Pages -> Page]
             /\ \A q \in Pages : q # p => page'[q] = page[q]
             /\ page'[p].open /\ page'[p].starts = page[p].starts
  BY <1>1, <1>3 DEF SwitchOn, Page
<1>4. ASSUME SwitchOff(p)
      PROVE  /\ page' \in [Pages -> Page]
             /\ \A q \in Pages : q # p => page'[q] = page[q]
             /\ page'[p].open /\ page'[p].starts = page[p].starts
  BY <1>1, <1>4 DEF SwitchOff, Page
<1>5. ASSUME ScriptLoads(p)
      PROVE  /\ page' \in [Pages -> Page]
             /\ \A q \in Pages : q # p => page'[q] = page[q]
             /\ page'[p].open = page[p].open /\ page'[p].starts = page[p].starts + 1
  BY <1>1, <1>5 DEF ScriptLoads, Page
<1>6. ASSUME ClosePage(p)
      PROVE  /\ page' \in [Pages -> Page]
             /\ \A q \in Pages : q # p => page'[q] = page[q]
             /\ page'[p] = Closed
  BY <1>1, <1>6 DEF ClosePage, Page, Closed
<1> QED
  BY <1>2, <1>3, <1>4, <1>5, <1>6 DEF User

(***************************************************************************)
(* Types, and what is waiting.                                             *)
(***************************************************************************)

\* A chain that skewer() starts is a free one.
LEMMA StartGives ==
    ASSUME TypeOK, NEW p \in Pages, NEW c \in Free, Start(p, c)
    PROVE  /\ chain' \in [Chains -> Chain] /\ c \in Chains
           /\ chain[c] = Over /\ c \notin clients
           /\ chain'[c].at = "getting" /\ chain'[c].page = p /\ chain'[c].msg = NoMsg
           /\ \A d \in Chains : d # c => chain'[d] = chain[d]
<1>1. c \in Chains /\ chain \in [Chains -> Chain] /\ chain[c] \in Chain
  BY DEF Free, TypeOK
<1>2. chain[c] = Over /\ c \notin clients
  BY <1>1, ChainFields DEF Free, Live
<1>3. [at |-> "getting", page |-> p, msg |-> NoMsg] \in Chain
  BY DEF Chain
<1> QED
  BY <1>1, <1>2, <1>3 DEF Start

LEMMA CutGives ==
    ASSUME TypeOK, NEW p \in Pages
    PROVE  /\ CutChains(p) \in [Chains -> Chain]
           /\ \A c \in Chains :
                \/ CutChains(p)[c] = chain[c] /\ chain[c].page # p
                \/ CutChains(p)[c] = Over /\ chain[c].page = p
  BY DEF CutChains, TypeOK, Chain

\* Messages that go with what is cut.
LEMMA UndeliveredGives ==
    ASSUME TypeOK, NEW cs \in SUBSET Chains
    PROVE  Undelivered(cs) \subseteq Msgs
  BY ChainFields DEF TypeOK, Undelivered

\* Every step keeps the types and leaves no message and client together.
LEMMA TypeStep == TypeOK /\ Drained /\ [Next]_vars => TypeOK' /\ Drained'
<1> SUFFICES ASSUME TypeOK, Drained, [Next]_vars
             PROVE  TypeOK' /\ Drained'
  OBVIOUS
<1> USE DEF server, ghosts
<1>0. Click => clicks' \in 0 .. MaxClicks
  BY SkewerAssumption DEF Click, TypeOK
<1>1. ASSUME NEW type \in Types, Eval(type)
      PROVE  TypeOK' /\ Drained'
  <2>2. /\ chain' \in [Chains -> Chain] /\ clients' \subseteq Chains
        /\ queue' \in Seq(Msgs) /\ ended' \subseteq Msgs /\ Drained'
    BY <1>1, EvalQueues
  <2>3. types' \in Seq(Types) /\ Len(types') <= MaxMsgs /\ callbacks' \subseteq Msgs
    <3>1. Len(types') <= MaxMsgs
      BY <1>1, EvalGives, SkewerAssumption DEF Msgs
    <3>2. callbacks' \subseteq Msgs
      BY <1>1, EvalGives DEF Eval, TypeOK
    <3> QED
      BY <1>1, <3>1, <3>2, EvalGives
  <2> QED
    BY <1>1, <2>2, <2>3 DEF TypeOK, Eval
<1>2. ASSUME NEW c \in Chains, GetArrives(c) \/ PostArrives(c)
      PROVE  /\ chain' \in [Chains -> Chain] /\ clients' \subseteq Chains
             /\ queue' \in Seq(Msgs) /\ ended' \subseteq Msgs /\ Drained'
  BY <1>2, ClientQueues
<1>3. ASSUME NEW c \in Chains, GetArrives(c)
      PROVE  TypeOK' /\ Drained'
  BY <1>2, <1>3 DEF GetArrives, TypeOK
<1>4. ASSUME NEW c \in Chains, chain[c].at = "posting"
      PROVE  [heard EXCEPT ![chain[c].page] = Append(@, chain[c].msg)] \in [Pages -> Seq(Msgs)]
  <2>1. chain[c].page \in Pages /\ chain[c].msg \in Msgs
    BY <1>4, ChainFields DEF TypeOK
  <2>2. Append(heard[chain[c].page], chain[c].msg) \in Seq(Msgs)
    BY <2>1, AppendProperties DEF TypeOK
  <2> QED
    BY <2>1, <2>2 DEF TypeOK
<1>5. ASSUME NEW c \in Chains, PostArrives(c)
      PROVE  TypeOK' /\ Drained'
  <2>1. heard' \in [Pages -> Seq(Msgs)]
    BY <1>4, <1>5 DEF PostArrives, TypeOK
  <2> QED
    BY <1>2, <1>5, <2>1 DEF PostArrives, TypeOK
<1>6. Over \in Chain /\ Over.at = "over"
  BY DEF Over, Chain
<1>7. ASSUME NEW c \in Chains, CallbackFails(c)
      PROVE  TypeOK' /\ Drained'
  BY <1>4, <1>6, <1>7 DEF CallbackFails, TypeOK, Drained
<1>8. ASSUME NEW c \in Chains, Handle(c)
      PROVE  TypeOK' /\ Drained'
  <2>1. ran' \in [Pages -> Seq(Msgs)]
    <3>1. Append(ran[chain[c].page], chain[c].msg) \in Seq(Msgs)
      BY <1>8, HandleGives, AppendProperties DEF TypeOK
    <3> QED
      BY <1>8, <3>1, HandleGives DEF TypeOK
  <2>2. Drained'
    <3>1. \A d \in Chains :
            \/ chain'[d] = chain[d]
            \/ chain'[d].at \in {"over", "getting", "posting"} /\ d \notin clients
      BY <1>6, <1>8, HandleGives DEF Drained, Handle
    <3> QED
      BY <1>8, <3>1 DEF Handle, Drained, TypeOK
  <2> QED
    BY <1>8, <2>1, <2>2, HandleGives DEF Handle, TypeOK
<1>9. ASSUME NEW c \in Chains, Cut(c)
      PROVE  TypeOK' /\ Drained'
  <2>1. Undelivered({c}) \subseteq Msgs
    BY UndeliveredGives
  <2>2. chain' \in [Chains -> Chain] /\ \A d \in Chains : chain'[d] = chain[d] \/ chain'[d] = Over
    BY <1>6, <1>9 DEF Cut, TypeOK
  <2>3. Drained'
    BY <1>6, <1>9, <2>2 DEF Cut, Drained, TypeOK
  <2> QED
    BY <1>0, <1>9, <2>1, <2>2, <2>3 DEF Cut, TypeOK
<1>10. ASSUME NEW m \in Msgs, Expire(m)
       PROVE  TypeOK' /\ Drained'
  BY <1>0, <1>10 DEF Expire, TypeOK, Drained
<1>11. ASSUME NEW p \in Pages, NEW c \in Free, Start(p, c), UNCHANGED <<queue, clients>>
       PROVE  chain' \in [Chains -> Chain] /\ Drained'
  <2>1. \A d \in Chains :
          \/ chain'[d] = chain[d]
          \/ chain'[d].at = "getting" /\ d \notin clients
    BY <1>11, StartGives
  <2>2. chain' \in [Chains -> Chain]
    BY <1>11, StartGives
  <2> QED
    BY <1>11, <2>1, <2>2 DEF Drained, TypeOK
<1>12. ASSUME NEW p \in Pages, NEW embedded \in BOOLEAN, LoadPage(p, embedded)
       PROVE  TypeOK' /\ Drained'
  <2>1. chain' \in [Chains -> Chain] /\ Drained'
    BY <1>11, <1>12 DEF LoadPage, TypeOK, Drained
  <2> QED
    BY <1>0, <1>12, <2>1, PageGives DEF User, LoadPage, TypeOK
<1>13. ASSUME NEW p \in Pages, SwitchOn(p) \/ SwitchOff(p)
       PROVE  TypeOK' /\ Drained'
  <2>1. page' \in [Pages -> Page]
    BY <1>13, PageGives DEF User
  <2> QED
    BY <1>0, <1>13, <2>1 DEF SwitchOn, SwitchOff, TypeOK, Drained
<1>14. ASSUME NEW p \in Pages, ScriptLoads(p)
       PROVE  TypeOK' /\ Drained'
  <2>1. chain' \in [Chains -> Chain] /\ Drained'
    BY <1>11, <1>14 DEF ScriptLoads
  <2> QED
    BY <1>14, <2>1, PageGives DEF User, ScriptLoads, TypeOK
<1>15. ASSUME NEW p \in Pages, ClosePage(p)
       PROVE  TypeOK' /\ Drained'
  <2>1. chain' \in [Chains -> Chain] /\ \A c \in Chains : chain'[c] = chain[c] \/ chain'[c] = Over
    BY <1>15, CutGives DEF ClosePage
  <2>2. Drained'
    BY <1>6, <1>15, <2>1 DEF ClosePage, Drained, TypeOK
  <2>3. Undelivered({c \in Chains : chain[c].page = p}) \subseteq Msgs
    BY UndeliveredGives
  <2>4. ran' \in [Pages -> Seq(Msgs)] /\ heard' \in [Pages -> Seq(Msgs)]
    BY <1>15, EmptySeq DEF ClosePage, TypeOK
  <2>5. page' \in [Pages -> Page]
    BY <1>15, PageGives DEF User
  <2> QED
    BY <1>15, <2>1, <2>2, <2>3, <2>4, <2>5, <1>0 DEF ClosePage, TypeOK
<1>16. CASE UNCHANGED vars
  BY <1>16 DEF vars, TypeOK, Drained
<1> QED
  BY <1>1, <1>3, <1>5, <1>7, <1>8, <1>9, <1>10, <1>12, <1>13, <1>14, <1>15, <1>16
     DEF Next, Request, User

LEMMA TypeInit == Init => TypeOK /\ Drained
<1> SUFFICES ASSUME Init PROVE TypeOK /\ Drained
  OBVIOUS
<1>1. Over \in Chain /\ Over.at = "over" /\ Closed \in Page
  BY DEF Over, Chain, Closed, Page
<1>2. <<>> \in Seq(Msgs) /\ <<>> \in Seq(Types) /\ Len(<<>>) = 0
  BY EmptySeq
<1> QED
  BY <1>1, <1>2, SkewerAssumption DEF Init, TypeOK, Drained

\* Chains, pages and the lists of the server keep their types.
THEOREM TypeCorrect == Spec => []TypeOK
<1>1. Spec => [](TypeOK /\ Drained)
  BY TypeInit, TypeStep, PTL DEF Spec
<1> QED
  BY <1>1, PTL

\* The queue and the clients are never both there, and those who wait are clients.
THEOREM AlwaysDrained == Spec => []Drained
<1>1. Spec => [](TypeOK /\ Drained)
  BY TypeInit, TypeStep, PTL DEF Spec
<1> QED
  BY <1>1, PTL

(***************************************************************************)
(* The order of the messages.                                              *)
(***************************************************************************)

\* A page in which skewer() starts has a chain more, and has been started once more.
LEMMA OneChainStep == TypeOK /\ Drained /\ ClosedPages /\ OneChain /\ [Next]_vars
                        => ClosedPages' /\ OneChain'
<1> SUFFICES ASSUME TypeOK, Drained, ClosedPages, OneChain, [Next]_vars
             PROVE  ClosedPages' /\ OneChain'
  OBVIOUS
<1>0. /\ chain \in [Chains -> Chain] /\ \A c \in Chains : chain[c] \in Chain
      /\ \A p \in Pages : page[p].starts \in Nat
      /\ Over.page \notin Pages /\ ~Closed.open /\ Closed.starts = 0
  BY SkewerAssumption DEF TypeOK, Over, Page, Closed
<1>1. ASSUME page' = page, \A c \in Chains : chain'[c].page \in {chain[c].page, Over.page}
      PROVE  ClosedPages' /\ OneChain'
  BY <1>0, <1>1 DEF ClosedPages, OneChain
<1>2. ASSUME NEW p \in Pages, NEW c \in Free, Start(p, c),
             \A q \in Pages : q # p => page'[q] = page[q],
             page'[p].open, page'[p].starts = page[p].starts + 1
      PROVE  ClosedPages' /\ OneChain'
  <2>1. /\ \A d \in Chains : d # c => chain'[d] = chain[d]
        /\ chain'[c].page = p
    BY <1>2, StartGives
  <2>2. ASSUME NEW q \in Pages, NEW d \in Chains, NEW e \in Chains,
               chain'[d].page = q, chain'[e].page = q
        PROVE  page'[q].starts > 0 /\ (page'[q].starts = 1 => d = e)
    <3>1. CASE q = p
      <4>1. page'[p].starts = 1 => \A f \in Chains : chain[f].page # p
        BY <1>0, <1>2 DEF OneChain
      <4> QED
        BY <1>0, <1>2, <2>1, <2>2, <3>1, <4>1
    <3>2. CASE q # p
      BY <1>2, <2>1, <2>2, <3>2 DEF OneChain
    <3> QED
      BY <3>1, <3>2
  <2>3. OneChain'
    BY <2>2 DEF OneChain
  <2> QED
    BY <1>2, <2>3 DEF ClosedPages
<1>3. ASSUME NEW type \in Types, Eval(type)
      PROVE  ClosedPages' /\ OneChain'
  <2>1. \A c \in Chains : chain'[c].page = chain[c].page
    BY <1>3, EvalQueues DEF Queued
  <2> QED
    BY <1>1, <1>3, <2>1 DEF Eval
<1>4. ASSUME NEW c \in Chains, GetArrives(c) \/ PostArrives(c)
      PROVE  ClosedPages' /\ OneChain'
  <2>1. \A d \in Chains : chain'[d].page = chain[d].page
    BY <1>4, ClientQueues DEF Queued
  <2> QED
    BY <1>1, <1>4, <2>1 DEF GetArrives, PostArrives
<1>5. ASSUME NEW c \in Chains, Handle(c)
      PROVE  ClosedPages' /\ OneChain'
  BY <1>1, <1>5, HandleGives DEF Handle
<1>6. ASSUME NEW c \in Chains, CallbackFails(c) \/ Cut(c)
      PROVE  ClosedPages' /\ OneChain'
  BY <1>0, <1>1, <1>6 DEF CallbackFails, Cut
<1>7. ASSUME NEW m \in Msgs, Expire(m)
      PROVE  ClosedPages' /\ OneChain'
  BY <1>1, <1>7 DEF Expire
<1>8. ASSUME NEW p \in Pages, LoadPage(p, TRUE)
      PROVE  ClosedPages' /\ OneChain'
  <2>1. page[p].starts = 0
    BY <1>0, <1>8 DEF LoadPage, ClosedPages
  <2>2. PICK c \in Free : Start(p, c)
    BY <1>8 DEF LoadPage
  <2>3. /\ \A q \in Pages : q # p => page'[q] = page[q]
        /\ page'[p].open /\ page'[p].starts = 1
    BY <1>8, PageGives DEF User
  <2> QED
    BY <1>2, <2>1, <2>2, <2>3
<1>9. ASSUME NEW p \in Pages, LoadPage(p, FALSE)
      PROVE  ClosedPages' /\ OneChain'
  <2>1. page[p].starts = 0 /\ chain' = chain
    BY <1>0, <1>9 DEF LoadPage, ClosedPages
  <2>2. /\ \A q \in Pages : q # p => page'[q] = page[q]
        /\ page'[p].open /\ page'[p].starts = 0
    BY <1>9, PageGives DEF User
  <2>3. \A q \in Pages : page'[q].starts = page[q].starts
    BY <2>1, <2>2
  <2> QED
    BY <2>1, <2>2, <2>3 DEF ClosedPages, OneChain
<1>10. ASSUME NEW p \in Pages, SwitchOn(p) \/ SwitchOff(p)
       PROVE  ClosedPages' /\ OneChain'
  <2>1. /\ \A q \in Pages : q # p => page'[q] = page[q]
        /\ page'[p].open /\ page'[p].starts = page[p].starts
    BY <1>10, PageGives DEF User
  <2>2. chain' = chain
    BY <1>10 DEF SwitchOn, SwitchOff
  <2>3. \A q \in Pages : page'[q].starts = page[q].starts
    BY <2>1
  <2> QED
    BY <2>1, <2>2, <2>3 DEF ClosedPages, OneChain
<1>11. ASSUME NEW p \in Pages, ScriptLoads(p)
       PROVE  ClosedPages' /\ OneChain'
  <2>1. PICK c \in Free : Start(p, c)
    BY <1>11 DEF ScriptLoads
  <2>2. page[p].open
    BY <1>11 DEF ScriptLoads, ClosedPages, Closed
  <2>3. /\ \A q \in Pages : q # p => page'[q] = page[q]
        /\ page'[p].open /\ page'[p].starts = page[p].starts + 1
    BY <1>11, <2>2, PageGives DEF User
  <2> QED
    BY <1>2, <2>1, <2>3
<1>12. ASSUME NEW p \in Pages, ClosePage(p)
       PROVE  ClosedPages' /\ OneChain'
  <2>1. /\ \A q \in Pages : q # p => page'[q] = page[q]
        /\ page'[p] = Closed
    BY <1>12, PageGives DEF User
  <2>2. \A c \in Chains : chain'[c].page # p /\ chain'[c].page \in {chain[c].page, Over.page}
    BY <1>0, <1>12, CutGives DEF ClosePage
  <2> QED
    BY <1>0, <2>1, <2>2 DEF ClosedPages, OneChain
<1>13. CASE UNCHANGED vars
  BY <1>13 DEF vars, ClosedPages, OneChain
<1> QED
  BY <1>3, <1>4, <1>5, <1>6, <1>7, <1>8, <1>9, <1>10, <1>11, <1>12, <1>13
     DEF Next, Request, User

\* Message m was sent before all that is in the queue after a step.
EarlierThen(m) == m <= Len(types') /\ \A i \in DOMAIN queue' : m < queue'[i]

\* The elements of the sequences are messages.
LEMMA ElementsAreMsgs ==
    ASSUME NEW s \in Seq(Msgs), NEW i \in DOMAIN s
    PROVE  s[i] \in Msgs /\ s[i] \in Nat
  BY ElementOfSeq, LenProperties, MsgsAreNumbers

\* When a message may have gone to those who wait, what pages have got is still
\* in order.
LEMMA QueuedInOrder ==
    ASSUME Inv1, Inv2, TypeOK', NEW msgs \in Seq(Msgs), NEW ch, Queued(msgs, ch),
           page' = page, ran' = ran,
           Increasing(msgs), \A i \in DOMAIN msgs : msgs[i] <= Len(types'),
           \A m \in Msgs : Earlier(m) => /\ m <= Len(types')
                                         /\ \A i \in DOMAIN msgs : m < msgs[i],
           \A c \in Chains : /\ ch[c].page = chain[c].page
                             /\ \/ ch[c] = chain[c]
                                \/ ch[c].at = "waiting" /\ ch[c].msg = NoMsg
    PROVE  Inv2'
<1>1. ASSUME msgs # <<>>
      PROVE  /\ Head(msgs) \in Msgs /\ 1 \in DOMAIN msgs /\ Head(msgs) = msgs[1]
             /\ Increasing(Tail(msgs))
             /\ \A i \in DOMAIN Tail(msgs) : i + 1 \in DOMAIN msgs /\ Tail(msgs)[i] = msgs[i + 1]
             /\ \A i \in DOMAIN Tail(msgs) : Head(msgs) < Tail(msgs)[i]
  <2>1. Increasing(Tail(msgs)) /\ Head(msgs) \in Msgs
    BY <1>1, TailIncreasing, MsgsAreNumbers, HeadTailProperties
  <2>2. 1 \in DOMAIN msgs
    BY <1>1, EmptySeq, LenProperties
  <2>3. /\ \A i \in DOMAIN Tail(msgs) : i + 1 \in DOMAIN msgs /\ Tail(msgs)[i] = msgs[i + 1]
        /\ \A i \in DOMAIN Tail(msgs) : Head(msgs) < Tail(msgs)[i]
    BY <1>1, TailIncreasing, MsgsAreNumbers
  <2> QED
    BY <2>1, <2>2, <2>3
<1>2. queue' = msgs \/ (msgs # <<>> /\ queue' = Tail(msgs))
  BY DEF Queued
<1>3. Increasing(queue') /\ \A i \in DOMAIN queue' : \E j \in DOMAIN msgs : queue'[i] = msgs[j]
  BY <1>1, <1>2
<1>4. ASSUME NEW m \in Msgs, Earlier(m)
      PROVE  EarlierThen(m)
  BY <1>3, <1>4 DEF Earlier, EarlierThen
<1>5. ASSUME msgs # <<>>, queue' = Tail(msgs)
      PROVE  EarlierThen(Head(msgs))
  BY <1>1, <1>5 DEF Earlier, EarlierThen
<1>6. QueueInOrder'
  BY <1>3 DEF QueueInOrder
<1>7. \A p \in Pages : \A i \in DOMAIN ran[p] : ran[p][i] \in Msgs
  BY ElementsAreMsgs DEF Inv1, TypeOK
<1>8. \A c \in Chains :
        \/ chain'[c] = chain[c]
        \/ chain'[c].at = "waiting" /\ chain'[c].msg = NoMsg
        \/ /\ msgs # <<>> /\ queue' = Tail(msgs) /\ chain'[c].page = chain[c].page
           /\ chain'[c].msg = Head(msgs)
  BY DEF Queued
<1>9. \A c \in Chains : chain[c].msg # NoMsg => chain[c].msg \in Msgs
  BY ChainFields DEF Inv1, TypeOK
<1>10. SentFirst'
  <2>1. ASSUME NEW c \in Chains, chain'[c].msg # NoMsg
        PROVE  EarlierThen(chain'[c].msg)
    <3>1. CASE chain'[c] = chain[c]
      <4>1. Earlier(chain[c].msg) /\ chain[c].msg \in Msgs
        BY <1>9, <2>1, <3>1 DEF Inv2, SentFirst
      <4>2. PICK m \in Msgs : m = chain[c].msg
        BY <4>1
      <4>3. EarlierThen(m)
        BY <1>4, <4>1, <4>2
      <4> QED
        BY <3>1, <4>2, <4>3 DEF Earlier, EarlierThen
    <3>2. CASE msgs # <<>> /\ queue' = Tail(msgs) /\ chain'[c].msg = Head(msgs)
      BY <1>5, <3>2 DEF Earlier, EarlierThen
    <3> QED
      BY <1>8, <2>1, <3>1, <3>2
  <2>2. ASSUME NEW p \in Pages, NEW i \in DOMAIN ran[p]
        PROVE  EarlierThen(ran[p][i])
    <3>1. Earlier(ran[p][i]) /\ ran[p][i] \in Msgs
      BY <1>7 DEF Inv2, SentFirst
    <3>2. PICK m \in Msgs : m = ran[p][i]
      BY <3>1
    <3>3. EarlierThen(m)
      BY <1>4, <3>1, <3>2
    <3> QED
      BY <3>2, <3>3 DEF Earlier, EarlierThen
  <2> QED
    BY <2>1, <2>2 DEF SentFirst, Earlier, EarlierThen
<1>11. NewToPage'
  <2> SUFFICES ASSUME NEW p \in Pages, NEW c \in Chains, NEW i \in DOMAIN ran[p],
                      page[p].starts <= 1, chain'[c].page = p, chain'[c].at = "answered"
               PROVE  ran[p][i] < chain'[c].msg
    BY DEF NewToPage
  <2>1. CASE chain'[c] = chain[c]
    BY <2>1 DEF Inv2, NewToPage
  <2>2. CASE msgs # <<>> /\ chain'[c].msg = Head(msgs)
    BY <1>1, <1>7, <2>2 DEF Inv2, SentFirst
  <2> QED
    BY <1>8, <2>1, <2>2
<1>12. InOrder'
  BY DEF Inv2, InOrder
<1> QED
  BY <1>6, <1>10, <1>11, <1>12 DEF Inv2

\* When the queue is as it was, chains have gone or begun and pages have gone,
\* what the other pages have got is in order.
LEMMA QuietInOrder ==
    ASSUME Inv1, Inv2, TypeOK', queue' = queue, types' = types,
           \A c \in Chains : \/ chain'[c] = chain[c]
                             \/ chain'[c].at \notin {"answered", "posting"} /\ chain'[c].msg = NoMsg,
           \A p \in Pages : \/ ran'[p] = ran[p] /\ page[p].starts <= page'[p].starts
                            \/ ran'[p] = <<>>
    PROVE  Inv2'
<1>1. \A m : EarlierThen(m) <=> Earlier(m)
  BY DEF Earlier, EarlierThen
<1>2. DOMAIN <<>> = {}
  OBVIOUS
<1>3. \A p \in Pages : \A i \in DOMAIN ran'[p] :
        ran'[p] = ran[p] /\ page[p].starts <= page'[p].starts /\ i \in DOMAIN ran[p]
  BY <1>2
<1>4. \A p \in Pages : page[p].starts \in Nat /\ page'[p].starts \in Nat
  BY DEF Inv1, TypeOK, Page
<1>5. \A p \in Pages : page'[p].starts <= 1 /\ page[p].starts <= page'[p].starts
                         => page[p].starts <= 1
  BY <1>4
<1>6. QueueInOrder'
  BY DEF Inv2, QueueInOrder
<1>7. SentFirst'
  <2>1. \A c \in Chains : chain'[c].msg # NoMsg => Earlier(chain'[c].msg)
    BY DEF Inv2, SentFirst
  <2>2. \A p \in Pages : \A i \in DOMAIN ran'[p] : Earlier(ran'[p][i])
    BY <1>3 DEF Inv2, SentFirst
  <2> QED
    BY <2>1, <2>2 DEF SentFirst, Earlier, EarlierThen
<1>8. NewToPage'
  BY <1>3, <1>5 DEF Inv2, NewToPage
<1>9. InOrder'
  BY <1>3, <1>5 DEF Inv2, InOrder, Increasing
<1> QED
  BY <1>6, <1>7, <1>8, <1>9 DEF Inv2

\* A page handles its request.
LEMMA HandleInOrder ==
    ASSUME Inv1, Inv2, TypeOK', NEW c \in Chains, Handle(c)
    PROVE  Inv2'
<1>1. /\ queue' = queue /\ types' = types /\ page' = page
      /\ chain[c].at = "answered"
  BY DEF Handle, server
<1>2. CASE ran' = ran /\ chain'[c] = Over
  <2>1. Over.at = "over" /\ Over.msg = NoMsg
    BY DEF Over
  <2>2. \A p \in Pages : page[p].starts <= page[p].starts
    BY DEF Inv1, TypeOK, Page
  <2> QED
    BY <1>1, <1>2, <2>1, <2>2, HandleGives, QuietInOrder DEF Inv1
<1>3. CASE ran' = [ran EXCEPT ![chain[c].page] = Append(@, chain[c].msg)]
  <2> DEFINE p == chain[c].page
             m == chain[c].msg
  <2>1. p \in Pages /\ m \in Msgs /\ m # NoMsg
    BY HandleGives, MsgsAreNumbers DEF Inv1
  <2>2. \A d \in Chains :
          \/ chain'[d] = chain[d] /\ d # c
          \/ /\ d = c /\ chain'[d].at # "answered"
             /\ chain'[d].msg \in {NoMsg, m}
    <3>1. chain'[c] = Over \/ chain'[c].at \in {"getting", "posting"}
      BY HandleGives DEF Inv1
    <3>2. chain'[c].msg \in {NoMsg, m}
      <4>1. chain'[c] \in Chain
        BY HandleGives DEF Inv1
      <4> QED
        BY <4>1, HandleGives, ChainFields DEF Inv1, Over
    <3> QED
      BY <3>1, <3>2, HandleGives DEF Inv1, Over
  <2>3. ran[p] \in Seq(Msgs) /\ ran'[p] = Append(ran[p], m)
        /\ \A q \in Pages : q # p => ran'[q] = ran[q]
    BY <1>3, <2>1 DEF Inv1, TypeOK
  <2>4. \A i \in DOMAIN ran'[p] :
          (i \in DOMAIN ran[p] /\ ran'[p][i] = ran[p][i]) \/ ran'[p][i] = m
    BY <2>1, <2>3, AppendElements
  <2> HIDE DEF p, m
  <2>5. \A k : EarlierThen(k) <=> Earlier(k)
    BY <1>1 DEF Earlier, EarlierThen
  <2>6. Earlier(m)
    BY <2>1 DEF Inv2, SentFirst, m
  <2>7. SentFirst'
    <3>1. \A d \in Chains : chain'[d].msg # NoMsg => Earlier(chain'[d].msg)
      BY <2>2, <2>6 DEF Inv2, SentFirst
    <3>2. \A q \in Pages : \A i \in DOMAIN ran'[q] : Earlier(ran'[q][i])
      BY <2>1, <2>3, <2>4, <2>6 DEF Inv2, SentFirst
    <3> QED
      BY <3>1, <3>2, <1>1 DEF SentFirst, Earlier, EarlierThen
  <2>8. NewToPage'
    <3> SUFFICES ASSUME NEW q \in Pages, NEW d \in Chains, NEW i \in DOMAIN ran'[q],
                        page[q].starts <= 1, chain'[d].page = q, chain'[d].at = "answered"
                 PROVE  ran'[q][i] < chain'[d].msg
      BY <1>1 DEF NewToPage
    <3>1. chain'[d] = chain[d] /\ d # c
      BY <2>2
    <3>2. q # p
      <4>1. SUFFICES ASSUME q = p PROVE FALSE
        OBVIOUS
      <4>2. chain[d].page = q /\ chain[c].page = q
        BY <3>1, <4>1 DEF p
      <4>3. page[q].starts > 0 /\ page[q].starts = 1
        BY <4>2 DEF Inv1, OneChain, TypeOK, Page
      <4> QED
        BY <3>1, <4>2, <4>3 DEF Inv1, OneChain
    <3> QED
      BY <2>3, <3>1, <3>2 DEF Inv2, NewToPage
  <2>9. InOrder'
    <3> SUFFICES ASSUME NEW q \in Pages, page[q].starts <= 1
                 PROVE  Increasing(ran'[q])
      BY <1>1 DEF InOrder
    <3>1. CASE q # p
      BY <2>3, <3>1 DEF Inv2, InOrder
    <3>2. CASE q = p
      <4>1. Increasing(ran[p]) /\ \A i \in DOMAIN ran[p] : ran[p][i] < m
        BY <1>1, <3>2 DEF Inv2, InOrder, NewToPage, p, m
      <4> QED
        BY <2>1, <2>3, <3>2, <4>1, AppendIncreasing, MsgsAreNumbers
    <3> QED
      BY <3>1, <3>2
  <2>10. QueueInOrder'
    BY <1>1 DEF Inv2, QueueInOrder
  <2> QED
    BY <2>7, <2>8, <2>9, <2>10 DEF Inv2
<1> QED
  BY <1>2, <1>3, HandleGives DEF Inv1

\* What a user does to pages leaves the queue alone and cuts or starts chains.
LEMMA UserGives ==
    ASSUME Inv1, NEW p \in Pages, User(p)
    PROVE  /\ queue' = queue /\ types' = types
           /\ \A c \in Chains : \/ chain'[c] = chain[c]
                                \/ chain'[c].at \notin {"answered", "posting"} /\ chain'[c].msg = NoMsg
           /\ \A q \in Pages : \/ /\ ran'[q] = ran[q] /\ heard'[q] = heard[q]
                                  /\ page[q].starts <= page'[q].starts
                               \/ ran'[q] = <<>> /\ heard'[q] = <<>> /\ \A c \in Chains : chain'[c].page # q
<1> USE DEF server, ghosts
<1>1. /\ chain \in [Chains -> Chain] /\ \A q \in Pages : page[q].starts \in Nat
      /\ ran \in [Pages -> Seq(Msgs)] /\ heard \in [Pages -> Seq(Msgs)]
      /\ Over.at = "over" /\ Over.msg = NoMsg /\ Over.page \notin Pages /\ Closed.starts = 0
  BY SkewerAssumption DEF Inv1, TypeOK, Page, Over, Closed
<1>2. ASSUME LoadPage(p, TRUE) \/ ScriptLoads(p)
      PROVE  /\ \E c \in Free : Start(p, c)
             /\ UNCHANGED <<queue, types, ran, heard>>
             /\ \A q \in Pages : page[q].starts <= page'[q].starts
  <2>1. LoadPage(p, TRUE) => page[p].starts = 0
    BY <1>1 DEF LoadPage, Inv1, ClosedPages
  <2>2. /\ \A q \in Pages : q # p => page'[q] = page[q]
        /\ LoadPage(p, TRUE) => page'[p].starts = 1
        /\ ScriptLoads(p) => page'[p].starts = page[p].starts + 1
    BY <1>2, PageGives DEF User, Inv1
  <2>3. \A q \in Pages : page[q].starts <= page'[q].starts
    <3> TAKE q \in Pages
    <3>1. CASE q = p
      <4>1. CASE LoadPage(p, TRUE)
        BY <2>1, <2>2, <3>1, <4>1
      <4>2. CASE ScriptLoads(p)
        <5>1. page[p].starts \in Nat
          BY <1>1
        <5>2. page'[p].starts = page[p].starts + 1
          BY <2>2, <4>2
        <5> QED
          BY <3>1, <5>1, <5>2
      <4> QED
        BY <1>2, <4>1, <4>2
    <3>2. CASE q # p
      BY <1>1, <2>2, <3>2
    <3> QED
      BY <3>1, <3>2
  <2> QED
    BY <1>2, <2>3 DEF LoadPage, ScriptLoads
<1>3. CASE LoadPage(p, TRUE) \/ ScriptLoads(p)
  <2>1. \A c \in Chains :
          \/ chain'[c] = chain[c]
          \/ chain'[c].at = "getting" /\ chain'[c].msg = NoMsg
    <3>1. PICK c \in Free : Start(p, c)
      BY <1>2, <1>3
    <3> QED
      BY <3>1, StartGives DEF Inv1
  <2> QED
    BY <1>2, <1>3, <2>1
<1>4. CASE LoadPage(p, FALSE)
  <2>1. page[p].starts = 0
    BY <1>1, <1>4 DEF LoadPage, Inv1, ClosedPages
  <2>2. /\ \A q \in Pages : q # p => page'[q] = page[q]
        /\ page'[p].starts = 0
    BY <1>4, PageGives DEF User, Inv1
  <2>3. \A q \in Pages : page[q].starts <= page'[q].starts
    <3> TAKE q \in Pages
    <3>1. CASE q = p
      BY <2>1, <2>2, <3>1
    <3>2. CASE q # p
      BY <1>1, <2>2, <3>2
    <3> QED
      BY <3>1, <3>2
  <2> QED
    BY <1>4, <2>3 DEF LoadPage
<1>5. CASE SwitchOn(p) \/ SwitchOff(p)
  <2>1. /\ \A q \in Pages : q # p => page'[q] = page[q]
        /\ page'[p].starts = page[p].starts
    BY <1>5, PageGives DEF User, Inv1
  <2>2. \A q \in Pages : page[q].starts <= page'[q].starts
    <3> TAKE q \in Pages
    <3>1. page'[q].starts = page[q].starts
      BY <2>1
    <3>2. page[q].starts \in Nat
      BY <1>1
    <3> QED
      BY <3>1, <3>2
  <2> QED
    BY <1>5, <2>2 DEF SwitchOn, SwitchOff
<1>6. CASE ClosePage(p)
  <2>1. \A q \in Pages : q # p => page'[q] = page[q]
    BY <1>6, PageGives DEF User, Inv1
  <2>2. \A c \in Chains : chain'[c].page # p /\ (chain'[c] = chain[c] \/ chain'[c] = Over)
    BY <1>1, <1>6, CutGives DEF ClosePage, Inv1
  <2> QED
    BY <1>1, <1>6, <2>1, <2>2 DEF ClosePage
<1> QED
  BY <1>3, <1>4, <1>5, <1>6 DEF User

LEMMA OrderStep == Inv1 /\ Inv2 /\ [Next]_vars => Inv2'
<1> SUFFICES ASSUME Inv1, Inv2, [Next]_vars
             PROVE  Inv2'
  OBVIOUS
<1> USE DEF server, ghosts
<1>0. /\ TypeOK' /\ queue \in Seq(Msgs) /\ Len(types) \in Nat
      /\ \A p \in Pages : page[p].starts <= page[p].starts
  BY TypeStep, LenProperties DEF Inv1, TypeOK, Page
<1>1. ASSUME NEW type \in Types, Eval(type)
      PROVE  Inv2'
  <2> DEFINE m == Len(types')
             msgs == Append(queue, m)
  <2>1. m = Len(types) + 1 /\ m \in Msgs /\ m \in Nat
    BY <1>1, EvalGives, MsgsAreNumbers DEF Inv1
  <2>2. msgs \in Seq(Msgs) /\ Queued(msgs, chain)
    BY <1>1, EvalGives, EvalQueues DEF Inv1
  <2> HIDE DEF m
  <2>3. \A i \in DOMAIN queue : queue[i] < m /\ queue[i] <= m
    BY <1>0, <2>1, ElementsAreMsgs DEF Inv2, QueueInOrder
  <2>4. Increasing(msgs)
    BY <1>0, <2>1, <2>3, AppendIncreasing, MsgsAreNumbers DEF Inv2, QueueInOrder
  <2>5. \A i \in DOMAIN msgs : (i \in DOMAIN queue /\ msgs[i] = queue[i]) \/ msgs[i] = m
    BY <1>0, <2>1, AppendElements
  <2>6. \A i \in DOMAIN msgs : msgs[i] <= m
    BY <2>1, <2>3, <2>5
  <2>7. \A k \in Msgs : Earlier(k) => k <= m /\ \A i \in DOMAIN msgs : k < msgs[i]
    BY <1>0, <2>1, <2>5, MsgsAreNumbers DEF Earlier
  <2>8. page' = page /\ ran' = ran
    BY <1>1 DEF Eval
  <2> HIDE DEF msgs
  <2> QED
    BY <1>0, <2>2, <2>4, <2>6, <2>7, <2>8, QueuedInOrder DEF m
<1>2. ASSUME NEW c \in Chains, GetArrives(c) \/ PostArrives(c)
      PROVE  Inv2'
  <2>1. page' = page /\ ran' = ran /\ types' = types
    BY <1>2 DEF GetArrives, PostArrives
  <2>2. /\ Queued(queue, Waiting(c))
        /\ \A d \in Chains : /\ Waiting(c)[d].page = chain[d].page
                             /\ \/ Waiting(c)[d] = chain[d]
                                \/ Waiting(c)[d].at = "waiting" /\ Waiting(c)[d].msg = NoMsg
    BY <1>2, ClientQueues DEF Inv1
  <2>3. /\ Increasing(queue) /\ \A i \in DOMAIN queue : queue[i] <= Len(types')
        /\ \A m \in Msgs : Earlier(m) => /\ m <= Len(types')
                                         /\ \A i \in DOMAIN queue : m < queue[i]
    BY <2>1 DEF Inv2, QueueInOrder, Earlier
  <2> HIDE DEF Waiting
  <2> QED
    BY <1>0, <2>1, <2>2, <2>3, QueuedInOrder
<1>3. ASSUME NEW c \in Chains, Handle(c)
      PROVE  Inv2'
  BY <1>0, <1>3, HandleInOrder
<1>4. ASSUME NEW c \in Chains, CallbackFails(c) \/ Cut(c)
      PROVE  Inv2'
  <2>1. Over.at = "over" /\ Over.msg = NoMsg
    BY DEF Over
  <2>2. \A d \in Chains : chain'[d] = chain[d] \/ chain'[d] = Over
    BY <1>4 DEF CallbackFails, Cut, Inv1, TypeOK
  <2> QED
    BY <1>0, <1>4, <2>1, <2>2, QuietInOrder DEF CallbackFails, Cut
<1>5. ASSUME NEW m \in Msgs, Expire(m)
      PROVE  Inv2'
  BY <1>0, <1>5, QuietInOrder DEF Expire
<1>6. ASSUME NEW p \in Pages, User(p)
      PROVE  Inv2'
  BY <1>0, <1>6, UserGives, QuietInOrder
<1>7. CASE UNCHANGED vars
  BY <1>0, <1>7, QuietInOrder DEF vars
<1> QED
  BY <1>1, <1>2, <1>3, <1>4, <1>5, <1>6, <1>7 DEF Next, Request

LEMMA OrderInit == Init => Inv1 /\ Inv2
<1> SUFFICES ASSUME Init PROVE Inv1 /\ Inv2
  OBVIOUS
<1>1. DOMAIN <<>> = {} /\ Over.msg = NoMsg /\ Over.page \notin Pages
  BY SkewerAssumption DEF Over
<1>2. Inv1
  BY <1>1, TypeInit DEF Init, Inv1, ClosedPages, OneChain
<1>3. Inv2
  BY <1>1 DEF Init, Inv2, QueueInOrder, SentFirst, NewToPage, InOrder, Increasing
<1> QED
  BY <1>2, <1>3

LEMMA Inv1Step == Inv1 /\ [Next]_vars => Inv1'
  BY TypeStep, OneChainStep DEF Inv1

\* A page that skewer() was started in once handles each message at most once
\* and in the order in which Emacs sent them.
THEOREM HandledInOrder == Spec => []InOrder
<1>1. Spec => [](Inv1 /\ Inv2)
  BY OrderInit, Inv1Step, OrderStep, PTL DEF Spec
<1>2. Inv2 => InOrder
  BY DEF Inv2
<1> QED
  BY <1>1, <1>2, PTL

(***************************************************************************)
(* The order of the results.                                               *)
(***************************************************************************)

LEMMA QuietResults ==
    ASSUME Inv1, Inv3, TypeOK',
           \A c \in Chains : chain'[c].at = "posting" => chain'[c] = chain[c],
           \A p \in Pages : \/ /\ ran'[p] = ran[p] /\ heard'[p] = heard[p]
                               /\ page[p].starts <= page'[p].starts
                            \/ /\ ran'[p] = <<>> /\ heard'[p] = <<>>
                               /\ \A c \in Chains : chain'[c].page # p
    PROVE  Inv3'
<1>1. DOMAIN <<>> = {}
  OBVIOUS
<1>2. \A p \in Pages : page[p].starts \in Nat /\ page'[p].starts \in Nat
  BY DEF Inv1, TypeOK, Page
<1>3. \A p \in Pages : page'[p].starts <= 1 /\ page[p].starts <= page'[p].starts
                         => page[p].starts <= 1
  BY <1>2
<1>4. ASSUME NEW p \in Pages, NEW i \in DOMAIN heard'[p]
      PROVE  HandledBy(p, heard[p][i])' /\ heard'[p] = heard[p]
  <2>1. ran'[p] = ran[p] /\ heard'[p] = heard[p]
    BY <1>1, <1>4
  <2> QED
    BY <1>4, <2>1 DEF Inv3, ResultsFirst, HandledBy
<1>5. ResultsFirst'
  <2>1. ASSUME NEW p \in Pages, NEW c \in Chains,
               chain'[c].page = p, chain'[c].at = "posting"
        PROVE  /\ \E i \in DOMAIN ran'[p] : ran'[p][i] = chain'[c].msg
               /\ page'[p].starts <= 1 =>
                    \A i \in DOMAIN heard'[p] : heard'[p][i] < chain'[c].msg
    <3>1. /\ chain'[c] = chain[c] /\ ran'[p] = ran[p] /\ heard'[p] = heard[p]
          /\ page'[p].starts <= 1 => page[p].starts <= 1
      BY <1>3, <2>1
    <3> QED
      BY <2>1, <3>1 DEF Inv3, ResultsFirst, HandledBy
  <2>2. \A p \in Pages : \A i \in DOMAIN heard'[p] :
          \E j \in DOMAIN ran'[p] : ran'[p][j] = heard'[p][i]
    BY <1>1 DEF Inv3, ResultsFirst, HandledBy
  <2> QED
    BY <2>1, <2>2 DEF ResultsFirst, HandledBy
<1>6. HeardInOrder'
  BY <1>1, <1>3 DEF Inv3, HeardInOrder, Increasing
<1> QED
  BY <1>5, <1>6 DEF Inv3

\* A callback may get the result that is posted.
LEMMA PostedResults ==
    ASSUME Inv1, Inv3, NEW c \in Chains, chain[c].at = "posting",
           chain'[c].at # "posting",
           \A d \in Chains : chain'[d].at = "posting" => chain'[d] = chain[d],
           page' = page, ran' = ran,
           heard' = heard
             \/ heard' = [heard EXCEPT ![chain[c].page] = Append(@, chain[c].msg)]
    PROVE  Inv3'
<1> DEFINE p == chain[c].page
           m == chain[c].msg
<1>1. p \in Pages /\ m \in Msgs /\ m \in Nat
  BY ChainFields, MsgsAreNumbers DEF Inv1, TypeOK
<1>2. /\ HandledBy(p, m)
      /\ page[p].starts <= 1 => \A i \in DOMAIN heard[p] : heard[p][i] < m
  BY <1>1 DEF Inv3, ResultsFirst
<1>3. heard[p] \in Seq(Msgs) /\ heard[p] \in Seq(Nat)
  BY <1>1, MsgsAreNumbers DEF Inv1, TypeOK
<1>4. \/ heard' = heard
      \/ /\ heard'[p] = Append(heard[p], m)
         /\ \A q \in Pages : q # p => heard'[q] = heard[q]
  BY <1>1 DEF Inv1, TypeOK
<1>5. ASSUME NEW d \in Chains, chain'[d].page = p, chain'[d].at = "posting"
      PROVE  ~(page[p].starts <= 1)
  <2>1. d # c /\ chain[d].page = p
    BY <1>5
  <2>2. page[p].starts \in Nat
    BY <1>1 DEF Inv1, TypeOK, Page
  <2> QED
    BY <1>1, <2>1, <2>2 DEF Inv1, OneChain
<1>6. \A i \in DOMAIN Append(heard[p], m) :
        (i \in DOMAIN heard[p] /\ Append(heard[p], m)[i] = heard[p][i]) \/ Append(heard[p], m)[i] = m
  BY <1>1, <1>3, AppendElements
<1> HIDE DEF p, m
<1>7. ASSUME NEW q \in Pages, NEW i \in DOMAIN heard'[q]
      PROVE  \E j \in DOMAIN ran[q] : ran[q][j] = heard'[q][i]
  <2>1. \/ heard'[q][i] = m /\ q = p
        \/ i \in DOMAIN heard[q] /\ heard'[q][i] = heard[q][i]
    BY <1>4, <1>6, <1>7
  <2> QED
    BY <1>2, <2>1 DEF Inv3, ResultsFirst, HandledBy
<1>8. ASSUME NEW q \in Pages, NEW d \in Chains,
             chain'[d].page = q, chain'[d].at = "posting"
      PROVE  /\ \E i \in DOMAIN ran[q] : ran[q][i] = chain'[d].msg
             /\ page[q].starts <= 1 =>
                  \A i \in DOMAIN heard'[q] : heard'[q][i] < chain'[d].msg
  <2>1. chain'[d] = chain[d]
    BY <1>8
  <2>2. CASE q = p
    BY <1>5, <1>8, <2>1, <2>2 DEF Inv3, ResultsFirst, HandledBy
  <2>3. CASE q # p
    BY <1>4, <1>8, <2>1, <2>3 DEF Inv3, ResultsFirst, HandledBy
  <2> QED
    BY <2>2, <2>3
<1>9. HeardInOrder'
  <2> SUFFICES ASSUME NEW q \in Pages, page[q].starts <= 1
               PROVE  Increasing(heard'[q])
    BY DEF HeardInOrder
  <2>1. Increasing(heard[q])
    BY DEF Inv3, HeardInOrder
  <2>2. CASE q = p /\ heard' # heard
    BY <1>1, <1>2, <1>3, <1>4, <2>1, <2>2, AppendIncreasing
  <2>3. CASE q # p \/ heard' = heard
    BY <1>4, <2>1, <2>3
  <2> QED
    BY <2>2, <2>3
<1> QED
  BY <1>7, <1>8, <1>9 DEF Inv3, ResultsFirst, HandledBy

\* A request is handled: the result that is to be posted is of the last message
\* that the page handled.
LEMMA HandledResults ==
    ASSUME Inv1, Inv2, Inv3, NEW c \in Chains, Handle(c)
    PROVE  Inv3'
<1> DEFINE p == chain[c].page
           m == chain[c].msg
<1>1. /\ p \in Pages /\ m \in Msgs /\ heard' = heard /\ page' = page
      /\ chain[c].at = "answered"
      /\ \A d \in Chains : d # c => chain'[d] = chain[d]
      /\ chain'[c].at = "posting" => /\ chain'[c].page = p /\ chain'[c].msg = m
                                     /\ ran' = [ran EXCEPT ![p] = Append(@, m)]
      /\ ran' = ran \/ ran' = [ran EXCEPT ![p] = Append(@, m)]
  <2>1. /\ p \in Pages /\ m \in Msgs /\ \A d \in Chains : d # c => chain'[d] = chain[d]
        /\ ran' = ran \/ ran' = [ran EXCEPT ![p] = Append(@, m)]
    BY HandleGives DEF Inv1
  <2>2. heard' = heard /\ page' = page /\ chain[c].at = "answered"
    BY DEF Handle
  <2>3. Over.at # "posting"
    BY DEF Over
  <2>4. chain'[c].at = "posting" => /\ chain'[c].page = p /\ chain'[c].msg = m
                                    /\ ran' = [ran EXCEPT ![p] = Append(@, m)]
    BY <2>3, HandleGives DEF Inv1
  <2> QED
    BY <2>1, <2>2, <2>4
<1>2. ran \in [Pages -> Seq(Msgs)]
  BY DEF Inv1, TypeOK
<1>3. ran' = [ran EXCEPT ![p] = Append(@, m)] => ran'[p] = Append(ran[p], m)
  BY <1>1, <1>2
<1>4. /\ \A i \in DOMAIN ran[p] : i \in DOMAIN Append(ran[p], m) /\ Append(ran[p], m)[i] = ran[p][i]
      /\ \E i \in DOMAIN Append(ran[p], m) : Append(ran[p], m)[i] = m
  <2>1. ran[p] \in Seq(Msgs) /\ m \in Msgs
    BY <1>1, <1>2
  <2> HIDE DEF p, m
  <2> QED
    BY <2>1, AppendElements
<1>5. \A q \in Pages : \A i \in DOMAIN ran[q] : i \in DOMAIN ran'[q] /\ ran'[q][i] = ran[q][i]
  BY <1>1, <1>2, <1>4
<1>6. page[p].starts <= 1 => \A i \in DOMAIN heard[p] : heard[p][i] < m
  BY <1>1 DEF Inv2, NewToPage, Inv3, ResultsFirst, HandledBy
<1> HIDE DEF p, m
<1>7. \A q \in Pages : \A i \in DOMAIN heard[q] :
        \E j \in DOMAIN ran'[q] : ran'[q][j] = heard[q][i]
  BY <1>5 DEF Inv3, ResultsFirst, HandledBy
<1>8. ASSUME NEW q \in Pages, NEW d \in Chains,
             chain'[d].page = q, chain'[d].at = "posting"
      PROVE  /\ \E i \in DOMAIN ran'[q] : ran'[q][i] = chain'[d].msg
             /\ page[q].starts <= 1 =>
                  \A i \in DOMAIN heard[q] : heard[q][i] < chain'[d].msg
  <2>1. CASE d = c
    BY <1>1, <1>3, <1>4, <1>6, <1>8, <2>1
  <2>2. CASE d # c
    BY <1>1, <1>5, <1>8, <2>2 DEF Inv3, ResultsFirst, HandledBy
  <2> QED
    BY <2>1, <2>2
<1>9. HeardInOrder'
  BY <1>1 DEF Inv3, HeardInOrder
<1> QED
  BY <1>1, <1>7, <1>8, <1>9 DEF Inv3, ResultsFirst, HandledBy

LEMMA ResultStep == IInv /\ [Next]_vars => Inv3'
<1> SUFFICES ASSUME Inv1, Inv2, Inv3, [Next]_vars
             PROVE  Inv3'
  BY DEF IInv
<1> USE DEF server, ghosts
<1>0. /\ TypeOK'
      /\ \A p \in Pages : page[p].starts <= page[p].starts
  BY TypeStep DEF Inv1, TypeOK, Page
<1>1. ASSUME NEW type \in Types, Eval(type)
      PROVE  Inv3'
  <2>1. \A c \in Chains : chain'[c].at = "posting" => chain'[c] = chain[c]
    BY <1>1, EvalQueues DEF Inv1, Queued
  <2> QED
    BY <1>0, <1>1, <2>1, QuietResults DEF Eval
<1>2. ASSUME NEW c \in Chains, GetArrives(c) \/ PostArrives(c)
      PROVE  \A d \in Chains : chain'[d].at = "posting" => d # c /\ chain'[d] = chain[d]
  BY <1>2, ClientQueues DEF Inv1, Queued
<1>3. ASSUME NEW c \in Chains, GetArrives(c)
      PROVE  Inv3'
  BY <1>0, <1>2, <1>3, QuietResults DEF GetArrives
<1>4. ASSUME NEW c \in Chains, PostArrives(c)
      PROVE  Inv3'
  <2>1. /\ \A d \in Chains : chain'[d].at = "posting" => chain'[d] = chain[d]
        /\ chain'[c].at # "posting"
    BY <1>2, <1>4
  <2> QED
    BY <1>4, <2>1, PostedResults DEF PostArrives
<1>5. Over.at = "over"
  BY DEF Over
<1>6. ASSUME NEW c \in Chains, CallbackFails(c)
      PROVE  Inv3'
  <2>1. /\ \A d \in Chains : chain'[d].at = "posting" => chain'[d] = chain[d]
        /\ chain'[c].at # "posting"
    BY <1>5, <1>6 DEF CallbackFails, Inv1, TypeOK
  <2> QED
    BY <1>6, <2>1, PostedResults DEF CallbackFails
<1>7. ASSUME NEW c \in Chains, Cut(c)
      PROVE  Inv3'
  <2>1. \A d \in Chains : chain'[d].at = "posting" => chain'[d] = chain[d]
    BY <1>5, <1>7 DEF Cut, Inv1, TypeOK
  <2> QED
    BY <1>0, <1>7, <2>1, QuietResults DEF Cut
<1>8. ASSUME NEW c \in Chains, Handle(c)
      PROVE  Inv3'
  BY <1>8, HandledResults
<1>9. ASSUME NEW m \in Msgs, Expire(m)
      PROVE  Inv3'
  BY <1>0, <1>9, QuietResults DEF Expire
<1>10. ASSUME NEW p \in Pages, User(p)
       PROVE  Inv3'
  <2>1. \A d \in Chains : chain'[d].at = "posting" => chain'[d] = chain[d]
    BY <1>10, UserGives
  <2> QED
    BY <1>0, <1>10, <2>1, UserGives, QuietResults
<1>11. CASE UNCHANGED vars
  BY <1>0, <1>11, QuietResults DEF vars
<1> QED
  BY <1>1, <1>3, <1>4, <1>6, <1>7, <1>8, <1>9, <1>10, <1>11 DEF Next, Request

\* The callback of a message gets a page's results after the page handled it,
\* once, and in the order of the messages.
THEOREM HeardAfterHandled == Spec => []AnsweredInOrder
<1>1. Init => IInv
  <2>1. DOMAIN <<>> = {} /\ Over.page \notin Pages
    BY SkewerAssumption DEF Over
  <2>2. Init => Inv3
    BY <2>1 DEF Init, Inv3, ResultsFirst, HeardInOrder, Increasing
  <2> QED
    BY <2>2, OrderInit DEF IInv
<1>2. IInv /\ [Next]_vars => IInv'
  BY Inv1Step, OrderStep, ResultStep DEF IInv
<1>3. IInv => AnsweredInOrder
  BY DEF IInv, Inv3, ResultsFirst, HandledBy, HeardInOrder, AnsweredInOrder
<1> QED
  BY <1>1, <1>2, <1>3, PTL DEF Spec

(***************************************************************************)
(* No message disappears.                                                  *)
(***************************************************************************)

InQueue(m) == \E i \in DOMAIN queue : queue[i] = m
Under(m) == \E c \in Chains : chain[c].at = "answered" /\ chain[c].msg = m
Kept(m) == InQueue(m) \/ Under(m) \/ m \in ended

\* What may be sent now is in the queue, has been sent or is ended.
LEMMA QueuedKept ==
    ASSUME TypeOK, NEW msgs \in Seq(Msgs), NEW ch, Queued(msgs, ch),
           \A c \in Chains : chain[c].at = "answered" => ch[c] = chain[c],
           NEW m, (\E i \in DOMAIN msgs : msgs[i] = m) \/ Under(m) \/ m \in ended
    PROVE  Kept(m)'
<1>1. CASE m \in ended
  BY <1>1 DEF Kept, Queued
<1>2. CASE Under(m)
  <2>1. PICK c \in Chains : chain[c].at = "answered" /\ chain[c].msg = m
    BY <1>2 DEF Under
  <2>2. chain'[c] = chain[c]
    BY <2>1 DEF Queued
  <2> QED
    BY <2>1, <2>2 DEF Kept, Under
<1>3. CASE \E i \in DOMAIN msgs : msgs[i] = m
  <2>1. PICK i \in DOMAIN msgs : msgs[i] = m
    BY <1>3
  <2>2. CASE queue' = msgs
    BY <2>1, <2>2 DEF Kept, InQueue
  <2>3. CASE queue' # msgs /\ m = Head(msgs)
    BY <2>3 DEF Kept, Under, Queued
  <2>4. CASE queue' # msgs /\ m # Head(msgs)
    <3>1. msgs # <<>> /\ queue' = Tail(msgs)
      BY <2>4 DEF Queued
    <3>2. /\ DOMAIN msgs = 1 .. Len(msgs) /\ Len(msgs) \in Nat /\ i # 1
          /\ Len(Tail(msgs)) = Len(msgs) - 1 /\ Tail(msgs) \in Seq(Msgs)
          /\ \A j \in 1 .. Len(Tail(msgs)) : Tail(msgs)[j] = msgs[j + 1]
      BY <2>1, <2>4, <3>1, HeadTailProperties, LenProperties
    <3>3. DOMAIN Tail(msgs) = 1 .. Len(Tail(msgs))
      BY <3>2, LenProperties
    <3>4. i - 1 \in DOMAIN Tail(msgs) /\ Tail(msgs)[i - 1] = m
      BY <2>1, <3>2, <3>3
    <3> QED
      BY <3>1, <3>4 DEF Kept, InQueue
  <2> QED
    BY <2>2, <2>3, <2>4
<1> QED
  BY <1>1, <1>2, <1>3

LEMMA KeptStep == TypeOK /\ Drained /\ MessageKept /\ [Next]_vars => MessageKept'
<1> SUFFICES ASSUME TypeOK, Drained, MessageKept, [Next]_vars
             PROVE  MessageKept'
  OBVIOUS
<1> USE DEF server, ghosts
<1>0. /\ \A m \in DOMAIN types : Kept(m)
      /\ queue \in Seq(Msgs) /\ types \in Seq(Types)
      /\ chain \in [Chains -> Chain]
  BY DEF MessageKept, Kept, InQueue, Under, TypeOK
<1>1. SUFFICES \A m \in DOMAIN types' : Kept(m)'
  BY DEF MessageKept, Kept, InQueue, Under
<1>2. ASSUME queue' = queue, types' = types, ended \subseteq ended',
             \A c \in Chains : \/ chain'[c] = chain[c]
                               \/ chain[c].at # "answered"
                               \/ chain[c].msg \in ended'
      PROVE  \A m \in DOMAIN types' : Kept(m)'
  BY <1>0, <1>2 DEF Kept, InQueue, Under
<1>3. ASSUME NEW type \in Types, Eval(type)
      PROVE  \A m \in DOMAIN types' : Kept(m)'
  <2> DEFINE n == Len(types')
             msgs == Append(queue, n)
  <2>1. n = Len(types) + 1 /\ n \in Msgs /\ types' \in Seq(Types) /\ Len(types) \in Nat
    BY <1>3, EvalGives
  <2>2. msgs \in Seq(Msgs) /\ Queued(msgs, chain)
    BY <1>3, EvalGives, EvalQueues
  <2>3. \A m \in DOMAIN types' : m \in DOMAIN types \/ m = n
    BY <1>0, <2>1, LenProperties
  <2> HIDE DEF n
  <2>4. /\ \A i \in DOMAIN queue : i \in DOMAIN msgs /\ msgs[i] = queue[i]
        /\ \E i \in DOMAIN msgs : msgs[i] = n
    <3>1. queue \in Seq(Msgs) /\ n \in Msgs
      BY <1>0, <2>1
    <3> QED
      BY <3>1, AppendElements
  <2> HIDE DEF msgs
  <2>5. \A m \in DOMAIN types' :
          (\E i \in DOMAIN msgs : msgs[i] = m) \/ Under(m) \/ m \in ended
    BY <1>0, <2>3, <2>4 DEF Kept, InQueue
  <2> QED
    BY <2>2, <2>5, QueuedKept
<1>4. ASSUME NEW c \in Chains, GetArrives(c) \/ PostArrives(c)
      PROVE  \A m \in DOMAIN types' : Kept(m)'
  <2>1. types' = types /\ chain[c].at # "answered"
    BY <1>4 DEF GetArrives, PostArrives
  <2>2. /\ Queued(queue, Waiting(c))
        /\ \A d \in Chains : d # c => Waiting(c)[d] = chain[d]
    BY <1>0, <1>4, ClientQueues DEF Waiting
  <2>3. \A m \in DOMAIN types' :
          (\E i \in DOMAIN queue : queue[i] = m) \/ Under(m) \/ m \in ended
    BY <1>0, <2>1 DEF Kept, InQueue
  <2>4. \A d \in Chains : chain[d].at = "answered" => Waiting(c)[d] = chain[d]
    BY <2>1, <2>2
  <2> HIDE DEF Waiting
  <2> QED
    BY <1>0, <2>2, <2>3, <2>4, QueuedKept
<1>5. ASSUME NEW c \in Chains, CallbackFails(c)
      PROVE  \A m \in DOMAIN types' : Kept(m)'
  BY <1>0, <1>2, <1>5 DEF CallbackFails
<1>6. ASSUME NEW c \in Chains, Handle(c)
      PROVE  \A m \in DOMAIN types' : Kept(m)'
  <2>1. \A d \in Chains : d # c => chain'[d] = chain[d]
    BY <1>6, HandleGives
  <2> QED
    BY <1>2, <1>6, <2>1 DEF Handle
<1>7. ASSUME NEW c \in Chains, Cut(c)
      PROVE  \A m \in DOMAIN types' : Kept(m)'
  <2>1. chain[c].at = "answered" => chain[c].msg \in ended'
    BY <1>7 DEF Cut, Undelivered
  <2> QED
    BY <1>0, <1>2, <1>7, <2>1 DEF Cut
<1>8. ASSUME NEW m \in Msgs, Expire(m)
      PROVE  \A k \in DOMAIN types' : Kept(k)'
  BY <1>2, <1>8 DEF Expire
<1>9. ASSUME NEW p \in Pages, LoadPage(p, TRUE) \/ ScriptLoads(p)
      PROVE  \A m \in DOMAIN types' : Kept(m)'
  <2>1. PICK c \in Free : Start(p, c)
    BY <1>9 DEF LoadPage, ScriptLoads
  <2>2. /\ chain[c].at # "answered" /\ \A d \in Chains : d # c => chain'[d] = chain[d]
    BY <2>1, StartGives DEF Over
  <2> QED
    BY <1>2, <1>9, <2>2 DEF LoadPage, ScriptLoads
<1>10. ASSUME NEW p \in Pages, LoadPage(p, FALSE) \/ SwitchOn(p) \/ SwitchOff(p)
       PROVE  \A m \in DOMAIN types' : Kept(m)'
  BY <1>2, <1>10 DEF LoadPage, SwitchOn, SwitchOff
<1>11. ASSUME NEW p \in Pages, ClosePage(p)
       PROVE  \A m \in DOMAIN types' : Kept(m)'
  <2>1. \A c \in Chains : chain'[c] = chain[c] \/ chain[c].page = p
    BY <1>11, CutGives DEF ClosePage
  <2>2. \A c \in Chains : chain[c].page = p /\ chain[c].at = "answered" => chain[c].msg \in ended'
    BY <1>11 DEF ClosePage, Undelivered
  <2> QED
    BY <1>2, <1>11, <2>1, <2>2 DEF ClosePage
<1>12. CASE UNCHANGED vars
  BY <1>2, <1>12 DEF vars
<1> QED
  BY <1>3, <1>4, <1>5, <1>6, <1>7, <1>8, <1>9, <1>10, <1>11, <1>12 DEF Next, Request, User

\* Each message is in the queue or on its way, was handled, or went with the page
\* or the connection it was sent to.
THEOREM NoMessageLost == Spec => []MessageKept
<1>1. Init => MessageKept
  BY DEF Init, MessageKept
<1>2. Spec => [](TypeOK /\ Drained /\ MessageKept)
  BY <1>1, TypeInit, TypeStep, KeptStep, PTL DEF Spec
<1> QED
  BY <1>2, PTL
=============================================================================
