------------------------------ MODULE Presenter ------------------------------
(***************************************************************************)
(* A slide deck and the presenter's popup: slide-controller.js with the    *)
(* decks of the two windows.  Keys pressed in the popup are posted to the  *)
(* main window, which obeys them when it gets to them; all else that a     *)
(* window is told stays in that window.                                    *)
(***************************************************************************)
EXTENDS SlideDeck, SequencesExt

CONSTANTS
    Starts,     \* how the deck may be opened: the URL and what was stored before
    Settings,   \* the settings that slide_config may have
    MaxInputs   \* bound: what the user does

VARIABLES
    win,        \* the windows whose deck is there, "main" and maybe "popup"
    opening,    \* the URL's hash that an opening popup is loading, or NoPopup
    mail,       \* the keys posted to the main window and not yet obeyed
    mode,       \* localStorage.ENABLE_PRESENTOR_MODE
    settings,   \* enableSlideAreas and enableTouch of slide_config
    inputs,     \* how often the user acted
    mirrored    \* the popup's keyboard has been all the user used since it opened

vars == <<win, opening, mail, mode, settings, inputs, mirrored>>

ASSUME PresenterAssumption ==
    /\ Starts \subseteq [hash : Nat, query : Queries, stored : BOOLEAN]
    /\ Settings \subseteq [areas : BOOLEAN, touch : BOOLEAN]
    /\ MaxInputs \in Nat

NoPopup == -1
Open == DOMAIN win

\* What the audience sees of a deck.
Screen(w) ==
    [cur |-> w.cur, hidden |-> w.hidden, live |-> w.live, faded |-> w.faded,
     flags |-> w.flags \cap {"overview", "highlight-code"}]

-----------------------------------------------------------------------------
(* Loading                                                                  *)

\* setupDone takes the query off the URL, and the hash with it.
WithoutQuery(w) ==
    IF Url(w).query = "absent" THEN w
    ELSE [w EXCEPT !.hist[w.at] = [state |-> Blank, hash |-> 0, query |-> "absent"]]

\* What setupDone stores and reads back.
ModeAfter(w, stored) ==
    IF Url(w).query = "absent" THEN stored ELSE Url(w).query = "true"

\* new SlideController() in the main window, whose deck is made already.  A
\* blocked popup is null, and using it ends the constructor with an error.
MainDeck(w, stored, blocked) ==
    [WithoutQuery(w) EXCEPT
       !.ctl = IF ~ModeAfter(w, stored) THEN "alone"
               ELSE IF blocked THEN "none" ELSE "presenting"]

\* The popup's URL is the main window's, at the time it is opened.
PopupHash(w) == IF w.ctl = "presenting" THEN Url(w).hash ELSE NoPopup

PopupDeck(hist, at) == [NewDeck(hist, at) EXCEPT !.ctl = "popup"]

\* The popup's page is there: its deck, then P from the main window's load
\* listener, unless that event came before the deck listened to keys.
PopupLoads ==
    /\ opening # NoPopup
    /\ opening' = NoPopup
    /\ LET entry == [state |-> Null, hash |-> opening, query |-> "absent"]
           deck  == PopupDeck(<<entry>>, 1)
       IN \/ win' = [x \in {"main", "popup"} |-> IF x = "main" THEN win["main"] ELSE deck]
             /\ UNCHANGED mail
          \/ win' = [x \in {"main", "popup"} |->
                       IF x = "main" THEN win["main"] ELSE OnKey(deck, "P", FALSE)]
             /\ mail' = Append(mail, "P")
    /\ mirrored' = (mail = <<>> /\ win["main"].closing = 0
                      /\ Screen(win["main"]) = Screen(win'["popup"]))
    /\ UNCHANGED <<mode, settings, inputs>>

-----------------------------------------------------------------------------
(* What the user does                                                       *)

Act == inputs < MaxInputs /\ inputs' = inputs + 1

\* The deck of one window becomes w, unnoticed by the other.
Becomes(x, w) ==
    /\ win' = [win EXCEPT ![x] = w]
    /\ UNCHANGED <<opening, mail, mode, settings>>

Locally(x, w) == Act /\ Becomes(x, w) /\ mirrored' = FALSE

PressMain(key) == Locally("main", OnKey(win["main"], key, TRUE))

\* onBodyKeyDown_ in the popup posts the key before it obeys it.
PressPopup(key) ==
    /\ Act
    /\ "popup" \in Open
    /\ win' = [win EXCEPT !["popup"] = OnKey(@, key, TRUE)]
    /\ mail' = Append(mail, key)
    /\ UNCHANGED <<opening, mode, settings, mirrored>>

\* Mutant: the last key posted is obeyed first.
OnMessageLastFirst ==
    /\ mail # <<>>
    /\ win' = [win EXCEPT !["main"] = OnKey(@, Last(mail), FALSE)]
    /\ mail' = Front(mail)
    /\ UNCHANGED <<opening, mode, settings, inputs, mirrored>>

\* onMessage_ dispatches the key on the document.
OnMessage ==
    /\ mail # <<>>
    /\ win' = [win EXCEPT !["main"] = OnKey(@, Head(mail), FALSE)]
    /\ mail' = Tail(mail)
    /\ UNCHANGED <<opening, mode, settings, inputs, mirrored>>

\* The areas' click listeners get the event for opt_dontPush; the areas are
\* not displayed in the overview.
ClickArea(x) ==
    /\ settings.areas
    /\ ~Has(win[x], "overview")
    /\ \/ Locally(x, PrevSlide(win[x], TRUE))
       \/ Locally(x, NextSlide(win[x], TRUE))

\* ondragend, as loadConfig_ sets it.
DragEnd(x) ==
    /\ settings.touch
    /\ \/ Locally(x, PrevSlide(win[x], FALSE))
       \/ Locally(x, NextSlide(win[x], FALSE))

\* A click on a slide in the overview shows it and leaves the overview later.
ClickSlide(x, slide) ==
    /\ Has(win[x], "overview")
    /\ Locally(x, [LoadSlide(win[x], slide) EXCEPT !.closing = @ + 1])

CloseLater(x) ==
    /\ win[x].closing > 0
    /\ Becomes(x, [ToggleOverview(win[x]) EXCEPT !.closing = @ - 1])
    /\ UNCHANGED <<inputs, mirrored>>

\* The browser's back (-1) and forward (1).
Go(x, step) ==
    /\ win[x].at + step \in DOMAIN win[x].hist
    /\ Locally(x, OnPopState([win[x] EXCEPT !.at = @ + step]))

\* Leaving the main window's page closes the popup; its mail is lost.
ReloadMain ==
    /\ Act
    /\ LET deck == NewDeck(win["main"].hist, win["main"].at)
       IN \E blocked \in BOOLEAN :
            /\ win' = [x \in {"main"} |-> MainDeck(deck, mode, blocked)]
            /\ mode' = ModeAfter(deck, mode)
    /\ opening' = PopupHash(win'["main"])
    /\ mail' = <<>>
    /\ mirrored' = FALSE
    /\ UNCHANGED settings

ReloadPopup ==
    /\ "popup" \in Open
    /\ Locally("popup", PopupDeck(win["popup"].hist, win["popup"].at))

\* The main window keeps its reference to a popup that the user closes.
ClosePopup ==
    /\ Act
    /\ "popup" \in Open
    /\ win' = [x \in {"main"} |-> win["main"]]
    /\ mirrored' = FALSE
    /\ UNCHANGED <<opening, mail, mode, settings>>

-----------------------------------------------------------------------------
Init ==
    /\ \E start \in Starts, blocked \in BOOLEAN :
         LET entry == [state |-> Null, hash |-> start.hash, query |-> start.query]
             deck  == NewDeck(<<entry>>, 1)
         IN /\ win = [x \in {"main"} |-> MainDeck(deck, start.stored, blocked)]
            /\ mode = ModeAfter(deck, start.stored)
    /\ opening = PopupHash(win["main"])
    /\ mail = <<>>
    /\ settings \in Settings
    /\ inputs = 0
    /\ mirrored = FALSE

InWindow(x) ==
    \/ ClickArea(x)
    \/ DragEnd(x)
    \/ \E slide \in Deck : ClickSlide(x, slide)
    \/ CloseLater(x)
    \/ \E step \in {-1, 1} : Go(x, step)

Next ==
    \/ PopupLoads
    \/ \E key \in Keys : PressMain(key) \/ PressPopup(key)
    \/ OnMessage
    \/ \E x \in Open : InWindow(x)
    \/ ReloadMain
    \/ ReloadPopup
    \/ ClosePopup

Spec == Init /\ [][Next]_vars

-----------------------------------------------------------------------------
(* Properties                                                               *)

\* The windows, the URL that a popup loads and the posted keys have their types.
TypeOK ==
    /\ Open \in {{"main"}, {"main", "popup"}}
    /\ \A x \in Open : win[x] \in Window
    /\ opening \in Nat \cup {NoPopup}
    /\ mail \in Seq(Keys)
    /\ mode \in BOOLEAN
    /\ settings \in Settings
    /\ inputs \in 0 .. MaxInputs
    /\ mirrored \in BOOLEAN

\* Whatever moved the deck, a timer, the history or the other window included,
\* the slide that carries `current' is the one curSlide_ says, and the overview
\* is laid out around it, or undone when the overview has been left.
ShowsCurrent ==
    \A x \in Open :
      LET w == win[x]
      IN /\ w.marked = (IF w.cur \in Deck THEN w.cur ELSE Blank)
         /\ w.centre = (IF Has(w, "overview") THEN w.cur ELSE NoCentre)

\* The iframes of the slide shown are loaded, and those of the next slide are
\* or a timer loads them (enableSlideFrames_ counts slides from 1).
FramesReady ==
    \A x \in Open :
      LET w == win[x]
      IN /\ w.cur \in Deck => w.cur \in w.frames
         /\ w.cur + 1 \in Deck => w.cur + 1 \in w.frames \cup w.preload

\* While the presenter uses nothing but the popup's keyboard, the audience's
\* window will show what the popup shows once it has obeyed the keys posted to
\* it, although notes are toggled and taken off in one window and not the other.
Mirrored ==
    mirrored =>
      Screen(win["popup"])
        = Screen(FoldLeft(LAMBDA w, key : OnKey(w, key, FALSE), win["main"], mail))

\* Without slide areas, and opened without a query, a window's URL names the
\* slide it shows, going back and forth included: it can be reloaded there.  The
\* entry the page was opened at is left out: it has no state to go back to.
HashShowsSlide ==
    \A x \in Open :
      LET w == win[x]
      IN (/\ ~settings.areas
          /\ Url(w).state # Null
          /\ \A i \in DOMAIN w.hist : w.hist[i].query = "absent")
           => CurrentSlideFromHash(Url(w).hash) = w.cur

\* Outside the overview a deck goes on to the next slide only when the lists of
\* this one have been shown to the end, with nothing left highlighted or faded.
BuildsFirst ==
    [][\A x \in Open \cap Open' :
         LET w == win[x]  v == win'[x]
         IN (/\ ~Has(w, "overview") /\ w.cur \in Deck /\ v.cur = w.cur + 1
             /\ v.hist # w.hist \/ v.at = w.at)
              => v.hidden[w.cur] = 0 /\ w.cur \notin v.live \cup v.faded]_vars
=============================================================================
