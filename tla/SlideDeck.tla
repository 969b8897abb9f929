------------------------------ MODULE SlideDeck ------------------------------
(***************************************************************************)
(* The slide deck of one browser window, slide-deck.js: a record that the  *)
(* handlers of the page turn into another.  Slides are numbered from 0, as *)
(* curSlide_ does; the URL's hash numbers them from 1, 0 standing for none.*)
(***************************************************************************)
EXTENDS Integers, Sequences, FiniteSets

CONSTANTS
    Size,       \* how many slides the deck has
    Items,      \* slide |-> how many items its build lists reveal one by one
    Fades       \* the slides whose build lists fade what was shown before

Deck == 0 .. Size - 1

ASSUME DeckAssumption ==
    /\ Size \in Nat \ {0}
    /\ Items \in [Deck -> Nat]
    /\ Fades \subseteq Deck

\* A history entry's state is a slide, null, or the `{}' that setupDone puts.
Null  == -1
Blank == -2
NoCentre == -3

\* The classes of <body>, the container's layout and full screen.
Flags == {"overview", "with-notes", "highlight-code", "layout-widescreen",
          "fullscreen"}

\* The query of the URL: ?presentme=true, ?presentme=false or neither.
Queries == {"absent", "true", "false"}

Entry == [state : Int, hash : Nat, query : Queries]

\* What SlideController the deck has: none yet (or one whose constructor
\* failed), the main window's without or with a popup, the popup's.
Controllers == {"none", "alone", "presenting", "popup"}

Window ==
    [cur      : Int,                   \* curSlide_
     prev     : Int,                   \* prevSlide_
     ctl      : Controllers,           \* controller
     hidden   : [Deck -> Nat],         \* items with class to-build
     live     : SUBSET Deck,           \* slides with a build-current item
     faded    : SUBSET Deck,           \* slides with build-fade items
     flags    : SUBSET Flags,
     marked   : Int,                   \* the slide `current' was last put on
     centre   : Int,                   \* the slide overview is laid out around
     frames   : SUBSET Deck,           \* slides whose iframes are loaded
     preload  : SUBSET Deck,           \* slides whose iframes a timer loads, or has
     closing  : Nat,                   \* timers that will toggle the overview
     left     : Int,                   \* the slide of the last slideleave
     hist     : Seq(Entry),            \* the session history of the window
     at       : Nat]                   \* and the entry the window is at

Has(w, flag) == flag \in w.flags
Toggled(flags, flag) == IF flag \in flags THEN flags \ {flag} ELSE flags \cup {flag}
Url(w) == w.hist[w.at]

-----------------------------------------------------------------------------
(* Showing slides                                                           *)

\* Mutant: the hash numbers slides from 0.
PushCurrent(w) ==
    [w EXCEPT
       !.hist = Append(SubSeq(w.hist, 1, w.at),
                       [state |-> w.cur, hash |-> IF w.cur \in Deck THEN w.cur ELSE 0,
                        query |-> Url(w).query]),
       !.at = w.at + 1]

\* pushState drops the entries ahead; the query stays when the hash changes.
Push(w) ==
    [w EXCEPT
       !.hist = Append(SubSeq(w.hist, 1, w.at),
                       [state |-> w.cur, hash |-> w.cur + 1, query |-> Url(w).query]),
       !.at = w.at + 1]

UpdateHash(w, dontPush) == IF dontPush THEN w ELSE Push(w)

FocusOverview(w) ==
    [w EXCEPT !.centre = IF Has(w, "overview") THEN w.cur ELSE NoCentre]

\* Mutant: slides are taken for numbered from 0.
EnableSlideFramesFromZero(w) ==
    [w EXCEPT !.frames  = @ \cup ({w.cur - 1} \cap Deck),
              !.preload = @ \cup ({w.cur} \cap Deck)]

\* The next slide's iframes are left to a timer of one second.  Loading them
\* twice is loading them once, so that when it runs makes no difference.
EnableSlideFrames(w) ==
    [w EXCEPT !.frames  = @ \cup ({w.cur} \cap Deck),
              !.preload = @ \cup ({w.cur + 1} \cap Deck)]

\* Mutant: the overview is not laid out again.
UpdateSlidesUnfocused(w, dontPush) ==
    UpdateHash(EnableSlideFrames(
        [w EXCEPT !.marked = IF w.cur \in Deck THEN w.cur ELSE Blank,
                  !.left   = IF w.prev \in Deck THEN w.prev ELSE @]), dontPush)

UpdateSlides(w, dontPush) ==
    LET shown ==
          [w EXCEPT !.marked = IF w.cur \in Deck THEN w.cur ELSE Blank,
                    !.left   = IF w.prev \in Deck THEN w.prev ELSE @]
        hashed == UpdateHash(EnableSlideFrames(shown), dontPush)
    IN IF Has(w, "overview") THEN FocusOverview(hashed) ELSE hashed

ToggleOverview(w) ==
    FocusOverview([w EXCEPT !.flags = Toggled(@, "overview")])

LoadSlide(w, slide) == UpdateSlides([w EXCEPT !.cur = slide], FALSE)

OnPopState(w) ==
    IF Url(w).state = Null THEN w
    ELSE UpdateSlides([w EXCEPT !.cur = Url(w).state], TRUE)

-----------------------------------------------------------------------------
(* Moving                                                                   *)

\* Moving takes highlighting off, and the notes unless this is the popup.
Move(w, slide, dontPush) ==
    UpdateSlides([w EXCEPT
                    !.flags = @ \ ({"highlight-code"} \cup
                        IF w.ctl = "popup" THEN {} ELSE {"with-notes"}),
                    !.prev = w.cur,
                    !.cur = slide], dontPush)

PrevSlide(w, dontPush) ==
    IF w.cur > 0 THEN Move(w, w.cur - 1, dontPush) ELSE w

\* Mutant: the end of a list goes unnoticed.
CanAlwaysBuild(w) == w.cur \in Deck

CanBuild(w) == w.hidden[w.cur] > 0

BuildNextItem(w) ==
    LET slide == w.cur
        fades == slide \in w.live /\ slide \in Fades
    IN IF CanBuild(w)
       THEN [w EXCEPT
               !.hidden[slide] = @ - 1,
               !.live  = @ \cup {slide},
               !.faded = IF fades THEN @ \cup {slide} ELSE @]
       ELSE [w EXCEPT !.live = @ \ {slide}, !.faded = @ \ {slide}]

Advance(w, dontPush) ==
    IF w.cur # Blank /\ w.cur < Size - 1 THEN Move(w, w.cur + 1, dontPush) ELSE w

\* Mutant: the slide is left after each item.
NextSlideAtOnce(w, dontPush) ==
    IF w.cur \notin Deck THEN w ELSE Advance(BuildNextItem(w), dontPush)

\* Where there is no such slide, buildNextItem_ throws and nothing changes.
NextSlide(w, dontPush) ==
    IF Has(w, "overview") THEN Advance(w, dontPush)
    ELSE IF w.cur \notin Deck THEN w
    ELSE IF CanBuild(w) THEN BuildNextItem(w)
    ELSE Advance(BuildNextItem(w), dontPush)

-----------------------------------------------------------------------------
(* Keys                                                                     *)

Keys == {"next", "prev", "Enter", "Esc", "H", "O", "P", "W", "F"}

CloseOverview(w) == IF Has(w, "overview") THEN ToggleOverview(w) ELSE w

\* F and W are obeyed when the event's target is <body>: a key that was
\* pressed in this window, and not one dispatched on its document.
OnKey(w, key, pressed) ==
    CASE key = "next"  -> NextSlide(w, FALSE)
      [] key = "prev"  -> PrevSlide(w, FALSE)
      [] key = "Enter" -> CloseOverview(w)
      [] key = "Esc"   ->
           CloseOverview([w EXCEPT !.flags = @ \ {"with-notes", "highlight-code"}])
      [] key = "H"     -> [w EXCEPT !.flags = Toggled(@, "highlight-code")]
      [] key = "O"     -> ToggleOverview(w)
      [] key = "P"     ->
           IF w.ctl \in {"popup", "alone"}
           THEN [w EXCEPT !.flags = Toggled(@, "with-notes")] ELSE w
      [] key = "W"     ->
           IF pressed THEN [w EXCEPT !.flags = Toggled(@, "layout-widescreen")] ELSE w
      [] key = "F"     ->
           IF pressed THEN [w EXCEPT !.flags = Toggled(@, "fullscreen")] ELSE w

-----------------------------------------------------------------------------
(* Loading the page                                                         *)

CurrentSlideFromHash(hash) == IF hash = 0 THEN 0 ELSE hash - 1

\* Lists are prepared from the slide the deck starts at onwards.
MakeBuildLists(start) == [s \in Deck |-> IF s >= start THEN Items[s] ELSE 0]

\* new SlideDeck() in a window with this history, until its SlideController.
NewDeck(hist, at) ==
    LET start == CurrentSlideFromHash(hist[at].hash)
    IN UpdateSlides(
         [cur |-> start, prev |-> 0, ctl |-> "none",
          hidden |-> MakeBuildLists(start), live |-> {}, faded |-> {},
          flags |-> {"layout-widescreen"}, marked |-> Blank, centre |-> NoCentre,
          frames |-> {}, preload |-> {}, closing |-> 0, left |-> Null,
          hist |-> hist, at |-> at], FALSE)
=============================================================================
