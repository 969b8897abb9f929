--------------------------- MODULE Presenter_proofs ---------------------------
(***************************************************************************)
(* Proofs about SlideDeck and Presenter, for any deck, settings and way of *)
(* opening it: types, ShowsCurrent, FramesReady, HashShowsSlide,           *)
(* BuildsFirst and Mirrored.                                               *)
(***************************************************************************)
EXTENDS Presenter, Folding, SequenceTheorems, TLAPS

(***************************************************************************)
(* What is kept of a deck.                                                 *)
(***************************************************************************)

\* A deck's record between any two calls of its handlers: only pushed states are
\* popped, and the overview's layout is undone when it is left.
Tidy(w) ==
    /\ w \in Window
    /\ w.at \in 1 .. Len(w.hist)
    /\ w.cur \in Nat \cup {Blank}
    /\ \A i \in 1 .. Len(w.hist) : w.hist[i].state \in Nat \cup {Null, Blank}
    /\ Has(w, "overview") \/ w.centre = NoCentre

Shows(w) ==
    /\ w.marked = (IF w.cur \in Deck THEN w.cur ELSE Blank)
    /\ w.centre = (IF Has(w, "overview") THEN w.cur ELSE NoCentre)

Ready(w) ==
    /\ w.cur \in Deck => w.cur \in w.frames
    /\ w.cur + 1 \in Deck => w.cur + 1 \in w.frames \cup w.preload

\* In a window opened without a query, what was pushed names its slide.
Named(w) ==
    w.hist[1].query = "absent" =>
      \A i \in 1 .. Len(w.hist) :
        /\ w.hist[i].query = "absent"
        /\ \/ w.hist[i].state = Null
           \/ w.hist[i].state \in Nat /\ w.hist[i].hash = w.hist[i].state + 1

\* Without slide areas, the entry that the window is at is that of its slide.
Follows(w) ==
    w.hist[1].query = "absent" /\ Url(w).state # Null => Url(w).state = w.cur

Good(w) == Tidy(w) /\ Shows(w) /\ Ready(w) /\ Named(w)

\* What BuildsFirst says of a step of one window.
Builds(w, v) ==
    (/\ ~Has(w, "overview") /\ w.cur \in Deck /\ v.cur = w.cur + 1
     /\ v.hist # w.hist \/ v.at = w.at)
      => v.hidden[w.cur] = 0 /\ w.cur \notin v.live \cup v.faded

(***************************************************************************)
(* Showing slides.                                                         *)
(***************************************************************************)

\* Only the history changes, which gets an entry for the slide.
LEMMA PushGives ==
    ASSUME NEW w, Tidy(w), w.cur \in Nat
    PROVE  LET v == Push(w)
           IN /\ Tidy(v) /\ v.cur = w.cur /\ v.hidden = w.hidden /\ v.live = w.live
              /\ v.faded = w.faded /\ v.flags = w.flags /\ v.ctl = w.ctl
              /\ v.marked = w.marked /\ v.centre = w.centre /\ v.frames = w.frames
              /\ v.preload = w.preload /\ v.closing = w.closing
              /\ v.at > 1 /\ v.hist[1] = w.hist[1]
              /\ Named(w) => Named(v)
              /\ Follows(v)
              /\ v.hist # w.hist \/ v.at # w.at
<1> DEFINE past == SubSeq(w.hist, 1, w.at)
           entry == [state |-> w.cur, hash |-> w.cur + 1, query |-> Url(w).query]
           all == Append(past, entry)
           v == Push(w)
<1>1. w \in Window /\ w.hist \in Seq(Entry) /\ w.at \in 1 .. Len(w.hist) /\ w.cur \in Int
  BY DEF Tidy, Window
<1>2. w.hist[w.at] \in Entry
  BY <1>1, ElementOfSeq
<1>3. entry \in Entry
  BY <1>2 DEF Entry, Url
<1>4. past \in Seq(Entry) /\ Len(past) = w.at /\ \A i \in 1 .. w.at : past[i] = w.hist[i]
  <2>1. \A i \in 1 .. w.at : w.hist[i] \in Entry
    BY <1>1, ElementOfSeq
  <2> QED
    BY <1>1, <2>1, SubSeqProperties
<1>5. /\ all \in Seq(Entry) /\ Len(all) = w.at + 1
      /\ all[w.at + 1] = entry /\ \A i \in 1 .. w.at : all[i] = w.hist[i]
  BY <1>1, <1>3, <1>4, AppendProperties
<1>6. v = [w EXCEPT !.hist = all, !.at = w.at + 1] /\ w.at + 1 \in Nat
  BY <1>1 DEF Push
<1>7. /\ entry.state = w.cur /\ entry.hash = w.cur + 1
      /\ entry.query = w.hist[w.at].query
  BY DEF Url
<1> HIDE DEF all, past, entry, v
<1>8. /\ v \in Window /\ v.hist = all /\ v.at = w.at + 1
      /\ v.cur = w.cur /\ v.hidden = w.hidden /\ v.live = w.live
      /\ v.faded = w.faded /\ v.flags = w.flags /\ v.ctl = w.ctl
      /\ v.marked = w.marked /\ v.centre = w.centre /\ v.frames = w.frames
      /\ v.preload = w.preload /\ v.closing = w.closing
  <2>1. w \in Window /\ all \in Seq(Entry) /\ w.at + 1 \in Nat
    BY <1>1, <1>5, <1>6
  <2> QED
    BY <2>1, <1>6 DEF Window
<1>9. Tidy(v)
  <2>1. v.at \in 1 .. Len(v.hist)
    BY <1>1, <1>5, <1>8
  <2>2. \A i \in 1 .. Len(v.hist) : v.hist[i].state \in Nat \cup {Null, Blank}
    <3> SUFFICES ASSUME NEW i \in 1 .. w.at + 1
                 PROVE  all[i].state \in Nat \cup {Null, Blank}
      BY <1>5, <1>8
    <3>1. CASE i = w.at + 1
      BY <1>5, <1>7, <3>1
    <3>2. CASE i \in 1 .. w.at
      <4>1. i \in 1 .. Len(w.hist) /\ all[i] = w.hist[i]
        BY <1>1, <1>5, <3>2
      <4> QED
        BY <4>1 DEF Tidy
    <3> QED
      BY <1>1, <3>1, <3>2
  <2>3. Has(v, "overview") \/ v.centre = NoCentre
    BY <1>8 DEF Has, Tidy
  <2>4. v.cur \in Nat \cup {Blank}
    BY <1>8
  <2> QED
    BY <1>8, <2>1, <2>2, <2>3, <2>4 DEF Tidy
<1>10. v.at > 1 /\ v.hist[1] = w.hist[1]
  BY <1>1, <1>5, <1>8
<1>11. Named(w) => Named(v)
  <2> SUFFICES ASSUME Named(w), w.hist[1].query = "absent", NEW i \in 1 .. w.at + 1
               PROVE  /\ all[i].query = "absent"
                      /\ \/ all[i].state = Null
                         \/ all[i].state \in Nat /\ all[i].hash = all[i].state + 1
    BY <1>5, <1>8, <1>10 DEF Named
  <2>1. ASSUME NEW k \in 1 .. Len(w.hist)
        PROVE  /\ w.hist[k].query = "absent"
               /\ \/ w.hist[k].state = Null
                  \/ w.hist[k].state \in Nat /\ w.hist[k].hash = w.hist[k].state + 1
    BY DEF Named
  <2>2. CASE i = w.at + 1
    BY <1>1, <1>5, <1>7, <2>1, <2>2
  <2>3. CASE i \in 1 .. w.at
    <3>1. i \in 1 .. Len(w.hist) /\ all[i] = w.hist[i]
      BY <1>1, <1>5, <2>3
    <3> QED
      BY <2>1, <3>1
  <2> QED
    BY <1>1, <2>2, <2>3
<1>12. Follows(v)
  BY <1>1, <1>5, <1>7, <1>8 DEF Follows, Url
<1>13. v.hist # w.hist \/ v.at # w.at
  BY <1>1, <1>8
<1> QED
  BY <1>8, <1>9, <1>10, <1>11, <1>12, <1>13 DEF v

\* With another slide to show and the history left as it is.
LEMMA UpdateSlidesGives ==
    ASSUME NEW w, Tidy(w), NEW dontPush \in BOOLEAN, dontPush \/ w.cur \in Nat
    PROVE  LET v == UpdateSlides(w, dontPush)
           IN /\ Tidy(v) /\ Shows(v) /\ Ready(v)
              /\ v.cur = w.cur /\ v.hidden = w.hidden /\ v.live = w.live
              /\ v.faded = w.faded /\ v.flags = w.flags /\ v.ctl = w.ctl
              /\ v.closing = w.closing
              /\ Named(w) => Named(v)
              /\ v.hist[1] = w.hist[1]
              /\ dontPush => v.hist = w.hist /\ v.at = w.at
              /\ ~dontPush => Follows(v) /\ v.at > 1 /\ (v.hist # w.hist \/ v.at # w.at)
<1> DEFINE shown == [w EXCEPT !.marked = IF w.cur \in Deck THEN w.cur ELSE Blank,
                              !.left   = IF w.prev \in Deck THEN w.prev ELSE @]
           framed == EnableSlideFrames(shown)
           hashed == UpdateHash(framed, dontPush)
           v == UpdateSlides(w, dontPush)
<1>1. w \in Window /\ w.cur \in Nat \cup {Blank} /\ w.cur \in Int
  BY DEF Tidy, Blank
<1>2. /\ shown \in Window /\ shown.marked = (IF w.cur \in Deck THEN w.cur ELSE Blank)
      /\ shown.cur = w.cur /\ shown.hidden = w.hidden /\ shown.live = w.live
      /\ shown.faded = w.faded /\ shown.flags = w.flags /\ shown.ctl = w.ctl
      /\ shown.closing = w.closing /\ shown.hist = w.hist /\ shown.at = w.at
      /\ shown.centre = w.centre /\ shown.frames = w.frames
      /\ shown.preload = w.preload
  <2>1. (IF w.cur \in Deck THEN w.cur ELSE Blank) \in Int
    BY <1>1 DEF Blank
  <2>2. (IF w.prev \in Deck THEN w.prev ELSE w.left) \in Int
    BY <1>1 DEF Window
  <2> QED
    BY <1>1, <2>1, <2>2 DEF Window
<1> HIDE DEF shown
<1>3. /\ framed \in Window /\ framed.marked = shown.marked
      /\ framed.cur = shown.cur /\ framed.hidden = shown.hidden
      /\ framed.live = shown.live
      /\ framed.faded = shown.faded /\ framed.flags = shown.flags
      /\ framed.ctl = shown.ctl
      /\ framed.closing = shown.closing /\ framed.hist = shown.hist
      /\ framed.at = shown.at /\ framed.centre = shown.centre
      /\ framed.frames = shown.frames \cup ({shown.cur} \cap Deck)
      /\ framed.preload = shown.preload \cup ({shown.cur + 1} \cap Deck)
  BY <1>2 DEF EnableSlideFrames, Window
<1>4. framed.frames = w.frames \cup ({w.cur} \cap Deck)
      /\ framed.preload = w.preload \cup ({w.cur + 1} \cap Deck)
  BY <1>2, <1>3
<1> HIDE DEF framed
<1>5. Tidy(framed) /\ (Named(w) => Named(framed))
  BY <1>2, <1>3 DEF Tidy, Named, Has
<1>6. /\ Tidy(hashed) /\ hashed.marked = framed.marked
      /\ hashed.cur = w.cur /\ hashed.hidden = w.hidden /\ hashed.live = w.live
      /\ hashed.faded = w.faded /\ hashed.flags = w.flags /\ hashed.ctl = w.ctl
      /\ hashed.closing = w.closing /\ hashed.centre = w.centre
      /\ hashed.frames = framed.frames /\ hashed.preload = framed.preload
      /\ Named(w) => Named(hashed)
      /\ hashed.hist[1] = w.hist[1]
      /\ dontPush => hashed.hist = w.hist /\ hashed.at = w.at
      /\ ~dontPush => /\ Follows(hashed) /\ hashed.at > 1
                      /\ hashed.hist # w.hist \/ hashed.at # w.at
  <2>1. CASE dontPush
    <3>1. hashed = framed
      BY <2>1 DEF UpdateHash
    <3> QED
      BY <1>2, <1>3, <1>5, <2>1, <3>1
  <2>2. CASE ~dontPush
    <3>1. hashed = Push(framed)
      BY <2>2 DEF UpdateHash
    <3>2. framed.cur \in Nat
      BY <1>2, <1>3, <2>2
    <3> HIDE DEF hashed
    <3> QED
      BY <1>2, <1>3, <1>5, <2>2, <3>1, <3>2, PushGives
  <2> QED
    BY <2>1, <2>2
<1>7. v = IF Has(w, "overview") THEN FocusOverview(hashed) ELSE hashed
  BY DEF UpdateSlides, shown, framed
<1> HIDE DEF hashed, v
<1>8. Has(hashed, "overview") <=> Has(w, "overview")
  BY <1>6 DEF Has
<1>9. /\ v \in Window /\ v.marked = hashed.marked
      /\ v.cur = hashed.cur /\ v.hidden = hashed.hidden /\ v.live = hashed.live
      /\ v.faded = hashed.faded /\ v.flags = hashed.flags /\ v.ctl = hashed.ctl
      /\ v.closing = hashed.closing /\ v.hist = hashed.hist /\ v.at = hashed.at
      /\ v.frames = hashed.frames /\ v.preload = hashed.preload
      /\ v.centre = (IF Has(w, "overview") THEN w.cur ELSE NoCentre)
  <2>1. CASE Has(w, "overview")
    <3>1. v = [hashed EXCEPT !.centre = hashed.cur]
      BY <1>7, <1>8, <2>1 DEF FocusOverview
    <3> QED
      BY <1>1, <1>6, <2>1, <3>1 DEF Window, Tidy
  <2>2. CASE ~Has(w, "overview")
    BY <1>6, <1>7, <1>8, <2>2 DEF Tidy
  <2> QED
    BY <2>1, <2>2
<1>10. Tidy(v)
  BY <1>6, <1>8, <1>9 DEF Tidy, Has
<1>11. Shows(v)
  BY <1>2, <1>3, <1>6, <1>9 DEF Shows, Has
<1>12. Ready(v)
  BY <1>4, <1>6, <1>9 DEF Ready
<1>13. /\ Named(w) => Named(v)
       /\ Follows(hashed) => Follows(v)
  BY <1>6, <1>9 DEF Named, Follows, Url
<1> QED
  BY <1>6, <1>9, <1>10, <1>11, <1>12, <1>13 DEF v

(***************************************************************************)
(* The handlers.                                                           *)
(***************************************************************************)

\* What a handler keeps of a window's deck, whatever it does.
Kept(w, v) == Good(v) /\ v.hist[1] = w.hist[1] /\ Builds(w, v)

\* Classes of <body> and of the container, except that of the overview.
LEMMA FlagsKept ==
    ASSUME NEW w, Good(w), NEW flags \in SUBSET Flags,
           "overview" \in flags <=> Has(w, "overview")
    PROVE  LET v == [w EXCEPT !.flags = flags]
           IN /\ Kept(w, v) /\ (Follows(w) => Follows(v)) /\ v.cur = w.cur
              /\ v.hist = w.hist /\ v.at = w.at /\ v.hidden = w.hidden
              /\ v.live = w.live /\ v.faded = w.faded /\ v.ctl = w.ctl
              /\ v.flags = flags /\ v.closing = w.closing
<1> DEFINE v == [w EXCEPT !.flags = flags]
<1>1. w \in Window /\ w.cur \in Int
  BY DEF Good, Tidy, Window
<1>2. /\ v \in Window /\ v.cur = w.cur /\ v.hist = w.hist /\ v.at = w.at
      /\ v.hidden = w.hidden /\ v.live = w.live /\ v.faded = w.faded
      /\ v.ctl = w.ctl /\ v.marked = w.marked /\ v.centre = w.centre
      /\ v.frames = w.frames /\ v.preload = w.preload /\ v.closing = w.closing
      /\ v.flags = flags
  BY <1>1 DEF Window
<1> HIDE DEF v
<1>3. Tidy(v) /\ Shows(v) /\ Ready(v) /\ Named(v)
  BY <1>2 DEF Good, Tidy, Shows, Ready, Named, Has
<1>4. Builds(w, v) /\ (Follows(w) => Follows(v))
  BY <1>1, <1>2 DEF Builds, Follows, Url
<1> QED
  BY <1>2, <1>3, <1>4 DEF Good, Kept, v

LEMMA ToggleOverviewKept ==
    ASSUME NEW w, Good(w)
    PROVE  LET v == ToggleOverview(w)
           IN /\ Kept(w, v) /\ (Follows(w) => Follows(v)) /\ v.cur = w.cur
              /\ v.hist = w.hist /\ v.at = w.at /\ v.closing = w.closing
              /\ v.hidden = w.hidden /\ v.live = w.live /\ v.faded = w.faded
              /\ v.flags = Toggled(w.flags, "overview")
<1> DEFINE u == [w EXCEPT !.flags = Toggled(@, "overview")]
           v == ToggleOverview(w)
<1>1. w \in Window /\ w.cur \in Int
  BY DEF Good, Tidy, Window
<1>2. /\ u \in Window /\ u.cur = w.cur /\ u.hist = w.hist /\ u.at = w.at
      /\ u.hidden = w.hidden /\ u.live = w.live /\ u.faded = w.faded
      /\ u.marked = w.marked /\ u.frames = w.frames /\ u.preload = w.preload
      /\ u.closing = w.closing /\ u.flags = Toggled(w.flags, "overview")
  <2>1. Toggled(w.flags, "overview") \in SUBSET Flags
    BY <1>1 DEF Toggled, Flags, Window
  <2> QED
    BY <1>1, <2>1 DEF Window
<1>3. v = [u EXCEPT !.centre = IF Has(u, "overview") THEN u.cur ELSE NoCentre]
  BY DEF ToggleOverview, FocusOverview
<1> HIDE DEF u, v
<1>4. /\ v \in Window /\ v.cur = u.cur /\ v.hist = u.hist /\ v.at = u.at
      /\ v.hidden = u.hidden /\ v.live = u.live /\ v.faded = u.faded
      /\ v.marked = u.marked /\ v.frames = u.frames /\ v.preload = u.preload
      /\ v.closing = u.closing /\ v.flags = u.flags
      /\ v.centre = IF Has(u, "overview") THEN u.cur ELSE NoCentre
  <2>1. (IF Has(u, "overview") THEN u.cur ELSE NoCentre) \in Int
    BY <1>1, <1>2 DEF NoCentre, Has
  <2> QED
    BY <1>2, <1>3, <2>1 DEF Window
<1>5. Tidy(v) /\ Shows(v) /\ Ready(v) /\ Named(v)
  BY <1>2, <1>4 DEF Good, Tidy, Shows, Ready, Named, Has
<1>6. Builds(w, v) /\ (Follows(w) => Follows(v))
  BY <1>1, <1>2, <1>4 DEF Builds, Follows, Url
<1> QED
  BY <1>2, <1>4, <1>5, <1>6 DEF Good, Kept, v

\* Another slide is current, whatever else has changed that a deck keeps.
LEMMA ShowGives ==
    ASSUME NEW w, Good(w), NEW u \in Window, u.cur \in Nat \cup {Blank},
           u.hist = w.hist, u.at = w.at, u.centre = w.centre,
           "overview" \in u.flags <=> "overview" \in w.flags,
           NEW dontPush \in BOOLEAN, dontPush \/ u.cur \in Nat
    PROVE  LET v == UpdateSlides(u, dontPush)
           IN /\ Good(v) /\ v.hist[1] = w.hist[1] /\ v.cur = u.cur
              /\ v.hidden = u.hidden /\ v.live = u.live /\ v.faded = u.faded
              /\ v.flags = u.flags /\ v.ctl = u.ctl /\ v.closing = u.closing
              /\ dontPush => v.hist = w.hist /\ v.at = w.at
              /\ ~dontPush => Follows(v) /\ v.at > 1 /\ (v.hist # w.hist \/ v.at # w.at)
<1>1. Tidy(u) /\ Named(u)
  BY DEF Good, Tidy, Named, Has
<1> QED
  BY <1>1, UpdateSlidesGives DEF Good

LEMMA MoveGives ==
    ASSUME NEW w, Good(w), NEW slide \in Nat, NEW dontPush \in BOOLEAN
    PROVE  LET v == Move(w, slide, dontPush)
           IN /\ Good(v) /\ v.hist[1] = w.hist[1] /\ v.cur = slide
              /\ v.hidden = w.hidden /\ v.live = w.live /\ v.faded = w.faded
              /\ v.closing = w.closing /\ "highlight-code" \notin v.flags
              /\ "overview" \in v.flags <=> "overview" \in w.flags
              /\ ~dontPush => Follows(v)
<1> DEFINE flags == w.flags \ ({"highlight-code"} \cup
                      IF w.ctl = "popup" THEN {} ELSE {"with-notes"})
           u == [w EXCEPT !.flags = flags, !.prev = w.cur, !.cur = slide]
<1>1. w \in Window /\ w.cur \in Int
  BY DEF Good, Tidy, Window
<1>2. /\ flags \in SUBSET Flags /\ ("overview" \in flags <=> "overview" \in w.flags)
      /\ "highlight-code" \notin flags
  BY <1>1 DEF Flags, Window
<1>3. Move(w, slide, dontPush) = UpdateSlides(u, dontPush)
  BY DEF Move
<1> HIDE DEF flags
<1>4. /\ u \in Window /\ u.cur = slide /\ u.hist = w.hist /\ u.at = w.at
      /\ u.hidden = w.hidden /\ u.live = w.live /\ u.faded = w.faded
      /\ u.centre = w.centre /\ u.flags = flags /\ u.closing = w.closing
  <2>1. flags \in SUBSET Flags /\ slide \in Int /\ w.cur \in Int
    BY <1>1, <1>2
  <2>2. u \in Window
    BY <1>1, <2>1 DEF Window
  <2>3. u.cur = slide /\ u.hist = w.hist /\ u.at = w.at
    BY <1>1 DEF Window
  <2>4. u.hidden = w.hidden /\ u.live = w.live /\ u.faded = w.faded
    BY <1>1 DEF Window
  <2>5. u.centre = w.centre /\ u.flags = flags /\ u.closing = w.closing
    BY <1>1 DEF Window
  <2> QED
    BY <2>2, <2>3, <2>4, <2>5
<1> HIDE DEF u
<1> QED
  BY <1>2, <1>3, <1>4, ShowGives

LEMMA PrevSlideKept ==
    ASSUME NEW w, Good(w), NEW dontPush \in BOOLEAN
    PROVE  LET v == PrevSlide(w, dontPush)
           IN Kept(w, v) /\ (Follows(w) /\ ~dontPush => Follows(v))
<1>1. w.cur \in Nat \cup {Blank} /\ w.cur \in Int
  BY DEF Good, Tidy, Blank
<1>2. CASE w.cur > 0
  <2>1. PrevSlide(w, dontPush) = Move(w, w.cur - 1, dontPush) /\ w.cur - 1 \in Nat
    BY <1>1, <1>2 DEF PrevSlide
  <2> DEFINE v == Move(w, w.cur - 1, dontPush)
  <2>2. /\ Good(v) /\ v.hist[1] = w.hist[1] /\ v.cur = w.cur - 1
        /\ ~dontPush => Follows(v)
    BY <2>1, MoveGives
  <2> HIDE DEF v
  <2>3. Builds(w, v)
    BY <1>1, <2>2 DEF Builds
  <2> QED
    BY <2>1, <2>2, <2>3 DEF Kept, v
<1>3. CASE ~(w.cur > 0)
  <2>1. PrevSlide(w, dontPush) = w
    BY <1>3 DEF PrevSlide
  <2>2. Builds(w, w)
    BY <1>1 DEF Builds
  <2> QED
    BY <2>1, <2>2 DEF Kept
<1> QED
  BY <1>2, <1>3

\* An item is shown, or the last one stops being the current one.
LEMMA BuildNextItemGives ==
    ASSUME NEW w, Good(w), w.cur \in Deck
    PROVE  LET v == BuildNextItem(w)
           IN /\ Good(v) /\ v.hist = w.hist /\ v.at = w.at /\ v.cur = w.cur
              /\ v.flags = w.flags
              /\ ~CanBuild(w) => /\ v.hidden[w.cur] = 0
                                 /\ w.cur \notin v.live \cup v.faded
<1> DEFINE v == BuildNextItem(w)
<1>1. w \in Window /\ w.hidden \in [Deck -> Nat] /\ w.cur \in Int
  BY DEF Good, Tidy, Window
<1>2. /\ v \in Window /\ v.cur = w.cur /\ v.hist = w.hist /\ v.at = w.at
      /\ v.marked = w.marked /\ v.centre = w.centre /\ v.flags = w.flags
      /\ v.frames = w.frames /\ v.preload = w.preload
      /\ ~CanBuild(w) => /\ v.hidden = w.hidden
                         /\ w.cur \notin v.live \cup v.faded
  <2>1. CASE CanBuild(w)
    <3> DEFINE hidden == [w.hidden EXCEPT ![w.cur] = @ - 1]
               live == w.live \cup {w.cur}
               faded == IF w.cur \in w.live /\ w.cur \in Fades
                        THEN w.faded \cup {w.cur} ELSE w.faded
    <3>1. v = [w EXCEPT !.hidden = hidden, !.live = live, !.faded = faded]
      BY <1>1, <2>1 DEF BuildNextItem, Window
    <3>2. hidden \in [Deck -> Nat]
      BY <1>1, <2>1 DEF CanBuild
    <3>3. live \in SUBSET Deck /\ faded \in SUBSET Deck
      BY <1>1 DEF Window
    <3> HIDE DEF v, hidden, live, faded
    <3> QED
      BY <1>1, <2>1, <3>1, <3>2, <3>3 DEF Window
  <2>2. CASE ~CanBuild(w)
    <3>1. v = [w EXCEPT !.live = @ \ {w.cur}, !.faded = @ \ {w.cur}]
      BY <2>2 DEF BuildNextItem
    <3> HIDE DEF v
    <3> QED
      BY <1>1, <3>1 DEF Window
  <2> QED
    BY <2>1, <2>2
<1> HIDE DEF v
<1>3. Tidy(v) /\ Shows(v) /\ Ready(v) /\ Named(v)
  BY <1>2 DEF Good, Tidy, Shows, Ready, Named, Has
<1>4. ~CanBuild(w) => w.hidden[w.cur] = 0
  BY <1>1 DEF CanBuild
<1> QED
  BY <1>2, <1>3, <1>4 DEF Good, v

LEMMA AdvanceGives ==
    ASSUME NEW w, Good(w), NEW dontPush \in BOOLEAN
    PROVE  LET v == Advance(w, dontPush)
           IN /\ Good(v) /\ v.hist[1] = w.hist[1]
              /\ Follows(w) /\ ~dontPush => Follows(v)
              /\ v.hidden = w.hidden /\ v.live = w.live /\ v.faded = w.faded
<1>1. w.cur \in Nat \cup {Blank}
  BY DEF Good, Tidy
<1>2. CASE w.cur # Blank /\ w.cur < Size - 1
  <2>1. Advance(w, dontPush) = Move(w, w.cur + 1, dontPush) /\ w.cur + 1 \in Nat
    BY <1>1, <1>2 DEF Advance
  <2> QED
    BY <2>1, MoveGives
<1>3. CASE ~(w.cur # Blank /\ w.cur < Size - 1)
  BY <1>3 DEF Advance
<1> QED
  BY <1>2, <1>3

LEMMA NextSlideKept ==
    ASSUME NEW w, Good(w), NEW dontPush \in BOOLEAN
    PROVE  LET v == NextSlide(w, dontPush)
           IN Kept(w, v) /\ (Follows(w) /\ ~dontPush => Follows(v))
<1>1. w.cur \in Int
  BY DEF Good, Tidy, Blank
<1>2. CASE Has(w, "overview")
  <2>1. NextSlide(w, dontPush) = Advance(w, dontPush)
    BY <1>2 DEF NextSlide
  <2> QED
    BY <1>2, <2>1, AdvanceGives DEF Kept, Builds
<1>3. CASE ~Has(w, "overview") /\ w.cur \notin Deck
  <2>1. NextSlide(w, dontPush) = w
    BY <1>3 DEF NextSlide
  <2> QED
    BY <1>3, <2>1 DEF Kept, Builds
<1>4. CASE ~Has(w, "overview") /\ w.cur \in Deck /\ CanBuild(w)
  <2>1. NextSlide(w, dontPush) = BuildNextItem(w)
    BY <1>4 DEF NextSlide
  <2> DEFINE v == BuildNextItem(w)
  <2>2. Good(v) /\ v.hist = w.hist /\ v.at = w.at /\ v.cur = w.cur
    BY <1>4, BuildNextItemGives
  <2> HIDE DEF v
  <2>3. Builds(w, v) /\ (Follows(w) => Follows(v))
    BY <1>1, <2>2 DEF Builds, Follows, Url
  <2> QED
    BY <2>1, <2>2, <2>3 DEF Kept, v
<1>5. CASE ~Has(w, "overview") /\ w.cur \in Deck /\ ~CanBuild(w)
  <2> DEFINE u == BuildNextItem(w)
             v == Advance(u, dontPush)
  <2>1. NextSlide(w, dontPush) = v
    BY <1>5 DEF NextSlide
  <2>2. /\ Good(u) /\ u.hist = w.hist /\ u.at = w.at /\ u.cur = w.cur
        /\ u.hidden[w.cur] = 0 /\ w.cur \notin u.live \cup u.faded
    BY <1>5, BuildNextItemGives
  <2> HIDE DEF u
  <2>3. /\ Good(v) /\ v.hist[1] = u.hist[1]
        /\ Follows(u) /\ ~dontPush => Follows(v)
        /\ v.hidden = u.hidden /\ v.live = u.live /\ v.faded = u.faded
    BY <2>2, AdvanceGives
  <2>4. Follows(w) => Follows(u)
    BY <2>2 DEF Follows, Url
  <2> HIDE DEF v
  <2>5. Builds(w, v)
    BY <2>2, <2>3 DEF Builds
  <2> QED
    BY <2>1, <2>2, <2>3, <2>4, <2>5 DEF Kept
<1> QED
  BY <1>2, <1>3, <1>4, <1>5

LEMMA CurrentField ==
    ASSUME NEW w \in Window, NEW n \in Int
    PROVE  LET u == [w EXCEPT !.cur = n]
           IN /\ u \in Window /\ u.cur = n /\ u.hist = w.hist /\ u.at = w.at
              /\ u.centre = w.centre /\ u.flags = w.flags
  BY DEF Window

\* A slide picked in the overview is shown, and a timer set.
LEMMA PickKept ==
    ASSUME NEW w, Good(w), Has(w, "overview"), NEW slide \in Deck
    PROVE  LET v == [LoadSlide(w, slide) EXCEPT !.closing = @ + 1]
           IN Kept(w, v) /\ Follows(v)
<1> DEFINE u == [w EXCEPT !.cur = slide]
           s == LoadSlide(w, slide)
           v == [s EXCEPT !.closing = @ + 1]
<1>1. w \in Window /\ slide \in Nat
  BY DeckAssumption DEF Good, Tidy, Deck
<1>2. /\ u \in Window /\ u.cur = slide /\ u.hist = w.hist /\ u.at = w.at
      /\ u.centre = w.centre /\ u.flags = w.flags
  <2>1. w \in Window /\ slide \in Int
    BY <1>1
  <2> QED
    BY <2>1, CurrentField
<1>3. s = UpdateSlides(u, FALSE)
  BY DEF LoadSlide
<1> HIDE DEF u
<1>4. /\ Good(s) /\ s.hist[1] = w.hist[1] /\ s.cur = slide /\ Follows(s)
  <2>1. /\ u \in Window /\ u.cur \in Nat /\ u.hist = w.hist /\ u.at = w.at
        /\ u.centre = w.centre /\ ("overview" \in u.flags <=> "overview" \in w.flags)
    BY <1>1, <1>2
  <2>2. PICK push \in BOOLEAN : push = FALSE
    OBVIOUS
  <2> DEFINE x == UpdateSlides(u, push)
  <2>3. /\ Good(x) /\ x.hist[1] = w.hist[1] /\ x.cur = u.cur
        /\ ~push => Follows(x)
    BY <2>1, <2>2, ShowGives
  <2>4. x = s
    BY <1>3, <2>2
  <2> HIDE DEF x
  <2> QED
    BY <1>2, <2>2, <2>3, <2>4
<1> HIDE DEF s
<1>5. /\ v \in Window /\ v.cur = s.cur /\ v.hist = s.hist /\ v.at = s.at
      /\ v.marked = s.marked /\ v.centre = s.centre /\ v.flags = s.flags
      /\ v.frames = s.frames /\ v.preload = s.preload
  <2>1. s \in Window
    BY <1>4 DEF Good, Tidy
  <2>2. s.closing + 1 \in Nat
    BY <2>1 DEF Window
  <2> QED
    BY <2>1, <2>2 DEF Window
<1> HIDE DEF v
<1>6. Tidy(v) /\ Shows(v) /\ Ready(v) /\ Named(v) /\ Follows(v)
  BY <1>4, <1>5 DEF Good, Tidy, Shows, Ready, Named, Has, Follows, Url
<1>7. Builds(w, v)
  BY DEF Builds
<1> QED
  BY <1>4, <1>5, <1>6, <1>7 DEF Kept, Good, v, s

\* The timer fires.
LEMMA CloseKept ==
    ASSUME NEW w, Good(w), w.closing > 0
    PROVE  LET v == [ToggleOverview(w) EXCEPT !.closing = @ - 1]
           IN Kept(w, v) /\ (Follows(w) => Follows(v))
<1> DEFINE s == ToggleOverview(w)
           v == [s EXCEPT !.closing = @ - 1]
<1>1. /\ Good(s) /\ s.hist[1] = w.hist[1] /\ (Follows(w) => Follows(s))
      /\ s.cur = w.cur /\ s.closing = w.closing
  BY ToggleOverviewKept DEF Kept
<1> HIDE DEF s
<1>2. s \in Window /\ w.closing \in Nat /\ w.cur \in Int
  BY <1>1 DEF Good, Tidy, Window
<1>3. s.closing - 1 \in Nat
  BY <1>1, <1>2
<1>4. /\ v \in Window /\ v.cur = s.cur /\ v.hist = s.hist /\ v.at = s.at
      /\ v.marked = s.marked /\ v.centre = s.centre /\ v.flags = s.flags
      /\ v.frames = s.frames /\ v.preload = s.preload
  BY <1>2, <1>3 DEF Window
<1> HIDE DEF v
<1>5. Tidy(v) /\ Shows(v) /\ Ready(v) /\ Named(v) /\ (Follows(s) => Follows(v))
  BY <1>1, <1>4 DEF Good, Tidy, Shows, Ready, Named, Has, Follows, Url
<1>6. Builds(w, v)
  BY <1>1, <1>2, <1>4 DEF Builds
<1> QED
  BY <1>1, <1>4, <1>5, <1>6 DEF Kept, Good, v, s

\* Back and forth in the history.
LEMMA GoKept ==
    ASSUME NEW w, Good(w), NEW n \in DOMAIN w.hist, n # w.at
    PROVE  LET v == OnPopState([w EXCEPT !.at = n])
           IN Kept(w, v) /\ Follows(v)
<1> DEFINE g == [w EXCEPT !.at = n]
           v == OnPopState(g)
<1>1. w \in Window /\ w.hist \in Seq(Entry) /\ n \in 1 .. Len(w.hist) /\ n \in Nat
  BY LenProperties DEF Good, Tidy, Window
<1>2. /\ g \in Window /\ g.cur = w.cur /\ g.hist = w.hist /\ g.at = n
      /\ g.marked = w.marked /\ g.centre = w.centre /\ g.flags = w.flags
      /\ g.frames = w.frames /\ g.preload = w.preload
  BY <1>1 DEF Window
<1> HIDE DEF g
<1>3. Good(g)
  BY <1>1, <1>2 DEF Good, Tidy, Shows, Ready, Named, Has
<1>4. CASE Url(g).state = Null
  <2>1. v = g
    BY <1>4 DEF OnPopState
  <2>2. Builds(w, v) /\ Follows(v)
    BY <1>2, <1>4, <2>1 DEF Builds, Follows
  <2> QED
    BY <1>2, <1>3, <2>1, <2>2 DEF Kept, g
<1>5. CASE Url(g).state # Null
  <2> DEFINE u == [g EXCEPT !.cur = Url(g).state]
  <2>1. Url(g).state \in Nat \cup {Blank}
    BY <1>1, <1>2, <1>5 DEF Url, Good, Tidy
  <2>2. Url(g).state \in Int
    BY <2>1 DEF Blank
  <2>3. /\ u \in Window /\ u.cur = Url(g).state /\ u.hist = g.hist /\ u.at = g.at
        /\ u.centre = g.centre /\ u.flags = g.flags
    BY <1>2, <2>2 DEF Window
  <2>4. v = UpdateSlides(u, TRUE)
    BY <1>5 DEF OnPopState
  <2> HIDE DEF u, v
  <2>5. /\ Good(v) /\ v.hist[1] = g.hist[1] /\ v.cur = u.cur
        /\ v.hist = g.hist /\ v.at = g.at
    BY <1>3, <2>1, <2>3, <2>4, ShowGives
  <2>6. Builds(w, v) /\ Follows(v)
    BY <1>2, <2>3, <2>5 DEF Builds, Follows, Url
  <2> QED
    BY <1>2, <2>5, <2>6 DEF Kept, v, g
<1> QED
  BY <1>4, <1>5

\* Any key, pressed here or dispatched.
LEMMA OnKeyKept ==
    ASSUME NEW w, Good(w), NEW key \in Keys, NEW pressed \in BOOLEAN
    PROVE  LET v == OnKey(w, key, pressed)
           IN Kept(w, v) /\ (Follows(w) => Follows(v))
<1> DEFINE v == OnKey(w, key, pressed)
           Fine(x) == Kept(w, x) /\ (Follows(w) => Follows(x))
<1>1. w \in Window /\ w.cur \in Int /\ w.flags \in SUBSET Flags
  BY DEF Good, Tidy, Window
<1>2. Fine(w)
  BY <1>1 DEF Kept, Builds
<1>3. Fine(ToggleOverview(w))
  BY ToggleOverviewKept
<1>4. ASSUME NEW flag \in {"highlight-code", "with-notes", "layout-widescreen", "fullscreen"}
      PROVE  Fine([w EXCEPT !.flags = Toggled(@, flag)])
  <2> DEFINE flags == Toggled(w.flags, flag)
  <2>1. flags \in SUBSET Flags /\ ("overview" \in flags <=> Has(w, "overview"))
    BY <1>1 DEF Toggled, Flags, Has
  <2>2. [w EXCEPT !.flags = Toggled(@, flag)] = [w EXCEPT !.flags = flags]
    OBVIOUS
  <2> HIDE DEF flags
  <2> QED
    BY <2>1, <2>2, FlagsKept
<1>5. CASE key = "next"
  <2>1. v = NextSlide(w, FALSE)
    BY <1>5 DEF OnKey
  <2> QED
    BY <2>1, NextSlideKept
<1>6. CASE key = "prev"
  <2>1. v = PrevSlide(w, FALSE)
    BY <1>6 DEF OnKey
  <2> QED
    BY <2>1, PrevSlideKept
<1>7. CASE key = "Enter"
  <2>1. v = w \/ v = ToggleOverview(w)
    BY <1>7 DEF OnKey, CloseOverview
  <2> QED
    BY <1>2, <1>3, <2>1
<1>8. CASE key = "Esc"
  <2> DEFINE flags == w.flags \ {"with-notes", "highlight-code"}
             u == [w EXCEPT !.flags = flags]
  <2>1. flags \in SUBSET Flags /\ ("overview" \in flags <=> Has(w, "overview"))
    BY <1>1 DEF Has
  <2>2. v = CloseOverview(u)
    BY <1>8 DEF OnKey
  <2> HIDE DEF flags
  <2>3. /\ Kept(w, u) /\ (Follows(w) => Follows(u)) /\ u.cur = w.cur
        /\ u.hist = w.hist /\ u.at = w.at
    BY <2>1, FlagsKept
  <2> HIDE DEF u
  <2>4. CASE v = u
    BY <2>3, <2>4
  <2>5. CASE v = ToggleOverview(u)
    <3> DEFINE t == ToggleOverview(u)
    <3>1. /\ Kept(u, t) /\ (Follows(u) => Follows(t)) /\ t.cur = u.cur
          /\ t.hist = u.hist /\ t.at = u.at
      BY <2>3, ToggleOverviewKept DEF Kept
    <3> HIDE DEF t
    <3>2. Builds(w, t)
      BY <1>1, <2>3, <3>1 DEF Builds
    <3> QED
      BY <2>3, <2>5, <3>1, <3>2 DEF Kept, t
  <2> QED
    BY <2>2, <2>4, <2>5 DEF CloseOverview
<1>9. CASE key = "O"
  <2>1. v = ToggleOverview(w)
    BY <1>9 DEF OnKey
  <2> QED
    BY <1>3, <2>1
<1>10. CASE key \in {"H", "P", "W", "F"}
  <2>1. \/ v = w
        \/ \E flag \in {"highlight-code", "with-notes", "layout-widescreen", "fullscreen"} :
             v = [w EXCEPT !.flags = Toggled(@, flag)]
    BY <1>10 DEF OnKey
  <2> HIDE DEF v, Fine
  <2> QED
    BY <1>2, <1>4, <2>1 DEF v, Fine
<1> QED
  BY <1>5, <1>6, <1>7, <1>8, <1>9, <1>10 DEF Keys

(***************************************************************************)
(* Two decks of which the audience sees the same.                          *)
(***************************************************************************)

Alike(v, w) ==
    /\ v.cur = w.cur /\ v.hidden = w.hidden /\ v.live = w.live /\ v.faded = w.faded
    /\ "overview" \in v.flags <=> "overview" \in w.flags
    /\ "highlight-code" \in v.flags <=> "highlight-code" \in w.flags

LEMMA AlikeOnScreen ==
    ASSUME NEW v, NEW w
    PROVE  Alike(v, w) <=> Screen(v) = Screen(w)
<1>1. (v.flags \cap {"overview", "highlight-code"} = w.flags \cap {"overview", "highlight-code"})
        <=> /\ "overview" \in v.flags <=> "overview" \in w.flags
            /\ "highlight-code" \in v.flags <=> "highlight-code" \in w.flags
  OBVIOUS
<1>2. Screen(v) = Screen(w) <=>
        /\ v.cur = w.cur /\ v.hidden = w.hidden /\ v.live = w.live /\ v.faded = w.faded
        /\ v.flags \cap {"overview", "highlight-code"}
             = w.flags \cap {"overview", "highlight-code"}
  BY DEF Screen
<1> QED
  BY <1>1, <1>2 DEF Alike

\* The next item, as far as the audience sees it.
LEMMA BuildNextItemIs ==
    ASSUME NEW w, Good(w), w.cur \in Deck
    PROVE  LET v == BuildNextItem(w)
           IN /\ v.cur = w.cur /\ v.flags = w.flags /\ v.closing = w.closing
              /\ CanBuild(w) =>
                   /\ v.hidden = [w.hidden EXCEPT ![w.cur] = @ - 1]
                   /\ v.live = w.live \cup {w.cur}
                   /\ v.faded = IF w.cur \in w.live /\ w.cur \in Fades
                                THEN w.faded \cup {w.cur} ELSE w.faded
              /\ ~CanBuild(w) =>
                   /\ v.hidden = w.hidden
                   /\ v.live = w.live \ {w.cur} /\ v.faded = w.faded \ {w.cur}
<1> DEFINE v == BuildNextItem(w)
<1>1. w \in Window
  BY DEF Good, Tidy
<1>2. CASE CanBuild(w)
  <2> DEFINE hidden == [w.hidden EXCEPT ![w.cur] = @ - 1]
             live == w.live \cup {w.cur}
             faded == IF w.cur \in w.live /\ w.cur \in Fades
                      THEN w.faded \cup {w.cur} ELSE w.faded
  <2>1. v = [w EXCEPT !.hidden = hidden, !.live = live, !.faded = faded]
    BY <1>1, <1>2 DEF BuildNextItem, Window
  <2> HIDE DEF v, hidden, live, faded
  <2>2. /\ v.cur = w.cur /\ v.flags = w.flags /\ v.closing = w.closing
        /\ v.hidden = hidden /\ v.live = live /\ v.faded = faded
    BY <1>1, <2>1 DEF Window
  <2> QED
    BY <1>2, <2>2 DEF v, hidden, live, faded
<1>3. CASE ~CanBuild(w)
  <2>1. v = [w EXCEPT !.live = @ \ {w.cur}, !.faded = @ \ {w.cur}]
    BY <1>3 DEF BuildNextItem
  <2> HIDE DEF v
  <2> QED
    BY <1>1, <1>3, <2>1 DEF Window, v
<1> QED
  BY <1>2, <1>3

\* Alike decks stay alike, whoever's notes are taken off; and timers are left alone.
Stays(v, w, x, y) == Alike(x, y) /\ x.closing = v.closing /\ y.closing = w.closing

LEMMA MoveAlike ==
    ASSUME NEW v, NEW w, Good(v), Good(w), Alike(v, w), NEW slide \in Nat
    PROVE  Stays(v, w, Move(v, slide, FALSE), Move(w, slide, FALSE))
<1>1. PICK push \in BOOLEAN : push = FALSE
  OBVIOUS
<1>2. ASSUME NEW u, Good(u)
      PROVE  LET x == Move(u, slide, push)
             IN /\ x.cur = slide /\ x.hidden = u.hidden /\ x.live = u.live
                /\ x.faded = u.faded /\ x.closing = u.closing
                /\ "highlight-code" \notin x.flags
                /\ "overview" \in x.flags <=> "overview" \in u.flags
  BY <1>2, MoveGives
<1> QED
  BY <1>1, <1>2 DEF Stays, Alike

LEMMA PrevSlideAlike ==
    ASSUME NEW v, NEW w, Good(v), Good(w), Alike(v, w)
    PROVE  Stays(v, w, PrevSlide(v, FALSE), PrevSlide(w, FALSE))
<1>1. v.cur = w.cur /\ v.cur \in Nat \cup {Blank}
  BY DEF Alike, Good, Tidy
<1>2. CASE v.cur > 0
  <2>1. PICK slide \in Nat : slide = v.cur - 1
    BY <1>1, <1>2 DEF Blank
  <2>2. PrevSlide(v, FALSE) = Move(v, slide, FALSE) /\ PrevSlide(w, FALSE) = Move(w, slide, FALSE)
    BY <1>1, <1>2, <2>1 DEF PrevSlide
  <2> QED
    BY <2>2, MoveAlike
<1>3. CASE ~(v.cur > 0)
  BY <1>1, <1>3 DEF PrevSlide, Stays
<1> QED
  BY <1>2, <1>3

LEMMA AdvanceAlike ==
    ASSUME NEW v, NEW w, Good(v), Good(w), Alike(v, w)
    PROVE  Stays(v, w, Advance(v, FALSE), Advance(w, FALSE))
<1>1. v.cur = w.cur /\ v.cur \in Nat \cup {Blank}
  BY DEF Alike, Good, Tidy
<1>2. CASE v.cur # Blank /\ v.cur < Size - 1
  <2>1. PICK slide \in Nat : slide = v.cur + 1
    BY <1>1, <1>2
  <2>2. Advance(v, FALSE) = Move(v, slide, FALSE) /\ Advance(w, FALSE) = Move(w, slide, FALSE)
    BY <1>1, <1>2, <2>1 DEF Advance
  <2> QED
    BY <2>2, MoveAlike
<1>3. CASE ~(v.cur # Blank /\ v.cur < Size - 1)
  BY <1>1, <1>3 DEF Advance, Stays
<1> QED
  BY <1>2, <1>3

LEMMA BuildAlike ==
    ASSUME NEW v, NEW w, Good(v), Good(w), Alike(v, w), v.cur \in Deck
    PROVE  /\ CanBuild(v) <=> CanBuild(w)
           /\ Stays(v, w, BuildNextItem(v), BuildNextItem(w))
<1>1. v.cur = w.cur /\ v.hidden = w.hidden /\ v.live = w.live /\ v.faded = w.faded
  BY DEF Alike
<1>2. CanBuild(v) <=> CanBuild(w)
  BY <1>1 DEF CanBuild
<1>3. PICK x : x = BuildNextItem(v)
  OBVIOUS
<1>4. PICK y : y = BuildNextItem(w)
  OBVIOUS
<1>5. /\ x.cur = v.cur /\ x.flags = v.flags /\ x.closing = v.closing
      /\ y.cur = w.cur /\ y.flags = w.flags /\ y.closing = w.closing
  BY <1>1, <1>3, <1>4, BuildNextItemIs
<1>6. x.hidden = y.hidden /\ x.live = y.live /\ x.faded = y.faded
  <2>1. CASE CanBuild(v)
    <3>1. /\ x.hidden = [v.hidden EXCEPT ![v.cur] = @ - 1]
          /\ x.live = v.live \cup {v.cur}
          /\ x.faded = IF v.cur \in v.live /\ v.cur \in Fades
                       THEN v.faded \cup {v.cur} ELSE v.faded
      BY <1>3, <2>1, BuildNextItemIs
    <3>2. /\ y.hidden = [w.hidden EXCEPT ![w.cur] = @ - 1]
          /\ y.live = w.live \cup {w.cur}
          /\ y.faded = IF w.cur \in w.live /\ w.cur \in Fades
                       THEN w.faded \cup {w.cur} ELSE w.faded
      BY <1>1, <1>2, <1>4, <2>1, BuildNextItemIs
    <3> QED
      BY <1>1, <3>1, <3>2
  <2>2. CASE ~CanBuild(v)
    <3>1. /\ x.hidden = v.hidden
          /\ x.live = v.live \ {v.cur} /\ x.faded = v.faded \ {v.cur}
      BY <1>3, <2>2, BuildNextItemIs
    <3>2. /\ y.hidden = w.hidden
          /\ y.live = w.live \ {w.cur} /\ y.faded = w.faded \ {w.cur}
      BY <1>1, <1>2, <1>4, <2>2, BuildNextItemIs
    <3> QED
      BY <1>1, <3>1, <3>2
  <2> QED
    BY <2>1, <2>2
<1> QED
  BY <1>2, <1>3, <1>4, <1>5, <1>6 DEF Stays, Alike

LEMMA NextSlideAlike ==
    ASSUME NEW v, NEW w, Good(v), Good(w), Alike(v, w)
    PROVE  Stays(v, w, NextSlide(v, FALSE), NextSlide(w, FALSE))
<1>1. v.cur = w.cur /\ (Has(v, "overview") <=> Has(w, "overview"))
  BY DEF Alike, Has
<1>2. CASE Has(v, "overview")
  <2>1. NextSlide(v, FALSE) = Advance(v, FALSE) /\ NextSlide(w, FALSE) = Advance(w, FALSE)
    BY <1>1, <1>2 DEF NextSlide
  <2> QED
    BY <2>1, AdvanceAlike
<1>3. CASE ~Has(v, "overview") /\ v.cur \notin Deck
  <2>1. NextSlide(v, FALSE) = v /\ NextSlide(w, FALSE) = w
    BY <1>1, <1>3 DEF NextSlide
  <2> QED
    BY <2>1 DEF Stays
<1>4. CASE ~Has(v, "overview") /\ v.cur \in Deck
  <2>1. PICK x : x = BuildNextItem(v)
    OBVIOUS
  <2>2. PICK y : y = BuildNextItem(w)
    OBVIOUS
  <2>3. Good(x) /\ Good(y) /\ Stays(v, w, x, y) /\ (CanBuild(v) <=> CanBuild(w))
    BY <1>1, <1>4, <2>1, <2>2, BuildNextItemGives, BuildAlike
  <2>4. CASE CanBuild(v)
    BY <1>1, <1>4, <2>1, <2>2, <2>3, <2>4 DEF NextSlide
  <2>5. CASE ~CanBuild(v)
    <3>1. Stays(x, y, Advance(x, FALSE), Advance(y, FALSE))
      BY <2>3, AdvanceAlike DEF Stays
    <3>2. NextSlide(v, FALSE) = Advance(x, FALSE) /\ NextSlide(w, FALSE) = Advance(y, FALSE)
      BY <1>1, <1>4, <2>1, <2>2, <2>3, <2>5 DEF NextSlide
    <3> QED
      BY <2>3, <3>1, <3>2 DEF Stays
  <2> QED
    BY <2>4, <2>5
<1> QED
  BY <1>2, <1>3, <1>4

LEMMA ToggleOverviewAlike ==
    ASSUME NEW v, NEW w, Good(v), Good(w), Alike(v, w)
    PROVE  Stays(v, w, ToggleOverview(v), ToggleOverview(w))
<1>1. ASSUME NEW u, Good(u)
      PROVE  LET x == ToggleOverview(u)
             IN /\ x.cur = u.cur /\ x.hidden = u.hidden /\ x.live = u.live
                /\ x.faded = u.faded /\ x.closing = u.closing
                /\ x.flags = Toggled(u.flags, "overview")
  BY <1>1, ToggleOverviewKept
<1>2. \A S : /\ "overview" \in Toggled(S, "overview") <=> "overview" \notin S
             /\ "highlight-code" \in Toggled(S, "overview") <=> "highlight-code" \in S
  BY DEF Toggled
<1> QED
  BY <1>1, <1>2 DEF Stays, Alike

LEMMA FlagsAlike ==
    ASSUME NEW v, NEW w, Good(v), Good(w), Alike(v, w),
           NEW F \in SUBSET Flags, NEW G \in SUBSET Flags,
           "overview" \in F <=> "overview" \in v.flags,
           "overview" \in G <=> "overview" \in w.flags,
           "highlight-code" \in F <=> "highlight-code" \in G
    PROVE  Stays(v, w, [v EXCEPT !.flags = F], [w EXCEPT !.flags = G])
<1>1. ASSUME NEW u, Good(u), NEW H \in SUBSET Flags, "overview" \in H <=> "overview" \in u.flags
      PROVE  LET x == [u EXCEPT !.flags = H]
             IN /\ x.cur = u.cur /\ x.hidden = u.hidden /\ x.live = u.live
                /\ x.faded = u.faded /\ x.closing = u.closing /\ x.flags = H
  BY <1>1, FlagsKept DEF Has
<1>2. PICK x : x = [v EXCEPT !.flags = F]
  OBVIOUS
<1>3. PICK y : y = [w EXCEPT !.flags = G]
  OBVIOUS
<1>4. /\ x.cur = v.cur /\ x.hidden = v.hidden /\ x.live = v.live
      /\ x.faded = v.faded /\ x.closing = v.closing /\ x.flags = F
  BY <1>1, <1>2
<1>5. /\ y.cur = w.cur /\ y.hidden = w.hidden /\ y.live = w.live
      /\ y.faded = w.faded /\ y.closing = w.closing /\ y.flags = G
  BY <1>1, <1>3
<1> QED
  BY <1>2, <1>3, <1>4, <1>5 DEF Stays, Alike

LEMMA CloseOverviewAlike ==
    ASSUME NEW v, NEW w, Good(v), Good(w), Alike(v, w)
    PROVE  Stays(v, w, CloseOverview(v), CloseOverview(w))
<1>1. Has(v, "overview") <=> Has(w, "overview")
  BY DEF Alike, Has
<1>2. CASE Has(v, "overview")
  BY <1>1, <1>2, ToggleOverviewAlike DEF CloseOverview
<1>3. CASE ~Has(v, "overview")
  BY <1>1, <1>3 DEF CloseOverview, Stays
<1> QED
  BY <1>2, <1>3

\* A key does the same for the audience in both, pressed in one and
\* dispatched in the other.
LEMMA OnKeyAlike ==
    ASSUME NEW v, NEW w, Good(v), Good(w), Alike(v, w), NEW key \in Keys,
           NEW p \in BOOLEAN, NEW q \in BOOLEAN
    PROVE  Stays(v, w, OnKey(v, key, p), OnKey(w, key, q))
<1>1. v.flags \in SUBSET Flags /\ w.flags \in SUBSET Flags /\ v \in Window /\ w \in Window
  BY DEF Good, Tidy, Window
<1>2. CASE key = "next"
  BY <1>2, NextSlideAlike DEF OnKey
<1>3. CASE key = "prev"
  BY <1>3, PrevSlideAlike DEF OnKey
<1>4. CASE key = "Enter"
  BY <1>4, CloseOverviewAlike DEF OnKey
<1>5. CASE key = "Esc"
  <2> DEFINE F == v.flags \ {"with-notes", "highlight-code"}
             G == w.flags \ {"with-notes", "highlight-code"}
  <2>1. /\ F \in SUBSET Flags /\ G \in SUBSET Flags
        /\ "overview" \in F <=> "overview" \in v.flags
        /\ "overview" \in G <=> "overview" \in w.flags
        /\ "highlight-code" \in F <=> "highlight-code" \in G
    BY <1>1
  <2>2. PICK x : x = [v EXCEPT !.flags = F]
    OBVIOUS
  <2>3. PICK y : y = [w EXCEPT !.flags = G]
    OBVIOUS
  <2>4. OnKey(v, key, p) = CloseOverview(x) /\ OnKey(w, key, q) = CloseOverview(y)
    BY <1>5, <2>2, <2>3 DEF OnKey
  <2> HIDE DEF F, G
  <2>5. Good(x) /\ Good(y)
    BY <2>1, <2>2, <2>3, FlagsKept DEF Kept, Has
  <2>6. Stays(v, w, x, y)
    BY <2>1, <2>2, <2>3, FlagsAlike
  <2>7. Stays(x, y, CloseOverview(x), CloseOverview(y))
    BY <2>5, <2>6, CloseOverviewAlike DEF Stays
  <2> QED
    BY <2>4, <2>6, <2>7 DEF Stays
<1>6. CASE key = "H"
  <2> DEFINE F == Toggled(v.flags, "highlight-code")
             G == Toggled(w.flags, "highlight-code")
  <2>1. /\ F \in SUBSET Flags /\ G \in SUBSET Flags
        /\ "overview" \in F <=> "overview" \in v.flags
        /\ "overview" \in G <=> "overview" \in w.flags
        /\ "highlight-code" \in F <=> "highlight-code" \in G
    BY <1>1 DEF Toggled, Alike, Flags
  <2>2. OnKey(v, key, p) = [v EXCEPT !.flags = F] /\ OnKey(w, key, q) = [w EXCEPT !.flags = G]
    BY <1>6 DEF OnKey
  <2> HIDE DEF F, G
  <2> QED
    BY <2>1, <2>2, FlagsAlike
<1>7. CASE key = "O"
  BY <1>7, ToggleOverviewAlike DEF OnKey
<1>8. CASE key \in {"P", "W", "F"}
  <2>1. ASSUME NEW u, Good(u), NEW r \in BOOLEAN
        PROVE  \E H \in SUBSET Flags :
                 /\ OnKey(u, key, r) = [u EXCEPT !.flags = H]
                 /\ "overview" \in H <=> "overview" \in u.flags
                 /\ "highlight-code" \in H <=> "highlight-code" \in u.flags
    <3>1. u \in Window /\ u.flags \in SUBSET Flags
      BY <2>1 DEF Good, Tidy, Window
    <3>2. u = [u EXCEPT !.flags = u.flags]
      BY <3>1 DEF Window
    <3>3. \/ OnKey(u, key, r) = u
          \/ \E flag \in {"with-notes", "layout-widescreen", "fullscreen"} :
               OnKey(u, key, r) = [u EXCEPT !.flags = Toggled(@, flag)]
      BY <1>8 DEF OnKey
    <3>4. ASSUME NEW flag \in {"with-notes", "layout-widescreen", "fullscreen"}
          PROVE  /\ Toggled(u.flags, flag) \in SUBSET Flags
                 /\ "overview" \in Toggled(u.flags, flag) <=> "overview" \in u.flags
                 /\ "highlight-code" \in Toggled(u.flags, flag) <=> "highlight-code" \in u.flags
      BY <3>1 DEF Toggled, Flags
    <3> QED
      BY <3>1, <3>2, <3>3, <3>4
  <2>2. PICK F \in SUBSET Flags :
          /\ OnKey(v, key, p) = [v EXCEPT !.flags = F]
          /\ "overview" \in F <=> "overview" \in v.flags
          /\ "highlight-code" \in F <=> "highlight-code" \in v.flags
    BY <2>1
  <2>3. PICK G \in SUBSET Flags :
          /\ OnKey(w, key, q) = [w EXCEPT !.flags = G]
          /\ "overview" \in G <=> "overview" \in w.flags
          /\ "highlight-code" \in G <=> "highlight-code" \in w.flags
    BY <2>1
  <2>4. "highlight-code" \in F <=> "highlight-code" \in G
    BY <2>2, <2>3 DEF Alike
  <2> QED
    BY <2>2, <2>3, <2>4, FlagsAlike
<1> QED
  BY <1>2, <1>3, <1>4, <1>5, <1>6, <1>7, <1>8 DEF Keys

(***************************************************************************)
(* Loading.                                                                *)
(***************************************************************************)

\* A history that a page may be loaded in.
Past(hist) ==
    /\ \A i \in 1 .. Len(hist) : hist[i].state \in Nat \cup {Null, Blank}
    /\ hist[1].query = "absent" =>
         \A i \in 1 .. Len(hist) :
           /\ hist[i].query = "absent"
           /\ \/ hist[i].state = Null
              \/ hist[i].state \in Nat /\ hist[i].hash = hist[i].state + 1

LEMMA NewDeckGives ==
    ASSUME NEW hist \in Seq(Entry), NEW at \in 1 .. Len(hist), Past(hist)
    PROVE  LET v == NewDeck(hist, at)
           IN /\ Good(v) /\ Follows(v) /\ v.at > 1 /\ v.hist[1] = hist[1]
              /\ \A s \in Deck : s < v.cur => v.hidden[s] = 0
              /\ v.live = {} /\ v.faded = {} /\ v.closing = 0
<1> DEFINE start == CurrentSlideFromHash(hist[at].hash)
           u == [cur |-> start, prev |-> 0, ctl |-> "none",
                 hidden |-> MakeBuildLists(start), live |-> {}, faded |-> {},
                 flags |-> {"layout-widescreen"}, marked |-> Blank, centre |-> NoCentre,
                 frames |-> {}, preload |-> {}, closing |-> 0, left |-> Null,
                 hist |-> hist, at |-> at]
           v == NewDeck(hist, at)
<1>1. hist[at] \in Entry
  BY ElementOfSeq
<1>2. start \in Nat
  BY <1>1 DEF CurrentSlideFromHash, Entry
<1>3. /\ MakeBuildLists(start) \in [Deck -> Nat]
      /\ \A s \in Deck : s < start => MakeBuildLists(start)[s] = 0
  BY <1>2, DeckAssumption DEF MakeBuildLists, Deck
<1> HIDE DEF start
<1>4. u \in Window
  BY <1>2, <1>3 DEF Window, Controllers, Flags, Blank, NoCentre, Null
<1>5. /\ u.cur = start /\ u.hist = hist /\ u.at = at /\ u.live = {} /\ u.faded = {}
      /\ u.hidden = MakeBuildLists(start) /\ u.centre = NoCentre /\ u.closing = 0
  OBVIOUS
<1>6. v = UpdateSlides(u, FALSE)
  BY DEF NewDeck, start
<1> HIDE DEF u, v
<1>7. Tidy(u)
  BY <1>2, <1>4, <1>5 DEF Tidy, Past
<1>8. Named(u)
  BY <1>5 DEF Named, Past
<1>9. PICK push \in BOOLEAN : push = FALSE
  OBVIOUS
<1> DEFINE x == UpdateSlides(u, push)
<1>10. /\ Tidy(x) /\ Shows(x) /\ Ready(x)
       /\ x.cur = u.cur /\ x.hidden = u.hidden /\ x.live = u.live
       /\ x.faded = u.faded /\ (Named(u) => Named(x)) /\ x.hist[1] = u.hist[1]
       /\ x.closing = u.closing
       /\ ~push => Follows(x) /\ x.at > 1
  <2>1. u.cur \in Nat
    BY <1>2, <1>5
  <2> QED
    BY <1>7, <2>1, UpdateSlidesGives
<1>11. x = v
  BY <1>6, <1>9
<1> HIDE DEF x
<1>12. Good(v)
  BY <1>8, <1>10, <1>11 DEF Good
<1>13. Follows(v) /\ v.at > 1 /\ v.hist[1] = hist[1]
  BY <1>5, <1>9, <1>10, <1>11
<1>14. /\ \A s \in Deck : s < v.cur => v.hidden[s] = 0
       /\ v.live = {} /\ v.faded = {} /\ v.closing = 0
  BY <1>3, <1>5, <1>10, <1>11
<1> QED
  BY <1>12, <1>13, <1>14 DEF v

LEMMA ControllerKept ==
    ASSUME NEW w, Good(w), NEW ctl \in Controllers
    PROVE  LET v == [w EXCEPT !.ctl = ctl]
           IN /\ Good(v) /\ (Follows(w) => Follows(v)) /\ v.ctl = ctl
              /\ v.cur = w.cur /\ v.hist = w.hist /\ v.at = w.at
              /\ v.hidden = w.hidden /\ v.live = w.live /\ v.faded = w.faded
              /\ v.closing = w.closing
<1> DEFINE v == [w EXCEPT !.ctl = ctl]
<1>1. w \in Window
  BY DEF Good, Tidy
<1>2. /\ v \in Window /\ v.cur = w.cur /\ v.hist = w.hist /\ v.at = w.at
      /\ v.marked = w.marked /\ v.centre = w.centre /\ v.flags = w.flags
      /\ v.frames = w.frames /\ v.preload = w.preload /\ v.ctl = ctl
      /\ v.closing = w.closing
      /\ v.hidden = w.hidden /\ v.live = w.live /\ v.faded = w.faded
  BY <1>1 DEF Window
<1> HIDE DEF v
<1>3. Tidy(v) /\ Shows(v) /\ Ready(v) /\ Named(v) /\ (Follows(w) => Follows(v))
  BY <1>2 DEF Good, Tidy, Shows, Ready, Named, Has, Follows, Url
<1> QED
  BY <1>2, <1>3 DEF Good, v

\* The query goes only in a window that was opened with one.
LEMMA WithoutQueryKept ==
    ASSUME NEW w, Good(w), Follows(w), w.at > 1
    PROVE  LET v == WithoutQuery(w)
           IN /\ Good(v) /\ Follows(v) /\ v.cur = w.cur /\ v.hidden = w.hidden
              /\ v.live = w.live /\ v.faded = w.faded
<1> DEFINE v == WithoutQuery(w)
<1>1. /\ w \in Window /\ w.hist \in Seq(Entry) /\ w.at \in 1 .. Len(w.hist)
      /\ 1 \in 1 .. Len(w.hist)
  BY DEF Good, Tidy, Window
<1>2. CASE Url(w).query = "absent"
  BY <1>2 DEF WithoutQuery
<1>3. CASE Url(w).query # "absent"
  <2> DEFINE entry == [state |-> Blank, hash |-> 0, query |-> "absent"]
             h == [w.hist EXCEPT ![w.at] = entry]
  <2>1. entry \in Entry /\ entry.state = Blank
    BY DEF Entry, Blank, Queries
  <2>2. v = [w EXCEPT !.hist = h]
    BY <1>3 DEF WithoutQuery
  <2> HIDE DEF v, entry
  <2>3. h \in Seq(Entry) /\ Len(h) = Len(w.hist)
    BY <1>1, <2>1, ExceptSeq
  <2>4. /\ h[w.at] = entry
        /\ \A i \in 1 .. Len(w.hist) : i # w.at => h[i] = w.hist[i]
    BY <1>1
  <2> HIDE DEF h
  <2>5. /\ v \in Window /\ v.cur = w.cur /\ v.hist = h /\ v.at = w.at
        /\ v.marked = w.marked /\ v.centre = w.centre /\ v.flags = w.flags
        /\ v.frames = w.frames /\ v.preload = w.preload
        /\ v.hidden = w.hidden /\ v.live = w.live /\ v.faded = w.faded
    BY <1>1, <2>2, <2>3 DEF Window
  <2>6. v.hist[1].query # "absent"
    <3>1. w.hist[1].query # "absent"
      BY <1>1, <1>3 DEF Good, Named, Url
    <3> QED
      BY <1>1, <2>4, <2>5, <3>1
  <2>7. \A i \in 1 .. Len(h) : h[i].state \in Nat \cup {Null, Blank}
    BY <1>1, <2>1, <2>3, <2>4 DEF Good, Tidy
  <2>8. Tidy(v) /\ Shows(v) /\ Ready(v)
    BY <1>1, <2>3, <2>5, <2>7 DEF Good, Tidy, Shows, Ready, Has
  <2>9. Named(v) /\ Follows(v)
    BY <2>6 DEF Named, Follows
  <2> QED
    BY <2>5, <2>8, <2>9 DEF Good, v
<1> QED
  BY <1>2, <1>3

LEMMA MainDeckKept ==
    ASSUME NEW w, Good(w), Follows(w), w.at > 1, NEW stored, NEW blocked
    PROVE  LET v == MainDeck(w, stored, blocked)
           IN /\ Good(v) /\ Follows(v) /\ v.cur = w.cur /\ v.hidden = w.hidden
              /\ v.live = w.live /\ v.faded = w.faded
<1> DEFINE u == WithoutQuery(w)
           ctl == IF ~ModeAfter(w, stored) THEN "alone"
                  ELSE IF blocked THEN "none" ELSE "presenting"
<1>1. /\ Good(u) /\ Follows(u) /\ u.cur = w.cur /\ u.hidden = w.hidden
      /\ u.live = w.live /\ u.faded = w.faded
  BY WithoutQueryKept
<1>2. MainDeck(w, stored, blocked) = [u EXCEPT !.ctl = ctl]
  BY DEF MainDeck
<1>3. ctl \in Controllers
  BY DEF Controllers
<1> HIDE DEF u, ctl
<1> QED
  BY <1>1, <1>2, <1>3, ControllerKept

\* A popup is opened at the main window's URL.
LEMMA PopupDeckGives ==
    ASSUME NEW hist \in Seq(Entry), NEW at \in 1 .. Len(hist), Past(hist)
    PROVE  LET v == PopupDeck(hist, at)
           IN /\ Good(v) /\ Follows(v) /\ v.hist[1] = hist[1]
              /\ \A s \in Deck : s < v.cur => v.hidden[s] = 0
              /\ v.live = {} /\ v.faded = {} /\ v.closing = 0
<1> DEFINE u == NewDeck(hist, at)
<1>1. /\ Good(u) /\ Follows(u) /\ u.hist[1] = hist[1]
      /\ \A s \in Deck : s < u.cur => u.hidden[s] = 0
      /\ u.live = {} /\ u.faded = {} /\ u.closing = 0
  BY NewDeckGives
<1>2. PopupDeck(hist, at) = [u EXCEPT !.ctl = "popup"]
  BY DEF PopupDeck
<1>3. "popup" \in Controllers
  BY DEF Controllers
<1> HIDE DEF u
<1> QED
  BY <1>1, <1>2, <1>3, ControllerKept

\* Loading a deck again, as far as BuildsFirst goes.
LEMMA LoadBuilds ==
    ASSUME NEW w, NEW v, w.cur \in Int,
           \A s \in Deck : s < v.cur => v.hidden[s] = 0, v.live = {}, v.faded = {}
    PROVE  Builds(w, v)
  BY DEF Builds

(***************************************************************************)
(* The windows.                                                            *)
(***************************************************************************)

Decks ==
    /\ Open \in {{"main"}, {"main", "popup"}}
    /\ \A x \in Open : Good(win[x]) /\ (~settings.areas => Follows(win[x]))

Rest ==
    /\ opening \in Nat \cup {NoPopup}
    /\ mail \in Seq(Keys)
    /\ mode \in BOOLEAN
    /\ settings \in Settings
    /\ inputs \in 0 .. MaxInputs
    /\ mirrored \in BOOLEAN

Inv == Decks /\ Rest

\* BuildsFirst, of one step.
BuildsAll == \A x \in Open \cap Open' : Builds(win[x], win'[x])

LEMMA BuildsItself ==
    ASSUME NEW w, Good(w)
    PROVE  Builds(w, w)
<1>1. w.cur \in Int
  BY DEF Good, Tidy, Blank
<1> QED
  BY <1>1 DEF Builds

\* One window changes as its handlers do.
LEMMA OneWindow ==
    ASSUME Decks, NEW x \in Open, NEW v, win' = [win EXCEPT ![x] = v],
           settings' = settings,
           Kept(win[x], v), ~settings.areas => Follows(v)
    PROVE  Decks' /\ BuildsAll
<1>1. Open' = Open /\ \A y \in Open : win'[y] = IF y = x THEN v ELSE win[y]
  BY DEF Open, Decks
<1>2. Good(v) /\ Builds(win[x], v)
  BY DEF Kept
<1>3. \A y \in Open : Good(win'[y]) /\ (~settings.areas => Follows(win'[y]))
  BY <1>1, <1>2 DEF Decks
<1>4. BuildsAll
  <2> SUFFICES ASSUME NEW y \in Open
               PROVE  Builds(win[y], win'[y])
    BY <1>1 DEF BuildsAll
  <2>1. CASE y = x
    BY <1>1, <1>2, <2>1
  <2>2. CASE y # x
    BY <1>1, <2>2, BuildsItself DEF Decks
  <2> QED
    BY <2>1, <2>2
<1> QED
  BY <1>1, <1>3, <1>4 DEF Decks

\* No window changes.
LEMMA NoWindow ==
    ASSUME Decks, win' = win, settings' = settings
    PROVE  Decks' /\ BuildsAll
<1>1. \A y \in Open : Builds(win[y], win[y])
  BY BuildsItself DEF Decks
<1> QED
  BY <1>1 DEF Decks, BuildsAll, Open

(***************************************************************************)
(* The actions.                                                            *)
(***************************************************************************)

\* An action of one window, whose deck becomes v.
LEMMA LocallyStep ==
    ASSUME Inv, NEW x \in Open, NEW v, Locally(x, v),
           Kept(win[x], v), ~settings.areas => Follows(v)
    PROVE  Inv' /\ BuildsAll
<1>1. /\ win' = [win EXCEPT ![x] = v] /\ UNCHANGED <<opening, mail, mode, settings>>
      /\ inputs < MaxInputs /\ inputs' = inputs + 1 /\ mirrored' = FALSE
  BY DEF Locally, Becomes, Act
<1>2. Decks' /\ BuildsAll
  BY <1>1, OneWindow DEF Inv
<1>3. Rest'
  <2>1. mirrored' \in BOOLEAN
    BY <1>1
  <2>2. inputs' \in 0 .. MaxInputs
    BY <1>1, PresenterAssumption DEF Inv, Rest
  <2> QED
    BY <1>1, <2>1, <2>2 DEF Inv, Rest
<1> QED
  BY <1>2, <1>3 DEF Inv

LEMMA PopupLoadsStep ==
    ASSUME Inv, PopupLoads
    PROVE  Inv' /\ BuildsAll
<1> DEFINE entry == [state |-> Null, hash |-> opening, query |-> "absent"]
           deck == PopupDeck(<<entry>>, 1)
           main == win["main"]
<1>1. /\ opening # NoPopup /\ opening' = NoPopup
      /\ mirrored' = (mail = <<>> /\ win["main"].closing = 0
                        /\ Screen(win["main"]) = Screen(win'["popup"]))
      /\ UNCHANGED <<mode, settings, inputs>>
  BY DEF PopupLoads
<1>2. /\ entry \in Entry /\ entry.state = Null /\ entry.query = "absent"
  BY <1>1 DEF Inv, Rest, Entry, Null, Queries
<1> HIDE DEF entry
<1>3. /\ Good(deck) /\ Follows(deck)
      /\ \A s \in Deck : s < deck.cur => deck.hidden[s] = 0
      /\ deck.live = {} /\ deck.faded = {}
  <2> DEFINE hist == <<entry>>
  <2>1. hist \in Seq(Entry) /\ 1 \in 1 .. Len(hist) /\ Len(hist) = 1 /\ hist[1] = entry
    BY <1>2
  <2> HIDE DEF hist
  <2>2. /\ \A i \in 1 .. Len(hist) : hist[i].state \in Nat \cup {Null, Blank}
        /\ \A i \in 1 .. Len(hist) : hist[i].query = "absent" /\ hist[i].state = Null
    BY <1>2, <2>1
  <2>3. PICK at \in 1 .. Len(hist) : at = 1
    BY <2>1
  <2>4. deck = PopupDeck(hist, at)
    BY <2>3 DEF hist
  <2>5. Past(hist)
    BY <2>1, <2>2 DEF Past
  <2> HIDE DEF deck
  <2> QED
    BY <2>1, <2>4, <2>5, PopupDeckGives
<1> HIDE DEF deck
<1>4. PICK v : /\ win' = [x \in {"main", "popup"} |-> IF x = "main" THEN main ELSE v]
               /\ \/ v = deck /\ UNCHANGED mail
                  \/ v = OnKey(deck, "P", FALSE) /\ mail' = Append(mail, "P")
  BY DEF PopupLoads, deck, entry
<1>5. Good(v) /\ Follows(v)
  <2>1. "P" \in Keys /\ FALSE \in BOOLEAN
    BY DEF Keys
  <2>2. PICK key \in Keys, pressed \in BOOLEAN : key = "P" /\ pressed = FALSE
    BY <2>1
  <2>3. LET t == OnKey(deck, key, pressed)
        IN Kept(deck, t) /\ (Follows(deck) => Follows(t))
    BY <1>3, OnKeyKept
  <2> QED
    BY <1>3, <1>4, <2>2, <2>3 DEF Kept
<1>6. "main" \in Open /\ Good(main) /\ (~settings.areas => Follows(main))
  BY DEF Inv, Decks
<1>7. Open' = {"main", "popup"} /\ win'["main"] = main /\ win'["popup"] = v
  BY <1>4 DEF Open
<1> HIDE DEF main
<1>8. Decks'
  BY <1>1, <1>5, <1>6, <1>7 DEF Decks
<1>9. BuildsAll
  <2>1. Builds(main, main)
    BY <1>6, BuildsItself
  <2>2. "popup" \in Open => Builds(win["popup"], v)
    <3> SUFFICES ASSUME "popup" \in Open PROVE Builds(win["popup"], v)
      OBVIOUS
    <3>1. win["popup"].cur \in Int
      BY DEF Inv, Decks, Good, Tidy, Blank
    <3>2. v = deck \/ v = OnKey(deck, "P", FALSE)
      BY <1>4
    <3>3. v.hidden = deck.hidden /\ v.live = deck.live /\ v.faded = deck.faded
          /\ v.cur = deck.cur
      <4>1. v = deck \/ \E f \in SUBSET Flags : v = [deck EXCEPT !.flags = f]
        <5>1. deck.flags \in SUBSET Flags
          BY <1>3 DEF Good, Tidy, Window
        <5>2. Toggled(deck.flags, "with-notes") \in SUBSET Flags
          BY <5>1 DEF Toggled, Flags
        <5>3. \/ v = deck
              \/ v = [deck EXCEPT !.flags = Toggled(@, "with-notes")]
          BY <3>2 DEF OnKey
        <5> QED
          BY <5>2, <5>3
      <4>2. deck \in Window
        BY <1>3 DEF Good, Tidy
      <4> QED
        BY <4>1, <4>2 DEF Window
    <3> QED
      BY <1>3, <3>1, <3>3, LoadBuilds
  <2>3. win["main"] = main
    BY DEF main
  <2> QED
    BY <1>7, <2>1, <2>2, <2>3 DEF BuildsAll
<1>10. Rest'
  <2>1. mirrored' \in BOOLEAN
    BY <1>1
  <2>2. mail' \in Seq(Keys)
    <3>1. mail \in Seq(Keys)
      BY DEF Inv, Rest
    <3>2. "P" \in Keys
      BY DEF Keys
    <3>3. mail' = mail \/ mail' = Append(mail, "P")
      BY <1>4
    <3> QED
      BY <3>1, <3>2, <3>3
  <2>3. opening' \in Nat \cup {NoPopup}
    BY <1>1
  <2> QED
    BY <1>1, <2>1, <2>2, <2>3 DEF Inv, Rest
<1> QED
  BY <1>8, <1>9, <1>10 DEF Inv

LEMMA KeyStep ==
    ASSUME Inv, NEW key \in Keys, PressMain(key) \/ PressPopup(key) \/ OnMessage
    PROVE  Inv' /\ BuildsAll
<1>1. ASSUME NEW x \in Open, NEW k \in Keys, NEW pressed \in BOOLEAN
      PROVE  LET v == OnKey(win[x], k, pressed)
             IN Kept(win[x], v) /\ (~settings.areas => Follows(v))
  <2>1. Good(win[x]) /\ (~settings.areas => Follows(win[x]))
    BY DEF Inv, Decks
  <2> QED
    BY <2>1, OnKeyKept
<1>2. CASE PressMain(key)
  <2>1. "main" \in Open
    BY DEF Inv, Decks
  <2> DEFINE v == OnKey(win["main"], key, TRUE)
  <2>2. Kept(win["main"], v) /\ (~settings.areas => Follows(v))
    BY <1>1, <2>1
  <2>3. Locally("main", v)
    BY <1>2 DEF PressMain
  <2> HIDE DEF v
  <2> QED
    BY <2>1, <2>2, <2>3, LocallyStep
<1>3. CASE PressPopup(key)
  <2>1. /\ "popup" \in Open
        /\ win' = [win EXCEPT !["popup"] = OnKey(win["popup"], key, TRUE)]
        /\ mail' = Append(mail, key)
        /\ inputs < MaxInputs /\ inputs' = inputs + 1
        /\ UNCHANGED <<opening, mode, settings, mirrored>>
    BY <1>3 DEF PressPopup, Act, Open
  <2> DEFINE v == OnKey(win["popup"], key, TRUE)
  <2>2. Kept(win["popup"], v) /\ (~settings.areas => Follows(v))
    BY <1>1, <2>1
  <2>3. win' = [win EXCEPT !["popup"] = v]
    BY <2>1
  <2> HIDE DEF v
  <2>4. Decks' /\ BuildsAll
    BY <2>1, <2>2, <2>3, OneWindow DEF Inv
  <2>5. Rest'
    BY <2>1, PresenterAssumption DEF Inv, Rest
  <2> QED
    BY <2>4, <2>5 DEF Inv
<1>4. CASE OnMessage
  <2>1. mail \in Seq(Keys) /\ mail # <<>>
    BY <1>4 DEF OnMessage, Inv, Rest
  <2>2. Head(mail) \in Keys /\ Tail(mail) \in Seq(Keys)
    BY <2>1
  <2>3. "main" \in Open
    BY DEF Inv, Decks
  <2> DEFINE v == OnKey(win["main"], Head(mail), FALSE)
  <2>4. /\ win' = [win EXCEPT !["main"] = v] /\ mail' = Tail(mail)
        /\ UNCHANGED <<opening, mode, settings, inputs, mirrored>>
    BY <1>4, <2>3 DEF OnMessage, Open
  <2>5. Kept(win["main"], v) /\ (~settings.areas => Follows(v))
    BY <1>1, <2>2, <2>3
  <2> HIDE DEF v
  <2>6. Decks' /\ BuildsAll
    BY <2>3, <2>4, <2>5, OneWindow DEF Inv
  <2>7. Rest'
    BY <2>2, <2>4 DEF Inv, Rest
  <2> QED
    BY <2>6, <2>7 DEF Inv
<1> QED
  BY <1>2, <1>3, <1>4

\* The main window's page is loaded.
LEMMA MainLoads ==
    ASSUME NEW hist \in Seq(Entry), NEW at \in 1 .. Len(hist), Past(hist),
           NEW stored \in BOOLEAN, NEW blocked \in BOOLEAN
    PROVE  LET deck == NewDeck(hist, at)
               v == MainDeck(deck, stored, blocked)
           IN /\ Good(v) /\ Follows(v)
              /\ \A s \in Deck : s < v.cur => v.hidden[s] = 0
              /\ v.live = {} /\ v.faded = {}
              /\ PopupHash(v) \in Nat \cup {NoPopup}
              /\ ModeAfter(deck, stored) \in BOOLEAN
<1> DEFINE deck == NewDeck(hist, at)
           v == MainDeck(deck, stored, blocked)
<1>1. /\ Good(deck) /\ Follows(deck) /\ deck.at > 1
      /\ \A s \in Deck : s < deck.cur => deck.hidden[s] = 0
      /\ deck.live = {} /\ deck.faded = {}
  BY NewDeckGives
<1> HIDE DEF deck
<1>2. /\ Good(v) /\ Follows(v) /\ v.cur = deck.cur /\ v.hidden = deck.hidden
      /\ v.live = deck.live /\ v.faded = deck.faded
  BY <1>1, MainDeckKept
<1> HIDE DEF v
<1>3. PopupHash(v) \in Nat \cup {NoPopup}
  <2>1. v.hist \in Seq(Entry) /\ v.at \in 1 .. Len(v.hist)
    BY <1>2 DEF Good, Tidy, Window
  <2>2. Url(v) \in Entry
    BY <2>1, ElementOfSeq DEF Url
  <2> QED
    BY <2>2 DEF PopupHash, Entry
<1>4. ModeAfter(deck, stored) \in BOOLEAN
  BY DEF ModeAfter
<1>5. \A s \in Deck : s < v.cur => v.hidden[s] = 0
  BY <1>1, <1>2
<1> QED
  BY <1>1, <1>2, <1>3, <1>4, <1>5 DEF v, deck

\* What a window's history is when its page is loaded again.
LEMMA GoodPast ==
    ASSUME NEW w, Good(w)
    PROVE  /\ w.hist \in Seq(Entry) /\ w.at \in 1 .. Len(w.hist) /\ Past(w.hist)
           /\ w.cur \in Int
  BY DEF Good, Tidy, Named, Past, Window, Blank

LEMMA ReloadMainStep ==
    ASSUME Inv, ReloadMain
    PROVE  Inv' /\ BuildsAll
<1> DEFINE main == win["main"]
           deck == NewDeck(main.hist, main.at)
<1>1. "main" \in Open /\ Good(main)
  BY DEF Inv, Decks
<1>2. /\ main.hist \in Seq(Entry) /\ main.at \in 1 .. Len(main.hist)
      /\ Past(main.hist) /\ main.cur \in Int
  BY <1>1, GoodPast
<1>3. mode \in BOOLEAN
  BY DEF Inv, Rest
<1>4. PICK blocked \in BOOLEAN :
        /\ win' = [x \in {"main"} |-> MainDeck(deck, mode, blocked)]
        /\ mode' = ModeAfter(deck, mode)
  BY DEF ReloadMain
<1>5. /\ inputs < MaxInputs /\ inputs' = inputs + 1
      /\ opening' = PopupHash(win'["main"]) /\ mail' = <<>>
      /\ mirrored' = FALSE /\ settings' = settings
  BY DEF ReloadMain, Act
<1> DEFINE v == MainDeck(deck, mode, blocked)
<1>6. /\ Good(v) /\ Follows(v)
      /\ \A s \in Deck : s < v.cur => v.hidden[s] = 0
      /\ v.live = {} /\ v.faded = {}
      /\ PopupHash(v) \in Nat \cup {NoPopup}
      /\ ModeAfter(deck, mode) \in BOOLEAN
  <2> DEFINE hist == main.hist  at == main.at
  <2>1. /\ hist \in Seq(Entry) /\ at \in 1 .. Len(hist) /\ Past(hist)
    BY <1>2
  <2>2. deck = NewDeck(hist, at) /\ v = MainDeck(NewDeck(hist, at), mode, blocked)
    OBVIOUS
  <2> HIDE DEF hist, at, deck, v
  <2> QED
    BY <1>3, <2>1, <2>2, MainLoads
<1>7. Open' = {"main"} /\ win'["main"] = v
  BY <1>4 DEF Open
<1> HIDE DEF deck, v
<1>8. Decks'
  BY <1>6, <1>7 DEF Decks
<1>9. BuildsAll
  BY <1>2, <1>6, <1>7, LoadBuilds DEF BuildsAll
<1>10. Rest'
  <2>1. mirrored' \in BOOLEAN
    BY <1>5
  <2>2. mode' \in BOOLEAN
    BY <1>4, <1>6
  <2>3. mail' \in Seq(Keys)
    BY <1>5
  <2>4. opening' \in Nat \cup {NoPopup}
    BY <1>5, <1>6, <1>7
  <2>5. settings' \in Settings /\ inputs' \in 0 .. MaxInputs
    BY <1>5, PresenterAssumption DEF Inv, Rest
  <2> QED
    BY <2>1, <2>2, <2>3, <2>4, <2>5 DEF Rest
<1> QED
  BY <1>8, <1>9, <1>10 DEF Inv

LEMMA ReloadPopupStep ==
    ASSUME Inv, ReloadPopup
    PROVE  Inv' /\ BuildsAll
<1> DEFINE w == win["popup"]
           v == PopupDeck(w.hist, w.at)
<1>1. "popup" \in Open /\ Locally("popup", v)
  BY DEF ReloadPopup
<1>2. Good(w)
  BY <1>1 DEF Inv, Decks
<1>3. /\ w.hist \in Seq(Entry) /\ w.at \in 1 .. Len(w.hist)
      /\ Past(w.hist) /\ w.cur \in Int
  BY <1>2, GoodPast
<1>4. /\ Good(v) /\ Follows(v) /\ v.hist[1] = w.hist[1]
      /\ \A s \in Deck : s < v.cur => v.hidden[s] = 0
      /\ v.live = {} /\ v.faded = {}
  <2> HIDE DEF w
  <2> QED
    BY <1>3, PopupDeckGives
<1> HIDE DEF v
<1>5. Kept(w, v)
  BY <1>3, <1>4, LoadBuilds DEF Kept
<1> QED
  BY <1>1, <1>4, <1>5, LocallyStep

LEMMA ClosePopupStep ==
    ASSUME Inv, ClosePopup
    PROVE  Inv' /\ BuildsAll
<1>1. /\ win' = [x \in {"main"} |-> win["main"]] /\ mirrored' = FALSE
      /\ inputs < MaxInputs /\ inputs' = inputs + 1
      /\ UNCHANGED <<opening, mail, mode, settings>>
  BY DEF ClosePopup, Act
<1>2. "main" \in Open /\ Good(win["main"])
      /\ (~settings.areas => Follows(win["main"]))
  BY DEF Inv, Decks
<1>3. Open' = {"main"} /\ win'["main"] = win["main"]
  BY <1>1 DEF Open
<1>4. Decks'
  BY <1>1, <1>2, <1>3 DEF Decks
<1>5. BuildsAll
  BY <1>2, <1>3, BuildsItself DEF BuildsAll
<1>6. Rest'
  <2>1. mirrored' \in BOOLEAN
    BY <1>1
  <2>2. inputs' \in 0 .. MaxInputs
    BY <1>1, PresenterAssumption DEF Inv, Rest
  <2> QED
    BY <1>1, <2>1, <2>2 DEF Inv, Rest
<1> QED
  BY <1>4, <1>5, <1>6 DEF Inv

LEMMA InWindowStep ==
    ASSUME Inv, NEW x \in Open, InWindow(x)
    PROVE  Inv' /\ BuildsAll
<1> DEFINE w == win[x]
<1>1. Good(w) /\ (~settings.areas => Follows(w))
  BY DEF Inv, Decks
<1>2. ASSUME NEW dontPush \in BOOLEAN, dontPush => settings.areas,
             Locally(x, PrevSlide(w, dontPush)) \/ Locally(x, NextSlide(w, dontPush))
      PROVE  Inv' /\ BuildsAll
  <2>1. PICK v : /\ Locally(x, v)
                 /\ v = PrevSlide(w, dontPush) \/ v = NextSlide(w, dontPush)
    BY <1>2
  <2>2. Kept(w, v) /\ (Follows(w) /\ ~dontPush => Follows(v))
    <3> HIDE DEF w
    <3> QED
      BY <1>1, <2>1, PrevSlideKept, NextSlideKept
  <2>3. ~settings.areas => Follows(v)
    BY <1>1, <1>2, <2>2
  <2> QED
    BY <2>1, <2>2, <2>3, LocallyStep
<1>3. CASE ClickArea(x)
  BY <1>2, <1>3 DEF ClickArea
<1>4. CASE DragEnd(x)
  BY <1>2, <1>4 DEF DragEnd
<1>5. ASSUME NEW slide \in Deck, ClickSlide(x, slide)
      PROVE  Inv' /\ BuildsAll
  <2> DEFINE v == [LoadSlide(w, slide) EXCEPT !.closing = @ + 1]
  <2>1. Has(w, "overview") /\ Locally(x, v)
    BY <1>5 DEF ClickSlide
  <2>2. Kept(w, v) /\ Follows(v)
    <3> HIDE DEF w
    <3> QED
      BY <1>1, <2>1, PickKept
  <2> HIDE DEF v
  <2> QED
    BY <2>1, <2>2, LocallyStep
<1>6. CASE CloseLater(x)
  <2> DEFINE v == [ToggleOverview(w) EXCEPT !.closing = @ - 1]
  <2>1. w.closing > 0 /\ Becomes(x, v) /\ UNCHANGED <<inputs, mirrored>>
    BY <1>6 DEF CloseLater
  <2>2. Kept(w, v) /\ (Follows(w) => Follows(v))
    <3> HIDE DEF w
    <3> QED
      BY <1>1, <2>1, CloseKept
  <2> HIDE DEF v
  <2>3. Decks' /\ BuildsAll
    BY <1>1, <2>1, <2>2, OneWindow DEF Inv, Becomes
  <2>4. Rest'
    BY <2>1 DEF Inv, Rest, Becomes
  <2> QED
    BY <2>3, <2>4 DEF Inv
<1>7. ASSUME NEW step \in {-1, 1}, Go(x, step)
      PROVE  Inv' /\ BuildsAll
  <2> DEFINE n == w.at + step
             v == OnPopState([w EXCEPT !.at = n])
  <2>1. n \in DOMAIN w.hist /\ Locally(x, v)
    BY <1>7 DEF Go
  <2>2. n # w.at
    BY <1>1 DEF Good, Tidy
  <2>3. Kept(w, v) /\ Follows(v)
    <3> HIDE DEF w, n
    <3> QED
      BY <1>1, <2>1, <2>2, GoKept
  <2> HIDE DEF v
  <2> QED
    BY <2>1, <2>3, LocallyStep
<1> QED
  BY <1>3, <1>4, <1>5, <1>6, <1>7 DEF InWindow

(***************************************************************************)
(* The invariant, and the properties that follow from it.                  *)
(***************************************************************************)

LEMMA InitInv ==
    ASSUME Init
    PROVE  Inv
<1>1. PICK start \in Starts, blocked \in BOOLEAN :
        LET entry == [state |-> Null, hash |-> start.hash, query |-> start.query]
            deck  == NewDeck(<<entry>>, 1)
        IN /\ win = [x \in {"main"} |-> MainDeck(deck, start.stored, blocked)]
           /\ mode = ModeAfter(deck, start.stored)
  BY DEF Init
<1> DEFINE entry == [state |-> Null, hash |-> start.hash, query |-> start.query]
           hist == <<entry>>
           deck == NewDeck(hist, 1)
           v == MainDeck(deck, start.stored, blocked)
<1>2. start.stored \in BOOLEAN /\ entry \in Entry /\ entry.state = Null
  BY PresenterAssumption DEF Entry, Null
<1> HIDE DEF entry
<1>3. hist \in Seq(Entry) /\ Len(hist) = 1 /\ hist[1] = entry
  BY <1>2
<1> HIDE DEF hist
<1>4. Past(hist)
  BY <1>2, <1>3 DEF Past
<1>5. PICK at \in 1 .. Len(hist) : at = 1
  BY <1>3
<1>6. PICK stored \in BOOLEAN : stored = start.stored
  BY <1>2
<1>7. /\ Good(v) /\ Follows(v)
      /\ PopupHash(v) \in Nat \cup {NoPopup}
      /\ ModeAfter(deck, stored) \in BOOLEAN
  <2>1. deck = NewDeck(hist, at) /\ v = MainDeck(NewDeck(hist, at), stored, blocked)
    BY <1>5, <1>6
  <2> HIDE DEF deck, v
  <2> QED
    BY <1>3, <1>4, <2>1, MainLoads
<1>8. win = [x \in {"main"} |-> v] /\ mode = ModeAfter(deck, stored)
  BY <1>1, <1>6 DEF entry, hist
<1> HIDE DEF deck, v
<1>9. Decks
  BY <1>7, <1>8 DEF Decks, Open
<1>10. Rest
  <2>1. /\ opening = PopupHash(win["main"]) /\ mail = <<>> /\ settings \in Settings
        /\ inputs = 0 /\ mirrored = FALSE
    BY DEF Init
  <2>2. mirrored \in BOOLEAN
    BY <2>1
  <2>3. mode \in BOOLEAN
    BY <1>7, <1>8
  <2>4. opening \in Nat \cup {NoPopup}
    BY <1>7, <1>8, <2>1
  <2>5. mail \in Seq(Keys) /\ inputs \in 0 .. MaxInputs
    BY <2>1, PresenterAssumption
  <2> QED
    BY <2>1, <2>2, <2>3, <2>4, <2>5 DEF Rest
<1> QED
  BY <1>9, <1>10 DEF Inv

LEMMA NextInv ==
    ASSUME Inv, [Next]_vars
    PROVE  Inv' /\ BuildsAll
<1>1. CASE PopupLoads
  BY <1>1, PopupLoadsStep
<1>2. ASSUME NEW key \in Keys, PressMain(key) \/ PressPopup(key)
      PROVE  Inv' /\ BuildsAll
  BY <1>2, KeyStep
<1>3. CASE OnMessage
  <2>1. "P" \in Keys
    BY DEF Keys
  <2> QED
    BY <1>3, <2>1, KeyStep
<1>4. ASSUME NEW x \in Open, InWindow(x)
      PROVE  Inv' /\ BuildsAll
  BY <1>4, InWindowStep
<1>5. CASE ReloadMain
  BY <1>5, ReloadMainStep
<1>6. CASE ReloadPopup
  BY <1>6, ReloadPopupStep
<1>7. CASE ClosePopup
  BY <1>7, ClosePopupStep
<1>8. CASE UNCHANGED vars
  <2>1. /\ win' = win /\ opening' = opening /\ mail' = mail /\ mode' = mode
        /\ settings' = settings /\ inputs' = inputs /\ mirrored' = mirrored
    BY <1>8 DEF vars
  <2>2. Decks' /\ BuildsAll
    BY <2>1, NoWindow DEF Inv
  <2>3. Rest'
    BY <2>1 DEF Inv, Rest
  <2> QED
    BY <2>2, <2>3 DEF Inv
<1> QED
  BY <1>1, <1>2, <1>3, <1>4, <1>5, <1>6, <1>7, <1>8 DEF Next

LEMMA Invariant == Spec => []Inv
<1>1. Init => Inv
  BY InitInv
<1>2. Inv /\ [Next]_vars => Inv'
  BY NextInv
<1> QED
  BY <1>1, <1>2, PTL DEF Spec

(***************************************************************************)
(* The audience's window.                                                  *)
(***************************************************************************)

GoodDecks == {w \in Window : Good(w)}

\* The decks that w becomes as it obeys the keys of s.
Obeying(h, w, s) ==
    /\ h \in [0 .. Len(s) -> GoodDecks] /\ h[0] = w
    /\ \A k \in 1 .. Len(s) : h[k] = OnKey(h[k - 1], s[k], FALSE)

LEMMA OnKeyGood ==
    ASSUME NEW w \in GoodDecks, NEW key \in Keys, NEW pressed \in BOOLEAN
    PROVE  OnKey(w, key, pressed) \in GoodDecks
<1>1. Good(OnKey(w, key, pressed))
  BY OnKeyKept DEF GoodDecks, Kept
<1> QED
  BY <1>1 DEF GoodDecks, Good, Tidy

\* Obeying all the keys, one step for each.
LEMMA Obeys ==
    ASSUME NEW s \in Seq(Keys), NEW w \in GoodDecks
    PROVE  \E h : Obeying(h, w, s)
                  /\ h[Len(s)] = FoldLeft(LAMBDA u, key : OnKey(u, key, FALSE), w, s)
<1> DEFINE V == GoodDecks
           len == Len(s)
           op == [p \in V \X (1 .. len) |-> OnKey(p[1], s[p[2]], FALSE)]
           Is(g) == g = [t \in SUBSET (1 .. len) |->
                           IF t = {} THEN w
                           ELSE LET x == Max(t) IN OnKey(g[t \ {x}], s[x], FALSE)]
           iter == CHOOSE g : Is(g)
<1>1. len \in Nat /\ DOMAIN s = 1 .. len /\ \A k \in 1 .. len : s[k] \in Keys
  OBVIOUS
<1>2. op \in [V \X (1 .. len) -> V]
  <2>1. ASSUME NEW v \in V, NEW k \in 1 .. len PROVE OnKey(v, s[k], FALSE) \in V
    <3>1. \A key \in Keys, p \in BOOLEAN : OnKey(v, key, p) \in GoodDecks
      BY OnKeyGood
    <3> QED
      BY <1>1, <3>1
  <2> QED
    BY <2>1
<1>3. FoldLeft(LAMBDA u, key : OnKey(u, key, FALSE), w, s) = iter[1 .. len]
  BY <1>1 DEF FoldLeft, MapThenFoldSet
<1> HIDE DEF op
<1>4. PICK g \in [SUBSET (1 .. len) -> V] : FoldsTo(g, w, op, len)
  <2> HIDE DEF V, len
  <2>1. w \in V
    BY DEF V
  <2> QED
    BY <1>1, <1>2, <2>1, FoldExists
<1>5. Is(g)
  <2> SUFFICES ASSUME NEW t \in SUBSET (1 .. len), t # {}
               PROVE  g[t] = OnKey(g[t \ {Max(t)}], s[Max(t)], FALSE)
    BY <1>4 DEF FoldsTo
  <2>1. g[t] = op[<<g[t \ {Max(t)}], Max(t)>>]
    BY <1>4 DEF FoldsTo
  <2>2. Max(t) \in 1 .. len
    <3> HIDE DEF len
    <3> QED
      BY <1>1, MaxOfRange
  <2>3. g[t \ {Max(t)}] \in V
    BY <1>4
  <2> QED
    BY <2>1, <2>2, <2>3 DEF op
<1> HIDE DEF iter
<1>6. Is(iter)
  BY <1>5 DEF iter
<1>7. FoldsIn(V, iter, w, op, len)
  <2>1. iter[{}] = w
    BY <1>6
  <2>2. ASSUME NEW t \in SUBSET (1 .. len), t # {}, iter[t \ {Max(t)}] \in V
        PROVE  iter[t] = op[<<iter[t \ {Max(t)}], Max(t)>>]
    <3>1. Max(t) \in 1 .. len
      <4> HIDE DEF len
      <4> QED
        BY <1>1, <2>2, MaxOfRange
    <3>2. iter[t] = OnKey(iter[t \ {Max(t)}], s[Max(t)], FALSE)
      BY <1>6, <2>2
    <3> QED
      BY <2>2, <3>1, <3>2 DEF op
  <2> QED
    BY <2>1, <2>2 DEF FoldsIn
<1>8. PICK h \in [0 .. len -> V] :
        /\ h[0] = w /\ h[len] = iter[1 .. len]
        /\ \A k \in 1 .. len : h[k] = op[<<h[k - 1], k>>]
  <2> HIDE DEF V, len, Is
  <2>1. \E h \in [0 .. len -> V] : Steps(h, w, op, len, iter[1 .. len])
    <3>1. w \in V
      BY DEF V
    <3> QED
      BY <1>1, <1>2, <1>7, <3>1, FoldSteps
  <2> QED
    BY <2>1 DEF Steps
<1>9. ASSUME NEW k \in 1 .. len
       PROVE  h[k] = OnKey(h[k - 1], s[k], FALSE)
  <2>1. h[k] = op[<<h[k - 1], k>>] /\ k - 1 \in 0 .. len
    BY <1>8
  <2>2. h[k - 1] \in V
    BY <1>8, <2>1
  <2> QED
    BY <2>1, <2>2 DEF op
<1>10. Obeying(h, w, s)
  BY <1>8, <1>9 DEF Obeying
<1> QED
  BY <1>3, <1>8, <1>10

LEMMA ObeysOnce ==
    ASSUME NEW s \in Seq(Keys), NEW w, NEW g, NEW h, Obeying(g, w, s), Obeying(h, w, s)
    PROVE  g[Len(s)] = h[Len(s)]
<1> DEFINE Agree(n) == n <= Len(s) => g[n] = h[n]
           S == {n \in Nat : Agree(n)}
<1>1. 0 \in S
  BY DEF Obeying
<1>2. ASSUME NEW n \in Nat, n \in S PROVE n + 1 \in S
  <2> SUFFICES ASSUME n + 1 <= Len(s) PROVE g[n + 1] = h[n + 1]
    OBVIOUS
  <2>1. n + 1 \in 1 .. Len(s) /\ (n + 1) - 1 = n /\ g[n] = h[n]
    BY <1>2
  <2> QED
    BY <2>1 DEF Obeying
<1>3. Nat \subseteq S
  <2> HIDE DEF S
  <2> QED
    BY <1>1, <1>2, SetInduction
<1>4. Len(s) \in Nat
  OBVIOUS
<1> QED
  BY <1>3, <1>4

LEMMA ObeysMore ==
    ASSUME NEW s \in Seq(Keys), NEW key \in Keys, NEW w, NEW h, Obeying(h, w, s)
    PROVE  \E g : /\ Obeying(g, w, Append(s, key))
                  /\ g[Len(s) + 1] = OnKey(h[Len(s)], key, FALSE)
<1>1. PICK n \in Nat : n = Len(s)
  OBVIOUS
<1>2. PICK t \in Seq(Keys) : t = Append(s, key)
  <2>1. Append(s, key) \in Seq(Keys)
    OBVIOUS
  <2> QED
    BY <2>1
<1>3. Len(t) = n + 1 /\ t[n + 1] = key /\ \A k \in 1 .. n : t[k] = s[k]
  BY <1>1, <1>2
<1>4. /\ h \in [0 .. n -> GoodDecks] /\ h[0] = w
      /\ \A k \in 1 .. n : h[k] = OnKey(h[k - 1], s[k], FALSE)
  BY <1>1 DEF Obeying
<1>5. PICK x \in GoodDecks : x = OnKey(h[n], key, FALSE)
  <2>1. h[n] \in GoodDecks
    BY <1>4
  <2>2. \A p \in BOOLEAN : OnKey(h[n], key, p) \in GoodDecks
    BY <2>1, OnKeyGood
  <2> QED
    BY <2>2
<1>6. PICK g : g = [k \in 0 .. n + 1 |-> IF k = n + 1 THEN x ELSE h[k]]
  OBVIOUS
<1>7. g[n + 1] = x /\ \A k \in 0 .. n : g[k] = h[k]
  BY <1>6
<1>8. g \in [0 .. n + 1 -> GoodDecks]
  BY <1>4, <1>6
<1>9. ASSUME NEW k \in 1 .. n + 1 PROVE g[k] = OnKey(g[k - 1], t[k], FALSE)
  <2>1. CASE k = n + 1
    <3>1. k - 1 = n /\ g[n] = h[n]
      BY <1>7, <2>1
    <3> QED
      BY <1>3, <1>5, <1>7, <2>1, <3>1
  <2>2. CASE k # n + 1
    <3>1. k \in 1 .. n /\ k \in 0 .. n /\ k - 1 \in 0 .. n
      BY <2>2
    <3> QED
      BY <1>3, <1>4, <1>7, <3>1
  <2> QED
    BY <2>1, <2>2
<1>10. Obeying(g, w, t)
  <2>1. g[0] = w
    BY <1>4, <1>7
  <2>2. Len(t) = n + 1
    BY <1>3
  <2> QED
    BY <1>8, <1>9, <2>1, <2>2 DEF Obeying
<1> QED
  BY <1>1, <1>2, <1>5, <1>7, <1>10

LEMMA ObeysLess ==
    ASSUME NEW s \in Seq(Keys), s # << >>, NEW w, NEW h, Obeying(h, w, s)
    PROVE  \E g : /\ Obeying(g, OnKey(w, Head(s), FALSE), Tail(s))
                  /\ g[Len(Tail(s))] = h[Len(s)]
<1>1. PICK n \in Nat : Len(s) = n + 1
  <2>1. Len(s) \in Nat /\ Len(s) > 0
    OBVIOUS
  <2>2. Len(s) - 1 \in Nat /\ Len(s) = (Len(s) - 1) + 1
    BY <2>1
  <2> QED
    BY <2>2
<1>2. PICK t \in Seq(Keys) : t = Tail(s)
  <2>1. Tail(s) \in Seq(Keys)
    OBVIOUS
  <2> QED
    BY <2>1
<1>3. Len(t) = n /\ Head(s) = s[1] /\ \A k \in 1 .. n : t[k] = s[k + 1]
  BY <1>1, <1>2
<1>4. /\ h \in [0 .. n + 1 -> GoodDecks] /\ h[0] = w
      /\ \A k \in 1 .. n + 1 : h[k] = OnKey(h[k - 1], s[k], FALSE)
  BY <1>1 DEF Obeying
<1>5. PICK g : g = [k \in 0 .. n |-> h[k + 1]]
  OBVIOUS
<1>6. g \in [0 .. n -> GoodDecks] /\ \A k \in 0 .. n : g[k] = h[k + 1]
  BY <1>4, <1>5
<1>7. g[0] = OnKey(w, Head(s), FALSE)
  <2>1. 1 \in 1 .. n + 1 /\ 1 - 1 = 0 /\ 0 + 1 = 1 /\ 0 \in 0 .. n
    OBVIOUS
  <2>2. h[1] = OnKey(h[0], s[1], FALSE)
    BY <1>4, <2>1
  <2> QED
    BY <1>3, <1>4, <1>6, <2>1, <2>2
<1>8. ASSUME NEW k \in 1 .. n PROVE g[k] = OnKey(g[k - 1], t[k], FALSE)
  <2>1. k + 1 \in 1 .. n + 1 /\ (k + 1) - 1 = k /\ k \in 0 .. n /\ k - 1 \in 0 .. n
        /\ (k - 1) + 1 = k
    OBVIOUS
  <2>2. h[k + 1] = OnKey(h[k], s[k + 1], FALSE)
    BY <1>4, <2>1
  <2> QED
    BY <1>3, <1>6, <2>1, <2>2
<1>9. Obeying(g, OnKey(w, Head(s), FALSE), t)
  BY <1>3, <1>6, <1>7, <1>8 DEF Obeying
<1>10. g[Len(t)] = h[Len(s)]
  BY <1>1, <1>3, <1>6
<1> QED
  BY <1>2, <1>9, <1>10

\* As long as the popup's keyboard is all that is used, no overview is about to
\* be toggled, and the main window comes to show what the popup shows.
Mirroring ==
    mirrored =>
      /\ "popup" \in Open
      /\ win["main"].closing = 0 /\ win["popup"].closing = 0
      /\ \E h : Obeying(h, win["main"], mail) /\ Alike(win["popup"], h[Len(mail)])

LEMMA GoodWindow ==
    ASSUME Inv, NEW x \in Open
    PROVE  win[x] \in GoodDecks /\ Good(win[x])
  BY DEF Inv, Decks, GoodDecks, Good, Tidy

LEMMA PopupLoadsMirrors ==
    ASSUME Inv, PopupLoads, mirrored'
    PROVE  Mirroring'
<1> DEFINE entry == [state |-> Null, hash |-> opening, query |-> "absent"]
<1>1. PICK e : e = entry
  OBVIOUS
<1>2. PICK deck : deck = PopupDeck(<<e>>, 1)
  OBVIOUS
<1>3. PICK main : main = win["main"]
  OBVIOUS
<1>4. /\ mail = << >> /\ main.closing = 0 /\ Screen(main) = Screen(win'["popup"])
      /\ opening # NoPopup
  BY <1>3 DEF PopupLoads
<1>5. e \in Entry /\ e.state = Null /\ e.query = "absent"
  BY <1>1, <1>4 DEF Inv, Rest, Entry, Null, Queries
<1>6. Good(deck) /\ deck.closing = 0
  <2>1. PICK hist \in Seq(Entry) : hist = <<e>> /\ Len(hist) = 1 /\ hist[1] = e
    <3>1. <<e>> \in Seq(Entry) /\ Len(<<e>>) = 1 /\ <<e>>[1] = e
      BY <1>5
    <3> QED
      BY <3>1
  <2>2. PICK at \in 1 .. Len(hist) : at = 1
    BY <2>1
  <2>3. Past(hist)
    BY <1>5, <2>1 DEF Past
  <2>4. deck = PopupDeck(hist, at)
    BY <1>2, <2>1, <2>2
  <2> QED
    BY <2>3, <2>4, PopupDeckGives
<1>7. PICK v : /\ win' = [x \in {"main", "popup"} |-> IF x = "main" THEN main ELSE v]
               /\ \/ v = deck /\ mail' = mail
                  \/ v = OnKey(deck, "P", FALSE) /\ mail' = Append(mail, "P")
  BY <1>1, <1>2, <1>3 DEF PopupLoads
<1>8. Open' = {"main", "popup"} /\ win'["main"] = main /\ win'["popup"] = v
  BY <1>7 DEF Open
<1>9. main \in GoodDecks /\ Good(main)
  <2>1. "main" \in Open
    BY DEF Inv, Decks
  <2> QED
    BY <1>3, <2>1, GoodWindow
<1>10. Alike(main, v)
  BY <1>4, <1>8, AlikeOnScreen
<1>11. PICK h : h = [k \in 0 .. 0 |-> main]
  OBVIOUS
<1>12. Obeying(h, main, << >>) /\ h[0] = main
  <2>1. h \in [0 .. 0 -> GoodDecks] /\ h[0] = main
    BY <1>9, <1>11
  <2>2. Len(<< >>) = 0 /\ \A k \in 1 .. 0 : FALSE
    OBVIOUS
  <2> QED
    BY <2>1, <2>2 DEF Obeying
<1>13. CASE v = deck /\ mail' = mail
  <2>1. Alike(v, h[Len(mail')])
    BY <1>4, <1>10, <1>12, <1>13 DEF Alike
  <2> QED
    BY <1>4, <1>6, <1>8, <1>12, <1>13, <2>1 DEF Mirroring
<1>14. CASE v = OnKey(deck, "P", FALSE) /\ mail' = Append(mail, "P")
  <2>1. PICK key \in Keys : key = "P"
    BY DEF Keys
  <2>2. PICK p \in BOOLEAN : p = FALSE
    OBVIOUS
  <2>3. Stays(deck, deck, OnKey(deck, key, p), OnKey(deck, key, p))
    BY <1>6, OnKeyAlike DEF Alike
  <2>4. v.closing = 0
    BY <1>6, <1>14, <2>1, <2>2, <2>3 DEF Stays
  <2>5. PICK g : Obeying(g, main, Append(<< >>, key)) /\ g[1] = OnKey(main, key, FALSE)
    <3>1. PICK s \in Seq(Keys) : s = << >> /\ Len(s) = 0
      <4>1. << >> \in Seq(Keys) /\ Len(<< >>) = 0
        OBVIOUS
      <4> QED
        BY <4>1
    <3>2. Obeying(h, main, s)
      BY <1>12, <3>1
    <3>3. \E g : /\ Obeying(g, main, Append(s, key))
                 /\ g[Len(s) + 1] = OnKey(h[Len(s)], key, FALSE)
      BY <3>2, ObeysMore
    <3>4. h[Len(s)] = main /\ Len(s) + 1 = 1
      BY <1>12, <3>1
    <3>5. PICK g : /\ Obeying(g, main, Append(s, key))
                   /\ g[Len(s) + 1] = OnKey(h[Len(s)], key, FALSE)
      BY <3>3
    <3>6. g[1] = OnKey(main, key, FALSE)
      BY <3>4, <3>5
    <3> QED
      BY <3>1, <3>5, <3>6
  <2>6. Alike(main, OnKey(main, key, FALSE))
    <3>1. main.flags \in SUBSET Flags /\ main \in Window
      BY <1>9 DEF Good, Tidy, Window
    <3>2. \/ OnKey(main, key, FALSE) = main
          \/ OnKey(main, key, FALSE) = [main EXCEPT !.flags = Toggled(@, "with-notes")]
      BY <2>1 DEF OnKey
    <3>3. PICK F \in SUBSET Flags : F = Toggled(main.flags, "with-notes")
      BY <3>1 DEF Toggled, Flags
    <3>4. /\ "overview" \in F <=> "overview" \in main.flags
          /\ "highlight-code" \in F <=> "highlight-code" \in main.flags
      BY <3>3 DEF Toggled
    <3>5. PICK m : m = [main EXCEPT !.flags = F]
      OBVIOUS
    <3>6. /\ m.cur = main.cur /\ m.hidden = main.hidden /\ m.live = main.live
          /\ m.faded = main.faded /\ m.flags = F
      BY <3>1, <3>5 DEF Window
    <3>7. Alike(main, m)
      BY <3>4, <3>6 DEF Alike
    <3>8. Alike(main, main)
      BY DEF Alike
    <3> QED
      BY <3>2, <3>3, <3>5, <3>7, <3>8
  <2>7. Alike(v, g[1])
    BY <1>10, <2>5, <2>6 DEF Alike
  <2>8. mail' = Append(<< >>, key) /\ Len(mail') = 1
    BY <1>4, <1>14, <2>1
  <2> QED
    BY <1>4, <1>8, <2>4, <2>5, <2>7, <2>8 DEF Mirroring
<1> QED
  BY <1>7, <1>13, <1>14

LEMMA PressPopupMirrors ==
    ASSUME Inv, Mirroring, NEW key \in Keys, PressPopup(key), mirrored'
    PROVE  Mirroring'
<1>1. /\ win' = [win EXCEPT !["popup"] = OnKey(win["popup"], key, TRUE)]
      /\ mail' = Append(mail, key) /\ mirrored' = mirrored /\ "popup" \in Open
  BY DEF PressPopup, Open
<1>2. "main" \in Open /\ mail \in Seq(Keys)
  BY DEF Inv, Decks, Rest
<1>3. PICK h : Obeying(h, win["main"], mail) /\ Alike(win["popup"], h[Len(mail)])
  BY <1>1 DEF Mirroring
<1>4. PICK y : y = h[Len(mail)]
  OBVIOUS
<1>5. Good(win["popup"]) /\ Good(y)
  <2>1. Len(mail) \in 0 .. Len(mail)
    BY <1>2
  <2>2. y \in GoodDecks
    BY <1>3, <1>4, <2>1 DEF Obeying
  <2> QED
    BY <1>1, <2>2, GoodWindow DEF GoodDecks
<1>6. PICK p \in BOOLEAN : p = TRUE
  OBVIOUS
<1>7. PICK q \in BOOLEAN : q = FALSE
  OBVIOUS
<1>8. PICK v : v = OnKey(win["popup"], key, p)
  OBVIOUS
<1>9. Stays(win["popup"], y, v, OnKey(y, key, q))
  BY <1>3, <1>4, <1>5, <1>8, OnKeyAlike
<1>10. PICK g : /\ Obeying(g, win["main"], Append(mail, key))
                /\ g[Len(mail) + 1] = OnKey(y, key, q)
  BY <1>2, <1>3, <1>4, <1>7, ObeysMore
<1>11. Open' = Open /\ win'["main"] = win["main"] /\ win'["popup"] = v
  BY <1>1, <1>2, <1>6, <1>8 DEF Open
<1>12. Len(mail') = Len(mail) + 1
  BY <1>1, <1>2
<1>13. v.closing = 0 /\ win["main"].closing = 0
  BY <1>1, <1>9 DEF Mirroring, Stays
<1>14. Alike(v, g[Len(mail')])
  BY <1>9, <1>10, <1>12 DEF Stays
<1> QED
  BY <1>1, <1>10, <1>11, <1>13, <1>14 DEF Mirroring

LEMMA OnMessageMirrors ==
    ASSUME Inv, Mirroring, OnMessage, mirrored'
    PROVE  Mirroring'
<1>1. /\ win' = [win EXCEPT !["main"] = OnKey(win["main"], Head(mail), FALSE)]
      /\ mail' = Tail(mail) /\ mail # << >> /\ mirrored' = mirrored
  BY DEF OnMessage, Inv, Decks, Open
<1>2. "main" \in Open /\ "popup" \in Open /\ mail \in Seq(Keys)
  BY <1>1 DEF Inv, Decks, Rest, Mirroring
<1>3. PICK h : Obeying(h, win["main"], mail) /\ Alike(win["popup"], h[Len(mail)])
  BY <1>1 DEF Mirroring
<1>4. PICK key \in Keys : key = Head(mail)
  BY <1>1, <1>2
<1>5. PICK q \in BOOLEAN : q = FALSE
  OBVIOUS
<1>6. PICK v : v = OnKey(win["main"], key, q)
  OBVIOUS
<1>7. PICK g : Obeying(g, v, Tail(mail)) /\ g[Len(Tail(mail))] = h[Len(mail)]
  BY <1>1, <1>2, <1>3, <1>4, <1>5, <1>6, ObeysLess
<1>8. v.closing = 0
  <2>1. Good(win["main"]) /\ Alike(win["main"], win["main"])
    BY <1>2, GoodWindow DEF Alike
  <2>2. Stays(win["main"], win["main"], v, v)
    BY <1>6, <2>1, OnKeyAlike
  <2> QED
    BY <1>1, <2>2 DEF Stays, Mirroring
<1>9. Open' = Open /\ win'["main"] = v /\ win'["popup"] = win["popup"]
  BY <1>1, <1>2, <1>4, <1>5, <1>6 DEF Open
<1>10. win["popup"].closing = 0
  BY <1>1 DEF Mirroring
<1> QED
  BY <1>1, <1>2, <1>3, <1>7, <1>8, <1>9, <1>10 DEF Mirroring

LEMMA NextMirrors ==
    ASSUME Inv, Mirroring, [Next]_vars
    PROVE  Mirroring'
<1> SUFFICES ASSUME mirrored' PROVE Mirroring'
  BY DEF Mirroring
<1>1. CASE PopupLoads
  BY <1>1, PopupLoadsMirrors
<1>2. ASSUME NEW key \in Keys, PressMain(key) PROVE FALSE
  BY <1>2 DEF PressMain, Locally
<1>3. ASSUME NEW key \in Keys, PressPopup(key) PROVE Mirroring'
  BY <1>3, PressPopupMirrors
<1>4. CASE OnMessage
  BY <1>4, OnMessageMirrors
<1>5. ASSUME NEW x \in Open, InWindow(x) PROVE FALSE
  <2>1. CASE CloseLater(x)
    <3>1. win[x].closing > 0 /\ mirrored
      BY <2>1 DEF CloseLater
    <3>2. x = "main" \/ x = "popup"
      BY DEF Inv, Decks
    <3> QED
      BY <3>1, <3>2 DEF Mirroring
  <2>2. CASE ~CloseLater(x)
    BY <1>5, <2>2 DEF InWindow, ClickArea, DragEnd, ClickSlide, Go, Locally
  <2> QED
    BY <2>1, <2>2
<1>6. ASSUME ReloadMain \/ ReloadPopup \/ ClosePopup PROVE FALSE
  BY <1>6 DEF ReloadMain, ReloadPopup, ClosePopup, Locally
<1>7. CASE UNCHANGED vars
  BY <1>7 DEF vars, Mirroring, Open
<1> QED
  BY <1>1, <1>2, <1>3, <1>4, <1>5, <1>6, <1>7 DEF Next

LEMMA MirroringShows ==
    ASSUME Inv, Mirroring
    PROVE  Mirrored
<1> SUFFICES ASSUME mirrored
             PROVE  Screen(win["popup"])
                      = Screen(FoldLeft(LAMBDA w, key : OnKey(w, key, FALSE), win["main"], mail))
  BY DEF Mirrored
<1>1. "main" \in Open /\ mail \in Seq(Keys)
  BY DEF Inv, Decks, Rest
<1>2. win["main"] \in GoodDecks
  BY <1>1, GoodWindow
<1>3. PICK h : Obeying(h, win["main"], mail) /\ Alike(win["popup"], h[Len(mail)])
  BY DEF Mirroring
<1>4. PICK g : /\ Obeying(g, win["main"], mail)
               /\ g[Len(mail)]
                    = FoldLeft(LAMBDA u, key : OnKey(u, key, FALSE), win["main"], mail)
  BY <1>1, <1>2, Obeys
<1>5. g[Len(mail)] = h[Len(mail)]
  BY <1>1, <1>3, <1>4, ObeysOnce
<1>6. Screen(win["popup"]) = Screen(g[Len(mail)])
  BY <1>3, <1>5, AlikeOnScreen
<1> QED
  BY <1>4, <1>6

\* The windows, the URL that a popup loads and the posted keys have their types,
\* however many slides there are and whatever slide_config says.
THEOREM TypeCorrect == Spec => []TypeOK
<1>1. Inv => TypeOK
  BY DEF Inv, Decks, Rest, TypeOK, Good, Tidy
<1> QED
  BY <1>1, Invariant, PTL

\* Keys, areas, timers, the history and the other window's messages leave every
\* deck with `current' on curSlide_'s slide and the overview laid out around it.
THEOREM ShowsTheCurrent == Spec => []ShowsCurrent
<1>1. Inv => ShowsCurrent
  BY DEF Inv, Decks, ShowsCurrent, Good, Shows
<1> QED
  BY <1>1, Invariant, PTL

\* enableSlideFrames_ has loaded the iframes of the slide shown, and set the
\* timer for those of the next.
THEOREM FramesAreReady == Spec => []FramesReady
<1>1. Inv => FramesReady
  BY DEF Inv, Decks, FramesReady, Good, Ready
<1> QED
  BY <1>1, Invariant, PTL

\* Without slide areas updateHash_ and onPopState_ keep the URL and the slide
\* together in every window that no query was taken off.
THEOREM HashNamesSlide == Spec => []HashShowsSlide
<1>1. Inv => HashShowsSlide
  <2> SUFFICES ASSUME Inv, NEW x \in Open, ~settings.areas,
                      Url(win[x]).state # Null,
                      \A i \in DOMAIN win[x].hist : win[x].hist[i].query = "absent"
               PROVE  CurrentSlideFromHash(Url(win[x]).hash) = win[x].cur
    BY DEF HashShowsSlide
  <2> DEFINE w == win[x]
  <2>1. Good(w) /\ Follows(w)
    BY DEF Inv, Decks
  <2>2. w.hist \in Seq(Entry) /\ w.at \in 1 .. Len(w.hist) /\ 1 \in DOMAIN w.hist
    BY <2>1 DEF Good, Tidy, Window
  <2>3. w.hist[1].query = "absent"
    BY <2>2
  <2>4. Url(w).state = w.cur /\ Url(w).state \in Nat /\ Url(w).hash = Url(w).state + 1
    BY <2>1, <2>2, <2>3 DEF Good, Named, Follows, Url
  <2> HIDE DEF w
  <2>5. CurrentSlideFromHash(Url(w).hash) = w.cur
    BY <2>4 DEF CurrentSlideFromHash
  <2> QED
    BY <2>5 DEF w
<1> QED
  BY <1>1, Invariant, PTL

\* nextSlide leaves no slide with an item still to show, highlighted or faded,
\* in whichever window the key, the area or the drag was.
THEOREM ListsAreShownFirst == Spec => BuildsFirst
<1>1. Inv /\ [Next]_vars => [BuildsAll]_vars
  BY NextInv
<1>2. BuildsFirst <=> [][BuildsAll]_vars
  BY DEF BuildsFirst, BuildsAll, Builds
<1> QED
  BY <1>1, <1>2, Invariant, PTL DEF Spec

\* What the popup posts makes the audience's window show what the popup shows,
\* although slide-controller.js sends keys and never the slide, both windows keep
\* their own notes, and F and W do nothing when onMessage_ dispatches them.
THEOREM AudienceFollows == Spec => []Mirrored
<1>1. Init => Mirroring
  BY DEF Init, Mirroring
<1>2. Inv /\ Mirroring /\ [Next]_vars => Mirroring'
  BY NextMirrors
<1>3. Inv /\ Mirroring => Mirrored
  BY MirroringShows
<1> QED
  BY <1>1, <1>2, <1>3, Invariant, PTL DEF Spec
=============================================================================
