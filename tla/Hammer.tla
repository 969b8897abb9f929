------------------------------- MODULE Hammer -------------------------------
(***************************************************************************)
(* hammer.js: from the touches, or the mouse, on an element to gestures.   *)
(* handleEvents runs for each event; what it remembers in between are the  *)
(* variables that start with _ in the source.  Time passes in ticks, and   *)
(* the hold timer fires when it is due or later.                           *)
(***************************************************************************)
EXTENDS Integers, Sequences, SequencesExt

CONSTANTS
    Places,        \* [x, y], any two further apart than drag_min_distance
    HoldTimeout,   \* hold_timeout and
    TapInterval,   \* tap_max_interval, in ticks
    OptionSets,    \* the options a Hammer may be made with
    MaxFingers     \* bound: fingers, or buttons of a mouse, at a time

Options == [drag : BOOLEAN, drag_vertical : BOOLEAN, drag_horizontal : BOOLEAN,
            transform : BOOLEAN, tap : BOOLEAN, tap_double : BOOLEAN,
            hold : BOOLEAN]

ASSUME HammerAssumption ==
    /\ Places \subseteq [x : Int, y : Int]
    /\ HoldTimeout \in Nat \ {0}
    /\ TapInterval \in Nat \ {0}
    /\ OptionSets \subseteq Options
    /\ MaxFingers \in Nat \ {0}

Gestures == {"null", "hold", "drag", "transform", "tap", "double_tap"}
Directions == {"down", "left", "up", "right"}
Events == {"hold", "dragstart", "drag", "dragend", "transformstart",
           "transform", "transformend", "tap", "doubletap"}

VARIABLES
    device,        \* "touch", or "mouse" where there is no ontouchstart
    options,
    touches,       \* where the fingers are, the first one first
    buttons,       \* how many buttons of the mouse are down
    start,         \* _pos.start
    first,         \* _first
    gesture,       \* _gesture
    prevGesture,   \* _prev_gesture
    direction,     \* _direction
    mousedown,     \* _mousedown
    age,           \* ticks since _touch_start_time, HoldTimeout if more
    sinceTap,      \* ticks since _prev_tap_end_time, TapInterval if more or null
    sinceTapStart, \* what sinceTap was at _touch_start_time
    prevTap,       \* _prev_tap_pos
    timer,         \* _hold_timer is set and has not fired
    fired,         \* the events triggered by the last step
    held,          \* hold was triggered since the last touchstart
    started,       \* "drag" or "transform": triggered its start and no end yet
    many           \* a second finger or button joined since all were up

state   == <<start, first, gesture, prevGesture, direction, mousedown, age,
             sinceTap, sinceTapStart, prevTap, timer>>
history == <<fired, held, started, many>>
vars    == <<device, options, touches, buttons, state, history>>

-----------------------------------------------------------------------------
(* Directions                                                               *)

\* getDirectionFromAngle of the angle from one place to another; y grows down.
DirectionOf(from, to) ==
    LET dx == to.x - from.x
        dy == to.y - from.y
    IN CASE dy > 0 /\ dx <= dy /\ -dx < dy   -> "down"
         [] dx < 0 /\ dy <= -dx /\ dx <= dy  -> "left"
         [] dy < 0 /\ dy < dx /\ dx < -dy    -> "up"
         [] OTHER                            -> "right"

IsVertical(dir) == dir \in {"up", "down"}
Allowed(dir) == IF IsVertical(dir) THEN options.drag_vertical ELSE options.drag_horizontal

-----------------------------------------------------------------------------
(* What a step triggers                                                     *)

StartOf(g) == IF g = "drag" THEN "dragstart" ELSE "transformstart"
EndOf(g) == IF g = "drag" THEN "dragend" ELSE "transformend"

Trigger(events) ==
    /\ fired' = events
    /\ held' = (held \/ "hold" \in events)
    /\ started' = {g \in {"drag", "transform"} :
                     StartOf(g) \in events \/ (g \in started /\ EndOf(g) \notin events)}

-----------------------------------------------------------------------------
(* handleEvents                                                             *)

\* Mutant: _first is not set.
OnStartNotFirst(places) ==
    /\ start' = places /\ age' = 0 /\ sinceTapStart' = sinceTap /\ mousedown' = TRUE
    /\ IF options.hold THEN gesture' = "hold" /\ timer' = TRUE
                       ELSE UNCHANGED <<gesture, timer>>
    /\ fired' = {} /\ held' = FALSE
    /\ started' = IF mousedown THEN started ELSE {}
    /\ UNCHANGED <<first, prevGesture, direction, sinceTap, prevTap>>

\* Mutant: the hold timer is not set.
OnStartUntimed(places) ==
    /\ start' = places /\ age' = 0 /\ sinceTapStart' = sinceTap /\ mousedown' = TRUE
    /\ first' = TRUE
    /\ gesture' = IF options.hold THEN "hold" ELSE gesture
    /\ fired' = {} /\ held' = FALSE
    /\ started' = IF mousedown THEN started ELSE {}
    /\ UNCHANGED <<timer, prevGesture, direction, sinceTap, prevTap>>

\* touchstart and mousedown, with gestures.hold.
OnStart(places) ==
    /\ start' = places
    /\ age' = 0
    /\ sinceTapStart' = sinceTap
    /\ first' = TRUE
    /\ mousedown' = TRUE
    /\ IF options.hold THEN gesture' = "hold" /\ timer' = TRUE
                       ELSE UNCHANGED <<gesture, timer>>
    /\ fired' = {} /\ held' = FALSE
    /\ started' = IF mousedown THEN started ELSE {}
    /\ UNCHANGED <<prevGesture, direction, sinceTap, prevTap>>

\* gestures.transform: `turned' says that scale or rotation is past a treshold.
Transforms(places, turned) ==
    /\ options.transform
    /\ Len(places) = 2
    /\ gesture # "drag"
    /\ gesture = "transform" \/ turned

\* Mutant: a drag back to where it began is no drag.
AimsOnlyAway(places) == options.drag /\ places[1] # start[1]

\* Past the conditions of gestures.drag; _direction has changed by then.
Aims(places) ==
    (options.drag /\ places[1] # start[1]) \/ gesture = "drag"
Drags(places) ==
    /\ Aims(places)
    /\ Allowed(DirectionOf(start[1], places[1])) \/ places[1] = start[1]

\* touchmove and mousemove.
OnMove(places, turned) ==
    IF ~mousedown
    THEN Trigger({}) /\ UNCHANGED state
    ELSE LET transforms == Transforms(places, turned)
             drags == ~transforms /\ Drags(places)
         IN /\ gesture' = CASE transforms -> "transform"
                            [] drags      -> "drag"
                            [] OTHER      -> gesture
            /\ direction' = IF ~transforms /\ Aims(places)
                            THEN DirectionOf(start[1], places[1]) ELSE direction
            /\ first' = (first /\ ~transforms /\ ~drags)
            /\ Trigger(IF transforms
                       THEN {"transform"} \cup (IF first THEN {"transformstart"} ELSE {})
                       ELSE IF drags
                       THEN {"drag"} \cup (IF first THEN {"dragstart"} ELSE {})
                       ELSE {})
            /\ UNCHANGED <<start, prevGesture, mousedown, age, sinceTap,
                           sinceTapStart, prevTap, timer>>

\* Mutant: a tap is not too late at the very end.
TapTooLateAfter == options.hold /\ age > HoldTimeout

\* gestures.tap: too late when hold is due, whether its timer has fired or not.
TapTooLate == options.hold /\ age >= HoldTimeout

IsDoubleTap ==
    /\ options.tap_double
    /\ prevGesture = "tap"
    /\ sinceTapStart < TapInterval
    /\ prevTap[1] = start[1]

\* touchend, touchcancel, mouseup and mouseout: `rest' are the fingers left.
Ignored(rest) == ~mousedown \/ (gesture # "transform" /\ rest > 0)

\* Mutant: the gesture is named like its event.
OutcomeMisspelt ==
    IF gesture \in {"drag", "transform"} \/ TapTooLate THEN gesture
    ELSE IF IsDoubleTap THEN "doubletap" ELSE "tap"

Outcome ==
    IF gesture \in {"drag", "transform"} \/ TapTooLate THEN gesture
    ELSE IF IsDoubleTap THEN "double_tap" ELSE "tap"

OutcomeEvents ==
    CASE gesture = "drag"         -> {"dragend"}
      [] gesture = "transform"    -> {"transformend"}
      [] Outcome = "double_tap"   -> {"doubletap"}
      [] Outcome = "tap"          -> IF options.tap THEN {"tap"} ELSE {}
      [] OTHER                    -> {}

OnEnd(rest) ==
    IF Ignored(rest)
    THEN Trigger({}) /\ UNCHANGED state
    ELSE /\ mousedown' = FALSE
         /\ prevGesture' = Outcome
         /\ sinceTap' = CASE Outcome = "tap"        -> 0
                          [] Outcome = "double_tap" -> TapInterval
                          [] OTHER                  -> sinceTap
         /\ prevTap' = IF Outcome = "tap" THEN start ELSE prevTap
         /\ Trigger(OutcomeEvents)
         /\ start' = <<>> /\ first' = FALSE /\ gesture' = "null"
         /\ UNCHANGED <<direction, age, sinceTapStart, timer>>

-----------------------------------------------------------------------------
(* Fingers                                                                  *)

TouchStart(place) ==
    /\ device = "touch" /\ Len(touches) < MaxFingers
    /\ touches' = Append(touches, place)
    /\ OnStart(touches')
    /\ many' = (touches # <<>>)
    /\ UNCHANGED <<device, options, buttons>>

TouchMove(finger, place, turned) ==
    /\ device = "touch" /\ place # touches[finger]
    /\ touches' = [touches EXCEPT ![finger] = place]
    /\ OnMove(touches', turned)
    /\ UNCHANGED <<device, options, buttons, many>>

TouchEnd(finger) ==
    /\ device = "touch"
    /\ touches' = RemoveAt(touches, finger)
    /\ OnEnd(Len(touches'))
    /\ UNCHANGED <<device, options, buttons, many>>

-----------------------------------------------------------------------------
(* The mouse                                                                *)

MouseDown ==
    /\ device = "mouse" /\ buttons < MaxFingers
    /\ buttons' = buttons + 1
    /\ OnStart(touches)
    /\ many' = (buttons > 0)
    /\ UNCHANGED <<device, options, touches>>

MouseMove(place) ==
    /\ device = "mouse" /\ place # touches[1]
    /\ touches' = <<place>>
    /\ OnMove(touches', FALSE)
    /\ UNCHANGED <<device, options, buttons, many>>

MouseUp ==
    /\ device = "mouse" /\ buttons > 0
    /\ buttons' = buttons - 1
    /\ OnEnd(0)
    /\ UNCHANGED <<device, options, touches, many>>

\* The pointer leaves the element; its buttons may be let go of elsewhere.
MouseOut ==
    /\ device = "mouse"
    /\ buttons' \in {0, buttons}
    /\ OnEnd(0)
    /\ UNCHANGED <<device, options, touches, many>>

-----------------------------------------------------------------------------
(* Time                                                                     *)

Later(ticks, end) == IF ticks < end THEN ticks + 1 ELSE ticks

Tick ==
    /\ age' = Later(age, HoldTimeout)
    /\ sinceTap' = Later(sinceTap, TapInterval)
    /\ <<age', sinceTap'>> # <<age, sinceTap>>
    /\ fired' = {}
    /\ UNCHANGED <<device, options, touches, buttons, start, first, gesture,
                   prevGesture, direction, mousedown, sinceTapStart, prevTap,
                   timer, held, started, many>>

HoldTimer ==
    /\ timer /\ age >= HoldTimeout
    /\ timer' = FALSE
    /\ Trigger(IF gesture = "hold" THEN {"hold"} ELSE {})
    /\ UNCHANGED <<device, options, touches, buttons, start, first, gesture,
                   prevGesture, direction, mousedown, age, sinceTap,
                   sinceTapStart, prevTap, many>>

-----------------------------------------------------------------------------
Init ==
    /\ \/ device = "touch" /\ touches = <<>>
       \/ device = "mouse" /\ touches \in {<<p>> : p \in Places}
    /\ options \in OptionSets
    /\ buttons = 0
    /\ start = <<>> /\ first = FALSE
    /\ gesture = "null" /\ prevGesture = "null" /\ direction = "right"
    /\ mousedown = FALSE
    /\ age = HoldTimeout /\ sinceTap = TapInterval /\ sinceTapStart = TapInterval
    /\ prevTap = <<>> /\ timer = FALSE
    /\ fired = {} /\ held = FALSE /\ started = {} /\ many = FALSE

Fingers ==
    \E place \in Places :
      \/ TouchStart(place)
      \/ \E finger \in DOMAIN touches, turned \in BOOLEAN :
           TouchMove(finger, place, turned)
      \/ MouseMove(place)

Next ==
    \/ Fingers
    \/ \E finger \in DOMAIN touches : TouchEnd(finger)
    \/ MouseDown
    \/ MouseUp
    \/ MouseOut
    \/ Tick
    \/ HoldTimer

Spec == Init /\ [][Next]_vars

\* Time passes, and the page's event loop gets to a timer that is due.
FairSpec == Spec /\ WF_vars(Tick) /\ WF_vars(HoldTimer)

-----------------------------------------------------------------------------
(* Properties                                                               *)

\* What handleEvents remembers, the clocks and the history have their types.
TypeOK ==
    /\ device \in {"touch", "mouse"}
    /\ options \in OptionSets
    /\ touches \in Seq(Places) /\ start \in Seq(Places) /\ prevTap \in Seq(Places)
    /\ buttons \in 0 .. MaxFingers
    /\ gesture \in Gestures /\ prevGesture \in Gestures
    /\ direction \in Directions
    /\ age \in 0 .. HoldTimeout
    /\ sinceTap \in 0 .. TapInterval /\ sinceTapStart \in 0 .. TapInterval
    /\ first \in BOOLEAN /\ mousedown \in BOOLEAN /\ timer \in BOOLEAN
    /\ held \in BOOLEAN /\ many \in BOOLEAN
    /\ fired \subseteq Events
    /\ started \subseteq {"drag", "transform"}

\* "dragstart is triggered, so dragend is possible", hammer.js:462, and the same
\* of transform, line 473: what ends has started, whichever fingers came and
\* went in between.
EndsAfterStart ==
    [][/\ "dragend" \in fired' => "drag" \in started
       /\ "transformend" \in fired' => "transform" \in started]_vars

\* "dont fire when hold is fired", hammer.js:356: however late the timer is, one
\* press does not give a hold and a tap as well, in either order.
HoldOrTap ==
    [][("hold" \in fired' => mousedown) /\ (fired' \cap {"tap", "doubletap"} # {} => ~held)]_vars

\* As long as one finger, or one button, does it all, a drag that has started is
\* still the gesture under way, so that lifting the finger triggers dragend, with
\* the direction from where the finger came down to where it is.
OneFingerDrag ==
    ("drag" \in started /\ ~many /\ mousedown) =>
      gesture = "drag" /\ direction = DirectionOf(start[1], touches[1])

\* A press that nothing else comes of becomes a hold, unless another finger or
\* button joins, which starts the wait again.
PressesResolve ==
    (mousedown /\ gesture = "hold")
      ~> (held \/ gesture # "hold" \/ Len(touches) > 1 \/ buttons > 1)
=============================================================================
