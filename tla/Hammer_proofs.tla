---------------------------- MODULE Hammer_proofs ----------------------------
(***************************************************************************)
(* Proofs about Hammer, for any places, options, timeouts and number of    *)
(* fingers: types, EndsAfterStart, HoldOrTap and OneFingerDrag.            *)
(***************************************************************************)
EXTENDS Hammer, SequenceTheorems, TLAPS

(***************************************************************************)
(* The inductive invariant.                                                *)
(***************************************************************************)

\* With nothing on the element there is no press, and without a press no gesture.
Pressed ==
    /\ device = "touch" /\ touches = <<>> => ~mousedown
    /\ device = "mouse" => Len(touches) = 1 /\ (buttons = 0 => ~mousedown)
    /\ ~mousedown => gesture = "null"
    /\ gesture \in {"null", "hold", "drag", "transform"}
    /\ gesture = "hold" => options.hold
    /\ gesture = "transform" => options.transform

\* A gesture under way was started: after the first move that counts _first is
\* false, and a transform that is under way goes on until a finger comes or goes.
Begun ==
    /\ gesture \in {"drag", "transform"} => gesture \in started
    /\ mousedown /\ ~first =>
         gesture = "drag" \/ (gesture = "transform" /\ Len(touches) = 2)

\* Once hold has been triggered it is too late for a tap.
HeldLate == held => options.hold /\ age >= HoldTimeout

Alone == device = "touch" /\ ~many => Len(touches) <= 1

GestureInv == TypeOK /\ Pressed /\ Begun /\ HeldLate /\ Alone /\ OneFingerDrag

(***************************************************************************)
(* What a step triggers and where a move points.                           *)
(***************************************************************************)

LEMMA DirectionTyped == \A from, to : DirectionOf(from, to) \in Directions
  BY DEF DirectionOf, Directions

LEMMA TriggerGives ==
    ASSUME NEW events, Trigger(events), TypeOK
    PROVE  /\ fired' = events /\ held' = (held \/ "hold" \in events)
           /\ started' \subseteq {"drag", "transform"}
           /\ events \cap {"dragend", "transformend"} = {} => started \subseteq started'
           /\ "dragstart" \in events => "drag" \in started'
           /\ "transformstart" \in events => "transform" \in started'
           /\ "drag" \in started' => "drag" \in started \/ "dragstart" \in events
  BY DEF Trigger, TypeOK, StartOf, EndOf
LEMMA OutcomeGives ==
    ASSUME TypeOK, Pressed
    PROVE  /\ Outcome \in Gestures
           /\ OutcomeEvents \subseteq Events \ {"hold", "dragstart", "transformstart"}
           /\ "dragend" \in OutcomeEvents => gesture = "drag"
           /\ "transformend" \in OutcomeEvents => gesture = "transform"
           /\ OutcomeEvents \cap {"tap", "doubletap"} # {} => ~TapTooLate
<1>1. /\ Outcome \in Gestures
      /\ Outcome \in {"tap", "double_tap"} => ~TapTooLate /\ gesture \notin {"drag", "transform"}
      /\ gesture \in {"drag", "transform"} => Outcome = gesture
  BY DEF Outcome, TypeOK, Gestures, Pressed
<1>2. \/ gesture = "drag" /\ OutcomeEvents = {"dragend"}
      \/ gesture = "transform" /\ OutcomeEvents = {"transformend"}
      \/ Outcome \in {"tap", "double_tap"} /\ OutcomeEvents \subseteq {"tap", "doubletap"}
      \/ OutcomeEvents = {}
  <2>1. CASE gesture = "drag"
    BY <1>1, <2>1 DEF OutcomeEvents
  <2>2. CASE gesture = "transform"
    BY <1>1, <2>2 DEF OutcomeEvents
  <2>3. CASE gesture \notin {"drag", "transform"}
    BY <1>1, <2>3 DEF OutcomeEvents
  <2> QED
    BY <2>1, <2>2, <2>3
<1> QED
  BY <1>1, <1>2 DEF Events

\* RemoveAt takes one finger away.
LEMMA RemoveAtGives ==
    ASSUME NEW s \in Seq(Places), NEW n \in DOMAIN s
    PROVE  RemoveAt(s, n) \in Seq(Places) /\ Len(RemoveAt(s, n)) = Len(s) - 1
<1>1. Len(s) \in Nat /\ DOMAIN s = 1 .. Len(s) /\ n \in 1 .. Len(s)
  BY LenProperties
<1>2. \A k \in 1 .. Len(s) : s[k] \in Places
  BY ElementOfSeq
<1>3. SubSeq(s, 1, n - 1) \in Seq(Places) /\ Len(SubSeq(s, 1, n - 1)) = n - 1
  BY <1>1, <1>2, SubSeqProperties
<1>4. SubSeq(s, n + 1, Len(s)) \in Seq(Places) /\ Len(SubSeq(s, n + 1, Len(s))) = Len(s) - n
  BY <1>1, <1>2, SubSeqProperties
<1> QED
  <2> DEFINE a == SubSeq(s, 1, n - 1)
             b == SubSeq(s, n + 1, Len(s))
  <2>1. a \in Seq(Places) /\ b \in Seq(Places) /\ Len(a) = n - 1 /\ Len(b) = Len(s) - n
    BY <1>3, <1>4
  <2>2. RemoveAt(s, n) = a \o b
    BY DEF RemoveAt
  <2> HIDE DEF a, b
  <2>3. a \o b \in Seq(Places) /\ Len(a \o b) = Len(a) + Len(b)
    BY <2>1, ConcatProperties
  <2> QED
    BY <1>1, <2>1, <2>2, <2>3

(***************************************************************************)
(* handleEvents.                                                           *)
(***************************************************************************)

\* A press begins: the fingers are where `places' says.
LEMMA StartStep ==
    ASSUME GestureInv, NEW places \in Seq(Places), OnStart(places),
           touches' = places, device' = device, options' = options,
           buttons' \in 0 .. MaxFingers, many' \in BOOLEAN,
           device = "touch" => places # <<>> /\ (~many' => Len(places) <= 1),
           device = "mouse" => Len(places) = 1 /\ buttons' > 0,
           ~many' => ~mousedown
    PROVE  GestureInv'
<1> USE DEF GestureInv
<1>1. TypeOK'
  <2>1. age' \in 0 .. HoldTimeout /\ sinceTapStart' \in 0 .. TapInterval
    BY HammerAssumption DEF TypeOK, OnStart
  <2>2. gesture' \in Gestures /\ timer' \in BOOLEAN
    BY DEF TypeOK, OnStart, Gestures
  <2>3. started' \subseteq {"drag", "transform"} /\ fired' = {} /\ held' = FALSE
    BY DEF TypeOK, OnStart
  <2>4. mousedown' \in BOOLEAN /\ first' \in BOOLEAN /\ start' = places
    BY DEF OnStart
  <2>5. UNCHANGED <<prevGesture, direction, sinceTap, prevTap>>
    BY DEF OnStart
  <2> QED
    BY <2>1, <2>2, <2>3, <2>4, <2>5 DEF TypeOK
<1>2. Pressed'
  BY DEF Pressed, OnStart, TypeOK
<1>3. Begun'
  BY DEF Begun, Pressed, OnStart
<1>4. HeldLate' /\ Alone' /\ OneFingerDrag'
  BY DEF HeldLate, Alone, OneFingerDrag, OnStart
<1> QED
  BY <1>1, <1>2, <1>3, <1>4

\* A finger, or the mouse, has moved.
LEMMA MoveStep ==
    ASSUME GestureInv, NEW places \in Seq(Places), NEW turned, OnMove(places, turned),
           touches' = places, Len(places) = Len(touches), Len(places) > 0,
           UNCHANGED <<device, options, buttons, many>>
    PROVE  /\ GestureInv'
           /\ fired' \cap {"dragend", "transformend", "hold", "tap", "doubletap"} = {}
<1> USE DEF GestureInv
<1>1. CASE ~mousedown
  <2>1. Trigger({}) /\ UNCHANGED state
    BY <1>1 DEF OnMove
  <2>2. fired' = {} /\ held' = held /\ started \subseteq started'
        /\ started' \subseteq {"drag", "transform"}
    BY <2>1, TriggerGives DEF TypeOK
  <2>3. TypeOK'
    BY <2>1, <2>2 DEF TypeOK, state
  <2>4. Pressed' /\ Begun' /\ HeldLate' /\ Alone' /\ OneFingerDrag'
    BY <1>1, <2>1, <2>2 DEF TypeOK, state, Pressed, Begun, HeldLate, Alone, OneFingerDrag
  <2> QED
    BY <2>2, <2>3, <2>4
<1>2. CASE mousedown
  <2> DEFINE transforms == Transforms(places, turned)
             drags == ~transforms /\ Drags(places)
             events == IF transforms
                       THEN {"transform"} \cup (IF first THEN {"transformstart"} ELSE {})
                       ELSE IF drags
                       THEN {"drag"} \cup (IF first THEN {"dragstart"} ELSE {})
                       ELSE {}
  <2>1. /\ gesture' = CASE transforms -> "transform"
                        [] drags      -> "drag"
                        [] OTHER      -> gesture
        /\ direction' = IF ~transforms /\ Aims(places)
                        THEN DirectionOf(start[1], places[1]) ELSE direction
        /\ first' = (first /\ ~transforms /\ ~drags)
        /\ Trigger(events)
        /\ UNCHANGED <<start, prevGesture, mousedown, age, sinceTap,
                       sinceTapStart, prevTap, timer>>
    BY <1>2 DEF OnMove
  <2>2. /\ fired' = events /\ held' = (held \/ "hold" \in events)
        /\ started' \subseteq {"drag", "transform"}
        /\ events \cap {"dragend", "transformend"} = {} => started \subseteq started'
        /\ "dragstart" \in events => "drag" \in started'
        /\ "transformstart" \in events => "transform" \in started'
        /\ "drag" \in started' => "drag" \in started \/ "dragstart" \in events
    BY <2>1, TriggerGives
  <2>3. transforms => /\ options.transform /\ Len(places) = 2 /\ gesture # "drag"
    BY DEF Transforms
  <2>4. gesture = "transform" /\ options.transform /\ Len(places) = 2 => transforms
    BY DEF Transforms
  <2>5. drags => ~transforms /\ Aims(places)
    BY DEF Drags
  <2>6. gesture = "drag" => Aims(places)
    BY DEF Aims
  <2>7. /\ transforms => gesture' = "transform"
        /\ drags => gesture' = "drag"
        /\ ~transforms /\ ~drags => gesture' = gesture
    BY <2>1
  <2>8. /\ transforms => events \in {{"transform"}, {"transform", "transformstart"}}
        /\ transforms /\ first => "transformstart" \in events
        /\ drags => events \in {{"drag"}, {"drag", "dragstart"}}
        /\ drags /\ first => "dragstart" \in events
        /\ "dragstart" \in events => drags
        /\ ~transforms /\ ~drags => events = {}
    OBVIOUS
  <2> HIDE DEF events, drags, transforms
  <2>9. events \subseteq {"transform", "transformstart", "drag", "dragstart"}
    BY <2>8
  <2>10. /\ held' = held /\ started \subseteq started'
    BY <2>2, <2>9 DEF TypeOK
  <2>11. TypeOK'
    <3>1. gesture' \in Gestures
      BY <2>7 DEF TypeOK, Gestures
    <3>2. direction' \in Directions
      BY <2>1, DirectionTyped DEF TypeOK
    <3>3. fired' \subseteq Events
      BY <2>2, <2>9 DEF Events
    <3> QED
      BY <2>1, <2>2, <2>10, <3>1, <3>2, <3>3 DEF TypeOK
  <2>12. Pressed'
    BY <1>2, <2>1, <2>3, <2>7 DEF Pressed, TypeOK
  <2>13. Begun'
    <3>1. gesture' \in {"drag", "transform"} => gesture' \in started'
      BY <1>2, <2>2, <2>3, <2>4, <2>7, <2>8, <2>10 DEF Begun, Pressed
    <3>2. ~first' => gesture' = "drag" \/ (gesture' = "transform" /\ Len(places) = 2)
      BY <1>2, <2>1, <2>3, <2>7 DEF Begun
    <3> QED
      BY <3>1, <3>2 DEF Begun
  <2>14. OneFingerDrag'
    <3> SUFFICES ASSUME "drag" \in started', ~many
                 PROVE  gesture' = "drag" /\ direction' = DirectionOf(start[1], places[1])
      BY <2>1 DEF OneFingerDrag
    <3>1. ~transforms
      <4>1. Len(places) # 2
        <5>1. Len(touches) <= 1
          <6>1. CASE device = "touch"
            BY <6>1 DEF Alone
          <6>2. CASE device = "mouse"
            BY <6>2 DEF Pressed
          <6> QED
            BY <6>1, <6>2 DEF TypeOK
        <5> QED
          BY <5>1
      <4> QED
        BY <2>3, <4>1
    <3>2. gesture' = "drag"
      BY <1>2, <2>2, <2>7, <2>8, <3>1 DEF OneFingerDrag
    <3>3. Aims(places)
      BY <2>5, <2>6, <2>7, <3>1, <3>2
    <3> QED
      BY <2>1, <3>1, <3>2, <3>3
  <2>15. HeldLate' /\ Alone'
    BY <2>1, <2>10 DEF HeldLate, Alone
  <2>16. fired' \cap {"dragend", "transformend", "hold", "tap", "doubletap"} = {}
    BY <2>2, <2>9
  <2> QED
    BY <2>11, <2>12, <2>13, <2>14, <2>15, <2>16
<1> QED
  BY <1>1, <1>2 DEF TypeOK
\* A finger is lifted, or a button, or the mouse goes: `rest' fingers are left.
LEMMA EndStep ==
    ASSUME GestureInv, NEW rest \in Nat, OnEnd(rest),
           UNCHANGED <<device, options, many>>,
           touches' \in Seq(Places), buttons' \in 0 .. MaxFingers,
           device = "touch" => /\ Len(touches') = rest /\ Len(touches) = rest + 1
                               /\ touches' = <<>> => rest = 0,
           device = "mouse" => touches' = touches /\ rest = 0
    PROVE  /\ GestureInv'
           /\ "hold" \notin fired'
           /\ "dragend" \in fired' => "drag" \in started
           /\ "transformend" \in fired' => "transform" \in started
           /\ fired' \cap {"tap", "doubletap"} # {} => ~held
<1> USE DEF GestureInv
<1>1. CASE Ignored(rest)
  <2>1. Trigger({}) /\ UNCHANGED state
    BY <1>1 DEF OnEnd
  <2>2. /\ fired' = {} /\ held' = held /\ started \subseteq started'
        /\ started' \subseteq {"drag", "transform"}
        /\ "drag" \in started' => "drag" \in started
    BY <2>1, TriggerGives DEF TypeOK
  <2>3. ~mousedown \/ (gesture # "transform" /\ rest > 0)
    BY <1>1 DEF Ignored
  <2>4. TypeOK'
    BY <2>1, <2>2 DEF TypeOK, state
  <2>5. Pressed'
    BY <2>1, <2>3 DEF TypeOK, state, Pressed
  <2>6. Begun'
    BY <2>1, <2>2, <2>3 DEF state, Begun, Pressed
  <2>7. device \in {"touch", "mouse"}
    BY DEF TypeOK
  <2>8. Alone' /\ HeldLate'
    BY <2>1, <2>2 DEF state, Alone, HeldLate
  <2>9. OneFingerDrag'
    <3>1. ~many => ~mousedown
      BY <2>3, <2>7 DEF Alone
    <3> QED
      BY <2>1, <3>1 DEF state, OneFingerDrag
  <2> QED
    BY <2>2, <2>4, <2>5, <2>6, <2>8, <2>9
<1>2. CASE ~Ignored(rest)
  <2>1. /\ mousedown' = FALSE
        /\ prevGesture' = Outcome
        /\ sinceTap' = CASE Outcome = "tap"        -> 0
                         [] Outcome = "double_tap" -> TapInterval
                         [] OTHER                  -> sinceTap
        /\ prevTap' = IF Outcome = "tap" THEN start ELSE prevTap
        /\ Trigger(OutcomeEvents)
        /\ start' = <<>> /\ first' = FALSE /\ gesture' = "null"
        /\ UNCHANGED <<direction, age, sinceTapStart, timer>>
    BY <1>2 DEF OnEnd
  <2>2. mousedown
    BY <1>2 DEF Ignored
  <2>3. /\ fired' = OutcomeEvents /\ held' = (held \/ "hold" \in OutcomeEvents)
        /\ started' \subseteq {"drag", "transform"}
    BY <2>1, TriggerGives
  <2>4. /\ Outcome \in Gestures
        /\ OutcomeEvents \subseteq Events \ {"hold", "dragstart", "transformstart"}
        /\ "dragend" \in OutcomeEvents => gesture = "drag"
        /\ "transformend" \in OutcomeEvents => gesture = "transform"
        /\ OutcomeEvents \cap {"tap", "doubletap"} # {} => ~TapTooLate
    BY OutcomeGives
  <2>5. held' = held
    BY <2>3, <2>4 DEF TypeOK
  <2>6. sinceTap' \in 0 .. TapInterval
    BY <2>1, HammerAssumption DEF TypeOK
  <2>7. TypeOK'
    BY <2>1, <2>3, <2>4, <2>5, <2>6, EmptySeq DEF TypeOK, Gestures
  <2>8. Pressed' /\ Begun' /\ OneFingerDrag'
    BY <2>1 DEF Pressed, Begun, OneFingerDrag
  <2>9. HeldLate'
    BY <2>1, <2>5 DEF HeldLate
  <2>10. device \in {"touch", "mouse"}
    BY DEF TypeOK
  <2>11. Alone'
    BY <2>10 DEF Alone
  <2>12. OutcomeEvents \cap {"tap", "doubletap"} # {} => ~held
    BY <2>4 DEF TapTooLate, HeldLate
  <2> QED
    BY <2>3, <2>4, <2>7, <2>8, <2>9, <2>11, <2>12 DEF Begun
<1> QED
  BY <1>1, <1>2

(***************************************************************************)
(* Every step.                                                             *)
(***************************************************************************)

\* What a step triggers, and the invariant after it.
LEMMA GestureStep ==
    ASSUME GestureInv, [Next]_vars
    PROVE  /\ GestureInv'
           /\ UNCHANGED vars \/
                /\ "dragend" \in fired' => "drag" \in started
                /\ "transformend" \in fired' => "transform" \in started
                /\ "hold" \in fired' => mousedown
                /\ fired' \cap {"tap", "doubletap"} # {} => ~held
<1> DEFINE Good == /\ GestureInv'
                   /\ "dragend" \in fired' => "drag" \in started
                   /\ "transformend" \in fired' => "transform" \in started
                   /\ "hold" \in fired' => mousedown
                   /\ fired' \cap {"tap", "doubletap"} # {} => ~held
<1>0. /\ touches \in Seq(Places) /\ Len(touches) \in Nat /\ buttons \in 0 .. MaxFingers
      /\ DOMAIN touches = 1 .. Len(touches) /\ device \in {"touch", "mouse"}
      /\ TypeOK /\ Pressed /\ Begun /\ HeldLate /\ Alone /\ OneFingerDrag
  BY LenProperties DEF TypeOK, GestureInv
<1>1. ASSUME NEW place \in Places, TouchStart(place)
      PROVE  Good
  <2>1. touches' \in Seq(Places) /\ Len(touches') = Len(touches) + 1 /\ touches' # <<>>
    BY <1>0, <1>1, AppendProperties DEF TouchStart
  <2>2. /\ many' = (touches # <<>>) /\ device = "touch" /\ OnStart(touches')
        /\ UNCHANGED <<device, options, buttons>>
    BY <1>1 DEF TouchStart
  <2>3. touches = <<>> => Len(touches) = 0 /\ ~mousedown
    BY <1>0, <2>2 DEF Pressed
  <2>4. many' \in BOOLEAN /\ (~many' => touches = <<>>)
    BY <2>2
  <2>5. PICK places \in Seq(Places) : places = touches'
    BY <2>1
  <2>6. /\ ~many' => ~mousedown /\ Len(places) <= 1
        /\ places # <<>> /\ OnStart(places) /\ device # "mouse"
        /\ buttons' \in 0 .. MaxFingers /\ device' = device /\ options' = options
    BY <1>0, <2>1, <2>2, <2>3, <2>4, <2>5
  <2>7. GestureInv'
    BY <2>4, <2>5, <2>6, StartStep
  <2>8. fired' = {}
    BY <1>1 DEF TouchStart, OnStart
  <2> QED
    BY <2>7, <2>8
<1>2. CASE MouseDown
  <2>1. GestureInv'
    <3>1. buttons' \in 0 .. MaxFingers /\ buttons' > 0 /\ many' \in BOOLEAN
      BY <1>0, <1>2, HammerAssumption DEF MouseDown
    <3>2. ~many' => ~mousedown
      <4>1. device = "mouse" /\ many' = (buttons > 0)
        BY <1>2 DEF MouseDown
      <4>2. CASE buttons > 0
        BY <4>1, <4>2
      <4>3. CASE ~(buttons > 0)
        <5>1. buttons = 0
          BY <1>0, <4>3
        <5> QED
          BY <1>0, <4>1, <5>1 DEF Pressed
      <4> QED
        BY <4>2, <4>3
    <3>3. /\ OnStart(touches) /\ touches' = touches /\ device' = device /\ options' = options
          /\ device # "touch" /\ Len(touches) = 1
      BY <1>0, <1>2 DEF MouseDown, Pressed
    <3> QED
      BY <1>0, <3>1, <3>2, <3>3, StartStep
  <2>2. fired' = {}
    BY <1>2 DEF MouseDown, OnStart
  <2> QED
    BY <2>1, <2>2
<1>3. ASSUME NEW finger \in DOMAIN touches, NEW place \in Places, NEW turned \in BOOLEAN,
             TouchMove(finger, place, turned)
      PROVE  Good
  <2>1. touches' \in Seq(Places) /\ Len(touches') = Len(touches) /\ Len(touches') > 0
    BY <1>0, <1>3, ExceptSeq DEF TouchMove
  <2>2. OnMove(touches', turned) /\ UNCHANGED <<device, options, buttons, many>>
    BY <1>3 DEF TouchMove
  <2>3. PICK places \in Seq(Places) : places = touches'
    BY <2>1
  <2>4. /\ GestureInv'
        /\ fired' \cap {"dragend", "transformend", "hold", "tap", "doubletap"} = {}
    BY <2>1, <2>2, <2>3, MoveStep
  <2> QED
    BY <2>4
<1>4. ASSUME NEW place \in Places, MouseMove(place)
      PROVE  Good
  <2>0. touches' = <<place>> /\ Len(touches) = 1
    BY <1>0, <1>4 DEF MouseMove, Pressed
  <2>1. touches' \in Seq(Places) /\ Len(touches') = Len(touches) /\ Len(touches') > 0
    BY <2>0
  <2>2. OnMove(touches', FALSE) /\ UNCHANGED <<device, options, buttons, many>>
    BY <1>4 DEF MouseMove
  <2>3. PICK places \in Seq(Places) : places = touches'
    BY <2>1
  <2>4. /\ GestureInv /\ OnMove(places, FALSE) /\ UNCHANGED <<device, options, buttons, many>>
        /\ touches' = places /\ Len(places) = Len(touches) /\ Len(places) > 0
    BY <1>0, <2>1, <2>2, <2>3
  <2>5. /\ GestureInv'
        /\ fired' \cap {"dragend", "transformend", "hold", "tap", "doubletap"} = {}
    BY <2>4, MoveStep
  <2> QED
    BY <2>5
<1>5. ASSUME NEW finger \in DOMAIN touches, TouchEnd(finger)
      PROVE  Good
  <2>0. touches' = RemoveAt(touches, finger)
    BY <1>5 DEF TouchEnd
  <2>1. touches' \in Seq(Places) /\ Len(touches') = Len(touches) - 1 /\ Len(touches) > 0
    <3>1. touches \in Seq(Places) /\ finger \in DOMAIN touches
      BY <1>0, <1>5
    <3>2. RemoveAt(touches, finger) \in Seq(Places)
          /\ Len(RemoveAt(touches, finger)) = Len(touches) - 1
      BY <3>1, RemoveAtGives
    <3>3. Len(touches) > 0
      BY <3>1, LenProperties
    <3> QED
      BY <2>0, <3>2, <3>3
  <2>2. Len(touches') \in Nat /\ (touches' = <<>> => Len(touches') = 0)
    BY <1>0, <2>1
  <2>3. /\ OnEnd(Len(touches')) /\ UNCHANGED <<device, options, buttons, many>>
        /\ device = "touch"
    BY <1>5 DEF TouchEnd
  <2>4. PICK rest \in Nat : rest = Len(touches')
    BY <2>2
  <2>5. /\ Len(touches) = rest + 1 /\ OnEnd(rest) /\ device # "mouse"
        /\ touches' = <<>> => rest = 0
        /\ buttons' \in 0 .. MaxFingers
    BY <1>0, <2>1, <2>2, <2>3, <2>4
  <2> QED
    BY <2>1, <2>3, <2>4, <2>5, EndStep
<1>6. CASE MouseUp \/ MouseOut
  <2>1. /\ OnEnd(0) /\ UNCHANGED <<device, options, touches, many>> /\ device = "mouse"
    BY <1>6 DEF MouseUp, MouseOut
  <2>2. buttons' \in 0 .. MaxFingers
    BY <1>0, <1>6, HammerAssumption DEF MouseUp, MouseOut
  <2> QED
    BY <1>0, <2>1, <2>2, EndStep
<1>7. CASE Tick
  <2>1. age' \in 0 .. HoldTimeout /\ sinceTap' \in 0 .. TapInterval
    BY <1>0, <1>7, HammerAssumption DEF Tick, Later, TypeOK
  <2>2. age >= HoldTimeout => age' >= HoldTimeout
    BY <1>0, <1>7, HammerAssumption DEF Tick, Later, TypeOK
  <2>3. TypeOK'
    BY <1>0, <1>7, <2>1 DEF Tick, TypeOK
  <2>4. Pressed' /\ Begun' /\ HeldLate' /\ Alone' /\ OneFingerDrag'
    BY <1>0, <1>7, <2>2 DEF Tick, Pressed, Begun, HeldLate, Alone, OneFingerDrag
  <2> QED
    BY <1>7, <2>3, <2>4 DEF GestureInv, Tick
<1>8. CASE HoldTimer
  <2> DEFINE events == IF gesture = "hold" THEN {"hold"} ELSE {}
  <2>1. /\ Trigger(events) /\ timer' = FALSE /\ age >= HoldTimeout
        /\ UNCHANGED <<device, options, touches, buttons, start, first, gesture,
                       prevGesture, direction, mousedown, age, sinceTap,
                       sinceTapStart, prevTap, many>>
    BY <1>8 DEF HoldTimer
  <2>2. events \subseteq {"hold"} /\ ("hold" \in events => gesture = "hold")
    OBVIOUS
  <2> HIDE DEF events
  <2>3. /\ fired' = events /\ held' = (held \/ "hold" \in events)
        /\ started \subseteq started' /\ started' \subseteq {"drag", "transform"}
        /\ "drag" \in started' => "drag" \in started
    BY <1>0, <2>1, <2>2, TriggerGives
  <2>4. TypeOK'
    <3>1. fired' \subseteq Events /\ held' \in BOOLEAN
      BY <2>2, <2>3 DEF Events
    <3> QED
      BY <1>0, <2>1, <2>3, <3>1 DEF TypeOK
  <2>5. Pressed' /\ Begun' /\ Alone' /\ OneFingerDrag'
    BY <1>0, <2>1, <2>3 DEF Pressed, Begun, Alone, OneFingerDrag
  <2>6. HeldLate'
    BY <1>0, <2>1, <2>2, <2>3 DEF HeldLate, Pressed
  <2>7. "hold" \in fired' => mousedown
    BY <1>0, <2>2, <2>3 DEF Pressed
  <2> QED
    BY <2>2, <2>3, <2>4, <2>5, <2>6, <2>7 DEF GestureInv
<1>9. CASE UNCHANGED vars
  BY <1>0, <1>9 DEF GestureInv, vars, state, history, TypeOK, Pressed, Begun, HeldLate, Alone, OneFingerDrag
<1> QED
  BY <1>1, <1>2, <1>3, <1>4, <1>5, <1>6, <1>7, <1>8, <1>9 DEF Next, Fingers

LEMMA GestureInit == Init => GestureInv
<1> SUFFICES ASSUME Init PROVE GestureInv
  OBVIOUS
<1>1. TypeOK
  <2>1. touches \in Seq(Places)
    <3>1. touches = <<>> => touches \in Seq(Places)
      BY EmptySeq
    <3>2. ASSUME NEW p \in Places PROVE <<p>> \in Seq(Places)
      OBVIOUS
    <3>3. touches = <<>> \/ \E p \in Places : touches = <<p>>
      BY DEF Init
    <3> QED
      BY <3>1, <3>2, <3>3
  <2>2. /\ age \in 0 .. HoldTimeout /\ sinceTap \in 0 .. TapInterval
        /\ sinceTapStart \in 0 .. TapInterval /\ buttons \in 0 .. MaxFingers
    BY HammerAssumption DEF Init
  <2>3. /\ gesture \in Gestures /\ prevGesture \in Gestures /\ direction \in Directions
        /\ device \in {"touch", "mouse"} /\ start \in Seq(Places) /\ prevTap \in Seq(Places)
    BY EmptySeq DEF Init, Gestures, Directions
  <2> QED
    BY <2>1, <2>2, <2>3 DEF Init, TypeOK
<1>2. Pressed /\ Begun /\ HeldLate /\ Alone /\ OneFingerDrag
  BY EmptySeq DEF Init, Pressed, Begun, HeldLate, Alone, OneFingerDrag
<1> QED
  BY <1>1, <1>2 DEF GestureInv

LEMMA GestureInvariance == Spec => []GestureInv
  BY GestureInit, GestureStep, PTL DEF Spec

\* What handleEvents remembers keeps its types.
THEOREM GesturesTyped == Spec => []TypeOK
  BY GestureInvariance, PTL DEF GestureInv

\* A drag, or a transform, that ends was started, whichever fingers came and went.
THEOREM EndsOnlyAfterStart == Spec => EndsAfterStart
<1>1. GestureInv /\ [Next]_vars =>
        [/\ "dragend" \in fired' => "drag" \in started
         /\ "transformend" \in fired' => "transform" \in started]_vars
  BY GestureStep
<1> QED
  BY <1>1, GestureInvariance, PTL DEF Spec, EndsAfterStart

\* One press does not give a hold and a tap as well, in either order.
THEOREM NeverHoldAndTap == Spec => HoldOrTap
<1>1. GestureInv /\ [Next]_vars =>
        [/\ "hold" \in fired' => mousedown
         /\ fired' \cap {"tap", "doubletap"} # {} => ~held]_vars
  BY GestureStep
<1> QED
  BY <1>1, GestureInvariance, PTL DEF Spec, HoldOrTap

\* A drag that one finger does all of stays the gesture, with its direction.
THEOREM OneFingerDrags == Spec => []OneFingerDrag
  BY GestureInvariance, PTL DEF GestureInv
=============================================================================
