---------------------------- MODULE NovncPointer ----------------------------
(***************************************************************************)
(* From fingers and mouse to the pointer of the remote machine:            *)
(* core/input/gesturehandler.js recognises gestures, core/rfb.js turns     *)
(* them, the mouse and the wheel into pointer events, or drags the         *)
(* viewport instead.  The clock is coarse: what matters is whether a touch *)
(* is older than GH_MULTITOUCH_TIMEOUT or than GH_TAP_TIMEOUT.  Movement   *)
(* is one-dimensional, in units beyond GH_MOVE_THRESHOLD.                  *)
(***************************************************************************)
EXTENDS Naturals, Integers, Sequences, FiniteSets, SequencesExt

CONSTANTS
    Fingers,     \* identifiers of touches
    Buttons,     \* mouse buttons, a subset of {"left", "right"}
    MaxEvents    \* bound: events of the user

VARIABLES
    g,        \* the GestureHandler
    m,        \* the pointer part of the RFB object, and the remote pointer
    down,     \* fingers on the screen and mouse buttons held
    cap,      \* document.captureElement
    on,       \* the element under the mouse
    solo,     \* history: one finger came down alone and has not moved
    lost,     \* history: why quick taps of one finger were not recognised
    events,   \* events so far
    excuse    \* history: why a remote button may stay down

vars == <<g, m, down, cap, on, solo, lost, events, excuse>>

-----------------------------------------------------------------------------
(* core/util/events.js: the emulated Element.setCapture.  While an element *)
(* has the capture an invisible element covers the page: it passes moves   *)
(* and releases on to the capturing element, and keeps presses to itself.  *)

None == "none"

setCapture(c, target) == target

releaseCapture(c) == None

\* Who hears a press, and a move or a release, with the pointer over an element.
PressTarget(c, under) == IF c = None THEN under ELSE None
_captureProxy(c, under) == IF c = None THEN under ELSE c

\* Any release that is passed on ends the capture.
AfterMouseUp(c) == releaseCapture(c)

-----------------------------------------------------------------------------
(* core/rfb.js: mouse, wheel, viewport dragging.                           *)

_sendMouse(p, x, mask) ==
    IF p.viewOnly THEN p ELSE [p EXCEPT !.remote = [x |-> x, mask |-> mask]]

\* A click in drag mode that did not move is sent in full at its release.
_handleMouseButton(p, x, press, b) ==
    LET drags == p.drag /\ press /\ ~p.dragging
        clicked == IF p.drag THEN _sendMouse([p EXCEPT !.dragging = FALSE], x, {b}) ELSE p
        flushed == IF clicked.timer
                   THEN _sendMouse([clicked EXCEPT !.timer = FALSE], x, clicked.mask)
                   ELSE clicked
        mask == IF press THEN p.mask \cup {b} ELSE p.mask \ {b}
    IN  IF drags THEN [p EXCEPT !.dragging = TRUE, !.dragX = x, !.moved = FALSE]
        ELSE IF p.drag /\ p.moved THEN [p EXCEPT !.dragging = FALSE]
        ELSE _sendMouse([flushed EXCEPT !.mask = mask, !.at = IF p.viewOnly THEN @ ELSE x],
                        x, mask)

\* Mutant: a move that comes too soon is dropped.
MouseMoveDropped(p, x, soon) ==
    IF p.dragging
    THEN IF p.moved \/ x # p.dragX
         THEN [p EXCEPT !.moved = TRUE, !.dragX = x]
         ELSE p
    ELSE LET here == [p EXCEPT !.x = x, !.at = IF p.viewOnly THEN @ ELSE x]
         IN  IF soon THEN here ELSE _sendMouse(here, x, p.mask)

\* soon: the last move was sent less than MOUSE_MOVE_DELAY ago.
_handleMouseMove(p, x, soon) ==
    IF p.dragging
    THEN IF p.moved \/ x # p.dragX
         THEN [p EXCEPT !.moved = TRUE, !.dragX = x]
         ELSE p
    ELSE LET here == [p EXCEPT !.x = x, !.at = IF p.viewOnly THEN @ ELSE x]
         IN  IF p.timer THEN here
             ELSE IF soon THEN [here EXCEPT !.timer = TRUE]
             ELSE _sendMouse(here, x, p.mask)

_handleDelayedMouseMove(p) == _sendMouse([p EXCEPT !.timer = FALSE], p.x, p.mask)

Click(p, x, b) == _handleMouseButton(_handleMouseButton(p, x, TRUE, b), x, FALSE, b)

\* WHEEL_STEP is two units; a step is a click of button 4 or 5.
_handleWheel(p, x, delta) ==
    LET sum == p.wheel + delta
        b == IF sum < 0 THEN "wheelup" ELSE "wheeldown"
    IN  IF p.viewOnly THEN p
        ELSE IF sum \in {-2, 2} THEN [Click(p, x, b) EXCEPT !.wheel = 0]
        ELSE [p EXCEPT !.wheel = sum]

-----------------------------------------------------------------------------
(* core/rfb.js: _handleGesture.                                            *)

ButtonOf == [n \in {"onetap", "twotap", "threetap", "drag", "longpress"} |->
               CASE n \in {"onetap", "drag"} -> "left"
                 [] n \in {"twotap", "longpress"} -> "right"
                 [] n = "threetap" -> "middle"]

_handleTapEvent(p, b, soon) == Click(_handleMouseMove(p, 0, soon), 0, b)

\* moved: how far two fingers went since the last step, in scroll steps.
_handleGesture(p, type, name, moved, soon) ==
    LET there == _handleMouseMove(p, 0, soon)
    IN  CASE name \in {"onetap", "twotap", "threetap"} ->
               IF type = "start" THEN _handleTapEvent(p, ButtonOf[name], soon) ELSE p
          [] name \in {"drag", "longpress"} ->
               IF type = "move" THEN there
               ELSE _handleMouseButton(there, 0, type = "start", ButtonOf[name])
          [] name \in {"twodrag", "pinch"} ->
               IF type = "end" THEN p
               ELSE IF type = "start" \/ ~moved THEN there
               ELSE Click(there, 0, "wheelup")

-----------------------------------------------------------------------------
(* core/input/gesturehandler.js: the bit mask of the gestures still        *)
(* possible is a set.                                                      *)

Taps == {"onetap", "twotap", "threetap"}
GH_INITSTATE == Taps \cup {"drag", "longpress", "twodrag", "pinch"}
GH_NOGESTURE == {}

NewHandler == [state |-> GH_INITSTATE, tracked |-> <<>>, ignored |-> {},
               waiting |-> FALSE, long |-> FALSE, two |-> "off",
               age |-> 0, released |-> 0, out |-> <<>>, thrown |-> FALSE]

_hasDetectedGesture(h) ==
    /\ Cardinality(h.state) = 1
    /\ h.state \subseteq Taps => \A i \in DOMAIN h.tracked : ~h.tracked[i].active

\* A gesture has a name and a position, or the handler throws.
_pushEvent(h, type) ==
    IF Cardinality(h.state) # 1 \/ h.tracked = <<>> THEN [h EXCEPT !.thrown = TRUE]
    ELSE [h EXCEPT !.out = Append(@, <<type, CHOOSE n \in h.state : TRUE>>)]

Index(h, id) == {i \in DOMAIN h.tracked : h.tracked[i].id = id}

_touchStart(h, id) ==
    LET ignore == [h EXCEPT !.ignored = @ \cup {id}]
        n == Len(h.tracked) + 1
        t == [h EXCEPT !.tracked = Append(@, [id |-> id, active |-> TRUE, d |-> 0, dir |-> 0])]
    IN  CASE _hasDetectedGesture(h) \/ h.state = GH_NOGESTURE -> ignore
          [] ~_hasDetectedGesture(h) /\ h.state # GH_NOGESTURE
             /\ ((h.tracked # <<>> /\ h.age > 0) \/ h.waiting) ->
               [ignore EXCEPT !.state = GH_NOGESTURE]
          [] OTHER ->
               CASE n = 1 -> [t EXCEPT !.long = TRUE, !.age = 0]
                 [] n = 2 -> [t EXCEPT !.state = @ \ {"onetap", "drag", "longpress"},
                                       !.long = FALSE]
                 [] n = 3 -> [t EXCEPT !.state = @ \ {"twotap", "twodrag", "pinch"}]
                 [] n > 3 -> [t EXCEPT !.state = GH_NOGESTURE]

\* Two fingers: told apart by their directions once both have moved, else by
\* a timer.
TwoTouch(h, i) ==
    LET me == h.tracked[i]
        other == h.tracked[3 - i]
    IN  IF Len(h.tracked) # 2 THEN h
        ELSE IF other.d # 0
        THEN [h EXCEPT !.state = @ \ {IF me.dir # other.dir THEN "twodrag" ELSE "pinch"},
                       !.two = "off"]
        ELSE [h EXCEPT !.two = IF @ = "off" THEN "armed" ELSE @]

_touchMove(h, id, d) ==
    LET i == CHOOSE j \in Index(h, id) : TRUE
        t == [h EXCEPT !.tracked[i].d = d, !.tracked[i].dir = IF d = 0 THEN @ ELSE d]
        n == Len(h.tracked)
        moved == [t EXCEPT !.state = @ \ (Taps \cup {"longpress"}
                                           \cup (IF n # 1 THEN {"drag"} ELSE {})
                                           \cup (IF n # 2 THEN {"twodrag", "pinch"} ELSE {})),
                           !.long = FALSE]
        told == TwoTouch(moved, i)
    IN  IF Index(h, id) = {} THEN h
        ELSE IF _hasDetectedGesture(t) THEN _pushEvent(t, "move")
        ELSE IF d = 0 THEN t
        ELSE IF _hasDetectedGesture(told)
        THEN _pushEvent(_pushEvent(told, "start"), "move")
        ELSE told

\* A release settles a gesture that was still open.
Released(h) ==
    LET late == IF ~_hasDetectedGesture(h) /\ h.two # "off"
                THEN [h EXCEPT !.two = "off", !.state = GH_NOGESTURE] ELSE h
        still == [late EXCEPT !.state = @ \cap Taps, !.long = FALSE]
        n == Len(h.tracked)
    IN  IF _hasDetectedGesture(late) THEN late
        ELSE IF late.waiting THEN still
        ELSE [still EXCEPT !.released = 0, !.waiting = TRUE,
                           !.state = @ \ (CASE n = 1 -> {"twotap", "threetap"}
                                            [] n = 2 -> {"onetap", "threetap"}
                                            [] OTHER -> {})]

\* Mutant: the fingers that are still down are forgotten instead of ignored.
FinishForgets(h, id) ==
    LET t == IF _hasDetectedGesture(h) THEN _pushEvent(h, "end") ELSE h
        left == t.ignored \ {id}
    IN  [t EXCEPT !.tracked = <<>>, !.ignored = left,
                  !.state = IF left = {} THEN GH_INITSTATE ELSE GH_NOGESTURE,
                  !.waiting = IF left = {} THEN FALSE ELSE @]

\* The end of the gesture: fingers still down are ignored until they lift.
Finish(h, id) ==
    LET t == IF _hasDetectedGesture(h) THEN _pushEvent(h, "end") ELSE h
        left == (t.ignored \cup {t.tracked[i].id : i \in {j \in DOMAIN t.tracked :
                                                           t.tracked[j].active}}) \ {id}
    IN  [t EXCEPT !.tracked = <<>>, !.ignored = left,
                  !.state = IF left = {} THEN GH_INITSTATE ELSE GH_NOGESTURE,
                  !.waiting = IF left = {} THEN FALSE ELSE @]

_touchEnd(h, id) ==
    LET r == Released(h)
        i == CHOOSE j \in Index(h, id) : TRUE
        slow == r.released > 0 \/ (r.tracked # <<>> /\ r.age > 1)
        w == [r EXCEPT !.state = IF slow THEN GH_NOGESTURE ELSE @,
                       !.tracked[i].active = FALSE]
        rest == h.ignored \ {id}
        done == rest = {} /\ h.tracked = <<>>
    IN  IF id \in h.ignored
        THEN [h EXCEPT !.ignored = rest, !.state = IF done THEN GH_INITSTATE ELSE @,
                       !.waiting = IF done THEN FALSE ELSE @]
        ELSE IF ~r.waiting THEN Finish(r, id)
        ELSE IF Index(h, id) = {} THEN [h EXCEPT !.thrown = TRUE]
        ELSE IF _hasDetectedGesture(w) THEN Finish(_pushEvent(w, "start"), id)
        ELSE IF w.state # GH_NOGESTURE THEN w
        ELSE Finish(w, id)

_longpressTimeout(h) ==
    IF _hasDetectedGesture(h) THEN [h EXCEPT !.thrown = TRUE]
    ELSE _pushEvent([h EXCEPT !.state = {"longpress"}, !.long = FALSE], "start")

\* The timer's id is left behind: _isTwoTouchTimeoutRunning stays true.  The
\* average movement of the touches against the change of their distance.
_twoTouchTimeout(h) ==
    LET a == h.tracked[1]
        z == h.tracked[Len(h.tracked)]
        Abs(n) == IF n < 0 THEN -n ELSE n
        movement == Abs(FoldLeft(LAMBDA sum, t : sum + t.d, 0, h.tracked))
        pinched == movement < Len(h.tracked) * Abs(z.d - a.d)
        named == [h EXCEPT !.state = {IF pinched THEN "pinch" ELSE "twodrag"}, !.two = "fired"]
    IN  IF h.tracked = <<>> THEN [h EXCEPT !.thrown = TRUE]
        ELSE _pushEvent(_pushEvent(named, "start"), "move")

-----------------------------------------------------------------------------
(* The steps.                                                              *)

Acts == events < MaxEvents /\ events' = events + 1

\* The gestures pushed by a handler reach _handleGesture one after the other.
Gestured(h) ==
    \E soon \in BOOLEAN :
        /\ soon => h.out # <<>>
        /\ g' = [h EXCEPT !.out = <<>>]
        /\ m' = FoldLeft(LAMBDA p, e : _handleGesture(p, e[1], e[2],
                              \E i \in DOMAIN h.tracked : h.tracked[i].d # 0, soon),
                         [m EXCEPT !.open = FoldLeft(LAMBDA o, e :
                             IF e[1] = "end" THEN {} ELSE o \cup {e[2]}, @, h.out)],
                         h.out)

TouchStart == \E id \in Fingers \ down :
    /\ Acts /\ Gestured(_touchStart(g, id))
    /\ down' = down \cup {id}
    /\ solo' = (down = {})
    /\ UNCHANGED <<cap, on, lost, excuse>>

TouchMove == \E id \in Fingers \cap down, d \in {-1, 0, 1} :
    /\ Acts /\ Gestured(_touchMove(g, id, d))
    /\ solo' = (solo /\ d = 0)
    /\ UNCHANGED <<cap, on, down, lost, excuse>>

TouchEnd == \E id \in Fingers \cap down :
    /\ Acts /\ Gestured(_touchEnd(g, id))
    /\ down' = down \ {id}
    /\ lost' = IF solo /\ g.age < 2 /\ ~_hasDetectedGesture(g)
                   /\ _touchEnd(g, id).out # <<<<"start", "onetap">>, <<"end", "onetap">>>>
                THEN lost \cup {IF g.two = "off" THEN "tap" ELSE "stale timer"}
                ELSE lost
    /\ UNCHANGED <<cap, on, solo, excuse>>

\* A touch grows older; a long press is due when it is older than a tap.
Age ==
    /\ down \cap Fingers # {}
    /\ \/ g.age < 2 /\ g' = [g EXCEPT !.age = @ + 1]
       \/ g.waiting /\ g.released = 0
          /\ g' = [g EXCEPT !.released = 1, !.age = IF @ = 0 THEN 1 ELSE @]
    /\ UNCHANGED <<cap, on, m, down, solo, lost, events, excuse>>

LongpressTimeout ==
    /\ g.long /\ g.age = 2
    /\ Gestured(_longpressTimeout(g))
    /\ UNCHANGED <<cap, on, down, solo, lost, events, excuse>>

TwoTouchTimeout ==
    /\ g.two = "armed"
    /\ Gestured(_twoTouchTimeout(g))
    /\ excuse' = IF g.waiting THEN excuse \cup {"lifted"} ELSE excuse
    /\ UNCHANGED <<cap, on, down, solo, lost, events>>

\* Presses are heard with the mouse over the screen and nothing captured; they
\* capture the mouse.
MouseDown == \E b \in Buttons \ down, x \in {0, 1} :
    /\ Acts /\ down \cap Fingers = {}
    /\ LET hears == PressTarget(cap, on) = "screen"
       IN  /\ m' = IF hears THEN _handleMouseButton(m, x, TRUE, b) ELSE m
           /\ cap' = IF hears THEN setCapture(cap, on) ELSE cap
    /\ down' = down \cup {b}
    /\ UNCHANGED <<g, on, solo, lost, excuse>>

\* The capture brings a release to the screen wherever it happens, and ends
\* with it though another button may still be held.
MouseUp == \E b \in Buttons \cap down, x \in {0, 1} :
    /\ Acts
    /\ LET hears == _captureProxy(cap, on) = "screen"
       IN  /\ m' = IF hears THEN _handleMouseButton(m, x, FALSE, b) ELSE m
           /\ excuse' = IF hears \/ ~(b \in m.mask \/ m.dragging) THEN excuse
                        ELSE excuse \cup {"uncaptured"}
    /\ cap' = AfterMouseUp(cap)
    /\ down' = down \ {b}
    /\ UNCHANGED <<g, on, solo, lost>>

MouseMove == \E x \in {0, 1}, soon \in BOOLEAN, under \in {"screen", "outside"} :
    /\ Acts /\ down \cap Fingers = {}
    /\ on' = under
    /\ m' = IF _captureProxy(cap, under) = "screen" THEN _handleMouseMove(m, x, soon) ELSE m
    /\ UNCHANGED <<g, down, cap, solo, lost, excuse>>

Wheel == \E x \in {0, 1}, delta \in {-1, 1} :
    /\ Acts /\ down \cap Fingers = {} /\ PressTarget(cap, on) = "screen"
    /\ m' = _handleWheel(m, x, delta)
    /\ UNCHANGED <<g, down, cap, on, solo, lost, excuse>>

MouseMoveTimeout ==
    /\ m.timer
    /\ m' = _handleDelayedMouseMove(m)
    /\ UNCHANGED <<cap, on, g, down, solo, lost, events, excuse>>

\* View-only and drag mode are switched on the control bar, or by the page
\* when the remote screen no longer needs clipping.
SwitchViewOnly ==
    /\ Acts
    /\ m' = [m EXCEPT !.viewOnly = ~@]
    /\ excuse' = IF down = {} /\ ~m.timer THEN excuse ELSE excuse \cup {"viewonly"}
    /\ UNCHANGED <<cap, on, g, down, solo, lost>>

SwitchDrag ==
    /\ Acts
    /\ m' = [m EXCEPT !.drag = ~@]
    /\ excuse' = IF down = {} THEN excuse ELSE excuse \cup {"drag"}
    /\ UNCHANGED <<cap, on, g, down, solo, lost>>

Init ==
    /\ g = NewHandler
    /\ m = [mask |-> {}, x |-> 0, timer |-> FALSE, drag |-> FALSE, dragging |-> FALSE,
            dragX |-> 0, moved |-> FALSE, at |-> 0, viewOnly |-> FALSE, wheel |-> 0,
            remote |-> [x |-> 0, mask |-> {}], open |-> {}]
    /\ cap = None /\ on = "screen"
    /\ down = {} /\ solo = FALSE /\ lost = {} /\ events = 0 /\ excuse = {}

Next ==
    \/ TouchStart
    \/ TouchMove
    \/ TouchEnd
    \/ Age
    \/ LongpressTimeout
    \/ TwoTouchTimeout
    \/ MouseDown
    \/ MouseUp
    \/ MouseMove
    \/ Wheel
    \/ MouseMoveTimeout
    \/ SwitchViewOnly
    \/ SwitchDrag

Spec == Init /\ [][Next]_vars

-----------------------------------------------------------------------------
\* Gestures end.  Whatever fingers do and whenever the timers fire, no handler
\* throws, every touch is tracked or ignored until it is lifted, and with the
\* last finger lifted no gesture is open, no timer runs and the next touch
\* starts afresh; a quick tap of one finger is recognised.  Two exceptions: a
\* two-finger gesture told by its timer after one finger was lifted may never
\* be ended, and the tap after a gesture told by that timer is lost.
GesturesEnd ==
    /\ ~g.thrown
    /\ {g.tracked[i].id : i \in {j \in DOMAIN g.tracked : g.tracked[j].active}}
         \cup g.ignored = down \cap Fingers
    /\ down \cap Fingers = {} =>
         /\ m.open \subseteq IF "lifted" \in excuse THEN {"pinch", "twodrag"} ELSE {}
         /\ g.state = GH_INITSTATE /\ g.tracked = <<>>
         /\ ~g.long /\ g.two # "armed" /\ ~g.waiting
    /\ "tap" \notin lost

\* No button stays pressed on the remote machine, and the remote pointer is
\* where the mouse is: with every finger and button lifted the server was told
\* of no button held and a drag of the viewport is over, and once no delayed
\* move is pending the pointer is at the last place reported, never back at an
\* older one.  Exceptions: view-only or drag mode switched in the
\* middle of a press, and a button released outside after the release of
\* another had ended the capture.
PointerFollows ==
    excuse \cap {"viewonly", "drag", "uncaptured"} = {} =>
        /\ down = {} => m.mask = {} /\ m.remote.mask = {} /\ ~m.dragging
        /\ ~m.timer => m.remote.x = m.at
=============================================================================
