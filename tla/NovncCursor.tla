---------------------------- MODULE NovncCursor ----------------------------
(***************************************************************************)
(* core/util/cursor.js where the browser cannot show the remote cursor     *)
(* itself: an image follows the pointer, shown while the pointer is over   *)
(* the screen or dragging from it.  The pointer moves on a line, over the  *)
(* screen, the handle of the control bar, or outside.                      *)
(***************************************************************************)
EXTENDS Naturals, Integers

CONSTANTS
    Hots,       \* hot spots of the cursors the server sends
    MaxUser     \* bound: events

VARIABLES
    cur,        \* the Cursor: position, hot spot, shown, has an image
    cap,        \* document.captureElement
    at,         \* the pointer: the element under it and its coordinate
    held,       \* a button is held
    recheck,    \* pending zero timeouts: the elements the button was released over
    fresh,      \* history: what the image shows was decided by where the pointer is
    heard,      \* history: where the pointer was when the screen last heard of it
    emulated,   \* history: by a touch
    user        \* events so far

vars == <<cur, cap, at, held, recheck, fresh, heard, emulated, user>>

Places == [on : {"screen", "handle", "outside"}, x : 0..1]
Acts == user < MaxUser /\ user' = user + 1

-----------------------------------------------------------------------------
(* core/util/events.js: the emulated Element.setCapture.  While an element *)
(* has the capture an invisible element covers the page: it passes moves   *)
(* and releases on to the capturing element, and keeps presses to itself.  *)

None == "none"

setCapture(c, target) == target

releaseCapture(c) == None

\* Who hears a press, and a move or a release, with the pointer over an element.
PressTarget(c, under) == IF c = None THEN under ELSE None
_captureProxy(c, under) == IF c = None THEN under ELSE c

\* Any release that is passed on ends the capture.
AfterMouseUp(c) == releaseCapture(c)

-----------------------------------------------------------------------------
_shouldShowCursor(target) == target = "screen"

\* Mutant: the capture is not taken into account.
VisibilityIgnoresCapture(k, c, target) == [k EXCEPT !.shown = _shouldShowCursor(target)]

_updateVisibility(k, c, target) ==
    [k EXCEPT !.shown = _shouldShowCursor(IF c # None THEN c ELSE target)]

_handleMouseMove(k, c, target, x) ==
    [_updateVisibility(k, c, target) EXCEPT !.pos = x - k.hot]

clear(k) == [k EXCEPT !.image = FALSE, !.pos = @ + k.hot, !.hot = 0]

change(k, hot, empty) ==
    IF empty THEN clear(k) ELSE [k EXCEPT !.image = TRUE, !.pos = @ + k.hot - hot, !.hot = hot]

\* Emulated by a gesture: the hot spot is not taken into account.
move(k, c, p) == _updateVisibility([k EXCEPT !.pos = p.x], c, p.on)

-----------------------------------------------------------------------------
\* The screen hears the move itself, or that the pointer left it for another
\* element, or the move its capture passes on.
MouseMove == \E p \in Places :
    /\ Acts
    /\ at' = p
    /\ LET target == _captureProxy(cap, p.on)
           hears == target = "screen"
       IN  /\ cur' = IF hears THEN _handleMouseMove(cur, cap, target, p.x)
                     ELSE IF at.on = "screen" THEN _updateVisibility(cur, cap, p.on)
                     ELSE cur
           /\ heard' = IF hears THEN p.x ELSE heard
           /\ emulated' = (emulated /\ ~hears)
           /\ fresh' = (fresh \/ hears \/ at.on = "screen")
    /\ UNCHANGED <<cap, held, recheck>>

\* The screen and the handle capture the mouse.
MouseDown ==
    /\ Acts /\ ~held
    /\ held' = TRUE
    /\ cap' = IF PressTarget(cap, at.on) \in {"screen", "handle"} THEN setCapture(cap, at.on)
              ELSE cap
    /\ UNCHANGED <<cur, at, recheck, fresh, heard, emulated>>

\* The release is passed on while the capture still holds, so the look at what
\* is under the pointer is repeated from a timer.
_handleMouseUp ==
    /\ Acts /\ held
    /\ held' = FALSE
    /\ LET hears == _captureProxy(cap, at.on) = "screen"
       IN  /\ cur' = IF hears THEN _updateVisibility(cur, cap, at.on) ELSE cur
           /\ recheck' = IF hears /\ cap # None THEN recheck \cup {at.on} ELSE recheck
    /\ cap' = AfterMouseUp(cap)
    /\ fresh' = (cap = None /\ fresh)
    /\ UNCHANGED <<at, heard, emulated>>

\* The timer looks at the place of the release, not at where the pointer is.
RecheckTimeout == \E target \in recheck :
    /\ cur' = _updateVisibility(cur, cap, target)
    /\ recheck' = recheck \ {target}
    /\ fresh' = (target = at.on)
    /\ UNCHANGED <<cap, at, held, heard, emulated, user>>

\* A gesture moves the cursor; touches do not capture.
TouchMove == \E p \in Places :
    /\ Acts /\ ~held
    /\ at' = p
    /\ cur' = move(cur, cap, p)
    /\ fresh' = TRUE /\ heard' = p.x /\ emulated' = TRUE
    /\ UNCHANGED <<cap, held, recheck>>

CursorArrives == \E hot \in Hots, empty \in BOOLEAN :
    /\ Acts
    /\ cur' = change(cur, hot, empty)
    /\ UNCHANGED <<cap, at, held, recheck, fresh, heard, emulated>>

Init ==
    /\ cur = [pos |-> 0, hot |-> 0, shown |-> FALSE, image |-> FALSE]
    /\ cap = None /\ at = [on |-> "outside", x |-> 0] /\ held = FALSE
    /\ recheck = {} /\ fresh = TRUE /\ heard = 0 /\ emulated = FALSE /\ user = 0

Next ==
    \/ MouseMove
    \/ MouseDown
    \/ _handleMouseUp
    \/ RecheckTimeout
    \/ TouchMove
    \/ CursorArrives

Spec == Init /\ [][Next]_vars

-----------------------------------------------------------------------------
\* The image is where the pointer is and only while it should be: its hot spot
\* is at the pointer whatever cursors arrived since, it is shown exactly while
\* the pointer is over the screen or dragging from it, and a capture always
\* ends with the button.  Exceptions: a touch puts the image's corner and not
\* its hot spot at the finger; the end of a capture is noticed with the next
\* move; and the timer after a release judges the place of the release, which
\* holds until the screen hears of the pointer again.
CursorFollows ==
    /\ ~emulated => cur.pos + cur.hot = heard
    /\ fresh /\ recheck = {} => cur.shown = (_captureProxy(cap, at.on) = "screen")
    /\ cap # None => held
    /\ cur.image \/ cur.hot = 0
=============================================================================
