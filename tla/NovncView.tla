------------------------------ MODULE NovncView ------------------------------
(***************************************************************************)
(* How the remote screen is fitted into the browser's window: the settings *)
(* of app/ui.js (clip, scale, resize the remote session, drag the view),   *)
(* the properties of core/rfb.js they set, the viewport of core/display.js *)
(* and the SetDesktopSize requests to the server.  Lengths are widths.     *)
(***************************************************************************)
EXTENDS Naturals, Sequences

CONSTANTS
    Sizes,     \* widths of windows and of remote screens
    MaxUser    \* bound: changes by the user and by the server

Least(a, b) == IF a < b THEN a ELSE b

VARIABLES
    v,      \* the settings, the RFB object, its display and the view button
    win,    \* the width of the window; due: the ResizeObserver is to report it
    reqs,   \* SetDesktopSize requests on their way
    wire,   \* ExtendedDesktopSize rectangles on their way
    user,   \* changes so far
    asked,  \* history: the last width asked for, and whether it is stale
    missed  \* history: a new width was taken for the expected one and ignored

vars == <<v, win, reqs, wire, user, asked, missed>>

-----------------------------------------------------------------------------
(* app/ui.js and core/rfb.js, on the record v in a window of width w.      *)

\* Mutant: drag mode stays on when there is nothing to drag any more.
DragStaysOn(u) ==
    [u EXCEPT !.button = [selected |-> u.drag, hidden |-> ~u.clip,
                          disabled |-> ~u.clipping]]

updateViewDrag(u) ==
    LET drag == u.drag /\ u.clip /\ u.clipping
    IN  [u EXCEPT !.drag = drag,
                  !.button = [selected |-> drag, hidden |-> ~u.clip,
                              disabled |-> ~u.clipping]]

\* The page hears of a change, and of nothing else.
_setClippingViewport(u, on) ==
    IF on = u.clipping THEN u
    ELSE IF u.connected THEN updateViewDrag([u EXCEPT !.clipping = on])
    ELSE [u EXCEPT !.clipping = on]

\* Display.viewportChangeSize: without clipping the viewport is the screen.
viewportChangeSize(u, w) ==
    [u EXCEPT !.vp = IF u.dclip THEN Least(w, u.fb) ELSE u.fb]

_saveExpectedClientSize(u, w) == [u EXCEPT !.expected = w]

_updateClip(u, w) ==
    LET on == u.clip /\ ~u.scale
        set == IF u.dclip = on THEN u
               ELSE viewportChangeSize([u EXCEPT !.dclip = on], u.vp)
        done == IF on THEN _setClippingViewport(viewportChangeSize(set, w), w < u.fb)
                ELSE _setClippingViewport(set, FALSE)
    IN  IF u.dclip = on THEN done ELSE _saveExpectedClientSize(done, w)

\* Display.autoscale fits the viewport of that moment into the container;
\* <<>> is a scale of 1.
_updateScale(u, w) == [u EXCEPT !.ratio = IF u.scale THEN <<w, u.vp>> ELSE <<>>]

clipViewport(u, on, w) == _updateClip([u EXCEPT !.clip = on], w)

scaleViewport(u, on, w) ==
    LET set == [u EXCEPT !.scale = on]
        before == IF on /\ set.clip THEN _updateClip(set, w) ELSE set
        scaled == _updateScale(before, w)
    IN  IF ~on /\ scaled.clip THEN _updateClip(scaled, w) ELSE scaled

\* A request goes out only on a session that may and can be resized.
_requestRemoteResize(u) ==
    [u EXCEPT !.timer = FALSE,
              !.request = u.session /\ ~u.viewOnly /\ u.supports]

resizeSession(u, on) ==
    LET set == [u EXCEPT !.session = on]
    IN  IF on THEN _requestRemoteResize(set) ELSE set

_resize(u, fb, w) ==
    LET grown == viewportChangeSize([u EXCEPT !.fb = fb], u.vp)
    IN  _saveExpectedClientSize(_updateScale(_updateClip(grown, w), w), w)

applyResizeMode(u, w) ==
    resizeSession(scaleViewport(u, u.mode = "scale", w), u.mode = "remote")

\* The setting is forced off while scaling, and on where scrollbars are
\* unusable; what it was before is not restored.
updateViewClip(u, w) ==
    LET setting == IF u.mode = "scale" THEN FALSE
                   ELSE IF u.broken THEN TRUE ELSE u.view_clip
    IN  updateViewDrag(
            clipViewport([u EXCEPT !.view_clip = setting,
                                   !.forced = u.mode = "scale" \/ u.broken],
                         setting, w))

-----------------------------------------------------------------------------
\* The picture is clipped to the window, or scaled to it, or neither.
Fits ==
    /\ v.dclip = (v.clip /\ ~v.scale)
    /\ v.vp = IF v.dclip THEN Least(win.w, v.fb) ELSE v.fb
    /\ v.clipping = (v.dclip /\ win.w < v.fb)
    /\ v.ratio = IF v.scale THEN <<win.w, v.fb>> ELSE <<>>

(* The steps.                                                              *)

\* The page becomes u; a request it makes is on its way.
Becomes(u, late) ==
    /\ v' = [u EXCEPT !.request = FALSE]
    /\ reqs' = IF u.request THEN Append(reqs, win'.w) ELSE reqs
    /\ asked' = IF u.request THEN [w |-> win'.w, stale |-> FALSE]
                ELSE [asked EXCEPT !.stale = @ \/ late]

Acts == user < MaxUser /\ user' = user + 1

\* The resize box: saved, then applied, then the clipping follows.
ResizeChanged == \E mode \in {"off", "scale", "remote"} :
    /\ Acts /\ mode # v.mode
    /\ UNCHANGED <<win, wire, missed>>
    /\ Becomes(updateViewClip(applyResizeMode([v EXCEPT !.mode = mode], win.w), win.w),
               mode = "remote" /\ v.viewOnly)

ViewClipChanged ==
    /\ Acts /\ ~v.forced
    /\ UNCHANGED <<win, wire, missed>>
    /\ Becomes(updateViewClip([v EXCEPT !.view_clip = ~@], win.w), FALSE)

\* Leaving view-only asks for nothing.
updateViewOnly ==
    /\ Acts
    /\ UNCHANGED <<win, wire, missed>>
    /\ Becomes([v EXCEPT !.viewOnly = ~@], FALSE)

toggleViewDrag ==
    /\ Acts /\ ~v.button.hidden /\ ~v.button.disabled
    /\ UNCHANGED <<win, wire, missed>>
    /\ Becomes(updateViewDrag([v EXCEPT !.drag = ~@]), FALSE)

\* The browser reports a size before it takes the next.
ResizeWindow == \E w \in Sizes :
    /\ Acts /\ ~win.due /\ w # win.w
    /\ win' = [w |-> w, due |-> TRUE]
    /\ UNCHANGED <<v, reqs, wire, asked, missed>>

\* The ResizeObserver reports; a size already taken into account is ignored,
\* also for the remote session.
_handleResize ==
    /\ win.due
    /\ win' = [win EXCEPT !.due = FALSE]
    /\ IF v.expected = win.w THEN Becomes(v, asked.w # win.w)
       ELSE Becomes([v EXCEPT !.frame = TRUE, !.timer = @ \/ v.session], FALSE)
    /\ missed' = (missed \/ (v.expected = win.w /\ ~Fits))
    /\ UNCHANGED <<wire, user>>

AnimationFrame ==
    /\ v.frame
    /\ missed' = FALSE
    /\ UNCHANGED <<win, wire, user>>
    /\ Becomes(_updateScale(_updateClip([v EXCEPT !.frame = FALSE], win.w), win.w), FALSE)

ResizeTimeout ==
    /\ v.timer
    /\ UNCHANGED <<win, wire, user, missed>>
    /\ Becomes(_requestRemoteResize(v), v.viewOnly)

\* The first announcement applies the resize mode.
_handleExtendedDesktopSize ==
    /\ wire # <<>>
    /\ wire' = Tail(wire)
    /\ UNCHANGED <<win, user>>
    /\ LET m == Head(wire)
           u == IF m.denied THEN v ELSE _resize(v, m.w, win.w)
           known == [u EXCEPT !.supports = TRUE]
       IN  /\ Becomes(IF v.supports THEN known ELSE _requestRemoteResize(known),
                      ~v.supports /\ v.session /\ v.viewOnly)
           /\ missed' = (missed /\ m.denied)

\* The server answers a request, or resizes on its own.
Server ==
    \/ /\ reqs # <<>>
       /\ reqs' = Tail(reqs)
       /\ \E no \in BOOLEAN : wire' = Append(wire, [w |-> Head(reqs), denied |-> no])
       /\ UNCHANGED <<v, win, user, asked, missed>>
    \/ /\ Acts
       /\ \E w \in Sizes : wire' = Append(wire, [w |-> w, denied |-> FALSE])
       /\ UNCHANGED <<v, win, reqs, asked, missed>>

\* The settings of UI.connect, the first size, then connectFinished.
Connected(u, fb, w) ==
    updateViewClip(
        [_resize(resizeSession(scaleViewport(clipViewport(u, u.view_clip, w),
                                             u.mode = "scale", w),
                               u.mode = "remote"), fb, w)
           EXCEPT !.connected = TRUE], w)

Init ==
    /\ \E w, fb \in Sizes, mode \in {"off", "scale", "remote"}, c, b \in BOOLEAN :
         /\ win = [w |-> w, due |-> FALSE]
         /\ v = Connected([mode |-> mode, view_clip |-> c, forced |-> FALSE,
                           broken |-> b, connected |-> FALSE, clip |-> FALSE,
                           scale |-> FALSE, session |-> FALSE, viewOnly |-> FALSE,
                           drag |-> FALSE, clipping |-> FALSE, dclip |-> FALSE,
                           vp |-> 0, fb |-> 0, ratio |-> <<>>, expected |-> 0,
                           supports |-> FALSE, frame |-> FALSE, timer |-> FALSE,
                           request |-> FALSE,
                           button |-> [selected |-> FALSE, hidden |-> TRUE,
                                       disabled |-> TRUE]], fb, w)
    /\ reqs = <<>> /\ wire = <<>> /\ user = 0
    /\ asked = [w |-> 0, stale |-> FALSE] /\ missed = FALSE

Next ==
    \/ ResizeChanged
    \/ ViewClipChanged
    \/ updateViewOnly
    \/ toggleViewDrag
    \/ ResizeWindow
    \/ _handleResize
    \/ AnimationFrame
    \/ ResizeTimeout
    \/ _handleExtendedDesktopSize
    \/ Server

Spec == Init /\ [][Next]_vars

-----------------------------------------------------------------------------
\* Whatever order the user, the window, the frames, the timers and the server
\* come in, once the browser has nothing left to do the picture is clipped to
\* the window or scaled by the ratio of the present window and the present
\* screen, never both (a window that returns to the expected width excepted);
\* the view can be dragged only while something is cut off, and its button
\* says so; and on a session to be resized the last width asked for is the
\* window's.  The width asked for goes stale when view-only suppressed the
\* request, or when _handleResize took the new size to be known already.
ViewFollows ==
    /\ v.drag => v.clip /\ v.clipping
    /\ v.button = [selected |-> v.drag, hidden |-> ~v.clip, disabled |-> ~v.clipping]
    /\ ~win.due /\ ~v.frame /\ ~missed => Fits
    /\ ~win.due /\ ~v.timer /\ v.session /\ v.supports /\ ~v.viewOnly /\ ~asked.stale
         => asked.w = win.w
=============================================================================
