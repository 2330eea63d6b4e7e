---------------------------- MODULE NovncUpdates ----------------------------
(***************************************************************************)
(* How the noVNC client draws (core/rfb.js over core/display.js): the       *)
(* rectangles of a FramebufferUpdate go to the display, the next update     *)
(* waits until the images of the last one are decoded, every finished       *)
(* update is flipped to the screen and answered by a request for the next   *)
(* unless updates are continuous, and meanwhile the user pans, clips and    *)
(* resizes.  Rectangles are here what their decoders draw; how they are     *)
(* read from the wire is NovncFraming.                                      *)
(***************************************************************************)
EXTENDS Integers, Sequences, FiniteSets, SequencesExt, FiniteSetsExt

(***************************************************************************)
(* The drawing surface of the bundled noVNC client (core/display.js): the   *)
(* hidden canvas everything is rendered on, the visible canvas that shows   *)
(* the viewport's part of it, the damaged bounds that the next flip copies, *)
(* and the queue that keeps the drawing in order behind an image that the   *)
(* browser is still decoding.                                               *)
(*                                                                          *)
(* The methods are operators from a display to the display they leave       *)
(* behind; the client calls them from its handlers, below.  Rows            *)
(* and columns are handled alike in the code, so a canvas is one row.       *)
(***************************************************************************)

\* The bounds that no pixel is inside of.
None == [left |-> 65535, right |-> 0]

\* A canvas of the given width; a canvas whose width is set is cleared.
Blank(w) == [i \in 0 .. w - 1 |-> "blank"]

\* The display that the constructor makes.
NewDisplay ==
    [fbWidth |-> 0, vp |-> [x |-> 0, w |-> 0], back |-> Blank(0), target |-> Blank(0),
     damage |-> None, renderQ |-> <<>>, flushPromise |-> FALSE, clipViewport |-> FALSE,
     prevDrawStyle |-> "", fillStyle |-> "black"]

\* What the drawing operations of a canvas do: pixels outside of it are left out.
Paint(canvas, x, data) ==
    [i \in DOMAIN canvas |->
        IF i - x + 1 \in DOMAIN data THEN data[i - x + 1] ELSE canvas[i]]

\* The pixels x .. x+w-1 of a canvas as an operation on another one: a source
\* pixel outside of the canvas leaves the destination as it is.
Moved(canvas, from, oldX, x, w) ==
    [i \in DOMAIN canvas |->
        IF i \in x .. x + w - 1 /\ i - x + oldX \in DOMAIN from
        THEN from[i - x + oldX] ELSE canvas[i]]

_damage(d, x, w) ==
    [d EXCEPT !.damage = [left |-> Min({x, @.left}), right |-> Max({x + w, @.right})]]

\* The context's colour is set only when it is not the one set last.
_setFillColor(d, color) ==
    IF color = d.prevDrawStyle THEN d
    ELSE [d EXCEPT !.prevDrawStyle = color, !.fillStyle = color]

\* flip(true), or with an empty queue: copy the damaged part of the viewport.
FlipNow(d) ==
    LET x == Max({d.damage.left, d.vp.x})
        vx == x - d.vp.x
        w == Min({d.damage.right - x, d.vp.w - vx})
    IN [d EXCEPT !.target = Moved(@, d.back, x, vx, w), !.damage = None]

\* One drawing operation, done at once.  An operation is a record; a blit has
\* the buffer its array is a view of, and the offset of the view.
FillNow(d, a) ==
    LET e == _setFillColor(d, a.color)
    IN _damage([e EXCEPT !.back = Paint(@, a.x, [i \in 1 .. a.w |-> e.fillStyle])], a.x, a.w)
CopyNow(d, a) == _damage([d EXCEPT !.back = Moved(@, @, a.oldX, a.x, a.w)], a.x, a.w)
BlitNow(d, a) ==
    _damage([d EXCEPT !.back = Paint(@, a.x, SubSeq(a.buffer, a.offset + 1, a.offset + a.w))], a.x, a.w)
ImageNow(d, a) == _damage([d EXCEPT !.back = Paint(@, a.x, [i \in 1 .. a.w |-> a.color])], a.x, a.w)

\* What _scanRenderQ does with the operation at the head of the queue.
Render(d, a) ==
    CASE a.type = "flip" -> FlipNow(d)
      [] a.type = "copy" -> CopyNow(d, a)
      [] a.type = "fill" -> FillNow(d, a)
      [] a.type = "blit" -> BlitNow(d, a)
      [] a.type = "img" -> ImageNow(d, a)

\* An image holds the queue up until it is complete, and for good when what
\* was decoded has not the size of its rectangle.
Ready(a) == a.type = "img" => a.state = "loaded"

\* Render the operations up to the first that is not ready; when the queue has
\* run empty the promise of flush() is resolved.
_scanRenderQ(d) ==
    LET blocked == {i \in DOMAIN d.renderQ : ~Ready(d.renderQ[i])}
        n == IF blocked = {} THEN Len(d.renderQ) ELSE Min(blocked) - 1
        done == FoldLeft(Render, d, SubSeq(d.renderQ, 1, n))
    IN [done EXCEPT !.renderQ = SubSeq(@, n + 1, Len(@)),
                    !.flushPromise = @ /\ n < Len(d.renderQ)]

_renderQPush(d, a) ==
    LET q == [d EXCEPT !.renderQ = Append(@, a)]
    IN IF Len(q.renderQ) = 1 THEN _scanRenderQ(q) ELSE q

\* Mutant: what needs no decoding is drawn at once.
DrawAtOnce(d, a) == Render(d, a)

\* flip, fillRect and copyImage: behind what is queued already, or at once.
Draw(d, a) == IF d.renderQ # <<>> THEN _renderQPush(d, a) ELSE Render(d, a)
flip(d) == Draw(d, [type |-> "flip"])

\* A queued blit keeps a copy, which is taken from the start of the buffer and
\* not from the start of the view.
blitImage(d, a) ==
    Draw(d, IF d.renderQ # <<>> THEN [a EXCEPT !.offset = 0] ELSE a)

imageRect(d, a) == IF a.w = 0 THEN d ELSE _renderQPush(d, [a EXCEPT !.state = "decoding"])

pending(d) == d.renderQ # <<>>
flush(d) == [d EXCEPT !.flushPromise = pending(d)]

\* The browser has decoded the image of operation i.  Its load event resumes the
\* queue if the queue waits for it; an image in error has no such event.
Decoded(d, i, outcome) ==
    LET e == [d EXCEPT !.renderQ[i].state = outcome]
    IN IF i = 1 /\ outcome # "error" THEN _scanRenderQ(e) ELSE e

\* Mutant: the viewport moves and nothing is redrawn.
viewportMovesOnly(d, delta) ==
    LET wanted == IF d.clipViewport THEN delta ELSE -d.vp.w
        low == IF d.vp.x + wanted < 0 THEN -d.vp.x ELSE wanted
        over == d.vp.x + d.vp.w + low - d.fbWidth
    IN [d EXCEPT !.vp.x = @ + (IF over > 0 THEN low - over ELSE low)]

viewportChangePos(d, delta) ==
    LET wanted == IF d.clipViewport THEN delta ELSE -d.vp.w
        low == IF d.vp.x + wanted < 0 THEN -d.vp.x ELSE wanted
        over == d.vp.x + d.vp.w + low - d.fbWidth
        by == IF over > 0 THEN low - over ELSE low
        e == [d EXCEPT !.vp.x = @ + by]
    IN IF by = 0 THEN d ELSE flip(_damage(e, e.vp.x, e.vp.w))

viewportChangeSize(d, width) ==
    LET w == IF d.clipViewport THEN Min({width, d.fbWidth}) ELSE d.fbWidth
        e == viewportChangePos([d EXCEPT !.vp.w = w, !.target = Blank(w)], 0)
    IN IF w = d.vp.w THEN d ELSE flip(_damage(e, e.vp.x, e.vp.w))

\* set clipViewport
SetClip(d, on) ==
    LET e == [d EXCEPT !.clipViewport = on]
    IN viewportChangePos(viewportChangeSize(e, e.vp.w), 0)

\* The picture is kept, at the new size, and the context loses its colour; the
\* render queue is not waited for.
resize(d, width) ==
    LET e == [d EXCEPT !.fbWidth = width, !.back = Moved(Blank(width), @, 0, 0, width),
                       !.prevDrawStyle = "",
                       !.fillStyle = IF width = d.fbWidth THEN @ ELSE "black"]
    IN viewportChangePos(viewportChangeSize(e, e.vp.w), 0)

-----------------------------------------------------------------------------
CONSTANTS
    Widths,      \* widths of the remote screen
    Windows,     \* widths of the browser's window
    Rects,       \* rectangles a server sends
    MaxRects,    \* bound on the rectangles of an update
    MaxUpdates,  \* bound on the updates
    MaxUser      \* bound on what the user does

VARIABLES
    d,           \* this._display
    fbu,         \* this._FBU.rects: rectangles of the update still to come
    flushing,    \* this._flushing
    continuous,  \* this._supportsContinuousUpdates, and the area asked for
    clip,        \* this._clipViewport
    window,      \* _screenSize(), the expected size, and what is due for it
    wire,        \* messages from the server
    asked,       \* the server holds a request for an update
    sent,        \* updates sent so far
    user,        \* user actions so far
    ref,         \* history: the picture, drawn in the order of the messages
    apart        \* history: why the display may differ from it or stand still

vars == <<d, fbu, flushing, continuous, clip, window, wire, asked, sent, user, ref, apart>>

Update(n) == [type |-> 0, rects |-> n]
EndOfContinuousUpdates == [type |-> 150]

\* _updateClip (without scaling): the viewport is as wide as the window.
_updateClip(e, on, w) ==
    LET c == IF e.clipViewport # on THEN SetClip(e, on) ELSE e
    IN IF on THEN viewportChangeSize(c, w) ELSE c

Init ==
    /\ clip \in BOOLEAN
    /\ \E w \in Windows : window = [w |-> w, expected |-> w, due |-> {}]
    /\ \E w \in Widths : /\ d = _updateClip(resize(NewDisplay, w), clip, window.w)
                         /\ ref = Blank(w)
    /\ fbu = 0 /\ flushing = FALSE /\ continuous = [supported |-> FALSE, area |-> 0]
    /\ wire = <<>> /\ asked = TRUE /\ sent = 0 /\ user = 0 /\ apart = {}

\* _resize
_resize(e, width) == _updateClip(resize(e, width), clip, window.w)

\* What a rectangle does to the display, and to the picture in message order.
DrawRect(e, r) ==
    CASE r.type = "size" -> _resize(e, r.w)
      [] r.type = "img" -> imageRect(e, r)
      [] r.type = "blit" -> blitImage(e, r)
      [] OTHER -> Draw(e, r)

RefRect(p, r) ==
    CASE r.type = "size" -> Moved(Blank(r.w), p, 0, 0, r.w)
      [] r.type = "copy" -> Moved(p, p, r.oldX, r.x, r.w)
      [] r.type = "blit" -> Paint(p, r.x, SubSeq(r.buffer, r.offset + 1, r.offset + r.w))
      [] OTHER -> Paint(p, r.x, [i \in 1 .. r.w |-> r.color])

\* A blit from inside a larger buffer that has to be queued, and a change of the
\* size while something is queued, are drawn differently from what was sent.
Apart(e, r) ==
    IF pending(e) /\ (r.type = "size" \/ (r.type = "blit" /\ r.offset # 0))
    THEN {"picture"} ELSE {}

\* Mutant: the next update is asked for only when all of this one is drawn.
FinishWhenDrawn(e) ==
    /\ d' = flip(e)
    /\ fbu' = 0
    /\ asked' = (asked \/ (continuous.area = 0 /\ ~pending(e)))

\* The end of _framebufferUpdate, and the request that _normalMsg adds.
Finish(e) ==
    /\ d' = flip(e)
    /\ fbu' = 0
    /\ asked' = (asked \/ continuous.area = 0)

\* _normalMsg, _framebufferUpdate: the header.  Rectangles wait until the
\* previous frame is rendered; an empty update that has to wait is forgotten.
FramebufferUpdate ==
    /\ fbu = 0 /\ ~flushing /\ wire # <<>> /\ Head(wire).type = 0
    /\ wire' = Tail(wire)
    /\ LET rects == Head(wire).rects
       IN \/ /\ pending(d)
             /\ flushing' = TRUE /\ d' = flush(d)
             /\ fbu' = rects
             /\ apart' = IF rects = 0 THEN apart \cup {"asked"} ELSE apart
             /\ UNCHANGED asked
          \/ /\ ~pending(d)
             /\ IF rects = 0 THEN Finish(d) ELSE fbu' = rects /\ UNCHANGED <<d, asked>>
             /\ UNCHANGED <<flushing, apart>>
    /\ UNCHANGED <<continuous, clip, window, sent, user, ref>>

\* _handleRect for the next rectangle, and the end of the update after the last.
\* LastRect ends an update whatever its header announced.
HandleRect == \E r \in Rects :
    /\ fbu # 0 /\ ~flushing
    /\ LET e == IF r.type = "last" THEN d ELSE DrawRect(d, r)
       IN /\ ref' = IF r.type = "last" THEN ref ELSE RefRect(ref, r)
          /\ apart' = apart \cup Apart(d, r)
          /\ IF r.type = "last" \/ fbu = 1 THEN Finish(e)
             ELSE d' = e /\ fbu' = fbu - 1 /\ UNCHANGED asked
          /\ continuous' = IF r.type = "size" /\ continuous.area # 0
                           THEN [continuous EXCEPT !.area = r.w] ELSE continuous
          /\ window' = IF r.type = "size" THEN [window EXCEPT !.expected = window.w] ELSE window
    /\ UNCHANGED <<flushing, clip, wire, sent, user>>

\* The server announces continuous updates, which are switched on at once.
HandleEndOfContinuousUpdates ==
    /\ fbu = 0 /\ ~flushing /\ wire # <<>> /\ Head(wire).type = 150
    /\ wire' = Tail(wire)
    /\ continuous' = [supported |-> TRUE,
                      area |-> IF continuous.supported THEN 0 ELSE d.fbWidth]
    /\ UNCHANGED <<d, fbu, flushing, clip, window, asked, sent, user, ref, apart>>

\* An image is decoded: the queue goes on, and once it is empty so do messages.
ImageDecoded ==
    /\ \E i \in DOMAIN d.renderQ, outcome \in {"loaded", "badsize", "error"} :
        /\ d.renderQ[i].type = "img" /\ d.renderQ[i].state = "decoding"
        /\ d' = Decoded(d, i, outcome)
        /\ apart' = IF outcome = "loaded" THEN apart ELSE apart \cup {"image"}
    /\ flushing' = (flushing /\ d'.flushPromise)
    /\ UNCHANGED <<fbu, continuous, clip, window, wire, asked, sent, user, ref>>

-----------------------------------------------------------------------------
\* The user drags the viewport, turns clipping on or off, resizes the window.
Acts == user < MaxUser /\ user' = user + 1
        /\ UNCHANGED <<fbu, flushing, continuous, wire, asked, sent, ref, apart>>

Pan == \E delta \in {-1, 1} :
    /\ Acts /\ clip
    /\ d' = viewportChangePos(d, delta)
    /\ UNCHANGED <<clip, window>>

SetClipViewport ==
    /\ Acts
    /\ clip' = ~clip
    /\ d' = _updateClip(d, ~clip, window.w)
    /\ window' = [window EXCEPT !.expected = window.w]

ResizeWindow == \E w \in Windows \ {window.w} :
    /\ Acts /\ "observer" \notin window.due
    /\ window' = [window EXCEPT !.w = w, !.due = @ \cup {"observer"}]
    /\ UNCHANGED <<d, clip>>

\* The size is looked at when the observer reports it, and applied in the next
\* animation frame unless it is the expected one.
_handleResize ==
    /\ "observer" \in window.due
    /\ window' = [window EXCEPT !.due = (@ \ {"observer"}) \cup
                                      IF window.w = window.expected THEN {} ELSE {"frame"}]
    /\ UNCHANGED <<d, fbu, flushing, continuous, clip, wire, asked, sent, user, ref, apart>>

AnimationFrame ==
    /\ "frame" \in window.due
    /\ window' = [window EXCEPT !.due = @ \ {"frame"}]
    /\ d' = _updateClip(d, clip, window.w)
    /\ UNCHANGED <<fbu, flushing, continuous, clip, wire, asked, sent, user, ref, apart>>

\* The server answers a request, or sends by itself inside the continuous area.
Server ==
    /\ sent < MaxUpdates
    /\ \/ /\ asked \/ continuous.area # 0
          /\ \E n \in 0 .. MaxRects : wire' = Append(wire, Update(n))
          /\ sent' = sent + 1 /\ asked' = FALSE
       \/ /\ ~continuous.supported /\ \A i \in DOMAIN wire : wire[i].type # 150
          /\ wire' = Append(wire, EndOfContinuousUpdates)
          /\ sent' = sent + 1 /\ UNCHANGED asked
    /\ UNCHANGED <<d, fbu, flushing, continuous, clip, window, user, ref, apart>>

Client ==
    \/ FramebufferUpdate \/ HandleRect \/ HandleEndOfContinuousUpdates
    \/ ImageDecoded \/ _handleResize \/ AnimationFrame

Next == Client \/ Server \/ Pan \/ SetClipViewport \/ ResizeWindow

Spec == Init /\ [][Next]_vars

-----------------------------------------------------------------------------
\* Drawing is in order: once nothing is queued the hidden canvas holds what the
\* rectangles draw one after the other, however long each image took to decode
\* and whatever the user did meanwhile - unless a view into a larger buffer had
\* to be queued or the screen changed its size in front of queued drawing.
PictureInOrder == ~pending(d) /\ "picture" \notin apart => d.back = ref

\* Nothing on the screen is stale: the viewport always lies inside the remote
\* screen, and with nothing queued every visible pixel is the hidden canvas's
\* pixel or inside the bounds that the next flip repaints.
NothingStale ==
    /\ d.vp.x >= 0 /\ d.vp.x + d.vp.w <= d.fbWidth /\ DOMAIN d.target = 0 .. d.vp.w - 1
    /\ ~pending(d) =>
        \A i \in DOMAIN d.target :
            \/ d.target[i] = d.back[i + d.vp.x]
            \/ i + d.vp.x \in d.damage.left .. d.damage.right - 1

\* The client never goes quiet.  Drawing and messages are held back only by an
\* image that the browser is still decoding, and when there is nothing left to
\* handle the server holds a request or sends by itself for the whole screen.
\* The exceptions are an image that cannot be decoded to its announced size and
\* an update without rectangles that arrives while images are decoded.
NeverQuiet ==
    /\ flushing => d.flushPromise /\ pending(d)
    /\ pending(d) => Head(d.renderQ).type = "img"
                     /\ (Head(d.renderQ).state = "decoding" \/ "image" \in apart)
    /\ \/ fbu # 0 \/ flushing \/ wire # <<>> \/ "asked" \in apart
       \/ asked \/ continuous.area = d.fbWidth
=============================================================================
