---------------------------- MODULE NovncFraming ----------------------------
(***************************************************************************)
(* The noVNC client's handling of the server's messages once connected      *)
(* (core/rfb.js from _handleMessage down, with core/decoders): a byte       *)
(* stream that the WebSocket delivers in arbitrary pieces is cut into       *)
(* messages, rectangles and the parts of a rectangle.  Every piece runs     *)
(* _handleMessage as far as the bytes go; the next one takes up where it    *)
(* stopped.                                                                 *)
(***************************************************************************)
EXTENDS NovncDecoders

CONSTANT Streams        \* what servers send: bytes, what they mean, and the screen's size

VARIABLES c,            \* the client
          meant         \* what the stream of this connection means

vars == <<c, meant>>

\* An encoding's number as it is sent; pseudo encodings are negative.
S32(n) == IF n >= 0 THEN Bytes(n, 4) ELSE <<255, 255>> \o Bytes(65536 + n, 2)
VMwareCursor == <<87, 77, 86, 100>>

Screen(w, h) == (0 .. w - 1) \X (0 .. h - 1)

NewClient(s) ==
    [rQ |-> s.bytes, rQlen |-> 0, rQi |-> 0, failed |-> FALSE, pixelSize |-> s.pixelSize,
     fb |-> [p \in Screen(s.w, s.h) |-> <<0, 0, 0>>], dec |-> NewDecoders,
     rects |-> 0, encoding |-> <<>>, rect |-> <<>>, pending |-> FALSE, flushing |-> FALSE,
     viewOnly |-> s.viewOnly, supportsSetDesktopSize |-> FALSE, caps |-> {}, clipboardText |-> FALSE,
     continuous |-> FALSE, supportsContinuous |-> FALSE, log |-> <<>>, skew |-> FALSE]

\* What the user and the server get to see of a message.
Log(d, entry) == [d EXCEPT !.log = Append(@, entry)]

-----------------------------------------------------------------------------
\* _handleServerCutText.  The text of a Provide is inflated: per format four
\* bytes of length and as many bytes of data.
Text(bytes) ==
    LET t == IF bytes # <<>> /\ Last(bytes) = 0 THEN Front(bytes) ELSE bytes
        keep == {i \in DOMAIN t : ~(t[i] = 13 /\ i < Len(t) /\ t[i + 1] = 10)}
    IN [k \in 1 .. Cardinality(keep) |-> t[CHOOSE i \in keep : Cardinality({j \in keep : j <= i}) = k]]

Provided(d, formats, length) ==
    LET z == setInput(NewInflator, Peek(d, 4, length - 4))
        Format(s, i) ==
            LET n == Number(Inflated(AfterInflate(z, s.at), 4))
            IN [at |-> s.at + 4 + n, ok |-> s.ok /\ CanInflate(z, s.at + 4 + n),
                text |-> IF i = 0 THEN Inflated(AfterInflate(z, s.at + 4), n) ELSE s.text]
    IN FoldLeft(Format, [at |-> 0, ok |-> TRUE, text |-> <<>>],
                SelectSeq([i \in 1 .. 16 |-> i - 1], LAMBDA i : Bit(formats, i)))

\* The extended message of this length at the read position.
ExtendedClipboard(d, length) ==
    LET actions == U8(d, 0)
        formats == U16(d, 2)
        text == Bit(formats, 0)
        e == rQskipBytes(d, 4)
        got == Provided(d, formats, length)
    IN CASE Bit(actions, 0) ->
              Done(Log([rQskipBytes(e, 4 * Cardinality({i \in 0 .. 15 : Bit(formats, i)}))
                            EXCEPT !.caps = {a \in {1, 2, 3, 4} : Bit(actions, a)}], <<"caps">>))
         [] actions \in {2, 4, 8} /\ d.viewOnly -> Done(e)
         [] actions = 2 -> Done(IF d.clipboardText /\ 4 \in d.caps /\ text
                                THEN Log(e, <<"provide">>) ELSE e)
         [] actions = 4 -> Done(IF 3 \in d.caps THEN Log(e, <<"notify", d.clipboardText>>) ELSE e)
         [] actions = 8 -> Done(IF 1 \in d.caps /\ text THEN Log(e, <<"request">>) ELSE e)
         [] actions = 16 /\ (d.viewOnly \/ ~text) -> Done([e EXCEPT !.skew = TRUE])
         [] actions = 16 -> IF ~got.ok THEN Throw(d)
                            ELSE Done(Log([rQskipBytes(d, length) EXCEPT !.clipboardText = FALSE],
                                          <<"clipboard", Text(got.text)>>))
         [] OTHER -> Throw(e)

_handleServerCutText(d) ==
    LET b == Peek(d, 3, 4)
        extended == b[1] > 127
        length == IF extended THEN Number([i \in 1 .. 4 |-> 255 - b[i]]) + 1 ELSE Number(b)
        e == rQskipBytes(d, 7)
    IN IF rQwait(d, 7) THEN Wait(Goback(d, 1))
       ELSE IF rQwait(e, length) THEN Wait(Goback(e, 8))
       ELSE IF extended THEN ExtendedClipboard(e, length)
       ELSE Done(IF d.viewOnly THEN rQskipBytes(e, length)
                 ELSE Log(rQskipBytes(e, length), <<"clipboard", rQshiftBytes(e, length)>>))

_handleServerFenceMsg(d) ==
    LET e == rQskipBytes(d, 8)
        length == Min({64, U8(d, 7)})
        f == [rQskipBytes(e, length) EXCEPT !.skew = @ \/ U8(d, 7) > 64]
    IN IF rQwait(d, 8) THEN Wait(Goback(d, 1))
       ELSE IF rQwait(e, U8(d, 7)) THEN Wait(Goback(e, 9))
       ELSE IF U8(d, 3) < 128 THEN Throw(f)
       ELSE Done(Log(f, <<"fence", U8(d, 6) % 4, rQshiftBytes(e, length)>>))

_handleXvpMsg(d) ==
    LET e == rQskipBytes(d, 3)
    IN IF rQwait(d, 3) THEN Wait(Goback(d, 1))
       ELSE CASE U8(d, 2) = 0 -> Done(e)
              [] U8(d, 2) = 1 -> Done(Log(e, <<"xvp", U8(d, 1)>>))
              [] OTHER -> Done(Throw(e).c)

-----------------------------------------------------------------------------
\* Pseudo rectangles.  A cursor's pixel is transparent (<<>>) or its colour.
ClassicPixel(and, xor) ==
    CASE and = <<0, 0, 0, 0>> -> <<xor[3], xor[2], xor[1]>>
      [] SubSeq(and, 1, 3) = <<255, 255, 255>> /\ xor = <<0, 0, 0, 0>> -> <<>>
      [] OTHER -> <<0, 0, 0>>

_handleVMwareCursor(d, r) ==
    LET n == r.w * r.h
        e == rQskipBytes(d, 2)
        type == U8(d, 0)
        Word(k) == Peek(e, 4 * (k - 1), 4)
    IN IF rQwait(d, 1) THEN Wait(d)
       ELSE IF type = 0
       THEN IF rQwait(e, n * 8) THEN Wait(Goback(e, 2))
            ELSE Done(Log(rQskipBytes(e, n * 8),
                      <<"cursor", [k \in 1 .. n |-> ClassicPixel(Word(k), Word(n + k))]>>))
       ELSE IF type = 1
       THEN IF rQwait(e, n * 4) THEN Wait(Goback(e, 2))
            ELSE Done(Log(rQskipBytes(e, n * 4),
                      <<"cursor", [k \in 1 .. n |-> IF Word(k)[4] = 0 THEN <<>> ELSE SubSeq(Word(k), 1, 3)]>>))
       ELSE Wait([e EXCEPT !.skew = TRUE])

_handleCursor(d, r) ==
    LET n == r.w * r.h * 4
        masklength == Ceil(r.w, 8) * r.h
        Mask(k) == LET x == (k - 1) % r.w
                       y == (k - 1) \div r.w
                   IN Bit(U8(d, n + y * Ceil(r.w, 8) + x \div 8), 7 - (x % 8))
        Pixel(k) == LET b == Peek(d, 4 * (k - 1), 3) IN <<b[3], b[2], b[1]>>
    IN IF rQwait(d, n + masklength) THEN Wait(d)
       ELSE Done(Log(rQskipBytes(d, n + masklength),
                     <<"cursor", [k \in 1 .. r.w * r.h |-> IF Mask(k) THEN Pixel(k) ELSE <<>>]>>))

_handleDesktopName(d) ==
    LET length == U32(d, 0)
        e == rQskipBytes(d, 4)
    IN IF rQwait(d, 4) THEN Wait(d)
       ELSE IF rQwait(e, length) THEN Wait(Goback(e, 4))
       ELSE Done(Log(rQskipBytes(e, length), <<"name", rQshiftBytes(e, length)>>))

_handleLedEvent(d) ==
    IF rQwait(d, 1) THEN Wait(d)
    ELSE Done(Log(rQskipBytes(d, 1), <<"led", Bit(U8(d, 0), 1), Bit(U8(d, 0), 2)>>))

\* _resize: the picture is kept; continuous updates are asked for again.
Resize(d, r) ==
    LET e == [d EXCEPT !.fb = [p \in Screen(r.w, r.h) |->
                                  IF p \in DOMAIN d.fb THEN d.fb[p] ELSE <<0, 0, 0>>]]
    IN IF d.continuous THEN Log(e, <<"continuous", r.w, r.h>>) ELSE e

\* A refused request of ours changes nothing; the first message of this kind is
\* answered by a request for our own size.
_handleExtendedDesktopSize(d, r) ==
    LET bytes == 4 + U8(d, 0) * 16
        e == [rQskipBytes(d, bytes) EXCEPT !.supportsSetDesktopSize = TRUE]
        f == IF r.x = 1 /\ r.y # 0 THEN e ELSE Resize(e, r)
    IN IF rQwait(d, 4) \/ rQwait(d, bytes) THEN Wait(d)
       ELSE Done(IF d.supportsSetDesktopSize THEN f ELSE Log(f, <<"resize", Peek(d, 4, 4)>>))

_handleDataRect(d, r) ==
    CASE d.encoding = S32(0) -> Raw(d, r)
      [] d.encoding = S32(1) -> CopyRect(d, r)
      [] d.encoding = S32(2) -> RRE(d, r)
      [] d.encoding = S32(5) -> Hextile(d, r)
      [] d.encoding \in {S32(7), S32(-260)} -> Tight(d, r, d.encoding = S32(-260))
      [] d.encoding = S32(16) -> ZRLE(d, r)
      [] d.encoding = S32(21) -> JPEG(d, r)
      [] OTHER -> Throw(d)

_handleRect(d) ==
    LET r == d.rect
    IN CASE d.encoding = S32(-224) -> Done([d EXCEPT !.rects = 1])
         [] d.encoding = VMwareCursor -> _handleVMwareCursor(d, r)
         [] d.encoding = S32(-239) -> _handleCursor(d, r)
         [] d.encoding = S32(-258) -> Done(Log(d, <<"qemu keys">>))
         [] d.encoding = S32(-307) -> _handleDesktopName(d)
         [] d.encoding = S32(-223) -> Done(Resize(d, r))
         [] d.encoding = S32(-308) -> _handleExtendedDesktopSize(d, r)
         [] d.encoding = S32(-261) -> _handleLedEvent(d)
         [] OTHER -> _handleDataRect(d, r)

-----------------------------------------------------------------------------
\* The rectangles of an update.  The header of a rectangle is read once.
RECURSIVE FBURects(_)
NextRect(drawn) ==
    IF drawn.ok THEN FBURects([drawn.c EXCEPT !.rects = @ - 1, !.encoding = <<>>]) ELSE drawn
FBURects(d) ==
    LET header == [rQskipBytes(d, 12) EXCEPT
                      !.rect = [x |-> U16(d, 0), y |-> U16(d, 2), w |-> U16(d, 4), h |-> U16(d, 6)],
                      !.encoding = Peek(d, 8, 4)]
    IN IF d.rects = 0 THEN Done(Log(d, <<"flip">>))
       ELSE IF d.encoding = <<>> /\ rQwait(d, 12) THEN Wait(d)
       ELSE NextRect(_handleRect(IF d.encoding = <<>> THEN header ELSE d))

\* Before the first rectangle the previous frame has to be rendered.
_framebufferUpdate(d) ==
    LET e == [rQskipBytes(d, 3) EXCEPT !.rects = U16(d, 1)]
    IN IF d.rects = 0 /\ rQwait(d, 3) THEN Wait(Goback(d, 1))
       ELSE IF d.rects = 0 /\ d.pending THEN Wait([e EXCEPT !.flushing = TRUE])
       ELSE FBURects(IF d.rects = 0 THEN e ELSE d)

\* A finished update is answered by a request for the next.
Answer(update) ==
    IF update.ok /\ ~update.c.continuous THEN Done(Log(update.c, <<"update request">>))
    ELSE update

_normalMsg(d) ==
    LET type == IF d.rects # 0 THEN 0 ELSE U8(d, 0)
        e == IF d.rects # 0 THEN d ELSE rQskipBytes(d, 1)
    IN CASE type = 0 -> Answer(_framebufferUpdate(e))
         [] type = 2 -> Done(Log(e, <<"bell">>))
         [] type = 3 -> _handleServerCutText(e)
         [] type = 150 -> Done([(IF d.supportsContinuous THEN e ELSE Log(e, <<"continuous">>))
                                    EXCEPT !.continuous = ~d.supportsContinuous,
                                           !.supportsContinuous = TRUE])
         [] type = 248 -> _handleServerFenceMsg(e)
         [] type = 250 -> _handleXvpMsg(e)
         [] type = 1 -> Throw(e)
         [] OTHER -> Done(Throw(e).c)

\* The loop over the messages does not look at the connection's state again.
RECURSIVE Messages(_)
NextMessage(n) == IF ~n.ok \/ rQwait(n.c, 1) THEN n.c ELSE Messages(n.c)
Messages(d) == IF d.flushing THEN d ELSE NextMessage(_normalMsg(d))

_handleMessage(d) == IF d.failed THEN d ELSE Messages(d)

-----------------------------------------------------------------------------
Init == \E s \in Streams : c = NewClient(s) /\ meant = s

\* A WebSocket message brings any number of bytes.
Arrive == \E n \in 1 .. Len(c.rQ) - c.rQlen :
    /\ c' = _handleMessage([c EXCEPT !.rQlen = @ + n])
    /\ UNCHANGED meant

\* The images are decoded; messages that waited for it are taken up again.
Decoded ==
    /\ c.pending
    /\ LET d == [c EXCEPT !.pending = FALSE, !.flushing = FALSE]
       IN c' = IF c.flushing /\ ~rQwait(d, 1) THEN _handleMessage(d) ELSE d
    /\ UNCHANGED meant

Next == Arrive \/ Decoded

Spec == Init /\ [][Next]_vars

-----------------------------------------------------------------------------
\* The stream is never out of step, whatever pieces it arrives in: what was
\* dispatched so far is the beginning of what the server's messages mean, no
\* message is refused, and when everything has arrived and no image is being
\* decoded all of it has been read and the picture is the one that was sent.
\* (The exceptions drop bytes of a message they do not want: a Provide of the
\* clipboard in view-only mode or without text, a fence longer than 64 bytes.)
DecodedAsSent ==
    \/ c.skew
    \/ /\ ~c.failed /\ IsPrefix(c.log, meant.log)
       /\ c.rQlen = Len(c.rQ) /\ ~c.pending =>
            c.rQi = c.rQlen /\ c.log = meant.log /\ c.fb = meant.fb

-----------------------------------------------------------------------------
(***************************************************************************)
(* What RFB servers send to the client of NovncFraming: byte streams, each  *)
(* with the picture and the messages that it means.  The streams put next   *)
(* to each other what a decoder keeps from one rectangle to the next.       *)
(***************************************************************************)

A == <<1, 2, 3>>
B == <<4, 5, 6>>
C == <<7, 8, 9>>
Z == <<0, 0, 0>>
X(pixel) == Append(pixel, 0)

Rect(x, y, w, h, encoding, body) ==
    Bytes(x, 2) \o Bytes(y, 2) \o Bytes(w, 2) \o Bytes(h, 2) \o encoding \o body
Update(rects) == <<0, 0>> \o Bytes(Len(rects), 2) \o FlattenSeq(rects)
Updated == <<<<"flip">>, <<"update request">>>>

\* A picture, row by row.
Picture(w, h, pixels) == [p \in Screen(w, h) |-> pixels[p[2] * w + p[1] + 1]]
Times(n, pixel) == [i \in 1 .. n |-> pixel]

Stream(w, h, pixels, bytes, log) ==
    [bytes |-> bytes, log |-> log, w |-> w, h |-> h, fb |-> Picture(w, h, pixels),
     pixelSize |-> 4, viewOnly |-> FALSE]
Start(s, w, h) == [s EXCEPT !.w = w, !.h = h]

-----------------------------------------------------------------------------
RawCopy == Stream(3, 2, <<A, B, Z, C, A, C>>,
    Update(<<Rect(0, 0, 2, 2, S32(0), X(A) \o X(B) \o X(C) \o X(A)),
             Rect(0, 0, 0, 2, S32(0), <<>>),
             Rect(2, 1, 1, 1, S32(1), Bytes(0, 2) \o Bytes(1, 2))>>), Updated)

RawDepth8 == [Stream(2, 1, <<<<255, 0, 85>>, <<0, 170, 0>>>>,
    Update(<<Rect(0, 0, 2, 1, S32(0), <<19, 8>>)>>), Updated) EXCEPT !.pixelSize = 1]

RreTwice == Stream(3, 2, <<A, B, B, A, A, C>>,
    Update(<<Rect(0, 0, 3, 2, S32(2), Bytes(2, 4) \o X(A)
                 \o X(B) \o Bytes(1, 2) \o Bytes(0, 2) \o Bytes(2, 2) \o Bytes(1, 2)
                 \o X(C) \o Bytes(1, 2) \o Bytes(1, 2) \o Bytes(1, 2) \o Bytes(1, 2)),
             Rect(1, 1, 2, 1, S32(2), Bytes(1, 4) \o X(A)
                 \o X(C) \o Bytes(1, 2) \o Bytes(0, 2) \o Bytes(1, 2) \o Bytes(1, 2))>>), Updated)

\* Background and foreground are kept for the following tiles; a tile without
\* anything after a raw one is not drawn at all.
HextileKept == Stream(17, 2,
    <<A, B, B>> \o Times(13, A) \o <<C, A, C>> \o Times(13, A) \o <<B, A>>,
    Update(<<Rect(0, 0, 17, 2, S32(5), <<14>> \o X(A) \o X(B) \o <<1, 16, 16>> \o <<0>>),
             Rect(0, 1, 17, 1, S32(5), <<24, 2>> \o X(C) \o <<16, 0>> \o X(B) \o <<240, 0>> \o <<8, 0>>),
             Rect(16, 0, 1, 1, S32(5), <<1>> \o X(C)),
             Rect(16, 0, 1, 1, S32(5), <<0>>)>>), Updated)

TightPlain == Stream(4, 2, <<A, A, B, C, A, C, C, C>>,
    Update(<<Rect(0, 0, 4, 2, S32(7), <<128>> \o A),
             Rect(2, 0, 2, 1, S32(7), <<0>> \o B \o C),
             Rect(1, 1, 3, 1, S32(7), <<64, 1, 1>> \o A \o C \o <<224>>),
             Rect(1, 0, 1, 1, S32(7), <<64, 0>> \o A)>>), Updated)

\* Compressed data, on a stream that goes on, and on two streams.
TightZlib == Stream(2, 2, <<C, A, A, C>>,
    Update(<<Rect(0, 0, 2, 2, S32(7), <<1, 13, 0>> \o A \o B \o A \o B),
             Rect(0, 0, 2, 2, S32(7), <<16, 13, 0>> \o B \o B \o B \o C),
             Rect(0, 0, 2, 2, S32(7), <<0, 13, 1>> \o C \o A \o A \o C)>>), Updated)
TightReset == Stream(2, 2, <<C, A, A, C>>,
    Update(<<Rect(0, 0, 2, 2, S32(7), <<0, 13, 0>> \o A \o B \o A \o B),
             Rect(0, 0, 2, 2, S32(7), <<1, 13, 0>> \o C \o A \o A \o C)>>), Updated)

\* The second row is predicted: 9 + 5 - 1 = 13, and too small a prediction is 0.
TightGradient == Stream(2, 2, <<<<1, 200, 9>>, <<5, 100, 9>>, <<9, 250, 8>>, <<14, 0, 10>>>>,
    Update(<<Rect(0, 0, 2, 2, S32(7), <<64, 2, 13, 0>> \o <<1, 200, 9>> \o <<4, 156, 0>>
                 \o <<8, 50, 255>> \o <<1, 106, 2>>)>>), Updated)

\* A palette of three is sent in bytes, one of two in bits, padded at the end of
\* a row.
TightPalette == Stream(9, 2, Times(9, B) \o <<C, A, C, A, A, A, A, A, C>>,
    Update(<<Rect(0, 0, 9, 2, S32(7), <<64, 1, 1>> \o A \o B \o <<255, 128, 0, 0>>),
             Rect(0, 1, 9, 1, S32(7), <<96, 1, 2>> \o A \o B \o C \o <<2, 0, 2, 0, 0, 0, 0, 0, 2>>)>>),
    Updated)

\* An image needs more than one byte of length, and the next update waits for it.
Long == [i \in 1 .. 130 |-> i]
TightImages == Stream(2, 1, <<{Long}, B>>,
    Update(<<Rect(0, 0, 1, 1, S32(7), <<144, 130, 1>> \o Long)>>)
        \o Update(<<Rect(1, 0, 1, 1, S32(-260), <<160, 2, 5, 6>>), Rect(1, 0, 1, 1, S32(0), X(B))>>),
    Updated \o Updated)

Zrle(x, y, w, h, block, tiles) ==
    Rect(x, y, w, h, S32(16), Bytes(Len(tiles) + 1, 4) \o <<block>> \o tiles)

ZrleTiles == Stream(66, 1, Times(64, A) \o <<B, C>>,
    Update(<<Zrle(0, 0, 66, 1, 0, <<1>> \o A \o <<0>> \o B \o C)>>), Updated)

\* Palettes of two, three and five colours; rows that end inside of a byte.
ZrlePalettes == Stream(9, 2, Times(8, A) \o <<B, C>> \o Times(7, B) \o <<A>>,
    Update(<<Zrle(0, 0, 9, 2, 0, <<2>> \o A \o B \o <<0, 128, 255, 0>>),
             Zrle(0, 1, 1, 1, 1, <<3>> \o A \o B \o C \o <<128>>),
             Zrle(4, 0, 5, 2, 2, <<5>> \o A \o B \o C \o C \o C \o <<0, 0, 16, 17, 17, 0>>)>>), Updated)

ZrleRuns == Stream(20, 15, Times(298, A) \o <<B, C>>,
    Update(<<Zrle(0, 0, 20, 15, 0, <<128>> \o C \o <<255, 44>>),
             Zrle(0, 0, 20, 15, 1, <<131>> \o A \o B \o C \o <<128, 255, 42, 1, 2>>)>>), Updated)

Segment(type, body) == <<255, type>> \o Bytes(Len(body) + 2, 2) \o body
Quant == Segment(219, <<1>>)
Huffman == Segment(196, <<2>>)
Scan(x) == Segment(218, <<0>>) \o <<x, 255, 0, 255, 208, x>>
Jpeg(tables, x) == <<255, 216>> \o tables \o Segment(192, <<>>) \o Scan(x) \o <<255, 217>>
JpegParts(x) == {<<255, 216>>, Quant, Huffman, Segment(192, <<>>), Scan(x), <<255, 217>>}
JpegTables == Stream(2, 1, <<JpegParts(3), JpegParts(4)>>,
    Update(<<Rect(0, 0, 1, 1, S32(21), Jpeg(Quant \o Huffman, 3))>>)
        \o Update(<<Rect(1, 0, 1, 1, S32(21), Jpeg(<<>>, 4))>>), Updated \o Updated)

\* Everything that is not drawn; LastRect ends an update early.
Cursors == Stream(1, 1, <<Z>>,
    Update(<<Rect(0, 0, 2, 1, S32(-239), X(A) \o X(B) \o <<64>>),
             Rect(0, 0, 2, 1, VMwareCursor, <<0, 0>> \o Times(4, 0) \o Times(4, 255)
                                            \o <<0, 3, 2, 1>> \o Times(4, 0)),
             Rect(0, 0, 1, 1, VMwareCursor, <<1, 0>> \o A \o <<9>>),
             Rect(0, 0, 0, 0, S32(-224), <<>>), <<>>>>),
    <<<<"cursor", <<<<>>, <<6, 5, 4>>>>>>, <<"cursor", <<<<2, 3, 0>>, <<>>>>>>,
      <<"cursor", <<A>>>>>> \o Updated)
Pseudo == Stream(1, 1, <<Z>>,
    Update(<<Rect(0, 0, 0, 0, S32(-258), <<>>), Rect(0, 0, 0, 0, S32(-307), Bytes(2, 4) \o <<65, 66>>),
             Rect(0, 0, 0, 0, S32(-261), <<4>>)>>),
    <<<<"qemu keys">>, <<"name", <<65, 66>>>>, <<"led", FALSE, TRUE>>>> \o Updated)

\* The screen grows, a request is refused, continuous updates follow the size.
Screens(n) == <<n, 0, 0, 0>> \o [i \in 1 .. 16 * n |-> i]
SizeChanges == Start(Stream(2, 1, <<A, B>>,
    Update(<<Rect(0, 0, 1, 1, S32(0), X(A))>>) \o <<150>>
        \o Update(<<Rect(0, 0, 2, 1, S32(-308), Screens(2)), Rect(1, 0, 1, 1, S32(0), X(B))>>)
        \o Update(<<Rect(1, 3, 9, 9, S32(-308), Screens(1)), Rect(0, 0, 2, 1, S32(-223), <<>>)>>),
    Updated \o <<<<"continuous">>, <<"continuous", 2, 1>>, <<"resize", <<1, 2, 3, 4>>>>,
                 <<"flip">>, <<"continuous", 2, 1>>, <<"flip">>>>), 1, 1)

CutText(bytes) == <<3, 0, 0, 0>> \o Bytes(Len(bytes), 4) \o bytes
Extended(action, formats, bytes) ==
    <<3, 0, 0, 0, 255, 255>> \o Bytes(65536 - 4 - Len(bytes), 2) \o <<action, 0, 0, formats>> \o bytes
Clipboard == Stream(1, 1, <<Z>>,
    CutText(<<72, 105>>) \o Extended(31, 3, Bytes(9, 4) \o Bytes(9, 4)) \o Extended(8, 1, <<>>)
        \o Extended(16, 3, <<0>> \o Bytes(5, 4) \o <<72, 13, 10, 13, 0>> \o Bytes(1, 4) \o <<7>>)
        \o Extended(4, 0, <<>>) \o Extended(2, 1, <<>>) \o <<2>>,
    <<<<"clipboard", <<72, 105>>>>, <<"caps">>, <<"request">>, <<"clipboard", <<72, 10, 13>>>>,
      <<"notify", FALSE>>, <<"bell">>>>)
ViewOnly == [Stream(1, 1, <<Z>>,
    CutText(<<72, 105>>) \o Extended(8, 1, <<>>) \o Extended(4, 0, <<>>) \o <<2>>, <<<<"bell">>>>)
    EXCEPT !.viewOnly = TRUE]
\* The clipboard is provided after view-only mode was switched on.
ViewOnlyProvide == [ViewOnly EXCEPT !.bytes = Extended(16, 1, <<0>> \o Bytes(1, 4) \o <<2>>) \o <<2>>]

Fence(n) == <<248, 0, 0, 0, 128, 0, 0, 7, n>> \o [i \in 1 .. n |-> i]
Others == Stream(1, 1, <<Z>>,
    Fence(3) \o <<250, 0, 1, 1>> \o Fence(0) \o <<250, 0, 1, 0, 2>>,
    <<<<"fence", 3, <<1, 2, 3>>>>, <<"xvp", 1>>, <<"fence", 3, <<>>>>, <<"bell">>>>)

AllStreams ==
    {RawCopy, RawDepth8, RreTwice, HextileKept, TightPlain, TightZlib, TightReset, TightGradient,
     TightPalette, TightImages, ZrleTiles, ZrlePalettes, ZrleRuns, JpegTables, Cursors, Pseudo,
     SizeChanges, Clipboard, ViewOnly, ViewOnlyProvide, Others}
=============================================================================
