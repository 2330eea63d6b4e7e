--------------------------- MODULE NovncDecoders ---------------------------
(***************************************************************************)
(* The decoders of the noVNC client (core/decoders/*.js, core/inflator.js). *)
(* decodeRect is called for a rectangle r until it returns true; between    *)
(* the calls a decoder keeps in c.dec how far it has come.  Drawing paints  *)
(* the picture c.fb.  A pixel is the sequence of its three colour bytes; an *)
(* image is painted as the set of parts that its file is made of.           *)
(***************************************************************************)
EXTENDS NovncWire

\* Drawing, without the display's queue (see NovncUpdates).
Inside(p, x, y, w, h) == p[1] \in x .. x + w - 1 /\ p[2] \in y .. y + h - 1
Fill(c, x, y, w, h, color) ==
    [c EXCEPT !.fb = [p \in DOMAIN c.fb |->
        IF Inside(p, x, y, w, h) THEN color ELSE c.fb[p]]]
Blit(c, x, y, w, h, pixels) ==
    [c EXCEPT !.fb = [p \in DOMAIN c.fb |->
        IF Inside(p, x, y, w, h) THEN pixels[(p[1] - x) + (p[2] - y) * w + 1] ELSE c.fb[p]]]
Copy(c, sx, sy, x, y, w, h) ==
    [c EXCEPT !.fb = [p \in DOMAIN c.fb |->
        LET q == <<p[1] - x + sx, p[2] - y + sy>>
        IN IF Inside(p, x, y, w, h) /\ q \in DOMAIN c.fb THEN c.fb[q] ELSE c.fb[p]]]

\* An image is left to the browser, and the display is pending until it is decoded.
ImageRect(c, r, image) ==
    [Fill(c, r.x, r.y, r.w, r.h, image) EXCEPT !.pending = @ \/ r.w * r.h > 0]

\* Pixels of the given size in bytes; the colour is in the first three.
Pixels(bytes, size) ==
    [k \in 1 .. Len(bytes) \div size |-> SubSeq(bytes, (k - 1) * size + 1, (k - 1) * size + 3)]

-----------------------------------------------------------------------------
\* A zlib stream: a block can be inflated only after all blocks before it.  Its
\* first byte stands for its place in the stream, the others for what it inflates to.
NewInflator == [block |-> 0, input |-> <<>>]

setInput(z, data) ==
    IF data = <<>> THEN [z EXCEPT !.input = <<>>]
    ELSE [block |-> IF Head(data) = z.block THEN z.block + 1 ELSE -1, input |-> Tail(data)]

CanInflate(z, n) == z.block # -1 /\ Len(z.input) >= n
Inflated(z, n) == [i \in 1 .. n |-> IF i <= Len(z.input) THEN z.input[i] ELSE 0]
AfterInflate(z, n) == [z EXCEPT !.input = SubSeq(@, n + 1, Len(@))]

NewDecoders ==
    [raw |-> 0, rre |-> 0,
     hextile |-> [tiles |-> 0, last |-> 0, background |-> <<>>, foreground |-> <<>>],
     tight |-> [ctl |-> -1, filter |-> -1, numColors |-> 0, palette |-> <<>>, len |-> 0,
                zlibs |-> [i \in 0 .. 3 |-> NewInflator]],
     zrle |-> [length |-> 0, inflator |-> NewInflator],
     jpeg |-> [segments |-> <<>>, quant |-> <<>>, huffman |-> <<>>]]

-----------------------------------------------------------------------------
\* Raw, line by line.  (At colour depth 8 a byte holds two bits of each colour.)
Depth8(b) == <<(b % 4) * 85, ((b \div 4) % 4) * 85, ((b \div 16) % 4) * 85>>

RECURSIVE Raw(_, _)
Raw(c, r) ==
    LET lines == IF c.dec.raw = 0 THEN r.h ELSE c.dec.raw
        bytesPerLine == r.w * c.pixelSize
        data == rQshiftBytes(c, bytesPerLine)
        pixels == IF c.pixelSize = 1 THEN [i \in 1 .. r.w |-> Depth8(data[i])] ELSE Pixels(data, 4)
        after == Blit([rQskipBytes(c, bytesPerLine) EXCEPT !.dec.raw = lines - 1],
                      r.x, r.y + r.h - lines, r.w, 1, pixels)
    IN IF r.w = 0 \/ r.h = 0 THEN Done(c)
       ELSE IF rQwait(c, bytesPerLine) THEN Wait([c EXCEPT !.dec.raw = lines])
       ELSE IF lines = 1 THEN Done(after)
       ELSE Raw(after, r)

CopyRect(c, r) ==
    IF rQwait(c, 4) THEN Wait(c)
    ELSE Done(Copy(rQskipBytes(c, 4), U16(c, 0), U16(c, 2), r.x, r.y, r.w, r.h))

\* RRE: the background, then the subrectangles.
RECURSIVE Subrects(_, _)
Subrects(c, r) ==
    IF c.dec.rre = 0 THEN Done(c)
    ELSE IF rQwait(c, 4 + 8) THEN Wait(c)
    ELSE LET drawn == Fill(c, r.x + U16(c, 4), r.y + U16(c, 6), U16(c, 8), U16(c, 10),
                           Peek(c, 0, 3))
         IN Subrects([rQskipBytes(drawn, 12) EXCEPT !.dec.rre = @ - 1], r)

\* Mutant: the background is drawn again when the rest of the subrectangles comes.
RREFromStart(c, r) ==
    IF rQwait(c, 4 + 4) THEN Wait(c)
    ELSE Subrects([rQskipBytes(Fill(c, r.x, r.y, r.w, r.h, Peek(c, 4, 3)), 8)
                       EXCEPT !.dec.rre = U32(c, 0)], r)

RRE(c, r) ==
    IF c.dec.rre # 0 THEN Subrects(c, r)
    ELSE IF rQwait(c, 4 + 4) THEN Wait(c)
    ELSE Subrects([rQskipBytes(Fill(c, r.x, r.y, r.w, r.h, Peek(c, 4, 3)), 8)
                       EXCEPT !.dec.rre = U32(c, 0)], r)

-----------------------------------------------------------------------------
\* Mutant: the byte that holds the number of subrectangles is not counted.
TileBytesShort(c, sub, tw, th) ==
    LET colours == 1 + (IF Bit(sub, 1) THEN 4 ELSE 0) + (IF Bit(sub, 2) THEN 4 ELSE 0)
    IN IF Bit(sub, 0) THEN 1 + tw * th * 4
       ELSE IF ~Bit(sub, 3) THEN colours
       ELSE IF rQwait(c, colours + 1) THEN colours + 1
       ELSE colours + U8(c, colours) * (IF Bit(sub, 4) THEN 6 ELSE 2)

\* Hextile.  How many bytes the tile at the read position takes, as far as they
\* tell: the number of subrectangles may still be missing.
TileBytes(c, sub, tw, th) ==
    LET colours == 1 + (IF Bit(sub, 1) THEN 4 ELSE 0) + (IF Bit(sub, 2) THEN 4 ELSE 0)
    IN IF Bit(sub, 0) THEN 1 + tw * th * 4
       ELSE IF ~Bit(sub, 3) THEN colours
       ELSE IF rQwait(c, colours + 1) THEN colours + 1
       ELSE colours + 1 + U8(c, colours) * (IF Bit(sub, 4) THEN 6 ELSE 2)

\* _subTile writes into the tile's buffer, whose rows have the tile's width.
_subTile(tile, tw, x, y, w, h, color) ==
    [k \in DOMAIN tile |->
        IF \E i \in x .. x + w - 1, j \in y .. y + h - 1 : i + j * tw + 1 = k
        THEN color ELSE tile[k]]

\* A tile that is all in the queue: c without its bytes, with the tile drawn.
HextileTile(c, sub, tx, ty, tw, th) ==
    LET hex == c.dec.hextile
        afterBg == IF Bit(sub, 1) THEN 5 ELSE 1
        bg == IF Bit(sub, 1) THEN Peek(c, 1, 3) ELSE hex.background
        afterFg == IF Bit(sub, 2) THEN afterBg + 4 ELSE afterBg
        fg == IF Bit(sub, 2) THEN Peek(c, afterBg, 3) ELSE hex.foreground
        size == IF Bit(sub, 4) THEN 6 ELSE 2
        Subrect(tile, s) ==
            LET at == afterFg + 1 + (s - 1) * size
                xy == U8(c, at + size - 2)
                wh == U8(c, at + size - 1)
            IN _subTile(tile, tw, xy \div 16, xy % 16, (wh \div 16) + 1, (wh % 16) + 1,
                        IF Bit(sub, 4) THEN Peek(c, at, 3) ELSE fg)
        subrects == IF Bit(sub, 3) THEN U8(c, afterFg) ELSE 0
        tile == FoldLeft(Subrect, [k \in 1 .. tw * th |-> bg], [s \in 1 .. subrects |-> s])
        drawn == CASE sub = 0 /\ Bit(hex.last, 0) -> c
                   [] sub = 0 -> Fill(c, tx, ty, tw, th, hex.background)
                   [] Bit(sub, 0) -> Blit(c, tx, ty, tw, th, Pixels(Peek(c, 1, tw * th * 4), 4))
                   [] OTHER -> [Blit(c, tx, ty, tw, th, tile) EXCEPT
                                   !.dec.hextile.background = bg, !.dec.hextile.foreground = fg]
    IN [rQskipBytes(drawn, TileBytes(c, sub, tw, th)) EXCEPT !.dec.hextile.last = sub,
                                                             !.dec.hextile.tiles = @ - 1]

RECURSIVE HextileTiles(_, _)
HextileTiles(c, r) ==
    LET tilesX == Ceil(r.w, 16)
        currTile == tilesX * Ceil(r.h, 16) - c.dec.hextile.tiles
        tx == r.x + (currTile % tilesX) * 16
        ty == r.y + (currTile \div tilesX) * 16
        tw == Min({16, r.x + r.w - tx})
        th == Min({16, r.y + r.h - ty})
        sub == U8(c, 0)
    IN IF c.dec.hextile.tiles = 0 THEN Done(c)
       ELSE IF rQwait(c, 1) THEN Wait(c)
       ELSE IF sub > 30 THEN Throw(c)
       ELSE IF rQwait(c, TileBytes(c, sub, tw, th)) THEN Wait(c)
       ELSE HextileTiles(HextileTile(c, sub, tx, ty, tw, th), r)

Hextile(c, r) ==
    HextileTiles(IF c.dec.hextile.tiles # 0 THEN c
                 ELSE [c EXCEPT !.dec.hextile.tiles = Ceil(r.w, 16) * Ceil(r.h, 16)], r)

-----------------------------------------------------------------------------
\* Tight.  The length of the data is sent in one to three bytes, and kept until
\* the data itself is there; three bytes are waited for in any case.
ReadLength(c) ==
    LET b == Peek(c, 0, 3)
        more == b[1] > 127
        most == more /\ b[2] > 127
        n == (b[1] % 128) + (IF more THEN (b[2] % 128) * 128 ELSE 0)
                          + (IF most THEN b[3] * 16384 ELSE 0)
    IN IF c.dec.tight.len # 0 THEN Done(c)
       ELSE IF rQwait(c, 3) THEN Wait(c)
       ELSE Done([rQskipBytes(c, IF most THEN 3 ELSE IF more THEN 2 ELSE 1)
                      EXCEPT !.dec.tight.len = n])

\* The result has the data, or ok is FALSE for null.
_readData(c) ==
    LET l == ReadLength(c)
        n == l.c.dec.tight.len
    IN IF ~l.ok \/ rQwait(l.c, n) THEN [ok |-> FALSE, c |-> l.c, data |-> <<>>]
       ELSE [ok |-> TRUE, c |-> [rQskipBytes(l.c, n) EXCEPT !.dec.tight.len = 0],
             data |-> rQshiftBytes(l.c, n)]

\* What the three filters do first: short data is sent as it is, longer data is
\* compressed on one of the four streams.
FilterData(c, streamId, size) ==
    LET read == _readData(c)
        z == setInput(c.dec.tight.zlibs[streamId], read.data)
    IN IF size < 12
       THEN IF rQwait(c, size) THEN [ok |-> FALSE, c |-> c, data |-> <<>>]
            ELSE [ok |-> TRUE, c |-> rQskipBytes(c, size), data |-> rQshiftBytes(c, size)]
       ELSE IF ~read.ok THEN read
       ELSE IF ~CanInflate(z, size) THEN [ok |-> FALSE, c |-> Throw(read.c).c, data |-> <<>>]
       ELSE [ok |-> TRUE, data |-> Inflated(z, size),
             c |-> [read.c EXCEPT !.dec.tight.zlibs[streamId] = setInput(z, <<>>)]]

\* Each sample is sent as the difference from a prediction out of its left, upper
\* and upper left neighbour.
Gradient(data, w) ==
    LET Sample(out, k) ==
            LET left == (k - 1) % (3 * w) >= 3
                up == k > 3 * w
                L == IF left THEN out[k - 3] ELSE 0
                U == IF up THEN out[k - 3 * w] ELSE 0
                UL == IF left /\ up THEN out[k - 3 * w - 3] ELSE 0
            IN Append(out, (data[k] + Max({0, Min({255, L + U - UL})})) % 256)
    IN FoldLeft(Sample, <<>>, [k \in 1 .. Len(data) |-> k])

\* What both do with the data f once it is there.
DrawSamples(f, r, gradient) ==
    IF ~f.ok THEN f
    ELSE Done(Blit(f.c, r.x, r.y, r.w, r.h,
                   Pixels(IF gradient THEN Gradient(f.data, r.w) ELSE f.data, 3)))

_copyFilter(c, streamId, r) ==
    IF r.w * r.h = 0 THEN Done(c)
    ELSE DrawSamples(FilterData(c, streamId, r.w * r.h * 3), r, FALSE)

_gradientFilter(c, streamId, r) ==
    IF r.w * r.h = 0 THEN Done(c)
    ELSE DrawSamples(FilterData(c, streamId, r.w * r.h * 3), r, TRUE)

\* The palette is read only when all of it has arrived.
ReadPalette(c) ==
    LET numColors == U8(c, 0) + 1
    IN IF c.dec.tight.numColors # 0 THEN Done(c)
       ELSE IF rQwait(c, 1) \/ rQwait(c, 1 + numColors * 3) THEN Wait(c)
       ELSE Done([rQskipBytes(c, 1 + numColors * 3) EXCEPT
                      !.dec.tight.numColors = numColors,
                      !.dec.tight.palette = Pixels(Peek(c, 1, numColors * 3), 3)])

\* The palette's index of a pixel: one bit, rows padded to bytes, or a byte.
_monoRect(data, w, x, y) == IF Bit(data[y * Ceil(w, 8) + x \div 8 + 1], 7 - (x % 8)) THEN 1 ELSE 0
_paletteRect(data, w, x, y) == data[y * w + x + 1]

DrawIndices(f, r, t) ==
    LET Index(k) == LET x == (k - 1) % r.w
                        y == (k - 1) \div r.w
                    IN IF t.numColors = 2 THEN _monoRect(f.data, r.w, x, y)
                       ELSE _paletteRect(f.data, r.w, x, y)
    IN IF ~f.ok THEN f
       ELSE Done([Blit(f.c, r.x, r.y, r.w, r.h,
                       [k \in 1 .. r.w * r.h |-> t.palette[Index(k) + 1]])
                      EXCEPT !.dec.tight.numColors = 0])

WithPalette(p, streamId, r) ==
    LET t == p.c.dec.tight
        size == r.h * Ceil(r.w * (IF t.numColors <= 2 THEN 1 ELSE 8), 8)
    IN IF ~p.ok \/ size = 0 THEN p
       ELSE DrawIndices(FilterData(p.c, streamId, size), r, t)

_paletteFilter(c, streamId, r) == WithPalette(ReadPalette(c), streamId, r)

\* The filter and the control byte are forgotten when the rectangle is drawn.
ForgetFilter(result) ==
    IF result.ok THEN Done([result.c EXCEPT !.dec.tight.filter = -1]) ELSE result
ForgetControl(result) ==
    IF result.ok THEN Done([result.c EXCEPT !.dec.tight.ctl = -1]) ELSE result

_basicRect(c, r) ==
    LET t == c.dec.tight
        filter == IF t.filter # -1 THEN t.filter ELSE IF Bit(t.ctl, 2) THEN U8(c, 0) ELSE 0
        f == [(IF t.filter = -1 /\ Bit(t.ctl, 2) THEN rQskipBytes(c, 1) ELSE c)
                  EXCEPT !.dec.tight.filter = filter]
    IN IF t.filter = -1 /\ Bit(t.ctl, 2) /\ rQwait(c, 1) THEN Wait(c)
       ELSE ForgetFilter(CASE filter = 0 -> _copyFilter(f, t.ctl % 4, r)
                           [] filter = 1 -> _paletteFilter(f, t.ctl % 4, r)
                           [] filter = 2 -> _gradientFilter(f, t.ctl % 4, r)
                           [] OTHER -> Throw(f))

\* An image goes to the browser as it is.
TightImage(c, r) ==
    LET read == _readData(c)
    IN IF ~read.ok THEN read
       ELSE Done(ImageRect(read.c, r, {read.data}))

_fillRect(c, r) ==
    IF rQwait(c, 3) THEN Wait(c)
    ELSE Done(Fill(rQskipBytes(c, 3), r.x, r.y, r.w, r.h, rQshiftBytes(c, 3)))

\* decodeRect of the Tight decoder, and with png of TightPNG, which has PNG
\* images in place of basic compression, and streams of its own that it never uses.
Tight(c, r, png) ==
    LET t == c.dec.tight
        ctl == U8(c, 0)
        d == IF t.ctl # -1 THEN c
             ELSE [rQskipBytes(c, 1) EXCEPT
                      !.dec.tight.ctl = ctl \div 16,
                      !.dec.tight.zlibs = [i \in 0 .. 3 |->
                          IF Bit(ctl, i) /\ ~png THEN [@[i] EXCEPT !.block = 0] ELSE @[i]]]
        kind == d.dec.tight.ctl
    IN IF t.ctl = -1 /\ rQwait(c, 1) THEN Wait(c)
       ELSE ForgetControl(CASE kind = 8 -> _fillRect(d, r)
                            [] kind = 9 \/ (kind = 10 /\ png) -> TightImage(d, r)
                            [] kind < 8 /\ ~png -> _basicRect(d, r)
                            [] OTHER -> Throw(d))

-----------------------------------------------------------------------------
\* ZRLE: tiles of 64 pixels square, all of them in one block of a zlib stream.
\* A tile is read from the inflator byte by byte.
ZByte(c, k) == Inflated(c.dec.zrle.inflator, k)[k]
Inflate(c, n) ==
    [c EXCEPT !.failed = @ \/ ~CanInflate(c.dec.zrle.inflator, n),
              !.dec.zrle.inflator = AfterInflate(@, n)]
_readPixels(c, n) == Pixels(Inflated(c.dec.zrle.inflator, 3 * n), 3)

_getBitsPerPixelInPalette(n) == IF n <= 2 THEN 1 ELSE IF n <= 4 THEN 2 ELSE 4

\* An index past the palette finds what an earlier tile left in the buffer.
Colour(palette, i) == IF i < Len(palette) THEN palette[i + 1] ELSE <<0, 0, 0>>

\* Packed indices, read from the high bits down.  A row starts with a byte of its
\* own, as the shift is below its start after any pixel.
_decodePaletteTile(c, n, tw, th) ==
    LET bits == _getBitsPerPixelInPalette(n)
        palette == _readPixels(c, n)
        indices == Inflate(c, 3 * n)
        row == Ceil(bits * tw, 8)
        Index(x, y) == LET encoded == ZByte(indices, y * row + (bits * x) \div 8 + 1)
                           shift == 8 - bits - ((bits * x) % 8)
                       IN (encoded \div 2 ^ shift) % 2 ^ bits
    IN [c |-> Inflate(indices, th * row),
        data |-> [k \in 1 .. tw * th |-> Colour(palette, Index((k - 1) % tw, (k - 1) \div tw))]]

\* The length of a run, which starts k bytes on: 255 means that another byte
\* follows.  The result is the length and the bytes it takes.
RECURSIVE _readRLELength(_, _)
_readRLELength(c, k) ==
    LET b == ZByte(c, k)
        rest == _readRLELength(c, k + 1)
    IN IF b = 255 /\ ~c.failed THEN [length |-> 255 + rest.length, bytes |-> rest.bytes + 1]
       ELSE [length |-> b + 1, bytes |-> 1]

RECURSIVE _decodeRLETile(_, _, _)
_decodeRLETile(c, size, data) ==
    LET run == _readRLELength(c, 4)
    IN IF Len(data) >= size \/ c.failed THEN [c |-> c, data |-> data]
       ELSE _decodeRLETile(Inflate(c, 3 + run.bytes), size,
                           data \o [i \in 1 .. run.length |-> _readPixels(c, 1)[1]])

\* An index above 127 is followed by the length of its run.
RECURSIVE _decodeRLEPaletteTile(_, _, _, _)
_decodeRLEPaletteTile(c, palette, size, data) ==
    LET b == ZByte(c, 1)
        index == b % 128
        run == IF b >= 128 THEN _readRLELength(c, 2) ELSE [length |-> 1, bytes |-> 0]
    IN IF Len(data) >= size \/ c.failed THEN [c |-> c, data |-> data]
       ELSE IF index > Len(palette) \/ Len(data) + run.length > size
       THEN [c |-> [c EXCEPT !.failed = TRUE], data |-> data]
       ELSE _decodeRLEPaletteTile(Inflate(c, 1 + run.bytes), palette, size,
                                  data \o [i \in 1 .. run.length |-> Colour(palette, index)])

ZRLETile(c, tile) ==
    LET x == tile[1] y == tile[2] w == tile[3] h == tile[4]
        sub == ZByte(c, 1)
        d == Inflate(c, 1)
        palette == _readPixels(d, sub - 128)
        t == CASE sub = 0 -> [c |-> Inflate(d, 3 * w * h), data |-> _readPixels(d, w * h)]
               [] sub = 1 -> [c |-> Inflate(d, 3),
                              data |-> [k \in 1 .. w * h |-> _readPixels(d, 1)[1]]]
               [] sub \in 2 .. 16 -> _decodePaletteTile(d, sub, w, h)
               [] sub = 128 -> _decodeRLETile(d, w * h, <<>>)
               [] sub \in 130 .. 255 ->
                      _decodeRLEPaletteTile(Inflate(d, 3 * (sub - 128)), palette, w * h, <<>>)
               [] OTHER -> [c |-> [d EXCEPT !.failed = TRUE], data |-> <<>>]
    IN IF c.failed THEN c
       ELSE IF t.c.failed THEN t.c
       ELSE Blit(t.c, x, y, w, h, t.data)

TilesDrawn(c) == IF c.failed THEN Throw(c) ELSE Done([c EXCEPT !.dec.zrle.length = 0])

ZRLE(c, r) ==
    LET short == c.dec.zrle.length = 0
        n == IF short THEN U32(c, 0) ELSE c.dec.zrle.length
        d == [(IF short THEN rQskipBytes(c, 4) ELSE c) EXCEPT !.dec.zrle.length = n]
        tilesX == Ceil(r.w, 64)
        tiles == [k \in 1 .. tilesX * Ceil(r.h, 64) |->
                     LET tx == 64 * ((k - 1) % tilesX)
                         ty == 64 * ((k - 1) \div tilesX)
                     IN <<r.x + tx, r.y + ty, Min({64, r.w - tx}), Min({64, r.h - ty})>>]
        fed == [rQskipBytes(d, n) EXCEPT !.dec.zrle.inflator = setInput(@, rQshiftBytes(d, n))]
    IN IF short /\ rQwait(c, 4) THEN Wait(c)
       ELSE IF rQwait(d, n) THEN Wait(d)
       ELSE TilesDrawn(FoldLeft(ZRLETile, fed, tiles))

-----------------------------------------------------------------------------
\* JPEG: the file's segments up to the end of the image.  A segment that starts
\* the scan reaches to the next marker that is not part of the scan.
EndsScan(d) ==
    LET n == Len(d)
    IN d[n - 1] = 255 /\ d[n] # 0 /\ d[n] \notin 208 .. 215

\* Result: the segment, or ok is FALSE for null.
_readSegment(c) ==
    LET No(d) == [ok |-> FALSE, c |-> d, segment |-> <<>>]
        Yes(n) == [ok |-> TRUE, c |-> rQskipBytes(c, n), segment |-> rQshiftBytes(c, n)]
        type == U8(c, 1)
        length == U16(c, 2)
        ends == {n \in length + 4 .. c.rQlen - c.rQi : EndsScan(Peek(c, 4, n - 4))}
    IN IF rQwait(c, 2) THEN No(c)
       ELSE IF U8(c, 0) # 255 THEN No(Throw(c).c)
       ELSE IF type \in 208 .. 217 \/ type = 1 THEN Yes(2)
       ELSE IF rQwait(c, 4) THEN No(c)
       ELSE IF length < 2 THEN No(Throw(c).c)
       ELSE IF rQwait(c, 4 + length - 2) THEN No(c)
       ELSE IF type # 218 THEN Yes(2 + length)
       ELSE IF ends = {} THEN No(c) ELSE Yes(Min(ends) - 2)

\* Tables that an image leaves out are those of the last image that had some.
DrawJPEG(c, r) ==
    LET j == c.dec.jpeg
        Of(types) == SelectSeq(j.segments, LAMBDA g : g[2] \in types)
        quant == IF Of({219}) = <<>> THEN j.quant ELSE Of({219})
        huffman == IF Of({196}) = <<>> THEN j.huffman ELSE Of({196})
        image == ToSet(j.segments) \cup ToSet(quant) \cup ToSet(huffman)
    IN IF Of({192, 194}) = <<>> THEN Throw(c)
       ELSE Done([ImageRect(c, r, image) EXCEPT
                      !.dec.jpeg = [segments |-> <<>>, quant |-> quant, huffman |-> huffman]])

RECURSIVE JPEG(_, _)
NextSegment(read, r) ==
    LET c == [read.c EXCEPT !.dec.jpeg.segments = Append(@, read.segment)]
    IN IF ~read.ok THEN read
       ELSE IF read.segment[2] = 217 THEN DrawJPEG(c, r) ELSE JPEG(c, r)
JPEG(c, r) == NextSegment(_readSegment(c), r)
=============================================================================
