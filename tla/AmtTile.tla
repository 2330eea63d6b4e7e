------------------------------ MODULE AmtTile -------------------------------
(***************************************************************************)
(* unwrapRLE and decodeLRE: a tile of the AMT screen, as the management     *)
(* engine (ME) encodes it in each of the sub-encodings and framings, and    *)
(* the loops that decode it.  A zlib stream may end early; what there is of *)
(* it is used.                                                              *)
(***************************************************************************)
EXTENDS Naturals, Sequences, SequencesExt

CONSTANTS
    Palettes, \* numbers of colours of a tile
    MaxRun,   \* bound: pixels of one colour in a row
    MaxRuns,  \* bound: runs of a tile
    RunTop    \* a run continues in the next byte, 255

VARIABLES
    tile,   \* the pixels the ME has encoded
    width,  \* bytes of a colour, rfbClient.bpp
    cut,    \* whether the zlib stream ended early
    mode,   \* the loop decodeLRE is in
    rest,   \* data from ptr on
    pal,    \* the palette read from the data
    pix     \* the pixels decoded so far

vars == <<tile, width, cut, mode, rest, pal, pix>>

Loops == {"raw", "packed", "rle", "palRle"}

\* The type of every variable of the decoder.
TypeOK ==
    /\ tile \in Seq(Nat) /\ width \in {1, 2} /\ cut \in BOOLEAN
    /\ mode \in {"idle", "start", "done", "error"} \cup Loops
    /\ rest \in Seq(0..255) /\ pal \in Seq(Nat) /\ pix \in Seq(Nat)

Init ==
    /\ tile = <<>> /\ width = 1 /\ cut = FALSE
    /\ mode = "idle" /\ rest = <<>> /\ pal = <<>> /\ pix = <<>>

-----------------------------------------------------------------------------
(* The ME encodes a sequence of runs [color, len] with a palette of n colours. *)

Flat(seqs) == FoldLeft(LAMBDA a, b : a \o b, <<>>, seqs)
Repeat(v, n) == [k \in 1..n |-> v]
Map(Op(_), s) == [k \in DOMAIN s |-> Op(s[k])]

Color(k) == IF width' = 1 THEN (100 * k) % 256 ELSE 100 * k
Bytes(k) == IF width' = 1 THEN <<Color(k)>> ELSE <<Color(k) % 256, Color(k) \div 256>>
RunBytes(n) == Repeat(RunTop, (n - 1) \div RunTop) \o <<(n - 1) % RunTop>>
Colors(n) == Flat([k \in 1..n |-> Bytes(k)])

\* Indices of the palette, as many to a byte as fit.
BitsFor(n) == IF n = 2 THEN 1 ELSE IF n <= 4 THEN 2 ELSE 4
Pack(n, idx) ==
    LET bits == BitsFor(n)
        each == 8 \div bits
        at(p) == IF p <= Len(idx) THEN idx[p] - 1 ELSE 0
    IN [b \in 1..((Len(idx) + each - 1) \div each) |->
            FoldLeft(LAMBDA v, k : v * 2 ^ bits + at((b - 1) * each + k),
                     0, [k \in 1..each |-> k])]

Encode(how, n, runs) ==
    LET idx == Flat(Map(LAMBDA r : Repeat(r.color, r.len), runs))
    IN CASE how = "raw"    -> <<0>> \o Flat(Map(Bytes, idx))
         [] how = "solid"  -> <<1>> \o Bytes(runs[1].color)
         [] how = "packed" -> <<n>> \o Colors(n) \o Pack(n, idx)
         [] how = "rle"    ->
              <<128>> \o Flat(Map(LAMBDA r : Bytes(r.color) \o RunBytes(r.len), runs))
         [] how = "palRle" ->
              <<128 + n>> \o Colors(n)
                \o Flat(Map(LAMBDA r : IF r.len = 1 THEN <<r.color - 1>>
                                       ELSE <<127 + r.color>> \o RunBytes(r.len), runs))

\* The framings: a stored block with its length, or a zlib header.
Stored(p) == <<0, Len(p), 0>> \o p
Zlib(p) == <<120>> \o p

\* unwrapRLE; inflating a zlib stream gives the bytes that have arrived.
Unwrap(d) ==
    IF Len(d) > 3 /\ d[1] = 0 /\ d[2] = Len(d) - 3 THEN SubSeq(d, 4, Len(d))
    ELSE IF d[1] % 16 = 8 THEN Tail(d) ELSE d

\* A tile arrives; only a zlib stream can be short.
Receive ==
    /\ mode = "idle" /\ mode' = "start"
    /\ width' \in {1, 2}
    /\ \E n \in Palettes, count \in 1..MaxRuns, how \in {"solid"} \cup Loops, zip \in BOOLEAN :
       \E runs \in [1..count -> [color : 1..n, len : 1..MaxRun]] :
        /\ how = "solid" => count = 1
        /\ tile' = Flat(Map(LAMBDA r : Repeat(Color(r.color), r.len), runs))
        /\ LET data == Encode(how, n, runs)
           IN \E short \in 0..(IF zip THEN Len(data) - 1 ELSE 0) :
                /\ cut' = (short > 0)
                /\ rest' = Unwrap(IF zip THEN Zlib(SubSeq(data, 1, Len(data) - short))
                                  ELSE Stored(data))
    /\ UNCHANGED <<pal, pix>>

-----------------------------------------------------------------------------
(* decodeLRE                                                                *)

\* readColor, n times.
Has(n) == Len(rest) >= n * width
ColorAt(k) == IF width = 1 THEN rest[k] ELSE rest[2 * k - 1] + 256 * rest[2 * k]
After(n) == SubSeq(rest, n + 1, Len(rest))

\* setPix: pixels beyond the tile are dropped.
Clip(s, n) == IF Len(s) <= n THEN s ELSE SubSeq(s, 1, n)
Paint(more) == pix' = Clip(pix \o more, Len(tile))

Abort == mode' = "error" /\ UNCHANGED <<tile, width, cut, rest, pal, pix>>

\* The sub-encoding, and the palette if it has one.
Start ==
    /\ mode = "start"
    /\ LET sub == Head(rest)
           n == IF sub < 17 THEN sub ELSE sub - 128
           colors == [k \in 1..n |-> IF width = 1 THEN rest[k + 1]
                                     ELSE rest[2 * k] + 256 * rest[2 * k + 1]]
       IN CASE sub = 0 -> mode' = "raw" /\ rest' = Tail(rest) /\ UNCHANGED <<pal, pix>>
            [] sub = 128 -> mode' = "rle" /\ rest' = Tail(rest) /\ UNCHANGED <<pal, pix>>
            [] sub \notin {0, 128} /\ Len(rest) < 1 + n * width ->
                 mode' = "error" /\ UNCHANGED <<rest, pal, pix>>
            [] sub = 1 /\ Len(rest) >= 1 + width ->
                 /\ mode' = "done" /\ rest' = After(1 + width)
                 /\ pix' = Repeat(colors[1], Len(tile)) /\ UNCHANGED pal
            [] sub \in (2..16) \cup (130..255) /\ Len(rest) >= 1 + n * width ->
                 /\ mode' = IF sub < 17 THEN "packed" ELSE "palRle"
                 /\ rest' = After(1 + n * width) /\ pal' = colors
                 /\ UNCHANGED pix
            [] OTHER -> mode' = "error" /\ UNCHANGED <<rest, pal, pix>>
    /\ UNCHANGED <<tile, width, cut>>

\* The end of a loop: all pixels are there, or the data are used up.
Finish ==
    /\ mode \in Loops
    /\ Len(pix) = Len(tile) \/ (rest = <<>> /\ mode # "raw")
    /\ mode' = "done"
    /\ UNCHANGED <<tile, width, cut, rest, pal, pix>>

More(m) == mode = m /\ Len(pix) < Len(tile) /\ (rest # <<>> \/ m = "raw")
Stay == UNCHANGED <<tile, width, cut, mode, pal>>

Raw ==
    /\ More("raw")
    /\ IF ~Has(1) THEN Abort
       ELSE Paint(<<ColorAt(1)>>) /\ rest' = After(width) /\ Stay

\* Mutant: the indices of a byte are taken from its low bits up.
IndicesLowFirst(v, bits) == [k \in 1..(8 \div bits) |-> (v \div 2 ^ (bits * (k - 1))) % 2 ^ bits]

\* The palette indices of a packed byte, from its high bits down.
Indices(v, bits) == [k \in 1..(8 \div bits) |-> (v \div 2 ^ (8 - bits * k)) % 2 ^ bits]

\* The pixels of a byte that are beyond the tile are not looked up.
Packed ==
    /\ More("packed")
    /\ LET bits == BitsFor(Len(pal))
           idx == Clip(Indices(Head(rest), bits), Len(tile) - Len(pix))
       IN Paint([k \in DOMAIN idx |-> pal[idx[k] + 1]])
    /\ rest' = Tail(rest) /\ Stay

\* Mutant: a run that fills its first byte is taken to end there.
RunsOn(d) == FALSE

\* Whether the length of a run continues after byte d.
Continues(d) == d = RunTop

\* A run whose length starts at position p of the data.
Run(v, p) ==
    LET ends == {k \in p..Len(rest) : ~Continues(rest[k])}
        e == CHOOSE k \in ends : \A j \in ends : k <= j
    IN IF ends = {} THEN Abort
       ELSE /\ Paint(Repeat(v, 1 + FoldLeft(LAMBDA a, b : a + b, 0, SubSeq(rest, p, e))))
            /\ rest' = After(e) /\ Stay

Rle ==
    /\ More("rle")
    /\ IF ~Has(1) THEN Abort ELSE Run(ColorAt(1), width + 1)

PalRle ==
    /\ More("palRle")
    /\ LET v == pal[(Head(rest) % 128) + 1]
       IN IF Head(rest) > 127 THEN Run(v, 2)
          ELSE Paint(<<v>>) /\ rest' = Tail(rest) /\ Stay

Next == Receive \/ Start \/ Raw \/ Packed \/ Rle \/ PalRle \/ Finish

-----------------------------------------------------------------------------
(* Properties                                                               *)

\* Every tile is decoded to the pixels that were encoded, in each
\* sub-encoding and framing, for one and for two bytes a pixel, with runs and
\* palettes of any length; all of its data are used.  A tile whose zlib stream
\* ended early is refused or right as far as it goes.
TileDecoded ==
    /\ IsPrefix(pix, tile)
    /\ ~cut => mode # "error"
    /\ ~cut /\ mode = "done" => pix = tile /\ rest = <<>>
=============================================================================
