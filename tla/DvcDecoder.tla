----------------------------- MODULE DvcDecoder -----------------------------
(***************************************************************************)
(* The bit-stream state machine of the iLO video decoder.  Which bits the   *)
(* stream carries is left open: reading n bits gives any n-bit code.  The   *)
(* colour cache is the list LruList promises, reduced to its length and to  *)
(* how many of its colours the current block has used.  Where a block is    *)
(* painted is left out.                                                     *)
(***************************************************************************)
EXTENDS Naturals, TLAPS

CONSTANTS
    Size,                    \* entries of the colour cache, 17 in the code
    Full, Half,              \* pixels of a block: 16x16, and 16x8 on wide screens
    Ask1, Ask2, Ask3, Wrap,  \* bits after which a latched decoder asks for a
                             \* refresh: 40, 11680, 120000, 12000000
    MaxCode,                 \* codes up to this one and the largest are tried
    MaxArgs,                 \* bytes of a command
    MaxBits,                 \* bits that pile up after an exit command
    ColorBits                \* bits per colour the firmware selects, of 2..5

ASSUME DvcDecoderAssumption ==
    /\ Size \in 1..17 /\ Half \in Nat \ {0} /\ Full \in Nat /\ Half < Full
    /\ {Ask1, Ask2, Ask3, Wrap} \subseteq Nat
    /\ 0 < Ask1 /\ Ask1 < Ask2 /\ Ask2 < Ask3 /\ Ask3 < Wrap
    /\ MaxCode \in Nat /\ MaxArgs \in Nat /\ MaxBits \in Nat /\ MaxBits >= 15
    /\ ColorBits \subseteq 2..5

VARIABLES
    pc,         \* "idle" between Feeds, "run" in the loop of processBits
    ret,        \* what the last Feed returned
    state,      \* the decoder state
    ib,         \* ibBcnt: bits not yet read
    pixelCount, \* pixels of the current block
    cache,      \* active, touched, and fan = next1[pixfan]
    height,     \* Full or Half: blockHeight * blockWidth
    bpc,        \* bitsPerColor
    cmdCount,   \* bytes of the current command
    timed,      \* timeoutCount relative to countBytes
    fatal,      \* fatalCount
    asked       \* the last latched bit asked for a refresh

vars == <<pc, ret, state, ib, pixelCount, cache, height, bpc, cmdCount, timed, fatal, asked>>
settings == <<height, bpc>>
counts == <<cmdCount, timed, fatal, asked>>

\* For every state: bits to read, next state on code 0, next state otherwise.
\* Reading depends on the settings for the states of ColorStates and MoveStates.
Transition == [
    reset      |-> <<0, "start", "start">>,       start      |-> <<1, "pixels", "cmd">>,
    pixels     |-> <<1, "pixfan", "pixlru1">>,    pixlru1    |-> <<1, "pixels", "pixrpt1">>,
    pixlru0    |-> <<1, "pixels", "pixrpt1">>,    pixcode1   |-> <<1, "pixrpt", "pixrpt">>,
    pixcode2   |-> <<2, "pixrpt", "pixrpt">>,     pixcode3   |-> <<3, "pixrpt", "pixrpt">>,
    pixgrey    |-> <<5, "pixrpt", "pixrpt">>,     pixrgbr    |-> <<5, "pixrgbg", "pixrgbg">>,
    pixrpt     |-> <<1, "pixels", "pixrpt1">>,    pixrpt1    |-> <<1, "pixdup", "pixrptstd1">>,
    pixrptstd1 |-> <<3, "pixels", "pixels">>,     pixrptstd2 |-> <<3, "pixels", "pixels">>,
    pixrptnstd |-> <<8, "pixels", "pixels">>,     cmd        |-> <<1, "cmd0", "movexy0">>,
    cmd0       |-> <<1, "cmdx", "extcmd">>,       movexy0    |-> <<7, "movexy1", "movexy1">>,
    extcmd     |-> <<1, "blkrpt", "extcmd1">>,    cmdx       |-> <<1, "moveshortx", "movelongx">>,
    moveshortx |-> <<3, "start", "start">>,       movelongx  |-> <<7, "start", "start">>,
    blkrpt     |-> <<1, "blkdup", "blkrpt1">>,    extcmd1    |-> <<1, "extcmd2", "firmware">>,
    firmware   |-> <<8, "corp", "corp">>,         extcmd2    |-> <<1, "mode0", "timeout">>,
    mode0      |-> <<7, "mode1", "mode1">>,       timeout    |-> <<0, "start", "start">>,
    blkrpt1    |-> <<1, "blkrptstd", "blkrptnstd">>,  blkrptstd |-> <<3, "start", "start">>,
    blkrptnstd |-> <<7, "start", "start">>,       pixfan     |-> <<1, "pixspec", "pixcode">>,
    pixcode4   |-> <<4, "pixrpt", "pixrpt">>,     pixdup     |-> <<0, "pixels", "pixels">>,
    blkdup     |-> <<0, "start", "start">>,       pixcode    |-> <<0, "pixcode", "pixcode">>,
    pixspec    |-> <<1, "pixgrey", "pixrgbr">>,   exit       |-> <<0, "exit", "exit">>,
    latched    |-> <<1, "latched", "latched">>,   movexy1    |-> <<7, "start", "start">>,
    mode1      |-> <<7, "mode2", "mode2">>,       pixrgbg    |-> <<5, "pixrgbb", "pixrgbb">>,
    pixrgbb    |-> <<5, "pixrpt", "pixrpt">>,     hunt       |-> <<1, "hunt", "reset">>,
    print0     |-> <<8, "print1", "print1">>,     print1     |-> <<8, "print1", "print1">>,
    corp       |-> <<1, "start", "firmware">>,    mode2      |-> <<4, "start", "start">> ]

States == DOMAIN Transition
ColorStates == {"pixgrey", "pixrgbr", "pixrgbg", "pixrgbb"}
MoveStates == {"movelongx", "movexy0", "movexy1", "blkrptnstd"}
RankStates == {"pixlru1", "pixlru0", "pixcode1", "pixcode2", "pixcode3", "pixcode4"}
FanStates == RankStates \cup {"latched", "pixcode"}

\* bitsToRead[s]
Bits(s) ==
    IF s \in ColorStates THEN bpc
    ELSE IF s \in MoveStates /\ height = Half THEN 8
    ELSE Transition[s][1]

\* The largest code of n bits.
getMask == <<0, 1, 3, 7, 15, 31, 63, 127, 255>>
Mask(n) == getMask[n + 1]

Codes == {c \in 0..Mask(Bits(state)) : c <= MaxCode \/ c = Mask(Bits(state))}

\* The next state by the tables; next1[pixfan] is a variable.
Table(c) ==
    IF c = 0 THEN Transition[state][2]
    ELSE IF state = "pixfan" THEN cache.fan
    ELSE Transition[state][3]

\* Mutant: one bit is read for four colours.
PixcodeForLate(n) ==
    IF n < 2 THEN "latched" ELSE IF n = 2 THEN "pixlru0" ELSE IF n < 5 THEN "pixcode1"
    ELSE IF n < 6 THEN "pixcode2" ELSE IF n < 10 THEN "pixcode3" ELSE "pixcode4"

\* The state that reads the rank of one of n colours.
PixcodeFor(n) ==
    IF n < 2 THEN "latched" ELSE IF n = 2 THEN "pixlru0" ELSE IF n = 3 THEN "pixcode1"
    ELSE IF n < 6 THEN "pixcode2" ELSE IF n < 10 THEN "pixcode3" ELSE "pixcode4"

\* The rank that code c means in state s.
RankOf(s, c, n) ==
    IF n = 1 \/ s = "pixlru0" THEN 0
    ELSE IF s = "pixlru1" THEN 1
    ELSE IF c = 0 THEN 0 ELSE c + 1

-----------------------------------------------------------------------------
(* The colour cache                                                         *)

NoColors == [active |-> 0, touched |-> 0, fan |-> cache.fan]

\* cacheFind of rank r, and cacheLRU of a colour that is there.
Touch(r) == [cache EXCEPT !.touched = IF r < @ THEN @ ELSE @ + 1]

\* cacheLRU of a new colour.
Add == [active |-> IF cache.active < Size THEN cache.active + 1 ELSE Size,
        touched |-> IF cache.touched < Size THEN cache.touched + 1 ELSE Size,
        fan |-> IF cache.active < Size THEN PixcodeFor(cache.active + 1) ELSE cache.fan]

\* cachePrune
Pruned(ch) == [active |-> ch.touched, touched |-> 0, fan |-> PixcodeFor(ch.touched)]

-----------------------------------------------------------------------------
(* The loop of processBits                                                  *)

Init ==
    /\ pc = "idle" /\ ret = 0
    /\ state = "reset" /\ ib = 0
    /\ pixelCount = 0
    /\ cache = [active |-> 0, touched |-> 0, fan |-> "pixcode"]
    /\ height = Full /\ bpc = 5
    /\ cmdCount = 0 /\ timed = "never" /\ fatal = 0 /\ asked = FALSE

\* Feed: addBits takes the byte; a run of more than 30 zero bits makes the
\* decoder hunt.  One more byte has been counted since the last timeout.
Feed ==
    /\ pc = "idle" /\ ib + 8 <= MaxBits
    /\ pc' = "run" /\ ib' = ib + 8
    /\ state' \in {state, "hunt"}
    /\ timed' = CASE timed = "now" -> "last" [] timed = "last" -> "before" [] OTHER -> timed
    /\ UNCHANGED <<ret, pixelCount, cache, settings, cmdCount, fatal, asked>>

\* Mutant: the loop is left when every bit is read.
ReturnEmpty ==
    /\ pc = "run" /\ ib = 0
    /\ pc' = "idle" /\ ret' = 0
    /\ UNCHANGED <<state, ib, pixelCount, cache, settings, counts>>

\* The bits do not suffice for the next state.
Return ==
    /\ pc = "run" /\ Bits(state) > ib
    /\ pc' = "idle" /\ ret' = 0
    /\ UNCHANGED <<state, ib, pixelCount, cache, settings, counts>>

\* The states that may follow themselves.
MayStay == {"print1", "latched", "hunt"}

\* The end of an iteration that chose the next state: a full block is painted
\* and the cache pruned, a state that follows itself is a hang.
Go(next, count, ch) ==
    LET full == next = "pixels" /\ count = height
        st == IF full THEN "start" ELSE next
        hang == state = st /\ state \notin MayStay
    IN  /\ pixelCount' = IF full THEN 0 ELSE count
        /\ cache' = IF full THEN Pruned(ch) ELSE ch
        /\ state' = st
        /\ IF hang THEN pc' = "idle" /\ ret' = 6
           ELSE IF state = "exit" THEN pc' = "idle" /\ ret' = 1
           ELSE UNCHANGED <<pc, ret>>

\* Mutant: one pixel more than the block has.
PushOne(n, next, ch) ==
    IF pixelCount + n <= height + 1
    THEN Go(next, pixelCount + n, ch)
    ELSE Go("latched", height, ch)

\* pushPixel n times; what does not fit latches the decoder.
Push(n, next, ch) ==
    IF pixelCount + n <= height
    THEN Go(next, pixelCount + n, ch)
    ELSE Go("latched", height, ch)

\* The state has its bits: getBits(need).
Read(S) ==
    /\ pc = "run" /\ state \in S /\ Bits(state) <= ib
    /\ ib' = ib - Bits(state)

\* The states without a side effect on this model; the moves, the repeated
\* blocks and the mode sizes say where and what to paint.
Plain ==
    /\ Read({"start", "pixels", "pixrpt", "pixrpt1", "blkrpt", "blkrpt1", "pixfan", "pixspec",
             "cmd", "cmd0", "extcmd", "cmdx", "extcmd1", "extcmd2", "movexy0", "movexy1",
             "moveshortx", "movelongx", "mode0", "mode1", "pixrgbr", "pixrgbg", "print0", "exit"})
    /\ \E c \in Codes : Go(Table(c), pixelCount, cache)
    /\ UNCHANGED <<settings, counts>>

\* A colour is named by its rank.
PixRank ==
    /\ Read(RankStates)
    /\ \E c \in Codes :
        LET r == RankOf(state, c, cache.active)
        IN  IF r < cache.active THEN Push(1, Table(c), Touch(r))
            ELSE Go("latched", pixelCount, cache)
    /\ UNCHANGED <<settings, counts>>

\* A colour is given by its value: pixRGBB latches on one the cache has.
PixValue ==
    /\ Read({"pixgrey", "pixrgbb"})
    /\ \/ Push(1, "pixrpt", Add)
       \/ \E r \in 0..(cache.active - 1) : Go("latched", pixelCount, Touch(r))
    /\ UNCHANGED <<settings, counts>>

\* The last colour is repeated.
PixRepeat ==
    /\ Read({"pixrptstd1", "pixrptstd2", "pixrptnstd", "pixdup"})
    /\ \E c \in Codes :
        \/ state = "pixrptstd1" /\ c = 7 /\ Go("pixrptnstd", pixelCount, cache)
        \/ state = "pixrptstd1" /\ c = 6 /\ Go("pixrptstd2", pixelCount, cache)
        \/ state = "pixrptstd1" /\ c < 6 /\ Push(c + 2, "pixels", cache)
        \/ state = "pixrptstd2" /\ Push(c + 8, "pixels", cache)
        \/ state = "pixrptnstd" /\ Push(c, "pixels", cache)
        \/ state = "pixdup" /\ Push(1, "pixels", cache)
    /\ UNCHANGED <<settings, counts>>

\* pixcode is latched until the first colour sets it and next1[pixfan].
PixCode ==
    /\ Read({"pixcode"})
    /\ Go(IF cache.fan = "pixcode" THEN "latched" ELSE cache.fan, pixelCount, cache)
    /\ UNCHANGED <<settings, counts>>

\* nextBlock repeats the last block; the cache is not pruned.
BlkRepeat ==
    /\ Read({"blkdup", "blkrptstd", "blkrptnstd"})
    /\ Go("start", 0, cache)
    /\ UNCHANGED <<settings, counts>>

\* A timeout ends the frame and drops the rest of its byte; a second one in
\* the next byte latches the decoder.
Timeout ==
    /\ pc = "run" /\ state = "timeout"
    /\ ib' = ib - (ib % 8)
    /\ Go(IF timed = "last" THEN "latched" ELSE "start", pixelCount, cache)
    /\ timed' = "now"
    /\ UNCHANGED <<settings, cmdCount, fatal, asked>>

\* One more byte of a command; the last one is its opcode.
Firmware ==
    /\ Read({"firmware"})
    /\ cmdCount' = cmdCount + 1
    /\ Go("corp", pixelCount, cache)
    /\ UNCHANGED <<settings, timed, fatal, asked>>

\* Another byte of the command follows.
CorpMore ==
    /\ Read({"corp"}) /\ cmdCount < MaxArgs
    /\ Go("firmware", pixelCount, cache)
    /\ UNCHANGED <<settings, counts>>

\* dispatchCommand: exit, a text, or a command that concerns the display, the
\* cipher or the acknowledgement; one that drops the rest of the byte; one that
\* selects the colours.  The bytes of the next command are counted from 0.
CorpRun ==
    /\ pc = "run" /\ state = "corp" /\ 1 <= ib
    /\ \/ /\ \E next \in {"exit", "print0", "start"} : Go(next, pixelCount, cache)
          /\ ib' = ib - 1 /\ UNCHANGED settings
       \/ /\ Go("start", pixelCount, cache)
          /\ ib' = (ib - 1) - ((ib - 1) % 8) /\ UNCHANGED settings
       \/ /\ Go("start", pixelCount, cache)
          /\ ib' = ib - 1 /\ bpc' \in ColorBits /\ UNCHANGED height
    /\ cmdCount' = 0
    /\ UNCHANGED <<timed, fatal, asked>>

\* A character of a text; 0 ends it.
Text ==
    /\ Read({"print1"})
    /\ \E c \in Codes : Go(IF c = 0 THEN "start" ELSE "print1", pixelCount, cache)
    /\ UNCHANGED <<settings, counts>>

\* Mutant: the pixels of an interrupted block stay counted.
ResetKeepsPixels ==
    /\ Read({"reset"})
    /\ Go("start", pixelCount, NoColors)
    /\ fatal' = 0 /\ cmdCount' = 0 /\ timed' = "never"
    /\ UNCHANGED <<settings, asked>>

Reset ==
    /\ Read({"reset"})
    /\ Go("start", 0, NoColors)
    /\ fatal' = 0 /\ cmdCount' = 0 /\ timed' = "never"
    /\ UNCHANGED <<settings, asked>>

\* A latched decoder counts bits and asks for a refresh at certain counts.
Latched ==
    /\ Read({"latched"})
    /\ Go("latched", pixelCount, cache)
    /\ asked' = (fatal \in {Ask1, Ask2, Ask3 - 1, Wrap - 1})
    /\ fatal' = IF fatal + 1 = Wrap THEN Ask1 + 1 ELSE fatal + 1
    /\ UNCHANGED <<settings, cmdCount, timed>>

\* A new screen size, with blocks of half the height if it is wide; without a
\* picture the height stays.
Mode2 ==
    /\ Read({"mode2"})
    /\ Go("start", 0, NoColors)
    /\ height' \in {Full, Half}
    /\ UNCHANGED <<bpc, counts>>

\* Hunting: the first 1 empties the buffer and restarts the count of bytes.
Hunt ==
    /\ pc = "run" /\ state = "hunt" /\ 1 <= ib
    /\ \/ /\ Go("hunt", pixelCount, cache)
          /\ ib' = ib - 1 /\ UNCHANGED timed
       \/ /\ Go("reset", pixelCount, cache)
          /\ ib' = 0 /\ timed' = IF timed = "never" THEN timed ELSE "ahead"
    /\ UNCHANGED <<settings, cmdCount, fatal, asked>>

Loop ==
    \/ Return \/ Plain \/ PixRank \/ PixValue \/ PixRepeat \/ PixCode \/ BlkRepeat
    \/ Timeout \/ Firmware \/ CorpMore \/ CorpRun \/ Text \/ Reset \/ Latched \/ Mode2 \/ Hunt

Next == Feed \/ Loop

Spec == Init /\ [][Next]_vars

\* processBits runs on; the firmware keeps sending.
LiveSpec == Spec /\ WF_vars(Loop) /\ WF_vars(Feed)

-----------------------------------------------------------------------------
(* Properties                                                               *)

\* The type of every variable of the decoder.
TypeOK ==
    /\ pc \in {"idle", "run"} /\ ret \in {0, 1, 6}
    /\ state \in States /\ ib \in 0..MaxBits
    /\ pixelCount \in Nat
    /\ cache \in [active : 0..Size, touched : 0..Size, fan : FanStates]
    /\ height \in {Full, Half} /\ bpc \in 2..5
    /\ cmdCount \in Nat /\ fatal \in 0..(Wrap - 1) /\ asked \in BOOLEAN
    /\ timed \in {"never", "now", "last", "before", "ahead"}

\* Pixels are written inside the block buffer, although repeats may ask for
\* more than fit and the height of the blocks changes with the screen size.
BlockInBounds == pixelCount <= height

\* A command, and the first pixel of a block, starts from nothing: no pixels
\* of an interrupted block and no bytes of an interrupted command are left,
\* also after the decoder latched or hunted in the middle of them; and with the
\* bytes counted from 0 again the last timeout is forgotten, so that no later
\* one is taken for a second one.
FreshStart ==
    /\ state = "start" => pixelCount = 0 /\ cmdCount = 0
    /\ pc = "idle" => timed # "ahead"

\* The state that reads a rank reaches every colour of the cache, whatever was
\* inserted, pruned and reset: rank 1 has a state of its own.
RanksAddressable ==
    \A r \in 0..(cache.active - 1) :
        \/ cache.active = 1 \/ r = 1
        \/ /\ cache.fan \in RankStates
           /\ \E c \in 0..Mask(Transition[cache.fan][1]) :
                RankOf(cache.fan, c, cache.active) = r

\* "Returns 0=ok, 1=exit" (processBits): a Feed that runs into the exit command
\* returns 1.
ExitReturned == pc = "idle" /\ state = "exit" => ret = 1

\* Every Feed returns: the states that read no bits do not follow each other
\* for ever; and a decoder that stays latched asks for a refresh again and
\* again.
DecoderResponds ==
    /\ pc = "run" ~> pc = "idle"
    /\ <>[](state = "latched") => []<>asked

-----------------------------------------------------------------------------
(***************************************************************************)
(* The decoder stays inside its block buffer and can name every colour of   *)
(* its cache, for every cache size up to 17 and all block sizes.            *)
(***************************************************************************)

CacheType == [active : 0..Size, touched : 0..Size, fan : FanStates]

(* From two colours on, the state that reads a rank is the one for their    *)
(* number; before, a reset may have left an old one.                        *)
FanOK(ch) == ch.active >= 2 => ch.fan = PixcodeFor(ch.active)

DecoderInv == TypeOK /\ BlockInBounds /\ FanOK(cache)

LEMMA TableTyped ==
  \A s \in States : Transition[s][2] \in States /\ Transition[s][3] \in States
BY DEF States, Transition

LEMMA BitsTyped == TypeOK => \A s \in States : Bits(s) \in 0..8
BY DEF TypeOK, Bits, States, Transition

LEMMA FanTyped ==
  /\ FanStates \subseteq States
  /\ \A n \in Nat : PixcodeFor(n) \in FanStates
BY DEF FanStates, RankStates, States, Transition, PixcodeFor

-----------------------------------------------------------------------------
(* The operations on the cache.                                             *)

LEMMA AddTyped == ASSUME DecoderInv PROVE Add \in CacheType /\ FanOK(Add)
<1>1. cache \in CacheType /\ Size \in Nat /\ cache.active \in 0..Size /\ cache.touched \in 0..Size
  BY DvcDecoderAssumption DEF DecoderInv, TypeOK, CacheType
<1>2. PixcodeFor(cache.active + 1) \in FanStates /\ cache.fan \in FanStates
  BY <1>1, FanTyped DEF CacheType
<1>3. Add \in CacheType
  BY <1>1, <1>2 DEF Add, CacheType
<1>4. FanOK(Add)
  BY <1>1 DEF Add, FanOK, DecoderInv
<1> QED BY <1>3, <1>4

LEMMA TouchTyped ==
  ASSUME DecoderInv, NEW r \in Nat, r < cache.active
  PROVE  Touch(r) \in CacheType /\ FanOK(Touch(r))
<1>1. cache \in CacheType /\ Size \in Nat /\ cache.active \in 0..Size /\ cache.touched \in 0..Size
  BY DvcDecoderAssumption DEF DecoderInv, TypeOK, CacheType
<1>2. Touch(r) \in CacheType
  BY <1>1 DEF Touch, CacheType
<1>3. Touch(r).active = cache.active /\ Touch(r).fan = cache.fan
  BY <1>1 DEF Touch, CacheType
<1> QED BY <1>2, <1>3 DEF FanOK, DecoderInv

LEMMA NoColorsTyped == ASSUME DecoderInv PROVE NoColors \in CacheType /\ FanOK(NoColors)
<1>1. cache \in CacheType /\ Size \in Nat
  BY DvcDecoderAssumption DEF DecoderInv, TypeOK, CacheType
<1>2. NoColors \in CacheType
  BY <1>1 DEF NoColors, CacheType
<1>3. NoColors.active = 0
  BY <1>1 DEF NoColors, CacheType
<1> QED BY <1>2, <1>3 DEF FanOK

LEMMA PrunedTyped ==
  ASSUME NEW ch \in CacheType
  PROVE  Pruned(ch) \in CacheType /\ FanOK(Pruned(ch))
<1>1. ch.touched \in 0..Size /\ Size \in Nat
  BY DvcDecoderAssumption DEF CacheType
<1>2. PixcodeFor(ch.touched) \in FanStates
  BY <1>1, FanTyped
<1> QED BY <1>1, <1>2 DEF Pruned, CacheType, FanOK

-----------------------------------------------------------------------------
(* What an iteration leaves behind.                                         *)

Ends ==
    /\ pc' \in {"idle", "run"} /\ ret' \in {0, 1, 6} /\ state' \in States
    /\ pixelCount' \in Nat /\ pixelCount' <= height
    /\ cache' \in CacheType /\ FanOK(cache')

LEMMA GoEnds ==
  ASSUME DecoderInv, NEW next \in States, NEW count \in Nat, count <= height,
         NEW ch \in CacheType, FanOK(ch), Go(next, count, ch)
  PROVE  Ends
<1>1. "start" \in States
  BY DEF States, Transition
<1>2. height \in Nat /\ 0 <= height
  BY DvcDecoderAssumption DEF DecoderInv, TypeOK
<1>3. Pruned(ch) \in CacheType /\ FanOK(Pruned(ch))
  BY PrunedTyped
<1>4. state' \in States
  BY <1>1 DEF Go
<1>5. pc' \in {"idle", "run"} /\ ret' \in {0, 1, 6}
  BY DEF Go, DecoderInv, TypeOK
<1>6. pixelCount' \in Nat /\ pixelCount' <= height
  BY <1>2 DEF Go
<1>7. cache' \in CacheType /\ FanOK(cache')
  BY <1>3 DEF Go
<1> QED BY <1>4, <1>5, <1>6, <1>7 DEF Ends

LEMMA PushEnds ==
  ASSUME DecoderInv, NEW next \in States, NEW n \in Nat,
         NEW ch \in CacheType, FanOK(ch), Push(n, next, ch)
  PROVE  Ends
<1>1. height \in Nat /\ pixelCount \in Nat /\ "latched" \in States
  BY DvcDecoderAssumption DEF DecoderInv, TypeOK, States, Transition
<1>2. CASE pixelCount + n <= height
  <2>1. Go(next, pixelCount + n, ch) /\ pixelCount + n \in Nat
    BY <1>1, <1>2 DEF Push
  <2> QED BY <1>2, <2>1, GoEnds
<1>3. CASE ~(pixelCount + n <= height)
  <2>1. Go("latched", height, ch) /\ height <= height
    BY <1>1, <1>3 DEF Push
  <2> QED BY <1>1, <2>1, GoEnds
<1> QED BY <1>2, <1>3

(* An iteration that changes neither the pixels nor the cache.              *)
LEMMA StayEnds ==
  ASSUME DecoderInv, NEW next \in States, Go(next, pixelCount, cache)
  PROVE  Ends
BY GoEnds DEF DecoderInv, TypeOK, BlockInBounds, CacheType

LEMMA ClearEnds ==
  ASSUME DecoderInv, NEW next \in States, NEW ch \in CacheType, FanOK(ch), Go(next, 0, ch)
  PROVE  Ends
<1>1. 0 \in Nat /\ 0 <= height
  BY DvcDecoderAssumption DEF DecoderInv, TypeOK
<1> QED BY <1>1, GoEnds

LEMMA CodesTyped == ASSUME DecoderInv PROVE \A c \in Codes : c \in Nat
<1>1. Bits(state) \in 0..8
  BY BitsTyped DEF DecoderInv, TypeOK
<1>2. Mask(Bits(state)) \in Nat
  BY <1>1 DEF Mask, getMask
<1> QED BY <1>2 DEF Codes

LEMMA NextTyped == ASSUME DecoderInv, NEW c PROVE Table(c) \in States
<1>1. state \in States /\ cache.fan \in States
  BY FanTyped DEF DecoderInv, TypeOK
<1> QED BY <1>1, TableTyped DEF Table

LEMMA ReadTyped == ASSUME DecoderInv, NEW S, Read(S) PROVE ib' \in 0..MaxBits
<1>1. Bits(state) \in 0..8 /\ ib \in 0..MaxBits /\ MaxBits \in Nat
  BY BitsTyped, DvcDecoderAssumption DEF DecoderInv, TypeOK
<1> QED BY <1>1 DEF Read

-----------------------------------------------------------------------------
(* An iteration, and the settings and counts it leaves.                     *)
LEMMA Conclude ==
  ASSUME DecoderInv, Ends, ib' \in 0..MaxBits, UNCHANGED settings,
         cmdCount' \in Nat, fatal' \in 0..(Wrap - 1),
         timed' \in {"never", "now", "last", "before", "ahead"}, asked' \in BOOLEAN
  PROVE  DecoderInv'
<1>1. TypeOK'
  BY DEF DecoderInv, TypeOK, Ends, CacheType, settings
<1>2. BlockInBounds' /\ FanOK(cache)'
  BY DEF Ends, BlockInBounds, settings, FanOK
<1> QED BY <1>1, <1>2 DEF DecoderInv

LEMMA ConcludeSame ==
  ASSUME DecoderInv, Ends, ib' \in 0..MaxBits, UNCHANGED <<settings, counts>>
  PROVE  DecoderInv'
<1>1. asked' \in BOOLEAN
  BY Zenon DEF DecoderInv, TypeOK, counts
<1>2. /\ cmdCount' \in Nat /\ fatal' \in 0..(Wrap - 1)
      /\ timed' \in {"never", "now", "last", "before", "ahead"}
  BY DEF DecoderInv, TypeOK, counts
<1> QED BY <1>1, <1>2, Conclude

LEMMA DecoderStep == DecoderInv /\ [Next]_vars => DecoderInv'
<1> SUFFICES ASSUME DecoderInv, [Next]_vars PROVE DecoderInv'
  OBVIOUS
<1>0. /\ {"start", "latched", "pixels", "pixrpt", "pixrptnstd", "pixrptstd2", "corp",
          "firmware", "exit", "print0", "print1", "hunt", "reset"} \subseteq States
      /\ cache \in CacheType /\ FanOK(cache) /\ cache.fan \in States
      /\ cache.active \in Nat /\ pixelCount \in Nat
      /\ ib \in 0..MaxBits /\ MaxBits \in Nat
      /\ cmdCount \in Nat /\ fatal \in 0..(Wrap - 1)
      /\ timed \in {"never", "now", "last", "before", "ahead"}
  BY DvcDecoderAssumption, FanTyped DEF DecoderInv, TypeOK, States, Transition, CacheType
<1>a. asked \in BOOLEAN
  BY Zenon DEF DecoderInv, TypeOK
<1>1. CASE UNCHANGED vars
  BY <1>1 DEF vars, DecoderInv, TypeOK, BlockInBounds, FanOK
<1>2. CASE Feed
  <2>1. asked' \in BOOLEAN
    BY <1>2, <1>a, Zenon DEF Feed
  <2>2. ib' \in 0..MaxBits /\ state' \in States /\ timed' \in {"never", "now", "last", "before", "ahead"}
    BY <1>0, <1>2 DEF Feed, DecoderInv, TypeOK
  <2>3. TypeOK'
    BY <1>2, <2>1, <2>2 DEF Feed, DecoderInv, TypeOK, settings
  <2> QED BY <1>2, <2>3 DEF Feed, DecoderInv, BlockInBounds, FanOK, settings
<1>3. CASE Return
  <2>1. asked' \in BOOLEAN
    BY <1>3, <1>a, Zenon DEF Return, counts
  <2>2. TypeOK'
    BY <1>3, <2>1 DEF Return, DecoderInv, TypeOK, settings, counts
  <2> QED BY <1>3, <2>2 DEF Return, DecoderInv, BlockInBounds, FanOK, settings
<1>4. CASE Plain
  <2>1. PICK c \in Codes : Go(Table(c), pixelCount, cache)
    BY <1>4 DEF Plain
  <2>2. Ends
    BY <2>1, NextTyped, StayEnds
  <2>3. ib' \in 0..MaxBits
    BY <1>4, ReadTyped DEF Plain
  <2> QED BY <1>4, <2>2, <2>3, ConcludeSame DEF Plain
<1>5. CASE PixRank
  <2>1. PICK c \in Codes :
          IF RankOf(state, c, cache.active) < cache.active
          THEN Push(1, Table(c), Touch(RankOf(state, c, cache.active)))
          ELSE Go("latched", pixelCount, cache)
    BY <1>5 DEF PixRank
  <2>2. RankOf(state, c, cache.active) \in Nat
    BY CodesTyped DEF RankOf
  <2>3. Ends
    BY <1>0, <2>1, <2>2, TouchTyped, NextTyped, PushEnds, StayEnds
  <2>4. ib' \in 0..MaxBits
    BY <1>5, ReadTyped DEF PixRank
  <2> QED BY <1>5, <2>3, <2>4, ConcludeSame DEF PixRank
<1>6. CASE PixValue
  <2>1. ASSUME NEW r \in 0..(cache.active - 1), Go("latched", pixelCount, Touch(r)) PROVE Ends
    <3>1. r \in Nat /\ r < cache.active /\ pixelCount <= height
      BY <1>0, <2>1 DEF DecoderInv, BlockInBounds
    <3>2. Touch(r) \in CacheType /\ FanOK(Touch(r))
      BY <3>1, TouchTyped
    <3> QED BY <1>0, <2>1, <3>1, <3>2, GoEnds
  <2>2. ASSUME Push(1, "pixrpt", Add) PROVE Ends
    <3>1. "pixrpt" \in States /\ 1 \in Nat
      BY <1>0
    <3>2. Add \in CacheType /\ FanOK(Add)
      BY AddTyped
    <3> QED BY <2>2, <3>1, <3>2, PushEnds
  <2>3. Ends
    <3>1. \/ Push(1, "pixrpt", Add)
          \/ \E r \in 0..(cache.active - 1) : Go("latched", pixelCount, Touch(r))
      BY <1>6 DEF PixValue
    <3> QED BY <2>1, <2>2, <3>1
  <2>4. ib' \in 0..MaxBits
    BY <1>6, ReadTyped DEF PixValue
  <2> QED BY <1>6, <2>3, <2>4, ConcludeSame DEF PixValue
<1>7. CASE PixRepeat
  <2>1. \/ Go("pixrptnstd", pixelCount, cache)
        \/ Go("pixrptstd2", pixelCount, cache)
        \/ \E n \in Nat : Push(n, "pixels", cache)
    <3>1. PICK c \in Codes :
            \/ Go("pixrptnstd", pixelCount, cache)
            \/ Go("pixrptstd2", pixelCount, cache)
            \/ Push(c + 2, "pixels", cache) \/ Push(c + 8, "pixels", cache)
            \/ Push(c, "pixels", cache) \/ Push(1, "pixels", cache)
      BY <1>7 DEF PixRepeat
    <3>2. {c, c + 2, c + 8, 1} \subseteq Nat
      BY CodesTyped
    <3> QED BY <3>1, <3>2
  <2>2. Ends
    BY <1>0, <2>1, PushEnds, StayEnds
  <2>3. ib' \in 0..MaxBits
    BY <1>7, ReadTyped DEF PixRepeat
  <2> QED BY <1>7, <2>2, <2>3, ConcludeSame DEF PixRepeat
<1>8. CASE PixCode
  <2>1. Ends
    BY <1>0, <1>8, StayEnds DEF PixCode
  <2>2. ib' \in 0..MaxBits
    BY <1>8, ReadTyped DEF PixCode
  <2> QED BY <1>8, <2>1, <2>2, ConcludeSame DEF PixCode
<1>9. CASE BlkRepeat
  <2>1. Ends
    BY <1>0, <1>9, ClearEnds DEF BlkRepeat
  <2>2. ib' \in 0..MaxBits
    BY <1>9, ReadTyped DEF BlkRepeat
  <2> QED BY <1>9, <2>1, <2>2, ConcludeSame DEF BlkRepeat
<1>10. CASE Timeout
  <2>1. Ends
    BY <1>0, <1>10, StayEnds DEF Timeout
  <2>2. ib' \in 0..MaxBits
    BY <1>0, <1>10 DEF Timeout
  <2>3. asked' \in BOOLEAN
    BY <1>10, <1>a, Zenon DEF Timeout
  <2> QED BY <1>0, <1>10, <2>1, <2>2, <2>3, Conclude DEF Timeout
<1>11. CASE Firmware
  <2>1. Ends
    BY <1>0, <1>11, StayEnds DEF Firmware
  <2>2. ib' \in 0..MaxBits
    BY <1>11, ReadTyped DEF Firmware
  <2>3. asked' \in BOOLEAN
    BY <1>11, <1>a, Zenon DEF Firmware
  <2> QED BY <1>0, <1>11, <2>1, <2>2, <2>3, Conclude DEF Firmware
<1>12. CASE CorpMore
  <2>1. Ends
    BY <1>0, <1>12, StayEnds DEF CorpMore
  <2>2. ib' \in 0..MaxBits
    BY <1>12, ReadTyped DEF CorpMore
  <2> QED BY <1>12, <2>1, <2>2, ConcludeSame DEF CorpMore
<1>13. CASE CorpRun
  <2>1. Ends
    BY <1>0, <1>13, StayEnds DEF CorpRun
  <2>2. ib' \in 0..MaxBits
    BY <1>0, <1>13 DEF CorpRun
  <2>3. asked' \in BOOLEAN
    BY <1>13, <1>a, Zenon DEF CorpRun
  <2>4. height' = height /\ bpc' \in 2..5 /\ cmdCount' = 0 /\ timed' = timed /\ fatal' = fatal
    BY <1>13, DvcDecoderAssumption DEF CorpRun, DecoderInv, TypeOK, settings
  <2>5. TypeOK'
    BY <2>1, <2>2, <2>3, <2>4 DEF Ends, DecoderInv, TypeOK, CacheType
  <2> QED BY <2>1, <2>4, <2>5 DEF Ends, DecoderInv, BlockInBounds, FanOK
<1>14. CASE Text
  <2>1. Ends
    BY <1>0, <1>14, StayEnds DEF Text
  <2>2. ib' \in 0..MaxBits
    BY <1>14, ReadTyped DEF Text
  <2> QED BY <1>14, <2>1, <2>2, ConcludeSame DEF Text
<1>15. CASE Reset
  <2>1. Ends
    BY <1>0, <1>15, NoColorsTyped, ClearEnds DEF Reset
  <2>2. ib' \in 0..MaxBits
    BY <1>15, ReadTyped DEF Reset
  <2>3. asked' \in BOOLEAN
    BY <1>15, <1>a, Zenon DEF Reset
  <2>4. 0 \in 0..(Wrap - 1)
    BY DvcDecoderAssumption
  <2> QED BY <1>15, <2>1, <2>2, <2>3, <2>4, Conclude DEF Reset
<1>16. CASE Latched
  <2>1. Ends
    BY <1>0, <1>16, StayEnds DEF Latched
  <2>2. ib' \in 0..MaxBits
    BY <1>16, ReadTyped DEF Latched
  <2>3. asked' \in BOOLEAN
    <3> DEFINE b == fatal \in {Ask1, Ask2, Ask3 - 1, Wrap - 1}
    <3>1. asked' = b
      BY <1>16 DEF Latched
    <3>2. b \in BOOLEAN
      OBVIOUS
    <3> HIDE DEF b
    <3> QED BY <3>1, <3>2
  <2>4. fatal' \in 0..(Wrap - 1)
    BY <1>0, <1>16, DvcDecoderAssumption DEF Latched
  <2> QED BY <1>0, <1>16, <2>1, <2>2, <2>3, <2>4, Conclude DEF Latched
<1>17. CASE Mode2
  <2>1. NoColors \in CacheType /\ FanOK(NoColors)
    BY NoColorsTyped
  <2>2. Ends
    BY <1>0, <1>17, <2>1, ClearEnds DEF Mode2
  <2>3. pixelCount' = 0 /\ height' \in {Full, Half} /\ bpc' = bpc
    BY <1>17 DEF Mode2, Go
  <2>4. ib' \in 0..MaxBits
    BY <1>17, ReadTyped DEF Mode2
  <2>5. asked' \in BOOLEAN
    BY <1>17, <1>a, Zenon DEF Mode2, counts
  <2>6. cmdCount' = cmdCount /\ timed' = timed /\ fatal' = fatal
    BY <1>17 DEF Mode2, counts
  <2>7. TypeOK'
    BY <2>2, <2>3, <2>4, <2>5, <2>6 DEF Ends, DecoderInv, TypeOK, CacheType
  <2>8. 0 <= height'
    BY <2>3, DvcDecoderAssumption
  <2> QED BY <2>2, <2>3, <2>7, <2>8 DEF Ends, DecoderInv, BlockInBounds, FanOK
<1>18. CASE Hunt
  <2>1. Ends
    BY <1>0, <1>18, StayEnds DEF Hunt
  <2>2. ib' \in 0..MaxBits
    BY <1>0, <1>18 DEF Hunt
  <2>3. asked' \in BOOLEAN
    BY <1>18, <1>a, Zenon DEF Hunt
  <2>4. timed' \in {"never", "now", "last", "before", "ahead"}
    BY <1>0, <1>18 DEF Hunt
  <2> QED BY <1>0, <1>18, <2>1, <2>2, <2>3, <2>4, Conclude DEF Hunt
<1> QED BY <1>1, <1>2, <1>3, <1>4, <1>5, <1>6, <1>7, <1>8, <1>9, <1>10, <1>11, <1>12,
           <1>13, <1>14, <1>15, <1>16, <1>17, <1>18 DEF Next, Loop

LEMMA DecoderInvariant == Spec => []DecoderInv
<1>1. Init => DecoderInv
  <2> SUFFICES ASSUME Init PROVE DecoderInv
    OBVIOUS
  <2>1. asked \in BOOLEAN
    BY Zenon DEF Init
  <2>2. state \in States /\ "pixcode" \in FanStates
    BY DEF Init, States, Transition, FanStates
  <2>3. TypeOK
    BY <2>1, <2>2, DvcDecoderAssumption DEF Init, TypeOK
  <2> QED BY <2>3, DvcDecoderAssumption DEF Init, DecoderInv, BlockInBounds, FanOK
<1>2. DecoderInv /\ [Next]_vars => DecoderInv'
  BY DecoderStep
<1> QED BY <1>1, <1>2, PTL DEF Spec

(* The decoder's variables keep their types.                                *)
THEOREM DecoderTypeCorrect == Spec => []TypeOK
<1>1. DecoderInv => TypeOK
  BY DEF DecoderInv
<1> QED BY <1>1, DecoderInvariant, PTL

(* Whatever the stream carries, pushPixel writes inside the block, also     *)
(* after repeats, hunts and changes of the block height.                    *)
THEOREM BlockNeverOverrun == Spec => []BlockInBounds
<1>1. DecoderInv => BlockInBounds
  BY DEF DecoderInv
<1> QED BY <1>1, DecoderInvariant, PTL

(* The width of the codes that name a rank, and what they reach.            *)
LEMMA CodeMasks ==
    /\ Mask(Transition["pixlru0"][1]) = 1
    /\ Mask(Transition["pixcode1"][1]) = 1
    /\ Mask(Transition["pixcode2"][1]) = 3
    /\ Mask(Transition["pixcode3"][1]) = 7
    /\ Mask(Transition["pixcode4"][1]) = 15
<1>1. Transition["pixlru0"][1] = 1 /\ Transition["pixcode1"][1] = 1
  BY DEF Transition
<1>2. Transition["pixcode2"][1] = 2 /\ Transition["pixcode3"][1] = 3
  BY DEF Transition
<1>3. Transition["pixcode4"][1] = 4
  BY DEF Transition
<1>4. Mask(1) = 1 /\ Mask(2) = 3 /\ Mask(3) = 7 /\ Mask(4) = 15
  BY DEF Mask, getMask
<1> QED BY <1>1, <1>2, <1>3, <1>4

(* For a cache of up to 17 colours, the states that read ranks reach all of *)
(* them.                                                                    *)
THEOREM EveryColorNamed == Spec => []RanksAddressable
<1>1. DecoderInv => RanksAddressable
  <2> SUFFICES ASSUME DecoderInv, NEW r \in 0..(cache.active - 1), cache.active # 1, r # 1
               PROVE  /\ cache.fan \in RankStates
                      /\ \E c \in 0..Mask(Transition[cache.fan][1]) :
                            RankOf(cache.fan, c, cache.active) = r
    BY DEF RanksAddressable
  <2> DEFINE n == cache.active
  <2>1. n \in 2..17 /\ cache.fan = PixcodeFor(n)
    BY DvcDecoderAssumption DEF DecoderInv, TypeOK, FanOK
  <2>2. r \in 0..16 /\ r < n /\ r # 1
    BY <2>1
  <2> HIDE DEF n
  <2>3. cache.fan \in RankStates
    BY <2>1 DEF PixcodeFor, RankStates
  <2> DEFINE mask == Mask(Transition[cache.fan][1])
  <2>6. /\ mask \in Nat
        /\ \A k \in 1..15 : k + 1 < n => k <= mask
    <3> HIDE DEF mask
    <3>1. CASE n \in {2, 3}
      <4>1. mask = 1
        BY <2>1, <3>1, CodeMasks DEF mask, PixcodeFor
      <4> QED BY <3>1, <4>1
    <3>2. CASE n \in 4..5
      <4>1. mask = 3
        BY <2>1, <3>2, CodeMasks DEF mask, PixcodeFor
      <4> QED BY <3>2, <4>1
    <3>3. CASE n \in 6..9
      <4>1. mask = 7
        BY <2>1, <3>3, CodeMasks DEF mask, PixcodeFor
      <4> QED BY <3>3, <4>1
    <3>4. CASE n \in 10..17
      <4>1. mask = 15
        BY <2>1, <3>4, CodeMasks DEF mask, PixcodeFor
      <4> QED BY <3>4, <4>1
    <3> QED BY <2>1, <3>1, <3>2, <3>3, <3>4
  <2> HIDE DEF mask
  <2>4. CASE r = 0
    <3>1. 0 \in 0..mask
      BY <2>6
    <3>2. RankOf(cache.fan, 0, n) = 0
      BY <2>1 DEF RankOf, PixcodeFor
    <3> QED BY <2>3, <2>4, <3>1, <3>2 DEF n, mask
  <2>5. CASE r # 0
    <3>1. r - 1 \in 1..15 /\ RankOf(cache.fan, r - 1, n) = r
      BY <2>1, <2>2, <2>5 DEF RankOf, PixcodeFor
    <3>2. r - 1 \in 0..mask
      BY <2>2, <2>5, <2>6, <3>1
    <3> QED BY <2>3, <3>1, <3>2 DEF n, mask
  <2> QED BY <2>3, <2>4, <2>5
<1> QED BY <1>1, DecoderInvariant, PTL
=============================================================================
