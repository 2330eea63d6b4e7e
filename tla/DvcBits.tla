------------------------------- MODULE DvcBits ------------------------------
(***************************************************************************)
(* The bit buffer of the iLO video decoder: bytes enter an accumulator,     *)
(* codes leave it with their first bit as the most significant one, and     *)
(* tables made once count the zero bits at both ends of a byte.             *)
(***************************************************************************)
EXTENDS Naturals, Sequences

CONSTANTS
    Bytes,    \* the bytes of the stream that are tried
    MaxZeros  \* zero bits that are counted before the stream stops

ASSUME DvcBitsAssumption == Bytes \subseteq 0..255 /\ MaxZeros \in Nat

VARIABLES
    ibAcc, ibBcnt, zeroCount, code,  \* the fields of the decoder
    hunt,                            \* its state is hunt
    pending,                         \* the bits not read, in the order of the stream
    zeros                            \* zero bits at the end of the stream

bitsVars == <<ibAcc, ibBcnt, zeroCount, code, hunt, pending, zeros>>

\* Mutant: a byte of zeros has no zeros in front.
ScanFromZero(n) ==
    LET f[k \in 0..8] ==
            IF k = 0 THEN [x |-> n, out |-> 0, lo |-> 0, hi |-> 8]
            ELSE LET s == f[k - 1]
                     bit == s.x % 2
                 IN  [x |-> s.x \div 2, out |-> 2 * s.out + bit,
                      lo |-> IF bit = 1 /\ k - 1 < s.lo THEN k - 1 ELSE s.lo,
                      hi |-> IF bit = 1 THEN 8 - k ELSE s.hi]
    IN  f[8]

\* The loop of initReversal over the bits of n, the low one first.
Scan(n) ==
    LET f[k \in 0..8] ==
            IF k = 0 THEN [x |-> n, out |-> 0, lo |-> 8, hi |-> 8]
            ELSE LET s == f[k - 1]
                     bit == s.x % 2
                 IN  [x |-> s.x \div 2, out |-> 2 * s.out + bit,
                      lo |-> IF bit = 1 /\ k - 1 < s.lo THEN k - 1 ELSE s.lo,
                      hi |-> IF bit = 1 THEN 8 - k ELSE s.hi]
    IN  f[8]

\* The tables.
reversal == [n \in 0..255 |-> Scan(n).out]
right == [n \in 0..255 |-> Scan(n).lo]
left == [n \in 0..255 |-> Scan(n).hi]

\* The bits of a byte in the order of the stream, and the number that a
\* sequence of bits means when its first bit is the most significant one.
BitsOf(c) == [k \in 1..8 |-> (c \div 2 ^ (k - 1)) % 2]
Number(s) ==
    LET f[k \in 0..Len(s)] == IF k = 0 THEN 0 ELSE 2 * f[k - 1] + s[k]
    IN  f[Len(s)]

BitsInit ==
    /\ ibAcc = 0 /\ ibBcnt = 0 /\ zeroCount = 0 /\ code = 0
    /\ hunt = FALSE /\ pending = <<>> /\ zeros = 0

\* addBits; the decoder asks for a byte when it has too few bits for its state.
AddBits(c) ==
    /\ ibBcnt < 8 /\ zeroCount <= MaxZeros
    /\ ibAcc' = ibAcc + c * 2 ^ ibBcnt /\ ibBcnt' = ibBcnt + 8
    /\ LET z == zeroCount + right[c]
       IN  /\ hunt' = (hunt \/ z > 30)
           /\ zeroCount' = IF z > 30 \/ c = 0 THEN z ELSE left[c]
    /\ pending' = pending \o BitsOf(c)
    /\ zeros' = LET s == pending \o BitsOf(c)
                IN  IF c = 0 THEN zeros + 8
                    ELSE CHOOSE k \in 0..7 : s[Len(s) - k] = 1 /\ \A j \in 0..(k - 1) : s[Len(s) - j] = 0
    /\ UNCHANGED code

\* Mutant: the bits are not reversed.
GetBitsPlain(n) ==
    /\ ~hunt /\ n <= ibBcnt
    /\ code' = IF n = 0 THEN code ELSE ibAcc % 2 ^ n
    /\ ibAcc' = ibAcc \div 2 ^ n /\ ibBcnt' = ibBcnt - n
    /\ pending' = SubSeq(pending, n + 1, Len(pending))
    /\ UNCHANGED <<zeroCount, hunt, zeros>>

\* getBits
GetBits(n) ==
    /\ ~hunt /\ n <= ibBcnt
    /\ code' = CASE n = 0 -> code
                 [] n = 1 -> ibAcc % 2
                 [] n > 1 -> reversal[ibAcc % 2 ^ n] \div 2 ^ (8 - n)
    /\ ibAcc' = ibAcc \div 2 ^ n /\ ibBcnt' = ibBcnt - n
    /\ pending' = SubSeq(pending, n + 1, Len(pending))
    /\ UNCHANGED <<zeroCount, hunt, zeros>>

\* A bit read while hunting: the first 1 drops the rest of the buffer.
HuntBit ==
    /\ hunt /\ ibBcnt > 0
    /\ code' = ibAcc % 2
    /\ IF code' = 0
       THEN /\ ibAcc' = ibAcc \div 2 /\ ibBcnt' = ibBcnt - 1
            /\ pending' = Tail(pending)
            /\ UNCHANGED <<zeroCount, hunt, zeros>>
       ELSE /\ ibAcc' = 0 /\ ibBcnt' = 0 /\ zeroCount' = 0
            /\ pending' = <<>> /\ hunt' = FALSE /\ zeros' = 0

\* The decoder adds a byte only when it can read no more: all of them while
\* hunting.
BitsNext ==
    \/ \E c \in Bytes : (hunt => ibBcnt = 0) /\ AddBits(c)
    \/ \E n \in 0..8 : GetBits(n)
    \/ HuntBit

BitsSpec == BitsInit /\ [][BitsNext]_bitsVars

-----------------------------------------------------------------------------
(* Properties                                                               *)

\* The type of every variable of the buffer.
BitsTypeOK ==
    /\ ibAcc \in 0..(2 ^ 15 - 1) /\ ibBcnt \in 0..15 /\ zeroCount \in Nat
    /\ code \in 0..255 /\ hunt \in BOOLEAN /\ pending \in Seq({0, 1}) /\ zeros \in Nat

\* The buffer is the stream: the accumulator holds the bits that were not
\* read and nothing else, and the decoder hunts exactly when the stream has
\* shown more than 30 zero bits in a row, although only the zeros at the two
\* ends of a byte are counted.
BufferIsStream ==
    /\ Len(pending) = ibBcnt /\ ibAcc < 2 ^ ibBcnt
    /\ \A k \in 1..ibBcnt : (ibAcc \div 2 ^ (k - 1)) % 2 = pending[k]
    /\ IF hunt THEN zeroCount > 30 ELSE zeroCount = zeros /\ zeros <= 30

\* A code of n bits is the number whose most significant bit came first.
CodeFirstBitFirst ==
    [][\A n \in 1..8 : ~hunt /\ ibBcnt' = ibBcnt - n =>
            code' = Number(SubSeq(pending, 1, n))]_bitsVars
=============================================================================
