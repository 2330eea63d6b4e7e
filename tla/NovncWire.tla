----------------------------- MODULE NovncWire -----------------------------
(***************************************************************************)
(* Reading a byte stream that arrives in pieces (core/websock.js, the       *)
(* receive queue).  A client record c has the bytes the server sends (rQ),  *)
(* how many of them have arrived (rQlen) and how many are read (rQi).  A    *)
(* handler asks rQwait before it reads; when there is too little it returns *)
(* and is called again with the next piece, so whatever it has read by then *)
(* must be kept or put back.                                                *)
(***************************************************************************)
EXTENDS Integers, Sequences, FiniteSets, SequencesExt, FiniteSetsExt

rQwait(c, n) == c.rQlen - c.rQi < n

\* The n bytes that start k after the read position.  A handler that reads more
\* than has arrived finds whatever the buffer holds, here zeros.
Peek(c, k, n) ==
    [i \in 1 .. n |-> IF c.rQi + k + i <= c.rQlen THEN c.rQ[c.rQi + k + i] ELSE 0]

rQshiftBytes(c, n) == Peek(c, 0, n)
rQskipBytes(c, n) == [c EXCEPT !.rQi = @ + n]
Goback(c, n) == [c EXCEPT !.rQi = @ - n]

\* Big-endian numbers, k bytes after the read position.  Numbers that are larger
\* than any stream is long are all alike.
Huge == 2 ^ 22
Number(bytes) == FoldLeft(LAMBDA n, b : Min({Huge, 256 * n + b}), 0, bytes)
U8(c, k) == Number(Peek(c, k, 1))
U16(c, k) == Number(Peek(c, k, 2))
U32(c, k) == Number(Peek(c, k, 4))

\* How the number n is sent in k bytes.
Bytes(n, k) == [i \in 1 .. k |-> (n \div 256 ^ (k - i)) % 256]

Bit(n, k) == (n \div 2 ^ k) % 2 = 1
Ceil(a, b) == (a + b - 1) \div b

\* What a handler returns: finished, called too early, or an error was thrown.
Done(c) == [ok |-> TRUE, c |-> c]
Wait(c) == [ok |-> FALSE, c |-> c]
Throw(c) == [ok |-> FALSE, c |-> [c EXCEPT !.failed = TRUE]]
=============================================================================
