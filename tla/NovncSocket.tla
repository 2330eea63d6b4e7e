---------------------------- MODULE NovncSocket ----------------------------
(***************************************************************************)
(* core/websock.js: the receive queue, which is compacted and grown when a *)
(* message does not fit, and the send queue, which is flushed when it is   *)
(* full; with the two messages of core/rfb.js that matter for the latter,  *)
(* a short one and the clipboard text.  A byte is its number in its        *)
(* stream, so that order and completeness can be read off a buffer; 0 is a *)
(* byte never written.  The two queues share nothing, so a behaviour uses  *)
(* one of them.                                                            *)
(***************************************************************************)
EXTENDS Naturals, Integers, Sequences, SequencesExt

CONSTANTS
    RQSize, MaxRQ,   \* rQbufferSize at first, MAX_RQ_GROW_SIZE
    SQSize,          \* sQbufferSize
    Lengths,         \* lengths of incoming messages
    Pastes,          \* lengths of clipboard texts
    MaxIn, MaxOut    \* bounds: bytes of each stream

VARIABLES
    rq,      \* [buf, size, i, len]: _rQ, _rQbufferSize, _rQi, _rQlen
    taken,   \* bytes the handlers have read
    came,    \* bytes that came in
    sq,      \* [buf, len, open, wire, hung]: _sQ, _sQlen, what went out
    pushed,  \* bytes pushed
    odd      \* history: what put a stream out of order

vars == <<rq, taken, came, sq, pushed, odd>>

Buffer(n) == [j \in 1..n |-> 0]

\* Uint8Array.set: what does not fit is refused.
Put(buf, at, bytes) ==
    [j \in DOMAIN buf |-> IF j > at /\ j <= at + Len(bytes) THEN bytes[j - at] ELSE buf[j]]

-----------------------------------------------------------------------------
(* The receive queue.                                                      *)

Unread(q) == SubSeq(q.buf, q.i + 1, q.len)

\* thrown: the message does not fit; the size was already changed.
_expandCompactRQ(q, minFit) ==
    LET required == (q.len - q.i + minFit) * 8
        resize == q.size < required
        grown == IF ~resize THEN q.size
                 ELSE IF q.size * 2 > required THEN q.size * 2 ELSE required
        size == IF grown > MaxRQ THEN MaxRQ ELSE grown
        left == q.len - q.i
    IN  IF grown > MaxRQ /\ size - left < minFit
        THEN [q EXCEPT !.size = size, !.thrown = TRUE]
        ELSE [q EXCEPT !.size = size, !.i = 0, !.len = left,
                       !.buf = Put(Buffer(IF resize THEN size ELSE Len(@)), 0, Unread(q))]

\* Mutant: the buffer is not compacted for a message that fits into all of it.
RecvUncompacted(q, bytes) ==
    LET r == IF q.len = q.i THEN [q EXCEPT !.len = 0, !.i = 0] ELSE q
        f == IF Len(bytes) > r.size - (r.len - r.i) THEN _expandCompactRQ(r, Len(bytes)) ELSE r
    IN  IF f.thrown THEN f
        ELSE IF f.len + Len(bytes) > Len(f.buf) THEN [f EXCEPT !.thrown = TRUE]
        ELSE [f EXCEPT !.buf = Put(@, f.len, bytes), !.len = @ + Len(bytes)]

\* Up to the message event.
_recvMessage(q, bytes) ==
    LET r == IF q.len = q.i THEN [q EXCEPT !.len = 0, !.i = 0] ELSE q
        f == IF Len(bytes) > r.size - r.len THEN _expandCompactRQ(r, Len(bytes)) ELSE r
    IN  IF f.thrown THEN f
        ELSE IF f.len + Len(bytes) > Len(f.buf) THEN [f EXCEPT !.thrown = TRUE]
        ELSE [f EXCEPT !.buf = Put(@, f.len, bytes), !.len = @ + Len(bytes)]

\* What was read is of no account any more, and blanked.
rQshiftBytes(q, n) == [q EXCEPT !.i = @ + n, !.buf = Put(@, 0, Buffer(q.i + n))]

Numbers(from, n) == [j \in 1..n |-> from + j]

\* A message comes in; its handlers read what they can use.  Bytes read are
\* compared with the stream's.
Receive == \E n \in Lengths : \E k \in 0..(rq.len - rq.i + n) :
    LET q == _recvMessage(rq, Numbers(came, n)) IN
    /\ pushed = 0 /\ came + n <= MaxIn /\ ~rq.thrown
    /\ came' = came + n
    /\ IF q.thrown
       THEN rq' = q /\ k = 0 /\ UNCHANGED <<taken, odd>>
       ELSE /\ rq' = rQshiftBytes(q, k)
            /\ taken' = taken + k
            /\ odd' = IF SubSeq(q.buf, q.i + 1, q.i + k) = Numbers(taken, k)
                      THEN odd ELSE odd \cup {"in"}
    /\ UNCHANGED <<sq, pushed>>

-----------------------------------------------------------------------------
(* The send queue.                                                         *)

\* Nothing is sent, and nothing dropped, while the socket is not open.
flush(q) ==
    IF q.len > 0 /\ q.open
    THEN [q EXCEPT !.wire = @ \o SubSeq(q.buf, 1, q.len), !.len = 0]
    ELSE q

_sQensureSpace(q, n) == IF SQSize - q.len < n THEN flush(q) ELSE q

\* sQpush8, sQpush16, sQpush32: n bytes, room for all of them made first.
sQpush(q, bytes) ==
    LET r == _sQensureSpace(q, Len(bytes))
    IN  [r EXCEPT !.buf = Put(@, r.len, bytes), !.len = @ + Len(bytes)]

\* The loop of sQpushBytes; it never ends when the queue stays full.
RECURSIVE sQpushBytes(_, _, _)
sQpushBytes(q, bytes, offset) ==
    LET r == _sQensureSpace(q, 1)
        free == SQSize - r.len
        chunk == IF free > Len(bytes) - offset THEN Len(bytes) - offset ELSE free
        slice == SubSeq(bytes, offset + 1, chunk)
    IN  IF offset >= Len(bytes) THEN q
        ELSE IF chunk <= 0 THEN [r EXCEPT !.hung = TRUE]
        ELSE sQpushBytes([r EXCEPT !.buf = Put(@, r.len, slice), !.len = @ + chunk],
                         bytes, offset + chunk)

\* A message of fixed length: a byte, a word, and it is flushed.
ShortMessage(q, from) == flush(sQpush(sQpush(q, Numbers(from, 1)), Numbers(from + 1, 2)))

clientCutText(q, from, n) ==
    flush(sQpushBytes(sQpush(sQpush(q, Numbers(from, 1)), Numbers(from + 1, 2)),
                      Numbers(from + 3, n), 0))

SendShort ==
    /\ came = 0 /\ pushed + 3 <= MaxOut /\ ~sq.hung
    /\ sq' = ShortMessage(sq, pushed)
    /\ pushed' = pushed + 3
    /\ UNCHANGED <<rq, taken, came, odd>>

SendCutText == \E n \in Pastes :
    /\ came = 0 /\ pushed + 3 + n <= MaxOut /\ ~sq.hung
    /\ sq' = clientCutText(sq, pushed, n)
    /\ pushed' = pushed + 3 + n
    /\ odd' = odd \cup (IF sq.len + 3 + n > SQSize /\ sq.open THEN {"chunked"} ELSE {})
    /\ UNCHANGED <<rq, taken, came>>

\* The socket begins to close; the client learns of it later.
SocketCloses ==
    /\ sq.open
    /\ sq' = [sq EXCEPT !.open = FALSE]
    /\ UNCHANGED <<rq, taken, came, pushed, odd>>

Init ==
    /\ rq = [buf |-> Buffer(RQSize), size |-> RQSize, i |-> 0, len |-> 0, thrown |-> FALSE]
    /\ sq = [buf |-> Buffer(SQSize), len |-> 0, open |-> TRUE, wire |-> <<>>, hung |-> FALSE]
    /\ taken = 0 /\ came = 0 /\ pushed = 0 /\ odd = {}

Next ==
    \/ Receive
    \/ SendShort
    \/ SendCutText
    \/ SocketCloses

Spec == Init /\ [][Next]_vars

-----------------------------------------------------------------------------
\* The handlers read exactly what came, in order: however messages are cut and
\* whenever the receive queue is compacted or grown, what is unread is the rest
\* of the stream, within a buffer no larger than MAX_RQ_GROW_SIZE; a message is
\* refused only when the unread bytes and it do not fit that size.  What goes
\* out is what was pushed, in order, all of it once a message is complete,
\* unless a text was longer than the free part of the send queue; and pushing
\* returns while the socket is open.
StreamsKept ==
    /\ "in" \notin odd
    /\ ~rq.thrown => /\ Unread(rq) = Numbers(taken, came - taken)
                     /\ rq.size = Len(rq.buf) /\ rq.size <= MaxRQ
    /\ rq.thrown => came - taken > MaxRQ
    /\ "chunked" \notin odd => /\ sq.wire = Numbers(0, Len(sq.wire))
                               /\ sq.open => Len(sq.wire) = pushed
    /\ sq.open => ~sq.hung

\* A clipboard text reaches the server as it was pasted.
PasteWhole == sq.wire = Numbers(0, Len(sq.wire))
=============================================================================
