------------------------------ MODULE AmtRedir ------------------------------
(***************************************************************************)
(* redir.Dial: the start of a KVM session with the management engine (ME)   *)
(* of an Intel AMT host, over a TCP stream whose reads may end anywhere,    *)
(* and the connection that Dial hands to the RFB client.  Bytes that no      *)
(* decision depends on are left out of the messages.                        *)
(***************************************************************************)
EXTENDS Naturals, Sequences

CONSTANTS
    MaxRetries,  \* bound: challenges after a wrong answer
    Banner       \* bytes the ME sends once RFB has started

VARIABLES
    wire,     \* bytes of the ME that Dial has not read
    buf,      \* session.buf, later the buffer of bufConn
    pc,       \* Dial: reading, returned with a connection, or with an error
    authed,   \* session.authed
    request,  \* the last message written to the ME, until it answers
    retries,  \* challenges the ME has sent
    sent, got \* RFB bytes: sent by the ME, read by the RFB client

vars == <<wire, buf, pc, authed, request, retries, sent, got>>

Errors == {"refused", "noDigest", "rejected", "unknown", "timeout"}

\* The type of every variable of a dial.
TypeOK ==
    /\ wire \in Seq(Nat) /\ buf \in Seq(Nat)
    /\ pc \in {"reading", "ok"} \cup Errors
    /\ authed \in BOOLEAN
    /\ request \in {"none", "start", "query", "user", "digest", "ready"}
    /\ retries \in 0..MaxRetries
    /\ sent \in 0..Banner /\ got \in Seq(Nat)

\* Messages of the ME.  Opcodes and lengths are the numbers the code compares;
\* RFB bytes are numbered from 100.
StartReply(status, oem) == <<17, status, oem>> \o [k \in 1..oem |-> 7]
AuthReply(status, type, data) == <<20, status, type, Len(data)>> \o data
Accepted == <<65, 0>>
Rfb(k) == 100 + k

Init ==
    /\ wire = <<>> /\ buf = <<>>
    /\ pc = "reading" /\ authed = FALSE
    /\ request = "start" /\ retries = 0
    /\ sent = 0 /\ got = <<>>

-----------------------------------------------------------------------------
(* The ME answers what was written last.                                    *)

Answer(from, bytes) ==
    /\ request = from /\ request' = "none"
    /\ wire' = wire \o bytes
    /\ UNCHANGED <<buf, pc, authed, sent, got>>

AnswerStart ==
    /\ \E status, oem \in {0, 1} : Answer("start", StartReply(status, oem))
    /\ UNCHANGED retries

AnswerQuery ==
    /\ \E types \in {<<4>>, <<3, 4>>, <<3>>} : Answer("query", AuthReply(0, 0, types))
    /\ UNCHANGED retries

\* The challenge: realm and nonce, with type 4 also qop.
Challenge == {<<1, 7, 1, 7>>, <<0, 1, 7>>}
Challenged(from) ==
    /\ retries < MaxRetries /\ retries' = retries + 1
    /\ \E data \in Challenge :
        \/ Answer(from, AuthReply(1, 3, data))
        \/ Answer(from, AuthReply(1, 4, data \o <<1, 7>>))

\* The answer was right; it was wrong and asked for again; or it was refused.
AnswerDigest ==
    \/ \E status \in {0, 2} : Answer("digest", AuthReply(status, 4, <<>>)) /\ UNCHANGED retries
    \/ Challenged("digest")

AnswerReady == Answer("ready", Accepted) /\ UNCHANGED retries

\* RFB starts as soon as the ME has accepted.
SendRfb ==
    /\ authed /\ request = "none" /\ sent < Banner
    /\ sent' = sent + 1
    /\ wire' = Append(wire, Rfb(sent'))
    /\ UNCHANGED <<buf, pc, authed, request, retries, got>>

Me == AnswerStart \/ AnswerQuery \/ Challenged("user") \/ AnswerDigest \/ AnswerReady \/ SendRfb

-----------------------------------------------------------------------------
(* Dial.                                                                    *)

\* Mutant: the bytes of the OEM field are not waited for.
NeededNoOem(b) ==
    IF b = <<>> THEN 1
    ELSE CASE b[1] = 17 -> 3
           [] b[1] = 20 -> IF Len(b) < 4 THEN 4 ELSE 4 + b[4]
           [] b[1] = 65 -> 2
           [] OTHER -> 1

\* The bytes readCmd waits for, given the ones that it has.
Needed(b) ==
    IF b = <<>> THEN 1
    ELSE CASE b[1] = 17 -> IF Len(b) < 3 THEN 3 ELSE 3 + b[3]
           [] b[1] = 20 -> IF Len(b) < 4 THEN 4 ELSE 4 + b[4]
           [] b[1] = 65 -> 2
           [] OTHER -> 1

\* fill: a Read returns some of the bytes that have arrived.
Fill ==
    /\ pc = "reading" /\ Len(buf) < Needed(buf)
    /\ \E n \in 1..Len(wire) :
        /\ buf' = buf \o SubSeq(wire, 1, n)
        /\ wire' = SubSeq(wire, n + 1, Len(wire))
    /\ UNCHANGED <<pc, authed, request, retries, sent, got>>

\* The number of length-prefixed fields that parseDigestChallenge can read.
Fields[d \in Seq(Nat)] ==
    IF d = <<>> \/ Len(d) < 1 + d[1] THEN 0
    ELSE 1 + Fields[SubSeq(d, 2 + d[1], Len(d))]

\* What handshake and handleAuthReply do with the command at the head of buf:
\* return, or write the next message.
Outcome(b) ==
    LET status == b[2]
        type == b[3]
        data == SubSeq(b, 5, 4 + b[4])
    IN CASE b[1] = 17 -> IF status # 0 THEN "refused" ELSE "query"
         [] b[1] = 65 -> "ok"
         [] b[1] = 20 /\ type = 0 ->
              IF \E k \in DOMAIN data : data[k] = 4 THEN "user" ELSE "noDigest"
         [] b[1] = 20 /\ type \in {3, 4} /\ status = 1 ->
              IF Fields[data] < type - 1 THEN "rejected" ELSE "digest"
         [] b[1] = 20 /\ type # 0 /\ status = 0 -> "ready"
         [] b[1] = 20 /\ type # 0 /\ status # 0 /\ ~(type \in {3, 4} /\ status = 1) ->
              "rejected"
         [] OTHER -> "unknown"

\* One round of handshake: readCmd has its command, which is handled.
Handle ==
    /\ pc = "reading" /\ Len(buf) >= Needed(buf)
    /\ LET outcome == Outcome(buf)
       IN /\ IF outcome \in Errors \cup {"ok"}
             THEN pc' = outcome /\ UNCHANGED request
             ELSE request' = outcome /\ UNCHANGED pc
          /\ authed' = (authed \/ outcome = "ready")
    /\ buf' = SubSeq(buf, Needed(buf) + 1, Len(buf))
    /\ UNCHANGED <<wire, retries, sent, got>>

\* The deadline of 30 seconds.
Timeout ==
    /\ pc = "reading"
    /\ pc' = "timeout"
    /\ UNCHANGED <<wire, buf, authed, request, retries, sent, got>>

\* Mutant: reads go to the socket although handshake bytes are left.
ReadSocket ==
    /\ pc = "ok" /\ wire # <<>>
    /\ got' = Append(got, Head(wire)) /\ wire' = Tail(wire)
    /\ UNCHANGED <<buf, pc, authed, request, retries, sent>>

\* bufConn.Read: what is left of the handshake comes first.
Read ==
    /\ pc = "ok"
    /\ IF buf # <<>>
       THEN got' = Append(got, Head(buf)) /\ buf' = Tail(buf) /\ UNCHANGED wire
       ELSE /\ wire # <<>>
            /\ got' = Append(got, Head(wire)) /\ wire' = Tail(wire) /\ UNCHANGED buf
    /\ UNCHANGED <<pc, authed, request, retries, sent>>

Next == Me \/ Fill \/ Handle \/ Timeout \/ Read

-----------------------------------------------------------------------------
(* Properties                                                               *)

\* However TCP cuts the stream, Dial stays at the boundaries of the messages:
\* it never meets an opcode it does not know, and the RFB client reads every
\* byte that follows the acceptance, once and in order, also the ones that came
\* with it.
StreamIntact ==
    /\ pc # "unknown"
    /\ pc = "ok" => got \o buf \o wire = [k \in 1..sent |-> Rfb(k)]

\* Dial and the ME never wait for each other: as long as the ME answers, Dial
\* returns without the help of its deadline.
DialReturns == <>(pc # "reading")
=============================================================================
