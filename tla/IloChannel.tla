----------------------------- MODULE IloChannel -----------------------------
(***************************************************************************)
(* The console channel of an HPE iLO: dialChannel, and the way of the video *)
(* stream from the firmware through TCP segments, Decrypt and Feed.  A      *)
(* command of the stream can change the cipher for the bytes that follow.   *)
(***************************************************************************)
EXTENDS Naturals, Sequences

CONSTANTS
    Ciphers,   \* the ciphers the firmware chooses from; "none" is one of them
    KeyBytes,  \* length of enc_key
    MaxBytes   \* bound: bytes of the video stream

VARIABLES
    pc,    \* dialChannel, then Client.Run
    conn,  \* the socket: "open" or "closed"
    reply, \* what the firmware has answered and dialChannel has not read
    fw,    \* the firmware's keystream: cipher and position
    ch,    \* Channel.decryptStream and dvcEncrypt
    wire,  \* bytes on their way
    buf,   \* bytes of the segment that Run has read and not fed
    sent,  \* what the bytes say, as the firmware meant it
    fed    \* what Feed was given

vars == <<pc, conn, reply, fw, ch, wire, buf, sent, fed>>

\* Key bytes that MakeKeystream requires; SetCipher changes nothing without them.
Needs(c) == CASE c = "none" -> 0 [] c \in {"rc4", "aes128"} -> 16 [] c = "aes256" -> 32
Usable == {c \in Ciphers : Needs(c) <= KeyBytes}
Clear == [cipher |-> "none", pos |-> 0]
Streams == [cipher : Ciphers, pos : 0..MaxBytes]
Plain == {"video", "exit"} \cup Ciphers
Replies == {"none", "hello", "auth", "busy", "refused"}

\* The type of every variable of the channel.
TypeOK ==
    /\ pc \in {"hello", "auth", "seize", "run", "error", "eof"}
    /\ conn \in {"open", "closed"} /\ reply \in Replies
    /\ fw \in Streams /\ ch \in Streams
    /\ wire \in Seq([says : Plain, key : Streams])
    /\ buf \in Seq([says : Plain, key : Streams])
    /\ sent \in Seq(Plain) /\ fed \in Seq(Plain \cup {"garbage"})

Init ==
    /\ pc = "hello" /\ conn = "open" /\ reply = "none"
    /\ fw = Clear /\ ch = Clear
    /\ wire = <<>> /\ buf = <<>> /\ sent = <<>> /\ fed = <<>>

-----------------------------------------------------------------------------
(* dialChannel                                                              *)

\* The firmware answers the stage that dialChannel is in.
Answer ==
    /\ reply = "none" /\ pc \in {"hello", "auth", "seize"}
    /\ reply' \in IF pc = "hello" THEN {"hello", "refused"} ELSE {"auth", "busy", "refused"}
    /\ UNCHANGED <<pc, conn, fw, ch, wire, buf, sent, fed>>

\* A busy console is seized once; every error closes the socket.
Dial ==
    /\ reply # "none" /\ reply' = "none"
    /\ pc' = CASE pc = "hello" /\ reply = "hello" -> "auth"
               [] pc = "auth" /\ reply = "busy" -> "seize"
               [] pc \in {"auth", "seize"} /\ reply = "auth" -> "run"
               [] OTHER -> "error"
    /\ conn' = IF pc' = "error" THEN "closed" ELSE conn
    /\ UNCHANGED <<fw, ch, wire, buf, sent, fed>>

\* The deadline or a lost connection.
DialFails ==
    /\ pc \in {"hello", "auth", "seize"} /\ pc' = "error" /\ conn' = "closed"
    /\ UNCHANGED <<reply, fw, ch, wire, buf, sent, fed>>

-----------------------------------------------------------------------------
(* The video stream                                                         *)

Advance(s) == IF s.cipher = "none" THEN s ELSE [s EXCEPT !.pos = @ + 1]

\* Mutant: the new stream goes on where the old one was.
SwitchKeepsPos(s, c) == IF c \in Usable THEN [cipher |-> c, pos |-> s.pos] ELSE s

\* SetCipher: a new keystream from its beginning.
Switch(s, c) == IF c \in Usable THEN [cipher |-> c, pos |-> 0] ELSE s

Said(log, x) == \E k \in DOMAIN log : log[k] = x

\* The firmware writes a byte and switches after the command that says so.  It
\* gives no command after the one to exit.
Write ==
    /\ pc = "run" /\ Len(sent) < MaxBytes
    /\ \E says \in {"video", "exit"} \cup Ciphers :
        /\ Said(sent, "exit") => says = "video"
        /\ sent' = Append(sent, says)
        /\ wire' = Append(wire, [says |-> says, key |-> fw])
        /\ fw' = IF says \in Ciphers THEN [cipher |-> says, pos |-> 0] ELSE Advance(fw)
    /\ UNCHANGED <<pc, conn, reply, ch, buf, fed>>

\* ReadRaw: a segment of any length; a read that times out is tried again.
Segment ==
    /\ pc = "run" /\ buf = <<>>
    /\ \E n \in 1..Len(wire) :
        /\ buf' = SubSeq(wire, 1, n) /\ wire' = SubSeq(wire, n + 1, Len(wire))
    /\ UNCHANGED <<pc, conn, reply, fw, ch, sent, fed>>

\* One byte of the segment: Decrypt, Feed and the command it completes.  Run
\* would return for a 1 of Feed; the exit command makes the decoder stay in its
\* exit state and Feed return 6 for it and for every byte after it, so that Run
\* goes on reading.
Feed ==
    /\ pc = "run" /\ buf # <<>>
    /\ LET b == Head(buf)
           says == IF b.key = ch THEN b.says ELSE "garbage"
       IN /\ fed' = Append(fed, says)
          /\ ch' = IF says \in Ciphers THEN Switch(Advance(ch), says) ELSE Advance(ch)
    /\ buf' = Tail(buf)
    /\ UNCHANGED <<pc, conn, reply, fw, wire, sent>>

\* The firmware has closed or dropped the connection: Run returns and leaves the
\* socket to Close.
ReadFails ==
    /\ pc = "run" /\ buf = <<>>
    /\ pc' = "eof"
    /\ UNCHANGED <<conn, reply, fw, ch, wire, buf, sent, fed>>

\* Client.Close, after Run or under it.
Close ==
    /\ pc \in {"run", "eof"} /\ conn = "open"
    /\ conn' = "closed" /\ pc' = "eof"
    /\ UNCHANGED <<reply, fw, ch, wire, buf, sent, fed>>

Next == Answer \/ Dial \/ DialFails \/ Write \/ Segment \/ Feed \/ ReadFails \/ Close

-----------------------------------------------------------------------------
(* Properties                                                               *)

\* Both ends of the stream stay in step: the decoder is given exactly what the
\* firmware said, wherever TCP cuts the stream, also if the cipher changes in
\* the middle of a segment and after the command to exit.  The exception: the
\* firmware has changed to a cipher that enc_key is too short for, which
\* SetCipher refuses and nobody hears of.
DecryptInStep ==
    /\ Len(fed) <= Len(sent)
    /\ \A k \in DOMAIN fed :
        \/ fed[k] = sent[k]
        \/ \E j \in 1..(k - 1) : sent[j] \in Ciphers \ Usable
    /\ pc = "error" => conn = "closed"
=============================================================================
