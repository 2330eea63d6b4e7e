----------------------------- MODULE IvtpClient -----------------------------
(***************************************************************************)
(* kvm.Client: the IVTP connection to an AMI BMC.  handshake waits for the  *)
(* verdict on the session; then readLoop puts the fragments of each video   *)
(* frame together while keepAlive polls and Run waits for the first of them *)
(* to give up.                                                              *)
(***************************************************************************)
EXTENDS Naturals, Sequences, SequencesExt

CONSTANTS
    MaxFrames,  \* bound: frames of the BMC
    MaxParts,   \* bound: fragments of a frame
    Limit       \* maxFrameBytes, in fragments

VARIABLES
    pc,      \* Connect and Run: "handshake", "run", "failed", "returned"
    reader,  \* readLoop: "off", "reading", "ended" with its error in errc
    keep,    \* keepAlive: "off", "waiting", "ended"
    ctx,     \* whether the context of the session is cancelled
    sock,    \* "open", "lost" (the peer is gone) or "closed"
    wire,    \* messages of the BMC that have not been read
    frame,   \* readLoop: the fragments of the frame so far
    decoded, \* what handleFrame was called with
    bmc      \* the BMC: verdict sent, frame and fragment it is at, whole frames

vars == <<pc, reader, keep, ctx, sock, wire, frame, decoded, bmc>>

Fragments == [type : {"fragment"}, num : 0..MaxParts, last : BOOLEAN, data : Seq(Nat)]
Messages == Fragments \cup [type : {"accept", "reject", "stop", "short", "other"}]
Frames == Seq(Seq(Nat))

\* The type of every variable of the client.
TypeOK ==
    /\ pc \in {"handshake", "run", "failed", "returned"}
    /\ reader \in {"off", "reading", "ended"} /\ keep \in {"off", "waiting", "ended"}
    /\ ctx \in BOOLEAN /\ sock \in {"open", "lost", "closed"}
    /\ wire \in Seq(Messages)
    /\ frame \in Seq(Seq(Nat)) /\ decoded \in Seq(Frames)
    /\ bmc \in [verdict : {"none", "accept", "reject", "stop"}, frame : 0..MaxFrames,
                part : 0..MaxParts, whole : Seq(Frames)]

Init ==
    /\ pc = "handshake" /\ reader = "off" /\ keep = "off"
    /\ ctx = FALSE /\ sock = "open" /\ wire = <<>>
    /\ frame = <<>> /\ decoded = <<>>
    /\ bmc = [verdict |-> "none", frame |-> 0, part |-> 0, whole |-> <<>>]

-----------------------------------------------------------------------------
(* The BMC.                                                                 *)

BmcSend(msg) ==
    /\ sock = "open"
    /\ wire' = Append(wire, msg)
    /\ UNCHANGED <<pc, reader, keep, ctx, sock, frame, decoded>>

\* It accepts or refuses the session.
Judge ==
    /\ bmc.verdict = "none"
    /\ \E v \in {"accept", "reject", "stop"} :
        BmcSend([type |-> v]) /\ bmc' = [bmc EXCEPT !.verdict = v]

\* Messages the client has no use for; a fragment too short for its number.
Chatter ==
    /\ Len(wire) < 2
    /\ \/ BmcSend([type |-> "other"])
       \/ bmc.verdict = "accept" /\ BmcSend([type |-> "short"])
    /\ UNCHANGED bmc

Piece(f, k) == <<f, k>>
Whole(f, n) == [k \in 1..n |-> Piece(f, k)]

\* The next fragment of the frame; a frame may be given up for the next one.
Fragment ==
    /\ bmc.verdict = "accept" /\ Len(wire) < 2
    /\ \E first, last \in BOOLEAN :
        LET f == IF first THEN bmc.frame + 1 ELSE bmc.frame
            k == IF first THEN 1 ELSE bmc.part + 1
        IN /\ first \/ bmc.part > 0
           /\ f <= MaxFrames /\ k <= MaxParts
           /\ BmcSend([type |-> "fragment", num |-> k - 1, last |-> last, data |-> Piece(f, k)])
           /\ bmc' = [bmc EXCEPT !.frame = f, !.part = IF last THEN 0 ELSE k,
                                 !.whole = IF last THEN Append(@, Whole(f, k)) ELSE @]

Lose ==
    /\ sock = "open" /\ sock' = "lost"
    /\ UNCHANGED <<pc, reader, keep, ctx, wire, frame, decoded, bmc>>

-----------------------------------------------------------------------------
(* Connect: handshake                                                       *)

\* The whole loop body of handshake: the verdict, or a message to skip.
Handshake ==
    /\ pc = "handshake" /\ wire # <<>>
    /\ wire' = Tail(wire)
    /\ LET type == Head(wire).type
       IN \/ /\ type = "accept" /\ pc' = "run" /\ reader' = "reading" /\ keep' = "waiting"
             /\ UNCHANGED sock
          \/ /\ type \in {"reject", "stop"} /\ pc' = "failed" /\ sock' = "closed"
             /\ UNCHANGED <<reader, keep>>
          \/ /\ type \notin {"accept", "reject", "stop"}
             /\ UNCHANGED <<pc, reader, keep, sock>>
    /\ UNCHANGED <<ctx, frame, decoded, bmc>>

\* The deadline of the handshake, or the end of the stream.
HandshakeFails ==
    /\ pc = "handshake" /\ wire = <<>>
    /\ pc' = "failed" /\ sock' = "closed"
    /\ UNCHANGED <<reader, keep, ctx, wire, frame, decoded, bmc>>

-----------------------------------------------------------------------------
(* Run                                                                      *)

\* Mutant: only the last fragment of a frame empties the buffer.
BeginKeeps(num) == frame

\* The fragments of the frame before this one: none if this is the first.
Begin(num) == IF num = 0 THEN <<>> ELSE frame

\* readLoop: one message.
Read ==
    /\ reader = "reading" /\ wire # <<>> /\ sock # "closed"
    /\ wire' = Tail(wire)
    /\ LET msg == Head(wire)
       IN IF msg.type # "fragment" THEN UNCHANGED <<reader, frame, decoded>>
          ELSE LET all == Append(Begin(msg.num), msg.data)
               IN IF Len(all) > Limit
                  THEN /\ reader' = "ended" /\ frame' = Begin(msg.num)
                       /\ UNCHANGED decoded
                  ELSE /\ frame' = IF msg.last THEN <<>> ELSE all
                       /\ decoded' = IF msg.last THEN Append(decoded, all) ELSE decoded
                       /\ UNCHANGED reader
    /\ UNCHANGED <<pc, keep, ctx, sock, bmc>>

\* The stream has ended, or Close has closed the socket under it.
ReadFails ==
    /\ sock = "closed" \/ (sock = "lost" /\ wire = <<>>)
    /\ reader = "reading" /\ reader' = "ended"
    /\ UNCHANGED <<pc, keep, ctx, sock, wire, frame, decoded, bmc>>

\* keepAlive: a tick whose write succeeds changes nothing; it ends with the
\* context or when a write fails.
KeepEnds ==
    /\ keep = "waiting" /\ (ctx \/ sock # "open")
    /\ keep' = "ended"
    /\ UNCHANGED <<pc, reader, ctx, sock, wire, frame, decoded, bmc>>

\* Release, or the end of the request.
Cancel ==
    /\ ~ctx /\ ctx' = TRUE
    /\ UNCHANGED <<pc, reader, keep, sock, wire, frame, decoded, bmc>>

\* Mutant: Run waits for its reader only.
RunReturnsOnError ==
    /\ pc = "run" /\ reader = "ended"
    /\ pc' = "returned" /\ sock' = "closed"
    /\ UNCHANGED <<reader, keep, ctx, wire, frame, decoded, bmc>>

\* Run returns for the context or for the error of readLoop, and closes.
RunReturns ==
    /\ pc = "run" /\ (ctx \/ reader = "ended")
    /\ pc' = "returned" /\ sock' = "closed"
    /\ UNCHANGED <<reader, keep, ctx, wire, frame, decoded, bmc>>

Next ==
    \/ Judge \/ Chatter \/ Fragment \/ Lose
    \/ Handshake \/ HandshakeFails
    \/ Read \/ ReadFails \/ KeepEnds \/ Cancel \/ RunReturns

-----------------------------------------------------------------------------
(* Properties                                                               *)

\* Every frame that is decoded is one that the BMC has sent whole, each once
\* and in order, although the BMC may give up a frame, send other messages
\* between the fragments and end anywhere; no frame is beyond the limit.
FramesWhole ==
    /\ IsPrefix(decoded, bmc.whole)
    /\ \A k \in DOMAIN decoded : Len(decoded[k]) <= Limit

\* Nothing outlives the session: once its context is cancelled or the BMC is
\* gone, Run returns and readLoop and keepAlive end, the one of them that waits
\* on the socket through Close.
ClientEnds ==
    pc = "run" /\ (ctx \/ sock = "lost") ~>
        pc = "returned" /\ reader = "ended" /\ keep = "ended" /\ sock = "closed"
=============================================================================
