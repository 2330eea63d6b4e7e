----------------------------- MODULE MCConsoles -----------------------------
(***************************************************************************)
(* The wire protocols behind the three video consoles, for TLC: a behaviour *)
(* exercises one of them, the part that it chooses at the start.            *)
(***************************************************************************)
EXTENDS Naturals, Sequences

CONSTANTS
    MaxRetries, Banner,
    Areas, Sizes, Budget, MaxChanges,
    Palettes, MaxRun, MaxRuns, RunTop,
    Keys, Mods, Shift, Unmapped, Slots, Texts, Pastes, MaxEvents,
    MaxFrames, MaxParts, Limit,
    Ciphers, KeyBytes, MaxBytes

VARIABLES
    part,
    wire, buf, pc, authed, request, retries, sent, got,
    stage, bpp, size, fb, shown, fromClient, toClient, screen, me,
    tile, width, cut, mode, rest, pal, pix,
    backend, held, mods, pressed, out, paste, target, latest, overtaken,
    typed, alone, events,
    client, reader, keep, ctx, sock, stream, frame, decoded, bmc,
    dial, conn, reply, fw, ch, segments, segment, said, fed

Redir == INSTANCE AmtRedir
Rfb == INSTANCE AmtRfb
Tile == INSTANCE AmtTile
Hid == INSTANCE HidSink
Ivtp == INSTANCE IvtpClient WITH pc <- client, wire <- stream
Ilo == INSTANCE IloChannel WITH
    pc <- dial, wire <- segments, buf <- segment, sent <- said

Parts == {"redir", "rfb", "tile", "hid", "ivtp", "ilo"}
redirVars == <<wire, buf, pc, authed, request, retries, sent, got>>
rfbVars == <<stage, bpp, size, fb, shown, fromClient, toClient, screen, me>>
tileVars == <<tile, width, cut, mode, rest, pal, pix>>
hidVars == <<backend, held, mods, pressed, out, paste, target, latest, overtaken,
            typed, alone, events>>
ivtpVars == <<client, reader, keep, ctx, sock, stream, frame, decoded, bmc>>
iloVars == <<dial, conn, reply, fw, ch, segments, segment, said, fed>>
all == <<part, redirVars, rfbVars, tileVars, hidVars, ivtpVars, iloVars>>

Init ==
    /\ part \in Parts
    /\ Redir!Init /\ Rfb!Init /\ Tile!Init /\ Hid!Init /\ Ivtp!Init /\ Ilo!Init
    /\ part # "hid" => backend = "ami"
    /\ part # "rfb" => me.bpp = 1 /\ \A s \in Sizes : screen.size <= s

InRedir(A) == part = "redir" /\ A /\ UNCHANGED <<part, rfbVars, tileVars, hidVars, ivtpVars, iloVars>>
InRfb(A) == part = "rfb" /\ A /\ UNCHANGED <<part, redirVars, tileVars, hidVars, ivtpVars, iloVars>>
InTile(A) == part = "tile" /\ A /\ UNCHANGED <<part, redirVars, rfbVars, hidVars, ivtpVars, iloVars>>
InHid(A) == part = "hid" /\ A /\ UNCHANGED <<part, redirVars, rfbVars, tileVars, ivtpVars, iloVars>>
InIvtp(A) == part = "ivtp" /\ A /\ UNCHANGED <<part, redirVars, rfbVars, tileVars, hidVars, iloVars>>
InIlo(A) == part = "ilo" /\ A /\ UNCHANGED <<part, redirVars, rfbVars, tileVars, hidVars, ivtpVars>>

Next ==
    \/ InRedir(Redir!Next) \/ InRfb(Rfb!Next) \/ InTile(Tile!Next)
    \/ InHid(Hid!Next) \/ InIvtp(Ivtp!Next) \/ InIlo(Ilo!Next)

\* The management engine answers, and reads return when bytes are there: no
\* deadline of the code is counted on.  Goroutines that can go on do.
Spec ==
    /\ Init /\ [][Next]_all
    /\ WF_all(InRedir(Redir!Me)) /\ WF_all(InRedir(Redir!Fill)) /\ WF_all(InRedir(Redir!Handle))
    /\ WF_all(InRfb(Rfb!MeReads)) /\ WF_all(InRfb(Rfb!MeUpdates)) /\ WF_all(InRfb(Rfb!Negotiate))
    /\ WF_all(InRfb(Rfb!ServerInit)) /\ WF_all(InRfb(Rfb!ReadMessage))
    /\ WF_all(InIvtp(Ivtp!Read)) /\ WF_all(InIvtp(Ivtp!ReadFails))
    /\ WF_all(InIvtp(Ivtp!KeepEnds)) /\ WF_all(InIvtp(Ivtp!RunReturns))

-----------------------------------------------------------------------------
Char(k, s) == [key |-> k, shift |-> s]

\* Clipboard texts: a doubled character; capital, no key on the keyboard, small.
MCTexts ==
    { <<Char("x", FALSE), Char("x", FALSE)>>,
      <<Char("x", TRUE), Char(Unmapped, FALSE), Char("y", FALSE)>> }

\* The screen of the host reaches the frame source as the BMC sent it.  AMT:
\* the handshake keeps to the boundaries of messages however TCP cuts them and
\* hands on every byte of RFB; the RFB client is never without a request and
\* decodes the pixel format it asked for; tiles are decoded to the pixels that
\* were encoded.  AMI: whole frames are decoded, in order.  iLO: what the
\* firmware has encrypted is decrypted, across changes of the cipher, unless it
\* changes to one its key is too short for.
VideoWhole ==
    /\ Redir!TypeOK /\ Redir!StreamIntact
    /\ Rfb!TypeOK /\ Rfb!UpdatesFlow
    /\ Tile!TypeOK /\ Tile!TileDecoded
    /\ Ivtp!TypeOK /\ Ivtp!FramesWhole
    /\ Ilo!TypeOK /\ Ilo!DecryptInStep

\* No key stays down on the host that is not down in the browser, and a text
\* pasted on its own is typed whole and in order, with Shift where it needs it.
\* The iLO sink has two exceptions: a report may overtake a newer one, and its
\* pastes lose Shift.
KeysTyped == Hid!TypeOK /\ Hid!KeysReleased /\ Hid!TextTyped

\* Dial returns as long as the management engine answers; the AMT screen is
\* shown in the end; a session of the AMI client that is over leaves no
\* goroutine behind.
ConsolesLive ==
    /\ part = "redir" => Redir!DialReturns
    /\ part = "rfb" => Rfb!ScreenShown
    /\ Ivtp!ClientEnds
=============================================================================
