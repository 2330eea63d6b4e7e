------------------------------- MODULE AmtRfb -------------------------------
(***************************************************************************)
(* rfbClient: the RFB session between the AMT bridge and the management     *)
(* engine (ME).  The client asks, the ME answers a request with an update   *)
(* once it has something to send; nobody asks again if a request is lost.   *)
(***************************************************************************)
EXTENDS Naturals, Sequences, SequencesExt

CONSTANTS
    Areas,      \* what a rectangle covers: parts of the screen
    Sizes,      \* screen sizes, as numbers of pixels
    Budget,     \* bytes of a frame that the ME can buffer, 9216000
    MaxChanges  \* bound: changes of the screen

VARIABLES
    stage,       \* of Handshake, then Run
    bpp,         \* rfbClient.bpp
    size, fb,    \* rfbClient.w and h, fb: what each area shows, 0 is black
    shown,       \* the frame last given to the frame source
    fromClient,  \* messages on their way to the ME
    toClient,    \* messages on their way to the client
    screen,      \* the host: size, areas, and how often it has changed
    me           \* the ME: pixel format, size the client was told, the request
                 \* it has not answered, the areas changed since it sent them

vars == <<stage, bpp, size, fb, shown, fromClient, toClient, screen, me>>

Stages == {"version", "types", "result", "init", "run", "ended"}
Pixels == [Areas -> 0..MaxChanges + 1]
Black == [a \in Areas |-> 0]
Rects == [area : Areas, ver : Nat] \cup [desktop : Sizes]
Update(rects) == [kind |-> "update", bpp |-> me.bpp, rects |-> rects]

\* The type of every variable of a session.
TypeOK ==
    /\ stage \in Stages
    /\ bpp \in {1, 2}
    /\ size \in Sizes \cup {0} /\ fb \in Pixels
    /\ shown \in [size : Sizes \cup {0}, fb : Pixels]
    /\ fromClient \in Seq({"format", "full", "inc"})
    /\ toClient \in Seq([kind : {"update"}, bpp : {1, 2}, rects : Seq(Rects)]
                        \cup [kind : {"bell", "cut"}])
    /\ screen \in [size : Sizes, pix : Pixels, changes : 0..MaxChanges]
    /\ me \in [bpp : {1, 2}, told : Sizes, want : {"none", "inc", "full"},
               dirty : SUBSET Areas]

Init ==
    /\ stage = "version" /\ bpp = 2 /\ size = 0 /\ fb = Black
    /\ shown = [size |-> 0, fb |-> Black]
    /\ fromClient = <<>> /\ toClient = <<>>
    /\ \E s \in Sizes, b \in {1, 2} :
        /\ screen = [size |-> s, pix |-> [a \in Areas |-> 1], changes |-> 0]
        /\ me = [bpp |-> b, told |-> s, want |-> "none", dirty |-> {}]

-----------------------------------------------------------------------------
(* The host draws and changes its resolution; the ME answers.               *)

Host == /\ screen.changes < MaxChanges
        /\ UNCHANGED <<stage, bpp, size, fb, shown, fromClient, toClient>>

Draw ==
    /\ Host
    /\ \E a \in Areas :
        /\ screen' = [screen EXCEPT !.pix[a] = screen.changes + 2, !.changes = @ + 1]
        /\ me' = [me EXCEPT !.dirty = @ \cup {a}]

Resize ==
    /\ Host
    /\ \E s \in Sizes \ {screen.size} :
        screen' = [screen EXCEPT !.size = s, !.changes = @ + 1]
    /\ UNCHANGED me

\* A later request replaces an incremental one.
MeReads ==
    /\ fromClient # <<>>
    /\ LET msg == Head(fromClient)
       IN me' = IF msg = "format" THEN [me EXCEPT !.bpp = 1]
                ELSE [me EXCEPT !.want = IF @ = "full" THEN @ ELSE msg]
    /\ fromClient' = Tail(fromClient)
    /\ UNCHANGED <<stage, bpp, size, fb, shown, toClient, screen>>

MeSend(msg) ==
    /\ toClient' = Append(toClient, msg)
    /\ UNCHANGED <<stage, bpp, size, fb, shown, fromClient, screen>>

Tile(a) == [area |-> a, ver |-> screen.pix[a]]

\* An update with all that was asked for, or with some of what has changed.
MeUpdates ==
    /\ me.want # "none"
    /\ IF me.told # screen.size
       THEN /\ MeSend(Update(<<[desktop |-> screen.size]>>))
            /\ me' = [me EXCEPT !.told = screen.size, !.want = "none"]
       ELSE \E areas \in SUBSET Areas \ {{}} :
            /\ IF me.want = "full" THEN areas = Areas ELSE areas \subseteq me.dirty
            /\ MeSend(Update([k \in DOMAIN SetToSeq(areas) |-> Tile(SetToSeq(areas)[k])]))
            /\ me' = [me EXCEPT !.want = "none", !.dirty = @ \ areas]

MeOther ==
    /\ stage = "run" /\ Len(toClient) = 0
    /\ \E kind \in {"bell", "cut"} : MeSend([kind |-> kind])
    /\ UNCHANGED me

-----------------------------------------------------------------------------
(* The client.                                                              *)

\* The version and the security types are read and answered.
Negotiate ==
    /\ \/ stage = "version" /\ stage' = "types"
       \/ stage = "types" /\ stage' = "result"
       \/ stage = "result" /\ stage' = "init"
    /\ UNCHANGED <<bpp, size, fb, shown, fromClient, toClient, screen, me>>

\* Mutant: the new format is announced after the first request.
ServerInitLate ==
    /\ stage = "init" /\ stage' = "run"
    /\ size' = screen.size /\ fb' = Black
    /\ me' = [me EXCEPT !.told = screen.size]
    /\ IF me.bpp * screen.size > Budget
       THEN bpp' = 1 /\ fromClient' = <<"full", "format">>
       ELSE bpp' = me.bpp /\ fromClient' = <<"full">>
    /\ UNCHANGED <<shown, toClient, screen>>

\* ServerInit tells size and format; the rest of Handshake follows from it.
ServerInit ==
    /\ stage = "init" /\ stage' = "run"
    /\ size' = screen.size /\ fb' = Black
    /\ me' = [me EXCEPT !.told = screen.size]
    /\ IF me.bpp * screen.size > Budget
       THEN bpp' = 1 /\ fromClient' = <<"format", "full">>
       ELSE bpp' = me.bpp /\ fromClient' = <<"full">>
    /\ UNCHANGED <<shown, toClient, screen>>

\* Mutant: a new size is not followed by a request for the whole screen.
ReadRectNoAsk(c, r) ==
    IF "desktop" \in DOMAIN r
    THEN [size |-> r.desktop, fb |-> Black, ask |-> c.ask]
    ELSE [c EXCEPT !.fb[r.area] = r.ver]

\* readRect: what one rectangle does to size, framebuffer and requests.
ReadRect(c, r) ==
    IF "desktop" \in DOMAIN r
    THEN [size |-> r.desktop, fb |-> Black, ask |-> Append(c.ask, "full")]
    ELSE [c EXCEPT !.fb[r.area] = r.ver]

\* One round of Run; an update is followed by the request for the next one.
ReadMessage ==
    /\ stage = "run" /\ toClient # <<>>
    /\ toClient' = Tail(toClient)
    /\ IF Head(toClient).kind = "update"
       THEN LET c == FoldLeft(ReadRect, [size |-> size, fb |-> fb, ask |-> <<>>],
                              Head(toClient).rects)
            IN /\ size' = c.size /\ fb' = c.fb
               /\ shown' = [size |-> c.size, fb |-> c.fb]
               /\ fromClient' = fromClient \o Append(c.ask, "inc")
       ELSE UNCHANGED <<size, fb, shown, fromClient>>
    /\ UNCHANGED <<stage, bpp, screen, me>>

\* The connection fails, in Handshake or in Run.
Fail ==
    /\ stage # "ended" /\ stage' = "ended"
    /\ UNCHANGED <<bpp, size, fb, shown, fromClient, toClient, screen, me>>

Next ==
    \/ Draw \/ Resize \/ MeReads \/ MeUpdates \/ MeOther
    \/ Negotiate \/ ServerInit \/ ReadMessage \/ Fail

-----------------------------------------------------------------------------
(* Properties                                                               *)

IsUpdate(msg) == msg.kind = "update"

\* The client never stops being served: while Run waits, an update is on its
\* way or the ME has, or will get, a request; and the pixels of every update
\* are in the format the client decodes, although it changes format unilaterally
\* when the screen is too large for the ME.
UpdatesFlow ==
    stage = "run" =>
        /\ \/ \E k \in DOMAIN toClient : IsUpdate(toClient[k])
           \/ me.want # "none"
           \/ \E k \in DOMAIN fromClient : fromClient[k] # "format"
        /\ \A k \in DOMAIN toClient : IsUpdate(toClient[k]) => toClient[k].bpp = bpp

\* When the screen no longer changes, the browser's frame source ends up with
\* the size and the picture of the host, also after changes of the resolution
\* that blank the framebuffer, unless the connection fails.
ScreenShown ==
    <>[](shown = [size |-> screen.size, fb |-> screen.pix]) \/ <>(stage = "ended")
=============================================================================
