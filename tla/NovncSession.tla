---------------------------- MODULE NovncSession ----------------------------
(***************************************************************************)
(* The life of a noVNC connection: the connection states of core/rfb.js    *)
(* with its socket and its timers, and the part of app/ui.js that creates  *)
(* RFB objects, reconnects, and shows the user where they stand.           *)
(*                                                                         *)
(* A script runs each handler to its end, so a handler is one action; what *)
(* interleaves is socket events, timers, promises and clicks.  An RFB      *)
(* object lives on after app/ui.js forgets it: its socket may still be     *)
(* closing, and a timer or a promise of it may still be pending.           *)
(***************************************************************************)
EXTENDS Naturals, FiniteSets

CONSTANTS
    MaxConnects,   \* bound: RFB objects created on one page
    MaxUser        \* bound: clicks of the user and failures of the browser

ASSUME BoundsAssumption == MaxConnects \in Nat \ {0} /\ MaxUser \in Nat

VARIABLES
    conn,     \* conn[i]: the i-th RFB object and its WebSocket
    made,     \* RFB objects created so far
    ui,       \* the UI object and the page it drives
    wanted,   \* history: the user's last word, "up" or "down"
    user      \* clicks so far

vars == <<conn, made, ui, wanted, user>>

Ids == 1..MaxConnects
None == 0

-----------------------------------------------------------------------------
(* core/rfb.js: one RFB object, as a record.                               *)

\* The fields the constructor sets before it starts the connection.
NewRfb == [state |-> "", init |-> FALSE, clean |-> TRUE, timer |-> FALSE,
           ws |-> "none", on |-> {"open", "close", "message"},
           waits |-> "", resume |-> FALSE, digest |-> FALSE, told |-> 0]

\* _sock.close(): after it the socket's messages reach nobody.
Close(c) ==
    [c EXCEPT !.ws = IF c.ws \in {"connecting", "open"} THEN "closing" ELSE c.ws]

\* Mutant: a disconnected object may be disconnected again.
ProperAgain(old, new) ==
    \/ new = "connecting" /\ old = ""
    \/ new = "connected" /\ old = "connecting"
    \/ new = "disconnecting" /\ old \notin {"", "disconnecting"}
    \/ new = "disconnected" /\ old = "disconnecting"

\* The switch that refuses improper transitions.
Proper(old, new) ==
    \/ new = "connecting" /\ old = ""
    \/ new = "connected" /\ old = "connecting"
    \/ new = "disconnecting" /\ old \in {"connecting", "connected"}
    \/ new = "disconnected" /\ old = "disconnecting"

\* Leaving for any other state than disconnecting stops the disconnect
\* timer, and with it the interest in the socket's close event.
ClearDisconnTimer(c, new) ==
    IF c.timer /\ new # "disconnecting"
    THEN [c EXCEPT !.timer = FALSE, !.on = c.on \ {"close"}] ELSE c

_updateConnectionState(c, new) ==
    LET d == [ClearDisconnTimer(c, new) EXCEPT !.state = new]
    IN  IF ~Proper(c.state, new) THEN c
        ELSE CASE new = "connecting" -> [d EXCEPT !.ws = "connecting"]
               [] new = "connected" -> d
               [] new = "disconnecting" -> [Close(d) EXCEPT !.timer = TRUE]
               [] new = "disconnected" -> [d EXCEPT !.told = d.told + 1]

_fail(c) ==
    _updateConnectionState(
        _updateConnectionState([c EXCEPT !.clean = FALSE], "disconnecting"),
        "disconnected")

_socketOpen(c) ==
    IF c.state = "connecting" /\ ~c.init THEN [c EXCEPT !.init = TRUE]
    ELSE _fail(c)

\* Mutant: a connection lost before it was made is dropped without a word.
SocketCloseQuiet(c) ==
    CASE c.state = "connected" ->
           _updateConnectionState(_updateConnectionState(c, "disconnecting"), "disconnected")
      [] c.state = "disconnecting" -> _updateConnectionState(c, "disconnected")
      [] OTHER -> c

_socketClose(c) ==
    LET d == CASE c.state = "connected" ->
                    _updateConnectionState(
                        _updateConnectionState(c, "disconnecting"), "disconnected")
               [] c.state = "disconnecting" ->
                    _updateConnectionState(c, "disconnected")
               [] OTHER -> _fail(c)
    IN  [d EXCEPT !.on = d.on \ {"close"}]

\* RFB.disconnect().  A running RA2 exchange that waits for the socket, the
\* user's approval or a password is rejected and ends quietly; one that is
\* decrypting is not.
RfbDisconnect(c) ==
    LET d == _updateConnectionState(c, "disconnecting")
    IN  [d EXCEPT !.on = d.on \ {"open", "message"}]

-----------------------------------------------------------------------------
(* app/ui.js: the page, as a record.                                       *)

\* An error is never replaced, a warning only by what is not less severe;
\* an error has no timeout.
showStatus(u, kind) ==
    IF u.status = "error" \/ (u.status = "warn" /\ kind = "normal") THEN u
    ELSE [u EXCEPT !.status = kind, !.statusTimer = (kind # "error")]

hideStatus(u) == [u EXCEPT !.status = "closed", !.statusTimer = FALSE]

\* Mutant: the dialogs stay open.
VisualStateOnly(u, state) ==
    [u EXCEPT !.visual = state, !.locked = u.connected, !.barTimer = u.connected]

\* Every change of the visual state closes the dialogs.  The control bar
\* closes by itself two seconds after the connection is made.
updateVisualState(u, state) ==
    [u EXCEPT !.visual = state, !.locked = u.connected,
              !.barTimer = u.connected, !.dialogs = {}]

connectFinished(u) ==
    updateVisualState(
        showStatus([u EXCEPT !.connected = TRUE, !.inhibit = FALSE], "normal"),
        "connected")

OpenPanel(u) == [u EXCEPT !.bar = TRUE, !.panel = TRUE]

Failed(u, clean) ==
    IF clean THEN u ELSE showStatus(updateVisualState(u, "disconnected"), "error")

disconnectFinished(u, clean) ==
    LET v == Failed([u EXCEPT !.connected = FALSE, !.rfb = None], clean)
    IN  IF v.reconnect /\ ~v.inhibit
        THEN [updateVisualState(v, "reconnecting") EXCEPT !.callback = TRUE]
        ELSE OpenPanel(showStatus(updateVisualState(v, "disconnected"), "normal"))

\* A dialog opens for object i, whether the page still has that object or not.
Opened(u, kind, i) ==
    [u EXCEPT !.dialogs = @ \cup {<<kind, i>>},
              !.late = @ \cup (IF u.rfb = i THEN {} ELSE {<<kind, i>>})]

\* The handler of credentialsrequired has no condition.
credentials(u, i) == showStatus(Opened(u, "credentials", i), "warn")

\* The events an RFB object dispatches while it goes from c to d, handled by
\* the page within the same turn.
Dispatched(u, c, d) ==
    CASE c.state # "connected" /\ d.state = "connected" -> connectFinished(u)
      [] c.state # "disconnected" /\ d.state = "disconnected" ->
           disconnectFinished(u, d.clean)
      [] OTHER -> u

\* Mutant: the user's disconnect does not hold the reconnection back.
UiDisconnectOnce(u) ==
    updateVisualState([u EXCEPT !.connected = FALSE], "disconnecting")

UiDisconnect(u) ==
    updateVisualState([u EXCEPT !.connected = FALSE, !.inhibit = TRUE],
                      "disconnecting")

-----------------------------------------------------------------------------
(* What happens to RFB object i.                                           *)

\* Object i becomes d and the page u sees the events of that change.
Becomes(i, d, u) ==
    /\ conn' = [conn EXCEPT ![i] = d]
    /\ ui' = Dispatched(u, conn[i], d)

SocketOpens(i) ==
    LET c == [conn[i] EXCEPT !.ws = "open"]
    IN  /\ conn[i].ws = "connecting"
        /\ Becomes(i, IF "open" \in c.on THEN _socketOpen(c) ELSE c, ui)
        /\ UNCHANGED <<made, wanted, user>>

SocketCloses(i) ==
    LET c == [conn[i] EXCEPT !.ws = "closed"]
    IN  /\ conn[i].ws \in {"connecting", "open", "closing"}
        /\ Becomes(i, IF "close" \in c.on THEN _socketClose(c) ELSE c, ui)
        /\ UNCHANGED <<made, wanted, user>>

Hears(i) == conn[i].ws = "open" /\ "message" \in conn[i].on

\* The handshake ends well: the client's ServerInit handler.
HandshakeDone(i) ==
    /\ Hears(i) /\ conn[i].state = "connecting" /\ conn[i].waits = ""
    /\ Becomes(i, _updateConnectionState(conn[i], "connected"), ui)
    /\ UNCHANGED <<made, wanted, user>>

\* A message of the handshake or of the session is refused; a refused
\* authentication first tells the page why.
MessageFails(i, security) ==
    /\ Hears(i)
    /\ security => conn[i].state = "connecting"
    /\ Becomes(i, _fail(conn[i]), IF security THEN showStatus(ui, "error") ELSE ui)
    /\ UNCHANGED <<made, wanted, user>>

\* Object i becomes d and asks the page for credentials.
Asks(i, d) ==
    /\ conn' = [conn EXCEPT ![i] = d]
    /\ ui' = credentials(ui, i)
    /\ UNCHANGED <<made, wanted, user>>

\* A message of the handshake needs credentials the client does not have; so
\* does every later one until they are there.
CredentialsRequired(i) ==
    /\ Hears(i) /\ conn[i].state = "connecting"
    /\ conn[i].waits \in {"", "credentials"}
    /\ Asks(i, [conn[i] EXCEPT !.waits = "credentials"])

\* The server's key is to be verified: the page first computes its digest.
serverVerify(i) ==
    /\ Hears(i) /\ conn[i].state = "connecting" /\ conn[i].waits = ""
    /\ conn' = [conn EXCEPT ![i].waits = "approval", ![i].digest = TRUE]
    /\ UNCHANGED <<made, ui, wanted, user>>

\* The awaited digest arrives, however long that took.
DigestReady(i) ==
    /\ conn[i].digest
    /\ conn' = [conn EXCEPT ![i].digest = FALSE]
    /\ ui' = Opened(ui, "verify", i)
    /\ UNCHANGED <<made, wanted, user>>

\* RA2: the message with the kind of login arrives and is being decrypted.
SubtypeArrives(i) ==
    /\ Hears(i) /\ conn[i].state = "connecting" /\ conn[i].waits = ""
    /\ conn' = [conn EXCEPT ![i].waits = "subtype"]
    /\ UNCHANGED <<made, ui, wanted, user>>

\* It is decrypted, however long that took: the exchange goes on with the
\* credentials it has, fails, or asks for them, also for a connection that
\* has gone meanwhile.
SubtypeReady(i, fails) ==
    LET c == [conn[i] EXCEPT !.waits = ""]
    IN  /\ conn[i].waits = "subtype"
        /\ Becomes(i, IF fails THEN _fail(c) ELSE c, ui)
        /\ UNCHANGED <<made, wanted, user>>

SubtypeAsks(i) ==
    /\ conn[i].waits = "subtype"
    /\ Asks(i, [conn[i] EXCEPT !.waits = "login"])

\* The timer of _resumeAuthentication runs one step of the handshake.
Resume(i, fails) ==
    LET given == conn[i].waits \in {"credentials", "login"}
        c == [conn[i] EXCEPT !.resume = FALSE, !.waits = IF given THEN "" ELSE @]
    IN  /\ conn[i].resume
        /\ Becomes(i, IF fails THEN _fail(c) ELSE c, ui)
        /\ UNCHANGED <<made, wanted, user>>

\* For XVP that step asks again, since the page never gives a target; nothing
\* looks whether the connection is still there.
ResumeAsks(i) ==
    /\ conn[i].resume /\ conn[i].waits = "credentials"
    /\ Asks(i, [conn[i] EXCEPT !.resume = FALSE])

\* The timer is stopped, and the close event ignored, as in any other way to
\* disconnected.
DisconnTimeout(i) ==
    /\ conn[i].timer
    /\ Becomes(i, _updateConnectionState(conn[i], "disconnected"), ui)
    /\ UNCHANGED <<made, wanted, user>>

-----------------------------------------------------------------------------
(* What happens to the page.                                               *)

\* UI.connect: the browser may refuse the URL, in which case the RFB
\* constructor throws.
connect(u, refused) ==
    LET shut == updateVisualState([hideStatus(u) EXCEPT !.panel = FALSE],
                                  "connecting")
    IN  IF u.rfb # None
        THEN ui' = u /\ UNCHANGED <<conn, made>>
        ELSE IF ~u.host
        THEN ui' = showStatus(hideStatus(u), "error") /\ UNCHANGED <<conn, made>>
        ELSE IF refused
        THEN /\ ui' = [showStatus(updateVisualState(shut, "disconnected"), "error")
                         EXCEPT !.refused = TRUE]
             /\ UNCHANGED <<conn, made>>
        ELSE /\ made < MaxConnects
             /\ made' = made + 1
             /\ conn' = [conn EXCEPT ![made + 1] =
                           _updateConnectionState(NewRfb, "connecting")]
             /\ ui' = [shut EXCEPT !.rfb = made + 1]

Click(choice) == user < MaxUser /\ user' = user + 1 /\ wanted' = choice

ConnectClicked(refused) ==
    ui.panel /\ Click("up") /\ connect(ui, refused)

\* The reconnect timer; a page that inhibits reconnecting lets it pass.
reconnect(refused) ==
    LET u == [ui EXCEPT !.callback = FALSE]
    IN  /\ ui.callback
        /\ IF u.inhibit THEN ui' = u /\ UNCHANGED <<conn, made>>
           ELSE connect(u, refused)
        /\ IF refused THEN Click(wanted) ELSE UNCHANGED <<wanted, user>>

cancelReconnect ==
    /\ ui.visual = "reconnecting" /\ Click("down")
    /\ ui' = OpenPanel(updateVisualState([ui EXCEPT !.callback = FALSE],
                                         "disconnected"))
    /\ UNCHANGED <<conn, made>>

\* UI.disconnect: the RFB object goes first, then the page.
Leave(u) ==
    LET i == u.rfb
    IN  /\ conn' = [conn EXCEPT ![i] = RfbDisconnect(conn[i])]
        /\ ui' = UiDisconnect(u)
        /\ UNCHANGED made

disconnect ==
    /\ ui.visual = "connected" /\ Click("down")
    /\ Leave(ui)

Shut(kind) == {d \in ui.dialogs : d[1] # kind}

\* A dialog that is not about the connection there is acts on the RFB object of now; when
\* there is none, the handler throws once it has closed the dialog.
rejectServer ==
    LET u == [ui EXCEPT !.dialogs = Shut("verify")]
    IN  /\ \E d \in ui.dialogs : d[1] = "verify"
        /\ IF ui.rfb = None
           THEN ui' = u /\ Click(wanted) /\ UNCHANGED <<conn, made>>
           ELSE Leave(u) /\ Click("down")

approveServer ==
    /\ \E d \in ui.dialogs : d[1] = "verify"
    /\ Click(wanted)
    /\ ui' = [ui EXCEPT !.dialogs = Shut("verify")]
    /\ conn' = [i \in Ids |-> IF i = ui.rfb /\ conn[i].waits = "approval"
                             THEN [conn[i] EXCEPT !.waits = ""] ELSE conn[i]]
    /\ UNCHANGED made

\* sendCredentials arms the timer of _resumeAuthentication.
setCredentials ==
    /\ \E d \in ui.dialogs : d[1] = "credentials"
    /\ ui.rfb # None /\ Click(wanted)
    /\ ui' = [ui EXCEPT !.dialogs = Shut("credentials")]
    /\ conn' = [conn EXCEPT ![ui.rfb].resume = TRUE]
    /\ UNCHANGED made

\* The control bar closes by its timer and hands the focus to UI.rfb.
closeControlbar ==
    /\ ui.barTimer
    /\ ui' = [ui EXCEPT !.barTimer = FALSE, !.bar = FALSE,
                        !.crashed = ui.rfb = None]
    /\ UNCHANGED <<conn, made, wanted, user>>

StatusTimeout ==
    /\ ui.statusTimer /\ ui' = hideStatus(ui)
    /\ UNCHANGED <<conn, made, wanted, user>>

\* The reconnect box and the host field of the settings panel; the field is
\* disabled while connected.
ChangeSetting ==
    /\ Click(wanted)
    /\ \/ ui' = [ui EXCEPT !.reconnect = ~@]
       \/ ~ui.locked /\ ui' = [ui EXCEPT !.host = ~@]
    /\ UNCHANGED <<conn, made>>

-----------------------------------------------------------------------------

NewPage(reconnecting) ==
    [rfb |-> None, connected |-> FALSE, inhibit |-> TRUE, callback |-> FALSE,
     visual |-> "init", panel |-> FALSE, bar |-> TRUE, barTimer |-> FALSE,
     dialogs |-> {}, status |-> "closed", statusTimer |-> FALSE,
     locked |-> FALSE, reconnect |-> reconnecting, host |-> TRUE,
     late |-> {}, refused |-> FALSE, crashed |-> FALSE]

\* UI.start(): a page opened with autoconnect, as kvm.html does, connects at
\* once; any other opens the connect panel.
Start(auto, page) ==
    IF auto
    THEN /\ made = 1
         /\ conn = [i \in Ids |-> IF i = 1 THEN _updateConnectionState(NewRfb, "connecting")
                                 ELSE NewRfb]
         /\ ui = [updateVisualState(page, "connecting") EXCEPT !.rfb = 1]
         /\ wanted = "up"
    ELSE /\ made = 0
         /\ conn = [i \in Ids |-> NewRfb]
         /\ ui = [page EXCEPT !.panel = TRUE]
         /\ wanted = "down"

Init == user = 0 /\ \E auto, r \in BOOLEAN : Start(auto, NewPage(r))

RfbNext(i) ==
    \/ SocketOpens(i)
    \/ SocketCloses(i)
    \/ HandshakeDone(i)
    \/ \E s \in BOOLEAN : MessageFails(i, s)
    \/ CredentialsRequired(i)
    \/ serverVerify(i)
    \/ DigestReady(i)
    \/ SubtypeArrives(i)
    \/ \E f \in BOOLEAN : SubtypeReady(i, f)
    \/ SubtypeAsks(i)
    \/ \E f \in BOOLEAN : Resume(i, f)
    \/ ResumeAsks(i)
    \/ DisconnTimeout(i)

UiNext ==
    \/ \E r \in BOOLEAN : ConnectClicked(r)
    \/ \E r \in BOOLEAN : reconnect(r)
    \/ cancelReconnect
    \/ disconnect
    \/ rejectServer
    \/ approveServer
    \/ setCredentials
    \/ closeControlbar
    \/ StatusTimeout
    \/ ChangeSetting

Next == UiNext \/ \E i \in Ids : RfbNext(i)

Spec == Init /\ [][Next]_vars

-----------------------------------------------------------------------------
(* Properties.                                                             *)

Live(i) == conn[i].state \in {"connecting", "connected", "disconnecting"}

\* The page and the RFB objects agree after every handler.  UI.rfb is the one
\* object that is not yet disconnected, and there is never a second: an old
\* object's late close event, timer or promise touches nothing of the new
\* one.  Each object tells the page once that it is gone.  The page says
\* "connected" exactly while the object is, and shows its state.
OneSession ==
    /\ \A i \in Ids : Live(i) <=> ui.rfb = i
    /\ \A i \in Ids : conn[i].told = (IF conn[i].state = "disconnected" THEN 1 ELSE 0)
    /\ ui.connected = (ui.visual = "connected")
    /\ IF ui.rfb = None THEN ui.visual \in {"init", "disconnected", "reconnecting"}
       ELSE ui.visual = conn[ui.rfb].state

\* The user's word stands: once they have disconnected, rejected the server
\* or cancelled the reconnection, nothing connects or waits to connect.  An
\* open dialog is about the connection there is, but for one that opened when
\* its connection had already gone: UI.serverVerify awaits the digest of the
\* key, RA2 asks for credentials after it has decrypted a message, XVP asks
\* for them from a timer, and no handler looks whether the page still has the
\* connection.  A dialog that was open when its connection went never stays.
\* The timer that closes the control bar finds an RFB object to give the
\* focus to.
UserObeyed ==
    /\ wanted = "down" =>
         /\ ~ui.callback
         /\ ui.rfb # None => conn[ui.rfb].state = "disconnecting"
    /\ \A d \in ui.dialogs : d[2] = ui.rfb \/ d \in ui.late
    /\ ~ui.crashed

\* The page is never a dead end: a connection is under way with somebody to
\* end it, a reconnection is coming or can be cancelled, or the connect
\* panel is open; only a URL the browser refuses leaves none of these.
NoDeadEnd ==
    \/ /\ ui.rfb # None
       /\ \/ conn[ui.rfb].ws \in {"connecting", "open"}
          \/ conn[ui.rfb].timer
    \/ ui.callback
    \/ ui.visual = "reconnecting"
    \/ ui.panel
    \/ ui.refused

\* The page does what the user said last, and never leaves them without a
\* connection, a way to make one, or one on its way.
PageObeys == UserObeyed /\ NoDeadEnd
=============================================================================
