------------------------- MODULE NovncSessionProofs -------------------------
(***************************************************************************)
(* Proofs about NovncSession, for any number of connections and clicks: the *)
(* page and its RFB objects agree after every handler.                      *)
(***************************************************************************)
EXTENDS NovncSession, TLAPS

States == {"", "connecting", "connected", "disconnecting", "disconnected"}

Rfb ==
    [state : States, init : BOOLEAN, clean : BOOLEAN, timer : BOOLEAN,
     ws : {"none", "connecting", "open", "closing", "closed"},
     on : SUBSET {"open", "close", "message"},
     waits : {"", "credentials", "approval", "subtype", "login"}, resume : BOOLEAN, digest : BOOLEAN,
     told : Nat]

Visuals == {"init", "connecting", "connected", "disconnecting", "disconnected",
            "reconnecting"}

Dialogs == {"verify", "credentials"} \X Ids

Page ==
    [rfb : Ids \cup {None}, connected : BOOLEAN, inhibit : BOOLEAN, callback : BOOLEAN,
     visual : Visuals,
     panel : BOOLEAN, bar : BOOLEAN, barTimer : BOOLEAN,
     dialogs : SUBSET Dialogs,
     status : {"closed", "normal", "warn", "error"}, statusTimer : BOOLEAN,
     locked : BOOLEAN, reconnect : BOOLEAN, host : BOOLEAN,
     late : SUBSET Dialogs, refused : BOOLEAN, crashed : BOOLEAN]

TypeOK == conn \in [Ids -> Rfb] /\ made \in Nat /\ ui \in Page

Inv == TypeOK /\ OneSession

-----------------------------------------------------------------------------
(* RFB objects                                                             *)

\* The fields of an RFB object the agreement is about.
LEMMA Fields ==
    ASSUME NEW c \in Rfb
    PROVE  c.state \in States /\ c.told \in Nat /\ c.told + 1 \in Nat
<1>1. c.state \in States /\ c.told \in Nat
  BY DEF Rfb
<1> QED BY <1>1

\* What a state change of an RFB object does to its state and to the number of
\* disconnect events it has dispatched (_updateConnectionState).
LEMMA UpdateState ==
    ASSUME NEW c \in Rfb, NEW new \in States \ {""}
    PROVE  LET d == _updateConnectionState(c, new)
           IN  /\ d \in Rfb
               /\ d.state = IF Proper(c.state, new) THEN new ELSE c.state
               /\ d.told = IF Proper(c.state, new) /\ new = "disconnected"
                           THEN c.told + 1 ELSE c.told
<1> DEFINE t == ClearDisconnTimer(c, new)
           e == [t EXCEPT !.state = new]
<1>1. t \in Rfb /\ t.told = c.told /\ t.state = c.state
  BY DEF ClearDisconnTimer, Rfb
<1>2. e \in Rfb /\ e.told = c.told /\ e.state = new
  BY <1>1 DEF Rfb
<1>3. CASE ~Proper(c.state, new)
  BY <1>3 DEF _updateConnectionState
<1>4. CASE Proper(c.state, new)
  <2> HIDE DEF e
  <2>1. CASE new = "connecting"
    BY <1>2, <1>4, <2>1 DEF _updateConnectionState, Rfb, e
  <2>2. CASE new = "connected"
    BY <1>2, <1>4, <2>2 DEF _updateConnectionState, Rfb, e
  <2>3. CASE new = "disconnecting"
    <3>1. Close(e) \in Rfb /\ Close(e).told = e.told /\ Close(e).state = e.state
      BY <1>2 DEF Close, Rfb
    <3>2. _updateConnectionState(c, new) = [Close(e) EXCEPT !.timer = TRUE]
      BY <1>4, <2>3 DEF _updateConnectionState, e
    <3> QED BY <1>2, <1>4, <2>3, <3>1, <3>2 DEF Rfb
  <2>4. CASE new = "disconnected"
    <3>1. _updateConnectionState(c, new) = [e EXCEPT !.told = e.told + 1]
      BY <1>4, <2>4 DEF _updateConnectionState, e
    <3>2. e.told + 1 \in Nat
      BY <1>2, Fields
    <3> QED BY <1>2, <1>4, <2>4, <3>1, <3>2 DEF Rfb
  <2> QED BY <2>1, <2>2, <2>3, <2>4 DEF States
<1> QED BY <1>3, <1>4

\* The two steps to the end, one after the other or each alone.
LEMMA Disconnecting ==
    ASSUME NEW c \in Rfb
    PROVE  /\ _updateConnectionState(c, "disconnecting") \in Rfb
           /\ _updateConnectionState(c, "disconnecting").told = c.told
           /\ _updateConnectionState(c, "disconnecting").state =
                IF c.state \in {"connecting", "connected"} THEN "disconnecting" ELSE c.state
<1>1. "disconnecting" \in States \ {""}
  BY DEF States
<1> QED BY <1>1, UpdateState DEF Proper

LEMMA Disconnected ==
    ASSUME NEW c \in Rfb
    PROVE  /\ _updateConnectionState(c, "disconnected") \in Rfb
           /\ IF c.state = "disconnecting"
              THEN /\ _updateConnectionState(c, "disconnected").state = "disconnected"
                   /\ _updateConnectionState(c, "disconnected").told = c.told + 1
              ELSE /\ _updateConnectionState(c, "disconnected").state = c.state
                   /\ _updateConnectionState(c, "disconnected").told = c.told
<1>1. "disconnected" \in States \ {""}
  BY DEF States
<1> QED BY <1>1, UpdateState DEF Proper

\* The ways an RFB object may change between two turns of the script other than
\* by the user's disconnect: not at all, to connected, or to disconnected with
\* one event told.
Moves(c, d) ==
    \/ d.state = c.state /\ d.told = c.told
    \/ c.state = "connecting" /\ d.state = "connected" /\ d.told = c.told
    \/ /\ c.state \in {"connecting", "connected", "disconnecting"}
       /\ d.state = "disconnected" /\ d.told = c.told + 1

\* Both steps together end an object that is connecting or connected.
LEMMA EndMoves ==
    ASSUME NEW c \in Rfb
    PROVE  LET d == _updateConnectionState(
                        _updateConnectionState(c, "disconnecting"), "disconnected")
           IN  d \in Rfb /\ Moves(c, d)
<1> DEFINE e == _updateConnectionState(c, "disconnecting")
           d == _updateConnectionState(e, "disconnected")
<1>1. /\ e \in Rfb /\ e.told = c.told
      /\ e.state = IF c.state \in {"connecting", "connected"} THEN "disconnecting" ELSE c.state
  BY Disconnecting
<1>2. /\ d \in Rfb
      /\ IF e.state = "disconnecting" THEN d.state = "disconnected" /\ d.told = e.told + 1
         ELSE d.state = e.state /\ d.told = e.told
  <2> HIDE DEF e
  <2> QED BY <1>1, Disconnected
<1>3. Moves(c, d)
  <2> HIDE DEF e, d
  <2> QED BY <1>1, <1>2 DEF Moves
<1> QED BY <1>2, <1>3

\* _fail ends an object that is not yet disconnected and tells so once.
LEMMA FailMoves ==
    ASSUME NEW c \in Rfb
    PROVE  _fail(c) \in Rfb /\ Moves(c, _fail(c))
<1> DEFINE b == [c EXCEPT !.clean = FALSE]
<1>1. b \in Rfb /\ b.state = c.state /\ b.told = c.told
  BY DEF Rfb
<1>2. _fail(c) = _updateConnectionState(
                     _updateConnectionState(b, "disconnecting"), "disconnected")
  BY DEF _fail
<1>3. _fail(c) \in Rfb /\ Moves(b, _fail(c))
  <2> HIDE DEF b
  <2> QED BY <1>1, <1>2, EndMoves
<1> HIDE DEF b
<1> QED BY <1>1, <1>3 DEF Moves

\* The events of the socket move an object in the same way (_socketOpen,
\* _socketClose).
LEMMA SocketMoves ==
    ASSUME NEW c \in Rfb
    PROVE  /\ _socketOpen(c) \in Rfb /\ Moves(c, _socketOpen(c))
           /\ _socketClose(c) \in Rfb /\ Moves(c, _socketClose(c))
<1>1. _socketOpen(c) \in Rfb /\ Moves(c, _socketOpen(c))
  <2>1. [c EXCEPT !.init = TRUE] \in Rfb /\ Moves(c, [c EXCEPT !.init = TRUE])
    BY DEF Rfb, Moves
  <2> QED BY <2>1, FailMoves DEF _socketOpen
<1>2. _socketClose(c) \in Rfb /\ Moves(c, _socketClose(c))
  <2> DEFINE both == _updateConnectionState(
                         _updateConnectionState(c, "disconnecting"), "disconnected")
             one == _updateConnectionState(c, "disconnected")
             d == CASE c.state = "connected" -> both
                    [] c.state = "disconnecting" -> one
                    [] OTHER -> _fail(c)
  <2>1. _socketClose(c) = [d EXCEPT !.on = d.on \ {"close"}]
    BY DEF _socketClose
  <2>2. both \in Rfb /\ Moves(c, both)
    BY EndMoves
  <2>3. one \in Rfb /\ Moves(c, one)
    <3>1. c.state \in States
      BY Fields
    <3> HIDE DEF one
    <3>2. /\ one \in Rfb
          /\ IF c.state = "disconnecting"
             THEN one.state = "disconnected" /\ one.told = c.told + 1
             ELSE one.state = c.state /\ one.told = c.told
      BY Disconnected DEF one
    <3> QED BY <3>1, <3>2 DEF Moves
  <2>4. d \in {both, one, _fail(c)}
    <3> HIDE DEF both, one
    <3> QED OBVIOUS
  <2> HIDE DEF d
  <2>5. d \in Rfb /\ Moves(c, d)
    <3> HIDE DEF both, one
    <3> QED BY <2>2, <2>3, <2>4, FailMoves
  <2> QED BY <2>1, <2>5 DEF Rfb, Moves
<1> QED BY <1>1, <1>2

-----------------------------------------------------------------------------
(* The page                                                                *)

\* What the page holds of the connection is left alone.
Same(u, v) == v.rfb = u.rfb /\ v.connected = u.connected /\ v.visual = u.visual

\* The status line and the connect panel hold nothing of the connection.
LEMMA StatusSame ==
    ASSUME NEW u \in Page
    PROVE  /\ \A kind \in {"normal", "warn", "error"} :
                showStatus(u, kind) \in Page /\ Same(u, showStatus(u, kind))
           /\ hideStatus(u) \in Page /\ Same(u, hideStatus(u))
           /\ OpenPanel(u) \in Page /\ Same(u, OpenPanel(u))
<1>1. ASSUME NEW kind \in {"normal", "warn", "error"}
      PROVE  showStatus(u, kind) \in Page /\ Same(u, showStatus(u, kind))
  <2> DEFINE v(b) == [u EXCEPT !.status = kind, !.statusTimer = b]
  <2>1. ASSUME NEW b \in BOOLEAN PROVE v(b) \in Page /\ Same(u, v(b))
    BY DEF Page, Same
  <2>2. showStatus(u, kind) = u \/ showStatus(u, kind) = v(kind # "error")
    BY DEF showStatus
  <2>3. (kind # "error") \in BOOLEAN
    OBVIOUS
  <2>4. Same(u, u)
    BY DEF Same
  <2> HIDE DEF v
  <2> QED BY <2>1, <2>2, <2>3, <2>4, Zenon
<1>2. hideStatus(u) \in Page /\ Same(u, hideStatus(u))
  BY DEF hideStatus, Page, Same
<1>3. OpenPanel(u) \in Page /\ Same(u, OpenPanel(u))
  BY DEF OpenPanel, Page, Same
<1> QED BY <1>1, <1>2, <1>3

\* updateVisualState changes what is shown, not which object there is.
LEMMA VisualState ==
    ASSUME NEW u \in Page, NEW v \in Visuals
    PROVE  /\ updateVisualState(u, v) \in Page
           /\ updateVisualState(u, v).rfb = u.rfb
           /\ updateVisualState(u, v).connected = u.connected
           /\ updateVisualState(u, v).visual = v
BY DEF updateVisualState, Page, Visuals

\* After the connect event the page says connected of the same object.
LEMMA Connected ==
    ASSUME NEW u \in Page
    PROVE  /\ connectFinished(u) \in Page
           /\ connectFinished(u).rfb = u.rfb
           /\ connectFinished(u).connected = TRUE
           /\ connectFinished(u).visual = "connected"
<1> DEFINE a == [u EXCEPT !.connected = TRUE, !.inhibit = FALSE]
           b == showStatus(a, "normal")
<1>1. a \in Page /\ a.rfb = u.rfb /\ a.connected = TRUE
  BY DEF Page
<1>2. b \in Page /\ b.rfb = u.rfb /\ b.connected = TRUE
  <2> HIDE DEF a
  <2> QED BY <1>1, StatusSame DEF Same
<1>3. connectFinished(u) = updateVisualState(b, "connected")
  BY DEF connectFinished
<1>4. "connected" \in Visuals
  BY DEF Visuals
<1> HIDE DEF b
<1> QED BY <1>2, <1>3, <1>4, VisualState

\* After the disconnect event the page has no object, and shows the connect
\* panel or waits to reconnect.
LEMMA Gone ==
    ASSUME NEW u \in Page, NEW clean
    PROVE  /\ disconnectFinished(u, clean) \in Page
           /\ disconnectFinished(u, clean).rfb = None
           /\ disconnectFinished(u, clean).connected = FALSE
           /\ disconnectFinished(u, clean).visual \in {"disconnected", "reconnecting"}
<1> DEFINE a == [u EXCEPT !.connected = FALSE, !.rfb = None]
           v == Failed(a, clean)
           r == updateVisualState(v, "reconnecting")
           p == updateVisualState(v, "disconnected")
           q == showStatus(p, "normal")
<1>0. "reconnecting" \in Visuals /\ "disconnected" \in Visuals
  BY DEF Visuals
<1>1. a \in Page /\ a.rfb = None /\ a.connected = FALSE
  BY DEF Page
<1>2. v \in Page /\ v.rfb = None /\ v.connected = FALSE
  <2> HIDE DEF a
  <2> DEFINE w == updateVisualState(a, "disconnected")
  <2>1. w \in Page /\ w.rfb = None /\ w.connected = FALSE
    BY <1>0, <1>1, VisualState
  <2>2. v = IF clean THEN a ELSE showStatus(w, "error")
    BY DEF Failed
  <2> HIDE DEF w
  <2>3. /\ showStatus(w, "error") \in Page
        /\ showStatus(w, "error").rfb = None /\ showStatus(w, "error").connected = FALSE
    BY <2>1, StatusSame DEF Same
  <2> QED BY <1>1, <2>2, <2>3
<1> HIDE DEF a
<1>3. CASE v.reconnect /\ ~v.inhibit
  <2>1. disconnectFinished(u, clean) = [r EXCEPT !.callback = TRUE]
    BY <1>3 DEF disconnectFinished, a
  <2>2. r \in Page /\ r.rfb = None /\ r.connected = FALSE /\ r.visual = "reconnecting"
    <3> HIDE DEF v
    <3> QED BY <1>0, <1>2, VisualState
  <2> HIDE DEF r
  <2> QED BY <2>1, <2>2 DEF Page
<1>4. CASE ~(v.reconnect /\ ~v.inhibit)
  <2>1. disconnectFinished(u, clean) = OpenPanel(q)
    BY <1>4 DEF disconnectFinished, a
  <2>2. p \in Page /\ p.rfb = None /\ p.connected = FALSE /\ p.visual = "disconnected"
    <3> HIDE DEF v
    <3> QED BY <1>0, <1>2, VisualState
  <2>3. q \in Page /\ q.rfb = None /\ q.connected = FALSE /\ q.visual = "disconnected"
    <3> HIDE DEF p
    <3> QED BY <2>2, StatusSame DEF Same
  <2> HIDE DEF q
  <2> QED BY <2>1, <2>3, StatusSame DEF Same
<1> QED BY <1>3, <1>4

\* A dialog that opens, in time or late, leaves what the page holds of its
\* object (UI.serverVerify, UI.credentials).
LEMMA OpenedSame ==
    ASSUME NEW u \in Page, NEW i \in Ids, NEW kind \in {"verify", "credentials"}
    PROVE  /\ Opened(u, kind, i) \in Page /\ Same(u, Opened(u, kind, i))
           /\ credentials(u, i) \in Page /\ Same(u, credentials(u, i))
<1>1. ASSUME NEW k \in {"verify", "credentials"}
      PROVE  Opened(u, k, i) \in Page /\ Same(u, Opened(u, k, i))
  <2> DEFINE shown == u.dialogs \cup {<<k, i>>}
             late == u.late \cup (IF u.rfb = i THEN {} ELSE {<<k, i>>})
  <2>1. u.dialogs \in SUBSET Dialogs /\ u.late \in SUBSET Dialogs
    BY DEF Page
  <2>2. <<k, i>> \in Dialogs
    BY DEF Dialogs
  <2>3. shown \in SUBSET Dialogs /\ late \in SUBSET Dialogs
    BY <2>1, <2>2
  <2>4. Opened(u, k, i) = [u EXCEPT !.dialogs = shown, !.late = late]
    BY DEF Opened
  <2> HIDE DEF shown, late
  <2> QED BY <2>3, <2>4 DEF Page, Same
<1>2. credentials(u, i) \in Page /\ Same(u, credentials(u, i))
  <2> DEFINE o == Opened(u, "credentials", i)
  <2>1. o \in Page /\ Same(u, o)
    BY <1>1
  <2>2. credentials(u, i) = showStatus(o, "warn")
    BY DEF credentials
  <2> HIDE DEF o
  <2> QED BY <2>1, <2>2, StatusSame DEF Same
<1> QED BY <1>1, <1>2

-----------------------------------------------------------------------------
(* The handlers of an RFB object                                           *)

\* A handler that changes neither the state of an object nor what the page
\* holds of it keeps the agreement.
LEMMA SilentKeeps ==
    ASSUME Inv, conn' \in [Ids -> Rfb], ui' \in Page, made' \in Nat, Same(ui, ui'),
           \A j \in Ids : conn'[j].state = conn[j].state /\ conn'[j].told = conn[j].told
    PROVE  Inv'
<1>1. TypeOK'
  BY DEF TypeOK
<1>2. ui'.rfb = ui.rfb /\ ui'.connected = ui.connected /\ ui'.visual = ui.visual
  BY DEF Same
<1>3. ui.rfb \in Ids \cup {None}
  BY DEF Inv, TypeOK, Page
<1>4. (\A j \in Ids : Live(j) <=> ui.rfb = j)'
  BY <1>2 DEF Inv, OneSession, Live
<1>5. (\A j \in Ids : conn[j].told = IF conn[j].state = "disconnected" THEN 1 ELSE 0)'
  BY DEF Inv, OneSession
<1>6. (ui.connected = (ui.visual = "connected"))'
  BY <1>2, Zenon DEF Inv, OneSession
<1>7. (IF ui.rfb = None THEN ui.visual \in {"init", "disconnected", "reconnecting"}
       ELSE ui.visual = conn[ui.rfb].state)'
  BY <1>2, <1>3 DEF Inv, OneSession
<1> QED BY <1>1, <1>4, <1>5, <1>6, <1>7 DEF Inv, OneSession

\* The same for a handler that replaces one object.
LEMMA ReplaceKeeps ==
    ASSUME Inv, NEW i \in Ids, NEW d \in Rfb,
           d.state = conn[i].state, d.told = conn[i].told,
           conn' = [conn EXCEPT ![i] = d], ui' \in Page, Same(ui, ui'), made' = made
    PROVE  Inv'
<1>1. conn' \in [Ids -> Rfb] /\ made' \in Nat
  BY DEF Inv, TypeOK
<1>2. \A j \in Ids : conn'[j] = IF j = i THEN d ELSE conn[j]
  BY DEF Inv, TypeOK
<1> QED BY <1>1, <1>2, SilentKeeps

\* An object that moves in one of the ways above, with the page handling the
\* events of the move in the same turn, keeps the two in agreement: the page
\* forgets the object in the turn in which it is disconnected.
LEMMA BecomesKeeps ==
    ASSUME Inv, NEW i \in Ids, NEW d \in Rfb, Moves(conn[i], d),
           NEW u \in Page, Same(ui, u), Becomes(i, d, u), made' = made
    PROVE  Inv'
<1> DEFINE c == conn[i]
<1>0. c \in Rfb /\ c.told \in Nat /\ c.state \in States
  BY Fields DEF Inv, TypeOK
<1>1. /\ conn' \in [Ids -> Rfb]
      /\ conn'[i] = d
      /\ \A j \in Ids \ {i} : conn'[j] = conn[j]
  BY DEF Becomes, Inv, TypeOK
<1>2. 0 \notin Ids
  BY BoundsAssumption DEF Ids
<1>3. CASE d.state = c.state /\ d.told = c.told
  <2>1. ui' = u
    <3>1. ui' = Dispatched(u, c, d)
      BY DEF Becomes
    <3> HIDE DEF c
    <3> QED BY <1>3, <3>1 DEF Dispatched
  <2>2. \A j \in Ids : conn'[j].state = conn[j].state /\ conn'[j].told = conn[j].told
    BY <1>1, <1>3
  <2>3. ui' \in Page /\ Same(ui, ui') /\ made' \in Nat
    BY <2>1 DEF Inv, TypeOK
  <2> QED BY <1>1, <2>2, <2>3, SilentKeeps
<1>4. CASE c.state = "connecting" /\ d.state = "connected" /\ d.told = c.told
  <2>1. ui' = connectFinished(u)
    <3>1. ui' = Dispatched(u, c, d)
      BY DEF Becomes
    <3> HIDE DEF c
    <3> QED BY <1>4, <3>1 DEF Dispatched
  <2>2. /\ ui' \in Page /\ ui'.rfb = ui.rfb /\ ui'.connected = TRUE
        /\ ui'.visual = "connected"
    BY <2>1, Connected DEF Same
  <2>3. ui.rfb = i
    BY <1>4 DEF Inv, OneSession, Live
  <2>4. TypeOK'
    BY <1>1, <2>2 DEF Inv, TypeOK
  <2>5. (\A j \in Ids : Live(j) <=> ui.rfb = j)'
    BY <1>1, <1>4, <2>2, <2>3 DEF Inv, OneSession, Live
  <2>6. (\A j \in Ids : conn[j].told = IF conn[j].state = "disconnected" THEN 1 ELSE 0)'
    BY <1>1, <1>4 DEF Inv, OneSession
  <2>7. (ui.connected = (ui.visual = "connected"))'
    BY <2>2
  <2>8. ui'.rfb = i /\ ui'.rfb # None /\ ui'.visual = conn'[i].state
    BY <1>1, <1>2, <1>4, <2>2, <2>3 DEF None
  <2> QED BY <2>4, <2>5, <2>6, <2>7, <2>8 DEF Inv, OneSession
<1>5. CASE /\ c.state \in {"connecting", "connected", "disconnecting"}
           /\ d.state = "disconnected" /\ d.told = c.told + 1
  <2>1. ui' = disconnectFinished(u, d.clean)
    <3>1. ui' = Dispatched(u, c, d)
      BY DEF Becomes
    <3> HIDE DEF c
    <3> QED BY <1>5, <3>1 DEF Dispatched
  <2>2. /\ ui' \in Page /\ ui'.rfb = None /\ ui'.connected = FALSE
        /\ ui'.visual \in {"disconnected", "reconnecting"}
    BY <2>1, Gone
  <2>3. ui.rfb = i /\ c.told = 0
    BY <1>5 DEF Inv, OneSession, Live
  <2>4. d.told = 1
    BY <1>5, <2>3
  <2>5. TypeOK'
    BY <1>1, <2>2 DEF Inv, TypeOK
  <2>6. (\A j \in Ids : Live(j) <=> ui.rfb = j)'
    BY <1>1, <1>2, <1>5, <2>2, <2>3 DEF Inv, OneSession, Live, None
  <2>7. (\A j \in Ids : conn[j].told = IF conn[j].state = "disconnected" THEN 1 ELSE 0)'
    BY <1>1, <1>5, <2>4 DEF Inv, OneSession
  <2>8. (ui.connected = (ui.visual = "connected"))'
    BY <2>2
  <2> QED BY <2>2, <2>5, <2>6, <2>7, <2>8 DEF Inv, OneSession
<1> QED BY <1>3, <1>4, <1>5 DEF Moves

\* No event of an object's socket, timers or promises disturbs the agreement,
\* whether the page still knows the object or not.
LEMMA RfbKeeps ==
    ASSUME Inv, NEW i \in Ids, RfbNext(i)
    PROVE  Inv'
<1> DEFINE c == conn[i]
<1>1. c \in Rfb /\ ui \in Page /\ made \in Nat
  BY DEF Inv, TypeOK
<1>2. Same(ui, ui)
  BY DEF Same
<1>3. \A d \in Rfb : Moves(c, d) /\ Becomes(i, d, ui) /\ made' = made => Inv'
  BY <1>1, <1>2, BecomesKeeps
<1>4. CASE SocketOpens(i)
  <2> DEFINE o == [c EXCEPT !.ws = "open"]
             d == IF "open" \in o.on THEN _socketOpen(o) ELSE o
  <2>1. o \in Rfb /\ o.state = c.state /\ o.told = c.told
    BY <1>1 DEF Rfb
  <2>2. Becomes(i, d, ui) /\ made' = made
    BY <1>4 DEF SocketOpens
  <2> HIDE DEF o
  <2>3. d \in Rfb /\ Moves(c, d)
    BY <2>1, SocketMoves DEF Moves
  <2> HIDE DEF d
  <2> QED BY <1>3, <2>2, <2>3
<1>5. CASE SocketCloses(i)
  <2> DEFINE o == [c EXCEPT !.ws = "closed"]
             d == IF "close" \in o.on THEN _socketClose(o) ELSE o
  <2>1. o \in Rfb /\ o.state = c.state /\ o.told = c.told
    BY <1>1 DEF Rfb
  <2>2. Becomes(i, d, ui) /\ made' = made
    BY <1>5 DEF SocketCloses
  <2> HIDE DEF o
  <2>3. d \in Rfb /\ Moves(c, d)
    BY <2>1, SocketMoves DEF Moves
  <2> HIDE DEF d
  <2> QED BY <1>3, <2>2, <2>3
<1>6. CASE HandshakeDone(i)
  <2> DEFINE d == _updateConnectionState(c, "connected")
  <2>1. Becomes(i, d, ui) /\ made' = made /\ c.state = "connecting"
    BY <1>6 DEF HandshakeDone
  <2>2. "connected" \in States \ {""}
    BY DEF States
  <2>3. d \in Rfb /\ d.state = "connected" /\ d.told = c.told
    BY <1>1, <2>1, <2>2, UpdateState DEF Proper
  <2> HIDE DEF d
  <2> QED BY <1>3, <2>1, <2>3 DEF Moves
<1>7. ASSUME NEW s \in BOOLEAN, MessageFails(i, s)
      PROVE  Inv'
  <2> DEFINE u == IF s THEN showStatus(ui, "error") ELSE ui
  <2>1. Becomes(i, _fail(c), u) /\ made' = made
    BY <1>7 DEF MessageFails
  <2>2. u \in Page /\ Same(ui, u)
    BY <1>1, <1>2, StatusSame
  <2>3. _fail(c) \in Rfb /\ Moves(c, _fail(c))
    BY <1>1, FailMoves
  <2> HIDE DEF u
  <2> QED BY <2>1, <2>2, <2>3, BecomesKeeps
<1>8. ASSUME NEW d \in Rfb, d.state = c.state, d.told = c.told, Asks(i, d)
      PROVE  Inv'
  <2>1. conn' = [conn EXCEPT ![i] = d] /\ ui' = credentials(ui, i) /\ made' = made
    BY <1>8 DEF Asks
  <2>2. ui' \in Page /\ Same(ui, ui')
    BY <1>1, <2>1, OpenedSame
  <2> QED BY <1>8, <2>1, <2>2, ReplaceKeeps
<1>9. CASE serverVerify(i)
  <2> DEFINE d == [c EXCEPT !.waits = "approval", !.digest = TRUE]
  <2>1. conn' = [conn EXCEPT ![i] = d] /\ ui' = ui /\ made' = made
    BY <1>1, <1>9 DEF serverVerify, Inv, TypeOK
  <2>2. d \in Rfb /\ d.state = conn[i].state /\ d.told = conn[i].told
    BY <1>1 DEF Rfb
  <2> HIDE DEF d
  <2> QED BY <1>1, <1>2, <2>1, <2>2, ReplaceKeeps
<1>10. CASE DigestReady(i)
  <2> DEFINE d == [c EXCEPT !.digest = FALSE]
  <2>1. conn' = [conn EXCEPT ![i] = d] /\ ui' = Opened(ui, "verify", i) /\ made' = made
    BY <1>10 DEF DigestReady
  <2>2. d \in Rfb /\ d.state = conn[i].state /\ d.told = conn[i].told
    BY <1>1 DEF Rfb
  <2>3. ui' \in Page /\ Same(ui, ui')
    BY <1>1, <2>1, OpenedSame
  <2> HIDE DEF d
  <2> QED BY <2>1, <2>2, <2>3, ReplaceKeeps
<1>11. ASSUME NEW f \in BOOLEAN, NEW o \in Rfb, o.state = c.state, o.told = c.told,
              Becomes(i, IF f THEN _fail(o) ELSE o, ui), made' = made
       PROVE  Inv'
  <2> DEFINE d == IF f THEN _fail(o) ELSE o
  <2>1. d \in Rfb /\ Moves(c, d)
    BY <1>11, FailMoves DEF Moves
  <2> HIDE DEF d
  <2> QED BY <1>3, <1>11, <2>1 DEF d
<1>12. CASE DisconnTimeout(i)
  <2> DEFINE d == _updateConnectionState(c, "disconnected")
  <2>1. Becomes(i, d, ui) /\ made' = made
    BY <1>12 DEF DisconnTimeout
  <2>2. /\ d \in Rfb
        /\ IF c.state = "disconnecting"
           THEN d.state = "disconnected" /\ d.told = c.told + 1
           ELSE d.state = c.state /\ d.told = c.told
    BY <1>1, Disconnected
  <2> HIDE DEF d
  <2>3. Moves(c, d)
    BY <2>2 DEF Moves
  <2> QED BY <1>3, <2>1, <2>2, <2>3
<1>13. CASE CredentialsRequired(i)
  <2> DEFINE d == [c EXCEPT !.waits = "credentials"]
  <2>1. d \in Rfb /\ d.state = c.state /\ d.told = c.told /\ Asks(i, d)
    BY <1>1, <1>13 DEF Rfb, CredentialsRequired
  <2> HIDE DEF d
  <2> QED BY <1>8, <2>1
<1>14. CASE SubtypeArrives(i)
  <2> DEFINE d == [c EXCEPT !.waits = "subtype"]
  <2>1. conn' = [conn EXCEPT ![i] = d] /\ ui' = ui /\ made' = made
    BY <1>1, <1>14 DEF SubtypeArrives, Inv, TypeOK
  <2>2. d \in Rfb /\ d.state = conn[i].state /\ d.told = conn[i].told
    BY <1>1 DEF Rfb
  <2> HIDE DEF d
  <2> QED BY <1>1, <1>2, <2>1, <2>2, ReplaceKeeps
<1>15. ASSUME NEW f \in BOOLEAN, SubtypeReady(i, f)
       PROVE  Inv'
  <2> DEFINE o == [c EXCEPT !.waits = ""]
  <2>1. o \in Rfb /\ o.state = c.state /\ o.told = c.told
    BY <1>1 DEF Rfb
  <2>2. Becomes(i, IF f THEN _fail(o) ELSE o, ui) /\ made' = made
    BY <1>15 DEF SubtypeReady
  <2> HIDE DEF o
  <2> QED BY <1>11, <2>1, <2>2
<1>16. CASE SubtypeAsks(i)
  <2> DEFINE d == [c EXCEPT !.waits = "login"]
  <2>1. d \in Rfb /\ d.state = c.state /\ d.told = c.told /\ Asks(i, d)
    BY <1>1, <1>16 DEF Rfb, SubtypeAsks
  <2> HIDE DEF d
  <2> QED BY <1>8, <2>1
<1>17. ASSUME NEW f \in BOOLEAN, Resume(i, f)
       PROVE  Inv'
  <2> DEFINE w == IF c.waits \in {"credentials", "login"} THEN "" ELSE c.waits
             o == [c EXCEPT !.resume = FALSE, !.waits = w]
  <2>1. w \in {"", "credentials", "approval", "subtype", "login"}
    BY <1>1 DEF Rfb
  <2>2. Becomes(i, IF f THEN _fail(o) ELSE o, ui) /\ made' = made
    BY <1>17 DEF Resume
  <2> HIDE DEF w
  <2>3. o \in Rfb /\ o.state = c.state /\ o.told = c.told
    BY <1>1, <2>1 DEF Rfb
  <2> HIDE DEF o
  <2> QED BY <1>11, <2>2, <2>3
<1>18. CASE ResumeAsks(i)
  <2> DEFINE d == [c EXCEPT !.resume = FALSE]
  <2>1. d \in Rfb /\ d.state = c.state /\ d.told = c.told /\ Asks(i, d)
    BY <1>1, <1>18 DEF Rfb, ResumeAsks
  <2> HIDE DEF d
  <2> QED BY <1>8, <2>1
<1> QED BY <1>4, <1>5, <1>6, <1>7, <1>9, <1>10, <1>12, <1>13, <1>14, <1>15, <1>16,
           <1>17, <1>18 DEF RfbNext

-----------------------------------------------------------------------------
(* The handlers of the page                                                *)

\* A page without an object may show anything but a connection.
LEMMA IdleKeeps ==
    ASSUME Inv, ui.rfb = None, conn' = conn, made' = made, ui' \in Page,
           ui'.rfb = None, ui'.connected = ui.connected,
           ui'.visual \in {"init", "disconnected", "reconnecting"}
    PROVE  Inv'
<1>1. ui.connected = FALSE
  BY DEF Inv, OneSession
<1>2. TypeOK'
  BY DEF Inv, TypeOK
<1>3. (\A j \in Ids : Live(j) <=> ui.rfb = j)'
  BY DEF Inv, OneSession, Live
<1>4. (\A j \in Ids : conn[j].told = IF conn[j].state = "disconnected" THEN 1 ELSE 0)'
  BY DEF Inv, OneSession
<1>5. (ui.connected = (ui.visual = "connected"))'
  BY <1>1
<1> QED BY <1>2, <1>3, <1>4, <1>5 DEF Inv, OneSession

\* UI.connect makes an object only when there is none, so there are never two.
LEMMA ConnectKeeps ==
    ASSUME Inv, NEW u \in Page, Same(ui, u), NEW refused \in BOOLEAN, connect(u, refused)
    PROVE  Inv'
<1> DEFINE h == hideStatus(u)
           g == [h EXCEPT !.panel = FALSE]
           shut == updateVisualState(g, "connecting")
<1>1. h \in Page /\ Same(ui, h)
  BY StatusSame DEF Same
<1>2. g \in Page /\ Same(ui, g)
  <2> HIDE DEF h
  <2> QED BY <1>1 DEF Page, Same
<1>3. "connecting" \in Visuals /\ "disconnected" \in Visuals
  BY DEF Visuals
<1>4. /\ shut \in Page /\ shut.rfb = ui.rfb /\ shut.connected = ui.connected
      /\ shut.visual = "connecting"
  <2> HIDE DEF g
  <2> QED BY <1>2, <1>3, VisualState DEF Same
<1>5. conn \in [Ids -> Rfb] /\ made \in Nat /\ u.rfb = ui.rfb
  BY DEF Inv, TypeOK, Same
<1>6. CASE u.rfb # None
  <2>1. ui' = u /\ conn' = conn /\ made' = made
    BY <1>6 DEF connect
  <2> QED BY <1>5, <2>1, SilentKeeps
<1>7. CASE u.rfb = None /\ ~u.host
  <2>1. ui' = showStatus(h, "error") /\ conn' = conn /\ made' = made
    BY <1>7 DEF connect
  <2> HIDE DEF h
  <2>2. ui' \in Page /\ Same(ui, ui')
    BY <1>1, <2>1, StatusSame DEF Same
  <2> QED BY <1>5, <2>1, <2>2, SilentKeeps
<1>8. CASE u.rfb = None /\ u.host /\ refused
  <2> DEFINE p == updateVisualState(shut, "disconnected")
             q == showStatus(p, "error")
  <2>1. ui' = [q EXCEPT !.refused = TRUE] /\ conn' = conn /\ made' = made
    BY <1>8 DEF connect
  <2> HIDE DEF shut
  <2>2. /\ p \in Page /\ p.rfb = ui.rfb /\ p.connected = ui.connected
        /\ p.visual = "disconnected"
    BY <1>3, <1>4, VisualState
  <2> HIDE DEF p
  <2>3. /\ q \in Page /\ q.rfb = ui.rfb /\ q.connected = ui.connected
        /\ q.visual = "disconnected"
    BY <2>2, StatusSame DEF Same
  <2> HIDE DEF q
  <2>4. /\ ui' \in Page /\ ui'.rfb = q.rfb /\ ui'.connected = q.connected
        /\ ui'.visual = q.visual
    BY <2>1, <2>3 DEF Page
  <2> QED BY <1>5, <1>8, <2>1, <2>3, <2>4, IdleKeeps
<1>9. CASE u.rfb = None /\ u.host /\ ~refused
  <2> DEFINE n == made + 1
             d == _updateConnectionState(NewRfb, "connecting")
  <2>1. /\ made < MaxConnects /\ made' = n /\ conn' = [conn EXCEPT ![n] = d]
        /\ ui' = [shut EXCEPT !.rfb = n]
    BY <1>9 DEF connect
  <2>2. n \in Ids /\ n # None /\ n \in Nat
    BY <1>5, <2>1, BoundsAssumption DEF Ids, None
  <2>3. NewRfb \in Rfb /\ NewRfb.state = "" /\ NewRfb.told = 0
    BY DEF NewRfb, Rfb, States
  <2>4. d \in Rfb /\ d.state = "connecting" /\ d.told = 0
    <3>1. "connecting" \in States \ {""}
      BY DEF States
    <3> QED BY <2>3, <3>1, UpdateState DEF Proper
  <2> HIDE DEF n, d, shut
  <2>5. /\ ui' \in Page /\ ui'.rfb = n /\ ui'.connected = ui.connected
        /\ ui'.visual = "connecting"
    BY <1>4, <2>1, <2>2 DEF Page
  <2>6. /\ conn' \in [Ids -> Rfb]
        /\ \A j \in Ids : conn'[j] = IF j = n THEN d ELSE conn[j]
    BY <1>5, <2>1, <2>2, <2>4
  <2>7. TypeOK'
    BY <2>1, <2>2, <2>5, <2>6 DEF TypeOK
  <2>8. ui.rfb = None /\ ui.connected = FALSE
    BY <1>5, <1>9 DEF Inv, OneSession
  <2>9. \A j \in Ids : ~Live(j)
    <3>1. None \notin Ids
      BY BoundsAssumption DEF Ids, None
    <3> QED BY <2>8, <3>1 DEF Inv, OneSession
  <2>10. (\A j \in Ids : Live(j) <=> ui.rfb = j)'
    BY <2>4, <2>5, <2>6, <2>9 DEF Live
  <2>11. (\A j \in Ids : conn[j].told = IF conn[j].state = "disconnected" THEN 1 ELSE 0)'
    BY <2>4, <2>6 DEF Inv, OneSession
  <2>12. (ui.connected = (ui.visual = "connected"))'
    BY <2>5, <2>8
  <2>13. ui'.rfb # None /\ ui'.visual = conn'[ui'.rfb].state
    BY <2>2, <2>4, <2>5, <2>6
  <2> QED BY <2>7, <2>10, <2>11, <2>12, <2>13 DEF Inv, OneSession
<1> QED BY <1>6, <1>7, <1>8, <1>9

\* UI.disconnect takes the object and the page to disconnecting together.
LEMMA LeaveKeeps ==
    ASSUME Inv, NEW u \in Page, Same(ui, u), ui.rfb # None, Leave(u)
    PROVE  Inv'
<1> DEFINE i == ui.rfb
           e == _updateConnectionState(conn[i], "disconnecting")
           d == RfbDisconnect(conn[i])
           v == [u EXCEPT !.connected = FALSE, !.inhibit = TRUE]
<1>1. i \in Ids /\ conn \in [Ids -> Rfb] /\ conn[i] \in Rfb
  BY DEF Inv, TypeOK, Page
<1>2. conn[i].state \in {"connecting", "connected", "disconnecting"} /\ conn[i].told = 0
  BY <1>1 DEF Inv, OneSession, Live
<1>3. e \in Rfb /\ e.state = "disconnecting" /\ e.told = 0
  BY <1>1, <1>2, Disconnecting
<1>4. d \in Rfb /\ d.state = "disconnecting" /\ d.told = 0
  <2>1. d = [e EXCEPT !.on = e.on \ {"open", "message"}]
    BY DEF RfbDisconnect
  <2> HIDE DEF e, d
  <2> QED BY <1>3, <2>1 DEF Rfb
<1>5. v \in Page /\ v.rfb = i /\ v.connected = FALSE
  BY DEF Page, Same
<1>6. /\ conn' = [conn EXCEPT ![i] = d] /\ made' = made
      /\ ui' = updateVisualState(v, "disconnecting")
  BY DEF Leave, UiDisconnect, Same
<1>7. /\ ui' \in Page /\ ui'.rfb = i /\ ui'.connected = FALSE
      /\ ui'.visual = "disconnecting"
  <2>1. "disconnecting" \in Visuals
    BY DEF Visuals
  <2> HIDE DEF v, i
  <2> QED BY <1>5, <1>6, <2>1, VisualState
<1> HIDE DEF d, v, e
<1>8. /\ conn' \in [Ids -> Rfb]
      /\ \A j \in Ids : conn'[j] = IF j = i THEN d ELSE conn[j]
  BY <1>1, <1>4, <1>6
<1>9. TypeOK'
  BY <1>6, <1>7, <1>8 DEF Inv, TypeOK
<1>10. (\A j \in Ids : Live(j) <=> ui.rfb = j)'
  BY <1>4, <1>7, <1>8 DEF Inv, OneSession, Live
<1>11. (\A j \in Ids : conn[j].told = IF conn[j].state = "disconnected" THEN 1 ELSE 0)'
  BY <1>4, <1>8 DEF Inv, OneSession
<1>12. (ui.connected = (ui.visual = "connected"))'
  BY <1>7
<1>13. ui'.rfb # None /\ ui'.visual = conn'[ui'.rfb].state
  BY <1>1, <1>4, <1>7, <1>8
<1> QED BY <1>9, <1>10, <1>11, <1>12, <1>13 DEF Inv, OneSession

\* No click and no timer of the page disturbs the agreement.
LEMMA UiKeeps ==
    ASSUME Inv, UiNext
    PROVE  Inv'
<1>1. conn \in [Ids -> Rfb] /\ made \in Nat /\ ui \in Page
  BY DEF Inv, TypeOK
<1>2. Same(ui, ui)
  BY DEF Same
<1>3. ASSUME NEW kind PROVE Shut(kind) \in SUBSET Dialogs
  BY <1>1 DEF Shut, Page
<1>4. ASSUME NEW kind
      PROVE  /\ [ui EXCEPT !.dialogs = Shut(kind)] \in Page
             /\ Same(ui, [ui EXCEPT !.dialogs = Shut(kind)])
  BY <1>1, <1>3 DEF Page, Same
<1>5. ASSUME ui' \in Page, Same(ui, ui'), conn' = conn, made' = made PROVE Inv'
  BY <1>1, <1>5, SilentKeeps
<1>6. ASSUME NEW r \in BOOLEAN, ConnectClicked(r) PROVE Inv'
  BY <1>1, <1>2, <1>6, ConnectKeeps DEF ConnectClicked
<1>7. ASSUME NEW r \in BOOLEAN, reconnect(r) PROVE Inv'
  <2> DEFINE u == [ui EXCEPT !.callback = FALSE]
  <2>1. u \in Page /\ Same(ui, u)
    BY <1>1 DEF Page, Same
  <2>2. (ui' = u /\ conn' = conn /\ made' = made) \/ connect(u, r)
    BY <1>7 DEF reconnect
  <2> HIDE DEF u
  <2> QED BY <1>5, <2>1, <2>2, ConnectKeeps
<1>8. CASE cancelReconnect
  <2> DEFINE u == [ui EXCEPT !.callback = FALSE]
             p == updateVisualState(u, "disconnected")
  <2>1. u \in Page /\ Same(ui, u)
    BY <1>1 DEF Page, Same
  <2>2. "disconnected" \in Visuals
    BY DEF Visuals
  <2>3. /\ ui' = OpenPanel(p) /\ ui.visual = "reconnecting"
        /\ conn' = conn /\ made' = made
    BY <1>8 DEF cancelReconnect
  <2> HIDE DEF u
  <2>4. /\ p \in Page /\ p.rfb = ui.rfb /\ p.connected = ui.connected
        /\ p.visual = "disconnected"
    BY <2>1, <2>2, VisualState DEF Same
  <2> HIDE DEF p
  <2>5. /\ ui' \in Page /\ ui'.rfb = ui.rfb /\ ui'.connected = ui.connected
        /\ ui'.visual = "disconnected"
    BY <2>3, <2>4, StatusSame DEF Same
  <2>6. ui.rfb = None
    <3>1. SUFFICES ASSUME ui.rfb # None PROVE FALSE
      OBVIOUS
    <3>2. ui.rfb \in Ids
      BY <1>1, <3>1 DEF Page
    <3>3. conn[ui.rfb].state = "reconnecting" /\ conn[ui.rfb].state \in States
      BY <1>1, <2>3, <3>1, <3>2, Fields DEF Inv, OneSession
    <3> QED BY <3>3 DEF States
  <2> QED BY <2>3, <2>5, <2>6, IdleKeeps
<1>9. CASE disconnect
  <2>1. ui.rfb # None
    BY <1>9 DEF disconnect, Inv, OneSession
  <2> QED BY <1>1, <1>2, <1>9, <2>1, LeaveKeeps DEF disconnect
<1>10. CASE rejectServer
  <2> DEFINE u == [ui EXCEPT !.dialogs = Shut("verify")]
  <2>1. \/ ui.rfb = None /\ ui' = u /\ conn' = conn /\ made' = made
        \/ ui.rfb # None /\ Leave(u)
    BY <1>10 DEF rejectServer
  <2>2. u \in Page /\ Same(ui, u)
    BY <1>4
  <2> HIDE DEF u
  <2> QED BY <1>5, <2>1, <2>2, LeaveKeeps
<1>11. CASE approveServer
  <2> DEFINE w(j) == [conn[j] EXCEPT !.waits = ""]
  <2>1. /\ ui' = [ui EXCEPT !.dialogs = Shut("verify")] /\ made' = made
        /\ conn' = [j \in Ids |-> IF j = ui.rfb /\ conn[j].waits = "approval"
                                  THEN w(j) ELSE conn[j]]
    BY <1>11 DEF approveServer
  <2>2. \A j \in Ids : /\ w(j) \in Rfb
                       /\ w(j).state = conn[j].state /\ w(j).told = conn[j].told
    <3>1. ASSUME NEW c \in Rfb
          PROVE  LET x == [c EXCEPT !.waits = ""]
                 IN  x \in Rfb /\ x.state = c.state /\ x.told = c.told
      BY DEF Rfb
    <3>2. \A j \in Ids : conn[j] \in Rfb
      BY <1>1
    <3> HIDE DEF w
    <3>3. TAKE j \in Ids
    <3>4. conn[j] \in Rfb
      BY <3>2
    <3> QED BY <3>1, <3>4 DEF w
  <2> HIDE DEF w
  <2>3. /\ conn' \in [Ids -> Rfb]
        /\ \A j \in Ids : conn'[j].state = conn[j].state /\ conn'[j].told = conn[j].told
    BY <1>1, <2>1, <2>2
  <2> QED BY <1>1, <1>4, <2>1, <2>3, SilentKeeps
<1>12. CASE setCredentials
  <2> DEFINE i == ui.rfb
             d == [conn[i] EXCEPT !.resume = TRUE]
  <2>1. /\ conn' = [conn EXCEPT ![i] = d] /\ i \in Ids
        /\ ui' = [ui EXCEPT !.dialogs = Shut("credentials")] /\ made' = made
    BY <1>1, <1>12 DEF setCredentials, Page
  <2>2. d \in Rfb /\ d.state = conn[i].state /\ d.told = conn[i].told
    <3>1. conn[i] \in Rfb
      BY <1>1, <2>1
    <3> HIDE DEF i
    <3> QED BY <3>1 DEF Rfb
  <2> HIDE DEF i, d
  <2> QED BY <1>4, <2>1, <2>2, ReplaceKeeps
<1>13. CASE closeControlbar
  <2>1. /\ ui' = [ui EXCEPT !.barTimer = FALSE, !.bar = FALSE, !.crashed = ui.rfb = None]
        /\ conn' = conn /\ made' = made
    BY <1>13 DEF closeControlbar
  <2>2. ASSUME NEW b \in BOOLEAN
        PROVE  LET v == [ui EXCEPT !.barTimer = FALSE, !.bar = FALSE, !.crashed = b]
               IN  v \in Page /\ Same(ui, v)
    BY <1>1 DEF Page, Same
  <2>3. (ui.rfb = None) \in BOOLEAN
    OBVIOUS
  <2>4. ui' \in Page /\ Same(ui, ui')
    BY <2>1, <2>2, <2>3, Zenon
  <2> QED BY <1>5, <2>1, <2>4
<1>14. CASE StatusTimeout
  <2>1. ui' \in Page /\ Same(ui, ui')
    BY <1>1, <1>14, StatusSame DEF StatusTimeout
  <2> QED BY <1>5, <1>14, <2>1 DEF StatusTimeout
<1>15. CASE ChangeSetting
  <2>1. \/ ui' = [ui EXCEPT !.reconnect = ~ui.reconnect]
        \/ ui' = [ui EXCEPT !.host = ~ui.host]
    BY <1>15 DEF ChangeSetting
  <2>2. ASSUME NEW b \in BOOLEAN
        PROVE  /\ [ui EXCEPT !.reconnect = b] \in Page
               /\ Same(ui, [ui EXCEPT !.reconnect = b])
               /\ [ui EXCEPT !.host = b] \in Page
               /\ Same(ui, [ui EXCEPT !.host = b])
    BY <1>1 DEF Page, Same
  <2>3. (~ui.reconnect) \in BOOLEAN /\ (~ui.host) \in BOOLEAN
    OBVIOUS
  <2>4. ui' \in Page /\ Same(ui, ui')
    BY <2>1, <2>2, <2>3, Zenon
  <2> QED BY <1>5, <1>15, <2>4 DEF ChangeSetting
<1> QED BY <1>6, <1>7, <1>8, <1>9, <1>10, <1>11, <1>12, <1>13, <1>14, <1>15 DEF UiNext

-----------------------------------------------------------------------------
(* The theorem                                                             *)

\* A page just opened agrees with its objects, connecting at once or not.
LEMMA InitAgrees == Init => Inv
<1> SUFFICES ASSUME NEW auto \in BOOLEAN, NEW r \in BOOLEAN, Start(auto, NewPage(r))
             PROVE  Inv
  BY DEF Init
<1> DEFINE first == _updateConnectionState(NewRfb, "connecting")
           page == NewPage(r)
<1>1. NewRfb \in Rfb /\ NewRfb.state = "" /\ NewRfb.told = 0
  BY DEF NewRfb, Rfb, States
<1>2. first \in Rfb /\ first.state = "connecting" /\ first.told = 0
  <2>1. "connecting" \in States \ {""}
    BY DEF States
  <2> QED BY <1>1, <2>1, UpdateState DEF Proper
<1>3. page \in Page /\ page.rfb = None /\ page.connected = FALSE /\ page.visual = "init"
  BY DEF NewPage, Page, Visuals
<1>4. 1 \in Ids /\ None \notin Ids
  BY BoundsAssumption DEF Ids, None
<1> HIDE DEF first, page
<1>5. CASE auto
  <2> DEFINE p == updateVisualState(page, "connecting")
  <2>1. /\ conn = [j \in Ids |-> IF j = 1 THEN first ELSE NewRfb]
        /\ ui = [p EXCEPT !.rfb = 1] /\ made = 1
    BY <1>5 DEF Start, first, page
  <2>2. "connecting" \in Visuals
    BY DEF Visuals
  <2>3. p \in Page /\ p.connected = FALSE /\ p.visual = "connecting"
    BY <1>3, <2>2, VisualState
  <2> HIDE DEF p
  <2>4. ui \in Page /\ ui.rfb = 1 /\ ui.connected = FALSE /\ ui.visual = "connecting"
    BY <1>4, <2>1, <2>3 DEF Page
  <2>5. TypeOK
    BY <1>1, <1>2, <2>1, <2>4 DEF TypeOK
  <2>6. \A j \in Ids : /\ conn[j].state = IF j = 1 THEN "connecting" ELSE ""
                       /\ conn[j].told = 0
    BY <1>1, <1>2, <2>1
  <2> QED BY <1>4, <2>4, <2>5, <2>6 DEF Inv, OneSession, Live
<1>6. CASE ~auto
  <2>1. /\ conn = [j \in Ids |-> NewRfb] /\ made = 0
        /\ ui = [page EXCEPT !.panel = TRUE]
    BY <1>6 DEF Start, page
  <2>2. ui \in Page /\ ui.rfb = None /\ ui.connected = FALSE /\ ui.visual = "init"
    BY <1>3, <2>1 DEF Page
  <2>3. TypeOK
    BY <1>1, <2>1, <2>2 DEF TypeOK
  <2>4. \A j \in Ids : conn[j].state = "" /\ conn[j].told = 0
    BY <1>1, <2>1
  <2> QED BY <1>4, <2>2, <2>3, <2>4 DEF Inv, OneSession, Live
<1> QED BY <1>5, <1>6

\* However many connections are made on a page and in whatever order sockets,
\* timers, promises and clicks fire, UI.rfb is the one RFB object that is not yet
\* disconnected, each object tells the page once that it is gone, and the page
\* shows the state of the object it has.
THEOREM SessionAgrees == Spec => []OneSession
<1>1. Init => Inv
  BY InitAgrees
<1>2. Inv /\ [Next]_vars => Inv'
  <2> SUFFICES ASSUME Inv, [Next]_vars PROVE Inv'
    OBVIOUS
  <2>1. CASE Next
    BY <2>1, UiKeeps, RfbKeeps DEF Next
  <2>2. CASE UNCHANGED vars
    <3>1. conn' = conn /\ ui' = ui /\ made' = made
      BY <2>2 DEF vars
    <3>2. conn' \in [Ids -> Rfb] /\ ui' \in Page /\ made' \in Nat /\ Same(ui, ui')
      BY <3>1 DEF Inv, TypeOK, Same
    <3> QED BY <3>1, <3>2, SilentKeeps
  <2> QED BY <2>1, <2>2
<1>3. Inv => OneSession
  BY DEF Inv
<1> QED BY <1>1, <1>2, <1>3, PTL DEF Spec

-----------------------------------------------------------------------------
(* The user's word                                                         *)

\* What the page needs of an RFB object to get out of every state: a socket that
\* may still close and whose close event is heard, or the disconnect timer.
Awaited(c) ==
    /\ c.state \in {"connecting", "connected"} =>
         c.ws \in {"connecting", "open"} /\ "close" \in c.on /\ ~c.timer
    /\ c.state = "disconnecting" => c.timer

\* A dialog is about the object of the page unless it opened late, and the
\* control bar's timer runs only while there is one; the panel is open and the
\* reconnect timer runs only while there is none, and never both.
Tidy(u) ==
    /\ \A d \in u.dialogs : d[2] = u.rfb \/ d \in u.late
    /\ ~u.crashed
    /\ u.barTimer => u.rfb # None
    /\ u.panel => u.rfb = None /\ ~u.callback
    /\ u.callback => u.rfb = None

\* A page without an object offers to connect or to cancel.
Offers(u) == u.rfb = None => u.visual = "reconnecting" \/ u.panel \/ u.refused

\* A user's no is held by the inhibition: the object on its way down cannot
\* start a reconnection.
NoHeld ==
    wanted = "down" =>
      /\ ~ui.callback
      /\ ui.rfb # None => conn[ui.rfb].state = "disconnecting" /\ ui.inhibit

Word == Inv /\ NoHeld /\ Tidy(ui) /\ Offers(ui) /\ \A i \in Ids : Awaited(conn[i])

\* Awaited survives every change of the connection state.
LEMMA UpdateAwaited ==
    ASSUME NEW c \in Rfb, NEW new \in {"connected", "disconnecting", "disconnected"},
           Awaited(c)
    PROVE  Awaited(_updateConnectionState(c, new))
<1> DEFINE t == ClearDisconnTimer(c, new)
           e == [t EXCEPT !.state = new]
<1>1. CASE ~Proper(c.state, new)
  BY <1>1 DEF _updateConnectionState
<1>2. CASE Proper(c.state, new)
  <2>1. CASE new = "connected"
    <3>1. c.state = "connecting" /\ ~c.timer
      BY <1>2, <2>1 DEF Proper, Awaited
    <3>2. _updateConnectionState(c, new) = [c EXCEPT !.state = "connected"]
      BY <1>2, <2>1, <3>1 DEF _updateConnectionState, ClearDisconnTimer
    <3> QED BY <3>1, <3>2 DEF Awaited, Rfb
  <2>2. CASE new = "disconnecting"
    <3>1. t \in Rfb
      BY DEF ClearDisconnTimer, Rfb
    <3> HIDE DEF t
    <3>2. e \in Rfb /\ e.state = "disconnecting"
      BY <2>2, <3>1 DEF Rfb, States
    <3>3. _updateConnectionState(c, new) = [Close(e) EXCEPT !.timer = TRUE]
      BY <1>2, <2>2 DEF _updateConnectionState, t
    <3> HIDE DEF e
    <3>4. Close(e) \in Rfb /\ Close(e).state = "disconnecting"
      BY <3>2 DEF Close, Rfb
    <3> QED BY <3>3, <3>4 DEF Awaited, Rfb
  <2>3. CASE new = "disconnected"
    <3>1. _updateConnectionState(c, new).state = "disconnected"
      BY <1>2, <2>3, Disconnected DEF Proper
    <3> QED BY <3>1 DEF Awaited
  <2> QED BY <2>1, <2>2, <2>3
<1> QED BY <1>1, <1>2

\* A failure, and a socket that closes, leave nothing to wait for.
LEMMA FailAwaited ==
    ASSUME NEW c \in Rfb
    PROVE  /\ Awaited(_fail(c))
           /\ Awaited(_socketClose(c))
<1> DEFINE b == [c EXCEPT !.clean = FALSE]
           Over(d) == d \in Rfb /\ d.state \in {"", "disconnected"}
           both(x) == _updateConnectionState(
                          _updateConnectionState(x, "disconnecting"), "disconnected")
<1>1. ASSUME NEW x \in Rfb PROVE Over(both(x))
  <2> DEFINE e == _updateConnectionState(x, "disconnecting")
  <2>1. e \in Rfb /\ e.state \in {"", "disconnecting", "disconnected"}
    BY Disconnecting, Fields DEF States
  <2> HIDE DEF e
  <2>2. Over(_updateConnectionState(e, "disconnected"))
    BY <2>1, Disconnected
  <2> QED BY <2>2 DEF e
<1>2. b \in Rfb
  BY DEF Rfb
<1>3. Over(_fail(c))
  <2>1. _fail(c) = both(b)
    BY DEF _fail
  <2> HIDE DEF b, both, Over
  <2> QED BY <1>1, <1>2, <2>1
<1>4. \A d : Over(d) => Awaited(d)
  BY DEF Awaited
<1>5. Awaited(_socketClose(c))
  <2> DEFINE one == _updateConnectionState(c, "disconnected")
             d == CASE c.state = "connected" -> both(c)
                    [] c.state = "disconnecting" -> one
                    [] OTHER -> _fail(c)
  <2>1. _socketClose(c) = [d EXCEPT !.on = d.on \ {"close"}]
    BY DEF _socketClose
  <2>2. c.state = "disconnecting" => Over(one)
    BY Disconnected
  <2>3. Over(both(c))
    BY <1>1
  <2>4. Over(d)
    <3> HIDE DEF both, one, Over
    <3> QED BY <1>3, <2>2, <2>3
  <2> HIDE DEF d
  <2>5. Over([d EXCEPT !.on = d.on \ {"close"}])
    BY <2>4 DEF Rfb
  <2> HIDE DEF Over
  <2> QED BY <1>4, <2>1, <2>5
<1> HIDE DEF Over
<1> QED BY <1>3, <1>4, <1>5

\* What the user's word is about is left alone, but for the panel.
Keep(u, v) ==
    /\ Same(u, v)
    /\ v.callback = u.callback /\ v.inhibit = u.inhibit /\ v.dialogs = u.dialogs
    /\ v.late = u.late /\ v.crashed = u.crashed /\ v.barTimer = u.barTimer
    /\ v.refused = u.refused

\* The status line has no part in it, and opening the panel does that alone.
LEMMA StatusKeeps ==
    ASSUME NEW u \in Page
    PROVE  /\ \A kind \in {"normal", "warn", "error"} :
                Keep(u, showStatus(u, kind)) /\ showStatus(u, kind).panel = u.panel
           /\ Keep(u, hideStatus(u)) /\ hideStatus(u).panel = u.panel
           /\ Keep(u, OpenPanel(u)) /\ OpenPanel(u).panel
<1>1. ASSUME NEW kind \in {"normal", "warn", "error"}
      PROVE  Keep(u, showStatus(u, kind)) /\ showStatus(u, kind).panel = u.panel
  <2> DEFINE v(b) == [u EXCEPT !.status = kind, !.statusTimer = b]
  <2>1. ASSUME NEW b \in BOOLEAN PROVE Keep(u, v(b)) /\ v(b).panel = u.panel
    BY DEF Page, Keep, Same
  <2>2. showStatus(u, kind) = u \/ showStatus(u, kind) = v(kind # "error")
    BY DEF showStatus
  <2>3. (kind # "error") \in BOOLEAN
    OBVIOUS
  <2>4. Keep(u, u)
    BY DEF Keep, Same
  <2> HIDE DEF v
  <2> QED BY <2>1, <2>2, <2>3, <2>4, Zenon
<1>2. Keep(u, hideStatus(u)) /\ hideStatus(u).panel = u.panel
  BY DEF hideStatus, Page, Keep, Same
<1>3. Keep(u, OpenPanel(u)) /\ OpenPanel(u).panel
  BY DEF OpenPanel, Page, Keep, Same
<1> QED BY <1>1, <1>2, <1>3

\* A change of what is shown closes the dialogs and arms the control bar's timer
\* only for a connection.
LEMMA VisualWord ==
    ASSUME NEW u \in Page, NEW s \in Visuals
    PROVE  LET v == updateVisualState(u, s)
           IN  /\ v.dialogs = {} /\ v.barTimer = u.connected
               /\ v.callback = u.callback /\ v.inhibit = u.inhibit /\ v.late = u.late
               /\ v.crashed = u.crashed /\ v.refused = u.refused /\ v.panel = u.panel
BY DEF updateVisualState, Page, Visuals

\* The connect event leaves a tidy page with its object.
LEMMA ConnectedWord ==
    ASSUME NEW u \in Page, u.rfb # None, Tidy(u)
    PROVE  Tidy(connectFinished(u)) /\ Offers(connectFinished(u))
<1> DEFINE a == [u EXCEPT !.connected = TRUE, !.inhibit = FALSE]
           b == showStatus(a, "normal")
           v == updateVisualState(b, "connected")
           Quiet(x) == x \in Page /\ ~x.crashed /\ ~x.panel /\ ~x.callback
<1>1. Quiet(a)
  BY DEF Page, Tidy
<1>2. Quiet(b)
  <2> HIDE DEF a
  <2> QED BY <1>1, StatusSame, StatusKeeps DEF Keep
<1>3. connectFinished(u) = v /\ "connected" \in Visuals
  BY DEF connectFinished, Visuals
<1>4. v.dialogs = {} /\ ~v.crashed /\ ~v.panel /\ ~v.callback
  <2> HIDE DEF b
  <2> QED BY <1>2, <1>3, VisualWord
<1>5. v.rfb = u.rfb
  BY <1>3, Connected
<1> HIDE DEF v
<1> QED BY <1>3, <1>4, <1>5 DEF Tidy, Offers

\* The disconnect event leaves a tidy page with an offer, and starts a
\* reconnection only where none is inhibited.
LEMMA GoneWord ==
    ASSUME NEW u \in Page, NEW clean, u.rfb # None, Tidy(u)
    PROVE  LET w == disconnectFinished(u, clean)
           IN  Tidy(w) /\ Offers(w) /\ (w.callback => ~u.inhibit)
<1> DEFINE a == [u EXCEPT !.connected = FALSE, !.rfb = None]
           v == Failed(a, clean)
           r == updateVisualState(v, "reconnecting")
           p == updateVisualState(v, "disconnected")
           q == showStatus(p, "normal")
           w == disconnectFinished(u, clean)
           Quiet(x) == /\ x \in Page /\ x.rfb = None /\ x.connected = FALSE
                       /\ ~x.crashed /\ ~x.panel /\ ~x.callback /\ x.inhibit = u.inhibit
<1>0. "reconnecting" \in Visuals /\ "disconnected" \in Visuals
  BY DEF Visuals
<1>1. Quiet(a)
  BY DEF Page, Tidy
<1>2. Quiet(v)
  <2> HIDE DEF a
  <2> DEFINE x == updateVisualState(a, "disconnected")
             y == showStatus(x, "error")
  <2>1. Quiet(x)
    BY <1>0, <1>1, VisualState, VisualWord
  <2>2. v = IF clean THEN a ELSE y
    BY DEF Failed
  <2> HIDE DEF x
  <2>3. y \in Page /\ Keep(x, y) /\ y.panel = x.panel
    BY <2>1, StatusSame, StatusKeeps
  <2> HIDE DEF y
  <2>4. Quiet(y)
    BY <2>1, <2>3 DEF Keep, Same
  <2> HIDE DEF Quiet
  <2> QED BY <1>1, <2>2, <2>4
<1> HIDE DEF a
<1>3. w.rfb = None
  BY Gone
<1>4. CASE v.reconnect /\ ~v.inhibit
  <2>1. w = [r EXCEPT !.callback = TRUE]
    BY <1>4 DEF disconnectFinished, a
  <2>2. /\ r \in Page /\ r.dialogs = {} /\ r.barTimer = FALSE /\ ~r.crashed /\ ~r.panel
        /\ r.visual = "reconnecting"
    <3> HIDE DEF v
    <3> QED BY <1>0, <1>2, VisualState, VisualWord
  <2> HIDE DEF r, w
  <2>3. /\ w.dialogs = {} /\ w.barTimer = FALSE /\ ~w.crashed /\ ~w.panel
        /\ w.visual = "reconnecting"
    BY <2>1, <2>2 DEF Page
  <2>4. Tidy(w) /\ Offers(w)
    BY <1>3, <2>3 DEF Tidy, Offers
  <2> QED BY <1>2, <1>4, <2>4 DEF w
<1>5. CASE ~(v.reconnect /\ ~v.inhibit)
  <2>1. w = OpenPanel(q)
    BY <1>5 DEF disconnectFinished, a
  <2>2. /\ p \in Page /\ p.dialogs = {} /\ p.barTimer = FALSE /\ ~p.crashed
        /\ ~p.callback
    <3> HIDE DEF v
    <3> QED BY <1>0, <1>2, VisualState, VisualWord
  <2>3. q \in Page /\ Keep(p, q)
    <3> HIDE DEF p
    <3> QED BY <2>2, StatusSame, StatusKeeps
  <2> HIDE DEF p, q, w
  <2>4. Keep(q, w) /\ w.panel
    BY <2>1, <2>3, StatusKeeps
  <2>5. w.dialogs = {} /\ w.barTimer = FALSE /\ ~w.crashed /\ ~w.callback
    BY <2>2, <2>3, <2>4 DEF Keep
  <2>6. Tidy(w) /\ Offers(w) /\ ~w.callback
    BY <1>3, <2>4, <2>5 DEF Tidy, Offers
  <2> QED BY <2>6 DEF w
<1> QED BY <1>4, <1>5

\* Where the page keeps what the word is about, and the panel, it stays tidy.
LEMMA KeepTidy ==
    ASSUME NEW u, NEW v, Keep(u, v), v.panel = u.panel, Tidy(u), Offers(u)
    PROVE  Tidy(v) /\ Offers(v)
BY DEF Keep, Same, Tidy, Offers

\* So does one where a dialog opens, in time or late.
LEMMA OpenedWord ==
    ASSUME NEW u \in Page, NEW i \in Ids, NEW kind \in {"verify", "credentials"},
           Tidy(u), Offers(u)
    PROVE  \A v \in {Opened(u, kind, i), credentials(u, i)} :
             /\ Tidy(v) /\ Offers(v) /\ v.rfb = u.rfb
             /\ v.inhibit = u.inhibit /\ v.callback = u.callback
<1>1. ASSUME NEW k \in {"verify", "credentials"}
      PROVE  LET v == Opened(u, k, i)
             IN  /\ Tidy(v) /\ Offers(v) /\ v.rfb = u.rfb
                 /\ v.inhibit = u.inhibit /\ v.callback = u.callback
  <2> DEFINE v == Opened(u, k, i)
  <2>1. /\ v.dialogs = u.dialogs \cup {<<k, i>>}
        /\ v.late = u.late \cup (IF u.rfb = i THEN {} ELSE {<<k, i>>})
    BY DEF Opened, Page
  <2>2. /\ v.rfb = u.rfb /\ v.inhibit = u.inhibit /\ v.callback = u.callback
        /\ v.crashed = u.crashed /\ v.barTimer = u.barTimer /\ v.panel = u.panel
        /\ v.visual = u.visual /\ v.refused = u.refused
    BY DEF Opened, Page
  <2> HIDE DEF v
  <2>3. ASSUME NEW d \in v.dialogs PROVE d[2] = v.rfb \/ d \in v.late
    <3>1. CASE d \in u.dialogs
      BY <2>1, <2>2, <3>1 DEF Tidy
    <3>2. CASE d = <<k, i>>
      BY <2>1, <2>2, <3>2
    <3> QED BY <2>1, <2>3, <3>1, <3>2
  <2>4. Tidy(v) /\ Offers(v)
    BY <2>2, <2>3 DEF Tidy, Offers
  <2> QED BY <2>2, <2>4 DEF v
<1>2. /\ Tidy(credentials(u, i)) /\ Offers(credentials(u, i))
      /\ credentials(u, i).rfb = u.rfb /\ credentials(u, i).inhibit = u.inhibit
      /\ credentials(u, i).callback = u.callback
  <2> DEFINE o == Opened(u, "credentials", i)
  <2>1. o \in Page
    BY OpenedSame
  <2>2. /\ Tidy(o) /\ Offers(o) /\ o.rfb = u.rfb
        /\ o.inhibit = u.inhibit /\ o.callback = u.callback
    BY <1>1
  <2>3. credentials(u, i) = showStatus(o, "warn")
    BY DEF credentials
  <2> HIDE DEF o
  <2>4. Keep(o, credentials(u, i)) /\ credentials(u, i).panel = o.panel
    BY <2>1, <2>3, StatusKeeps
  <2> QED BY <2>2, <2>4, KeepTidy DEF Keep, Same
<1> QED BY <1>1, <1>2

\* A step that changes no state of an object keeps the word if it starts no
\* reconnection.
LEMMA SilentWord ==
    ASSUME Word, Inv', wanted' = wanted, ui'.rfb = ui.rfb, ui'.inhibit = ui.inhibit,
           ui'.callback => ui.callback, Tidy(ui'), Offers(ui'),
           \A j \in Ids : conn'[j].state = conn[j].state /\ Awaited(conn'[j])
    PROVE  Word'
<1>1. ui.rfb \in Ids \cup {None}
  BY DEF Word, Inv, TypeOK, Page
<1>2. NoHeld'
  BY <1>1 DEF Word, NoHeld
<1> QED BY <1>2 DEF Word

\* An object's move, with the events it dispatches, keeps the word: an object on
\* its way down after a no ends with the reconnection inhibited.
LEMMA BecomesWord ==
    ASSUME Word, NEW i \in Ids, NEW d \in Rfb, Moves(conn[i], d), Awaited(d),
           NEW u \in Page, Keep(ui, u), u.panel = ui.panel, Becomes(i, d, u),
           made' = made, wanted' = wanted
    PROVE  Word'
<1> DEFINE c == conn[i]
<1>0. Inv'
  BY BecomesKeeps DEF Word, Keep
<1>1. \A j \in Ids : conn'[j] = IF j = i THEN d ELSE conn[j]
  BY DEF Becomes, Word, Inv, TypeOK
<1>2. \A j \in Ids : Awaited(conn'[j])
  BY <1>1 DEF Word
<1>3. Tidy(u) /\ Offers(u)
  BY KeepTidy DEF Word
<1>4. ui' = Dispatched(u, c, d)
  BY DEF Becomes
<1>5. CASE d.state = c.state
  <2>1. ui' = u
    <3> HIDE DEF c
    <3> QED BY <1>4, <1>5 DEF Dispatched
  <2>2. ui'.rfb = ui.rfb /\ ui'.inhibit = ui.inhibit /\ ui'.callback = ui.callback
    BY <2>1 DEF Keep, Same
  <2>3. \A j \in Ids : conn'[j].state = conn[j].state
    BY <1>1, <1>5
  <2> QED BY <1>0, <1>2, <1>3, <2>1, <2>2, <2>3, SilentWord
<1>6. CASE c.state = "connecting" /\ d.state = "connected"
  <2>1. ui' = connectFinished(u)
    <3> HIDE DEF c
    <3> QED BY <1>4, <1>6 DEF Dispatched
  <2>2. ui.rfb = i
    BY <1>6 DEF Word, Inv, OneSession, Live
  <2>3. i # None
    BY BoundsAssumption DEF Ids, None
  <2>4. Tidy(ui') /\ Offers(ui')
    BY <1>3, <2>1, <2>2, <2>3, ConnectedWord DEF Keep, Same
  <2>5. wanted # "down"
    BY <1>6, <2>2, <2>3 DEF Word, NoHeld
  <2> QED BY <1>0, <1>2, <2>4, <2>5 DEF Word, NoHeld
<1>7. CASE /\ c.state \in {"connecting", "connected", "disconnecting"}
           /\ d.state = "disconnected"
  <2>1. ui' = disconnectFinished(u, d.clean)
    <3> HIDE DEF c
    <3> QED BY <1>4, <1>7 DEF Dispatched
  <2>2. ui.rfb = i /\ u.rfb = i
    BY <1>7 DEF Word, Inv, OneSession, Live, Keep, Same
  <2>3. i # None
    BY BoundsAssumption DEF Ids, None
  <2>4. Tidy(ui') /\ Offers(ui') /\ (ui'.callback => ~u.inhibit)
    BY <1>3, <2>1, <2>2, <2>3, GoneWord
  <2>5. ui'.rfb = None
    BY <2>1, Gone
  <2>6. wanted = "down" => u.inhibit
    BY <2>2, <2>3 DEF Word, NoHeld, Keep
  <2>7. NoHeld'
    BY <2>4, <2>5, <2>6 DEF NoHeld
  <2> QED BY <1>0, <1>2, <2>4, <2>7 DEF Word
<1> QED BY <1>5, <1>6, <1>7 DEF Moves

\* No event of an object's socket, timers or promises breaks the word.
LEMMA RfbWord ==
    ASSUME Word, NEW i \in Ids, RfbNext(i)
    PROVE  Word'
<1> DEFINE c == conn[i]
<1>0. Inv'
  BY RfbKeeps DEF Word
<1>1. c \in Rfb /\ ui \in Page /\ made \in Nat /\ Awaited(c)
  BY DEF Word, Inv, TypeOK
<1>2. Keep(ui, ui)
  BY DEF Keep, Same
<1>3. ASSUME NEW d \in Rfb, Moves(c, d), Awaited(d), Becomes(i, d, ui),
             made' = made, wanted' = wanted
      PROVE  Word'
  BY <1>1, <1>2, <1>3, BecomesWord
<1>4. ASSUME NEW d \in Rfb, d.state = c.state, Awaited(d), conn' = [conn EXCEPT ![i] = d],
             wanted' = wanted, ui'.rfb = ui.rfb, ui'.inhibit = ui.inhibit,
             ui'.callback = ui.callback, Tidy(ui'), Offers(ui')
      PROVE  Word'
  <2>1. \A j \in Ids : conn'[j] = IF j = i THEN d ELSE conn[j]
    BY <1>4 DEF Word, Inv, TypeOK
  <2>2. \A j \in Ids : conn'[j].state = conn[j].state /\ Awaited(conn'[j])
    BY <1>4, <2>1 DEF Word
  <2> QED BY <1>0, <1>4, <2>2, SilentWord
<1>5. CASE SocketOpens(i)
  <2> DEFINE o == [c EXCEPT !.ws = "open"]
             d == IF "open" \in o.on THEN _socketOpen(o) ELSE o
  <2>1. o \in Rfb /\ o.state = c.state /\ o.told = c.told /\ Awaited(o)
    BY <1>1 DEF Rfb, Awaited
  <2>2. Becomes(i, d, ui) /\ made' = made /\ wanted' = wanted
    BY <1>5 DEF SocketOpens
  <2> HIDE DEF o
  <2>3. d \in Rfb /\ Moves(c, d)
    BY <2>1, SocketMoves DEF Moves
  <2>4. Awaited(d)
    <3>1. Awaited([o EXCEPT !.init = TRUE])
      BY <2>1 DEF Rfb, Awaited
    <3> QED BY <2>1, <3>1, FailAwaited DEF _socketOpen
  <2> HIDE DEF d
  <2> QED BY <1>3, <2>2, <2>3, <2>4
<1>6. CASE SocketCloses(i)
  <2> DEFINE o == [c EXCEPT !.ws = "closed"]
             d == IF "close" \in o.on THEN _socketClose(o) ELSE o
  <2>1. o \in Rfb /\ o.state = c.state /\ o.told = c.told /\ o.on = c.on /\ o.timer = c.timer
    BY <1>1 DEF Rfb
  <2>2. Becomes(i, d, ui) /\ made' = made /\ wanted' = wanted
    BY <1>6 DEF SocketCloses
  <2> HIDE DEF o
  <2>3. d \in Rfb /\ Moves(c, d)
    BY <2>1, SocketMoves DEF Moves
  <2>4. "close" \notin o.on => Awaited(o)
    BY <1>1, <2>1 DEF Awaited
  <2>5. Awaited(d)
    BY <2>1, <2>4, FailAwaited
  <2> HIDE DEF d
  <2> QED BY <1>3, <2>2, <2>3, <2>5
<1>7. CASE HandshakeDone(i)
  <2> DEFINE d == _updateConnectionState(c, "connected")
  <2>1. Becomes(i, d, ui) /\ made' = made /\ wanted' = wanted /\ c.state = "connecting"
    BY <1>7 DEF HandshakeDone
  <2>2. "connected" \in States \ {""}
    BY DEF States
  <2>3. d \in Rfb /\ d.state = "connected" /\ d.told = c.told
    BY <1>1, <2>1, <2>2, UpdateState DEF Proper
  <2>4. Awaited(d)
    BY <1>1, UpdateAwaited
  <2> HIDE DEF d
  <2> QED BY <1>3, <2>1, <2>3, <2>4 DEF Moves
<1>8. ASSUME NEW s \in BOOLEAN, MessageFails(i, s)
      PROVE  Word'
  <2> DEFINE u == IF s THEN showStatus(ui, "error") ELSE ui
  <2>1. Becomes(i, _fail(c), u) /\ made' = made /\ wanted' = wanted
    BY <1>8 DEF MessageFails
  <2>2. u \in Page /\ Keep(ui, u) /\ u.panel = ui.panel
    BY <1>1, <1>2, StatusSame, StatusKeeps
  <2>3. _fail(c) \in Rfb /\ Moves(c, _fail(c)) /\ Awaited(_fail(c))
    BY <1>1, FailMoves, FailAwaited
  <2> HIDE DEF u
  <2> QED BY <2>1, <2>2, <2>3, BecomesWord
<1>9. ASSUME NEW d \in Rfb, d.state = c.state, Awaited(d), Asks(i, d)
      PROVE  Word'
  <2>1. /\ conn' = [conn EXCEPT ![i] = d] /\ ui' = credentials(ui, i)
        /\ wanted' = wanted
    BY <1>9 DEF Asks
  <2>2. /\ Tidy(ui') /\ Offers(ui') /\ ui'.rfb = ui.rfb
        /\ ui'.inhibit = ui.inhibit /\ ui'.callback = ui.callback
    BY <1>1, <2>1, OpenedWord DEF Word
  <2> QED BY <1>4, <1>9, <2>1, <2>2
<1>10. CASE serverVerify(i)
  <2> DEFINE d == [c EXCEPT !.waits = "approval", !.digest = TRUE]
  <2>1. conn' = [conn EXCEPT ![i] = d] /\ ui' = ui /\ wanted' = wanted
    BY <1>1, <1>10 DEF serverVerify, Word, Inv, TypeOK
  <2>2. d \in Rfb /\ d.state = c.state /\ Awaited(d)
    BY <1>1 DEF Rfb, Awaited
  <2> HIDE DEF d
  <2> QED BY <1>4, <2>1, <2>2 DEF Word
<1>11. CASE DigestReady(i)
  <2> DEFINE d == [c EXCEPT !.digest = FALSE]
  <2>1. /\ conn' = [conn EXCEPT ![i] = d] /\ ui' = Opened(ui, "verify", i)
        /\ wanted' = wanted
    BY <1>11 DEF DigestReady
  <2>2. d \in Rfb /\ d.state = c.state /\ Awaited(d)
    BY <1>1 DEF Rfb, Awaited
  <2> HIDE DEF d
  <2>3. /\ Tidy(ui') /\ Offers(ui') /\ ui'.rfb = ui.rfb
        /\ ui'.inhibit = ui.inhibit /\ ui'.callback = ui.callback
    BY <1>1, <2>1, OpenedWord DEF Word
  <2> QED BY <1>4, <2>1, <2>2, <2>3
<1>12. ASSUME NEW f \in BOOLEAN, NEW o \in Rfb, o.state = c.state, o.told = c.told,
              Awaited(o), Becomes(i, IF f THEN _fail(o) ELSE o, ui), made' = made,
              wanted' = wanted
       PROVE  Word'
  <2> DEFINE d == IF f THEN _fail(o) ELSE o
  <2>1. d \in Rfb /\ Moves(c, d) /\ Awaited(d)
    BY <1>12, FailMoves, FailAwaited DEF Moves
  <2> HIDE DEF d
  <2> QED BY <1>3, <1>12, <2>1 DEF d
<1>13. CASE DisconnTimeout(i)
  <2> DEFINE d == _updateConnectionState(c, "disconnected")
  <2>1. Becomes(i, d, ui) /\ made' = made /\ wanted' = wanted
    BY <1>13 DEF DisconnTimeout
  <2>2. /\ d \in Rfb
        /\ IF c.state = "disconnecting"
           THEN d.state = "disconnected" /\ d.told = c.told + 1
           ELSE d.state = c.state /\ d.told = c.told
    BY <1>1, Disconnected
  <2>3. Awaited(d)
    BY <1>1, UpdateAwaited
  <2> HIDE DEF d
  <2>4. Moves(c, d)
    BY <2>2 DEF Moves
  <2> QED BY <1>3, <2>1, <2>2, <2>3, <2>4
<1>14. CASE CredentialsRequired(i)
  <2> DEFINE d == [c EXCEPT !.waits = "credentials"]
  <2>1. d \in Rfb /\ d.state = c.state /\ Awaited(d) /\ Asks(i, d)
    BY <1>1, <1>14 DEF Rfb, Awaited, CredentialsRequired
  <2> HIDE DEF d
  <2> QED BY <1>9, <2>1
<1>15. CASE SubtypeArrives(i)
  <2> DEFINE d == [c EXCEPT !.waits = "subtype"]
  <2>1. conn' = [conn EXCEPT ![i] = d] /\ ui' = ui /\ wanted' = wanted
    BY <1>1, <1>15 DEF SubtypeArrives, Word, Inv, TypeOK
  <2>2. d \in Rfb /\ d.state = c.state /\ Awaited(d)
    BY <1>1 DEF Rfb, Awaited
  <2> HIDE DEF d
  <2> QED BY <1>4, <2>1, <2>2 DEF Word
<1>16. ASSUME NEW f \in BOOLEAN, SubtypeReady(i, f)
       PROVE  Word'
  <2> DEFINE o == [c EXCEPT !.waits = ""]
  <2>1. o \in Rfb /\ o.state = c.state /\ o.told = c.told /\ Awaited(o)
    BY <1>1 DEF Rfb, Awaited
  <2>2. Becomes(i, IF f THEN _fail(o) ELSE o, ui) /\ made' = made /\ wanted' = wanted
    BY <1>16 DEF SubtypeReady
  <2> HIDE DEF o
  <2> QED BY <1>12, <2>1, <2>2
<1>17. CASE SubtypeAsks(i)
  <2> DEFINE d == [c EXCEPT !.waits = "login"]
  <2>1. d \in Rfb /\ d.state = c.state /\ Awaited(d) /\ Asks(i, d)
    BY <1>1, <1>17 DEF Rfb, Awaited, SubtypeAsks
  <2> HIDE DEF d
  <2> QED BY <1>9, <2>1
<1>18. ASSUME NEW f \in BOOLEAN, Resume(i, f)
       PROVE  Word'
  <2> DEFINE w == IF c.waits \in {"credentials", "login"} THEN "" ELSE c.waits
             o == [c EXCEPT !.resume = FALSE, !.waits = w]
  <2>1. w \in {"", "credentials", "approval", "subtype", "login"}
    BY <1>1 DEF Rfb
  <2>2. Becomes(i, IF f THEN _fail(o) ELSE o, ui) /\ made' = made /\ wanted' = wanted
    BY <1>18 DEF Resume
  <2> HIDE DEF w
  <2>3. o \in Rfb /\ o.state = c.state /\ o.told = c.told /\ Awaited(o)
    BY <1>1, <2>1 DEF Rfb, Awaited
  <2> HIDE DEF o
  <2> QED BY <1>12, <2>2, <2>3
<1>19. CASE ResumeAsks(i)
  <2> DEFINE d == [c EXCEPT !.resume = FALSE]
  <2>1. d \in Rfb /\ d.state = c.state /\ Awaited(d) /\ Asks(i, d)
    BY <1>1, <1>19 DEF Rfb, Awaited, ResumeAsks
  <2> HIDE DEF d
  <2> QED BY <1>9, <2>1
<1> QED BY <1>5, <1>6, <1>7, <1>8, <1>10, <1>11, <1>13, <1>14, <1>15, <1>16, <1>17,
           <1>18, <1>19 DEF RfbNext

\* UI.connect, taken while the user wants a connection, leaves an object that is
\* awaited or a page that offers something.
LEMMA ConnectWord ==
    ASSUME Word, NEW u \in Page, Same(ui, u), Tidy(u), Offers(u),
           ui.panel \/ ui.callback, ~u.callback,
           NEW refused \in BOOLEAN, connect(u, refused), wanted' # "down"
    PROVE  Word'
<1> DEFINE h == hideStatus(u)
           g == [h EXCEPT !.panel = FALSE]
           shut == updateVisualState(g, "connecting")
<1>0. Inv'
  BY ConnectKeeps DEF Word
<1>1. u.rfb = None /\ u.connected = FALSE
  BY DEF Word, Tidy, Inv, OneSession, Same
<1>2. h \in Page /\ Keep(u, h) /\ h.panel = u.panel
  BY StatusSame, StatusKeeps
<1>3. g \in Page /\ ~g.crashed /\ ~g.callback /\ ~g.panel /\ g.connected = FALSE
  <2> HIDE DEF h
  <2> QED BY <1>1, <1>2 DEF Page, Keep, Same, Tidy
<1>4. "connecting" \in Visuals /\ "disconnected" \in Visuals
  BY DEF Visuals
<1>5. /\ shut \in Page /\ shut.dialogs = {} /\ shut.barTimer = FALSE /\ ~shut.panel
      /\ ~shut.crashed /\ ~shut.callback /\ shut.connected = FALSE
  <2> HIDE DEF g
  <2> QED BY <1>3, <1>4, VisualState, VisualWord
<1>6. NoHeld'
  BY DEF NoHeld
<1>7. CASE ~u.host
  <2>1. ui' = showStatus(h, "error") /\ conn' = conn
    BY <1>1, <1>7 DEF connect
  <2>2. Tidy(h) /\ Offers(h)
    BY <1>2, KeepTidy
  <2> HIDE DEF h
  <2>3. Keep(h, ui') /\ ui'.panel = h.panel
    BY <1>2, <2>1, StatusKeeps
  <2>4. Tidy(ui') /\ Offers(ui')
    BY <2>2, <2>3, KeepTidy
  <2> QED BY <1>0, <1>6, <2>1, <2>4 DEF Word
<1>8. CASE u.host /\ refused
  <2> DEFINE p == updateVisualState(shut, "disconnected")
             q == showStatus(p, "error")
  <2>1. ui' = [q EXCEPT !.refused = TRUE] /\ conn' = conn
    BY <1>1, <1>8 DEF connect
  <2> HIDE DEF shut
  <2>2. /\ p \in Page /\ p.dialogs = {} /\ p.barTimer = FALSE /\ ~p.panel
        /\ ~p.crashed /\ ~p.callback
    BY <1>4, <1>5, VisualState, VisualWord
  <2> HIDE DEF p
  <2>3. q \in Page /\ Keep(p, q) /\ q.panel = p.panel
    BY <2>2, StatusSame, StatusKeeps
  <2> HIDE DEF q
  <2>4. /\ ui'.dialogs = {} /\ ui'.barTimer = FALSE /\ ~ui'.panel
        /\ ~ui'.crashed /\ ~ui'.callback /\ ui'.refused
    BY <2>1, <2>2, <2>3 DEF Page, Keep
  <2>5. Tidy(ui') /\ Offers(ui')
    BY <2>4 DEF Tidy, Offers
  <2> QED BY <1>0, <1>6, <2>1, <2>5 DEF Word
<1>9. CASE u.host /\ ~refused
  <2> DEFINE n == made + 1
             d == _updateConnectionState(NewRfb, "connecting")
  <2>1. /\ made < MaxConnects /\ conn' = [conn EXCEPT ![n] = d]
        /\ ui' = [shut EXCEPT !.rfb = n]
    BY <1>1, <1>9 DEF connect
  <2>2. n \in Ids /\ n # None /\ conn \in [Ids -> Rfb]
    BY <2>1, BoundsAssumption DEF Ids, None, Word, Inv, TypeOK
  <2>3. Awaited(d)
    BY DEF _updateConnectionState, ClearDisconnTimer, Proper, NewRfb, Awaited
  <2> HIDE DEF n, d, shut
  <2>4. /\ ui'.rfb = n /\ ui'.dialogs = {} /\ ~ui'.panel /\ ~ui'.crashed /\ ~ui'.callback
    BY <1>5, <2>1 DEF Page
  <2>5. Tidy(ui') /\ Offers(ui')
    BY <2>2, <2>4 DEF Tidy, Offers
  <2>6. \A j \in Ids : Awaited(conn'[j])
    BY <2>1, <2>2, <2>3 DEF Word
  <2> QED BY <1>0, <1>6, <2>5, <2>6 DEF Word
<1> QED BY <1>7, <1>8, <1>9

\* UI.disconnect leaves an object with its timer running and a page that inhibits
\* reconnecting.
LEMMA LeaveWord ==
    ASSUME Word, NEW u \in Page, Same(ui, u), Tidy(u), ui.rfb # None, Leave(u)
    PROVE  Word'
<1> DEFINE i == ui.rfb
           e == _updateConnectionState(conn[i], "disconnecting")
           d == RfbDisconnect(conn[i])
           v == [u EXCEPT !.connected = FALSE, !.inhibit = TRUE]
<1>0. Inv'
  BY LeaveKeeps DEF Word
<1>1. i \in Ids /\ conn \in [Ids -> Rfb] /\ conn[i] \in Rfb /\ Awaited(conn[i])
  BY DEF Word, Inv, TypeOK, Page
<1>2. conn[i].state \in {"connecting", "connected", "disconnecting"}
  BY <1>1 DEF Word, Inv, OneSession, Live
<1>3. e \in Rfb /\ e.state = "disconnecting" /\ Awaited(e)
  BY <1>1, <1>2, Disconnecting, UpdateAwaited
<1>4. d.state = "disconnecting" /\ Awaited(d)
  <2>1. d = [e EXCEPT !.on = e.on \ {"open", "message"}]
    BY DEF RfbDisconnect
  <2> HIDE DEF e, d
  <2> QED BY <1>3, <2>1 DEF Rfb, Awaited
<1>5. v \in Page /\ v.rfb = i /\ v.inhibit /\ ~v.crashed /\ ~v.panel /\ ~v.callback
  BY DEF Page, Same, Tidy
<1>6. /\ conn' = [conn EXCEPT ![i] = d]
      /\ ui' = updateVisualState(v, "disconnecting")
  BY DEF Leave, UiDisconnect, Same
<1>7. /\ ui'.rfb = i /\ ui'.dialogs = {} /\ ui'.inhibit
      /\ ~ui'.crashed /\ ~ui'.panel /\ ~ui'.callback
  <2>1. "disconnecting" \in Visuals
    BY DEF Visuals
  <2> HIDE DEF v, i
  <2> QED BY <1>5, <1>6, <2>1, VisualState, VisualWord
<1> HIDE DEF d, v, e
<1>8. \A j \in Ids : conn'[j] = IF j = i THEN d ELSE conn[j]
  BY <1>1, <1>6
<1>9. NoHeld'
  BY <1>1, <1>4, <1>7, <1>8 DEF NoHeld
<1>10. Tidy(ui') /\ Offers(ui')
  BY <1>7 DEF Tidy, Offers
<1>11. \A j \in Ids : Awaited(conn'[j])
  BY <1>4, <1>8 DEF Word
<1> QED BY <1>0, <1>9, <1>10, <1>11 DEF Word

\* No click and no timer of the page breaks the word.
LEMMA UiWord ==
    ASSUME Word, UiNext
    PROVE  Word'
<1>0. Inv'
  BY UiKeeps DEF Word
<1>1. conn \in [Ids -> Rfb] /\ made \in Nat /\ ui \in Page /\ Tidy(ui) /\ Offers(ui)
  BY DEF Word, Inv, TypeOK
<1>2. ASSUME NEW kind
      PROVE  LET v == [ui EXCEPT !.dialogs = Shut(kind)]
             IN  /\ v \in Page /\ Same(ui, v) /\ Tidy(v) /\ Offers(v)
                 /\ v.rfb = ui.rfb /\ v.inhibit = ui.inhibit /\ v.callback = ui.callback
  <2>1. Shut(kind) \subseteq ui.dialogs
    BY DEF Shut
  <2>2. Shut(kind) \in SUBSET Dialogs
    BY <1>1, <2>1 DEF Page
  <2> QED BY <1>1, <2>1, <2>2 DEF Page, Same, Tidy, Offers
<1>3. ASSUME conn' = conn, wanted' = wanted, ui'.rfb = ui.rfb, ui'.inhibit = ui.inhibit,
             ui'.callback => ui.callback, Tidy(ui'), Offers(ui')
      PROVE  Word'
  BY <1>0, <1>3, SilentWord DEF Word
<1>4. ASSUME NEW r \in BOOLEAN, ConnectClicked(r) PROVE Word'
  <2>1. Same(ui, ui) /\ ui.panel /\ ~ui.callback /\ wanted' # "down" /\ connect(ui, r)
    BY <1>1, <1>4 DEF Same, Tidy, ConnectClicked, Click
  <2> QED BY <1>1, <2>1, ConnectWord
<1>5. ASSUME NEW r \in BOOLEAN, reconnect(r) PROVE Word'
  <2> DEFINE u == [ui EXCEPT !.callback = FALSE]
  <2>1. u \in Page /\ Same(ui, u) /\ Tidy(u) /\ Offers(u) /\ ~u.callback
    BY <1>1 DEF Page, Same, Tidy, Offers
  <2>2. ui.callback /\ wanted # "down" /\ wanted' = wanted
    BY <1>5 DEF reconnect, Click, Word, NoHeld
  <2>3. (ui' = u /\ conn' = conn) \/ connect(u, r)
    BY <1>5 DEF reconnect
  <2> HIDE DEF u
  <2>4. CASE ui' = u /\ conn' = conn
    BY <1>0, <2>1, <2>2, <2>4 DEF Word, NoHeld
  <2>5. CASE connect(u, r)
    BY <2>1, <2>2, <2>5, ConnectWord
  <2> QED BY <2>3, <2>4, <2>5
<1>6. CASE cancelReconnect
  <2> DEFINE u == [ui EXCEPT !.callback = FALSE]
             p == updateVisualState(u, "disconnected")
  <2>1. u \in Page /\ ~u.callback /\ ~u.crashed /\ u.connected = ui.connected
    BY <1>1 DEF Page, Tidy
  <2>2. "disconnected" \in Visuals
    BY DEF Visuals
  <2>3. ui' = OpenPanel(p) /\ ui.visual = "reconnecting" /\ conn' = conn
    BY <1>6 DEF cancelReconnect
  <2>4. ui.connected = FALSE
    BY <2>3 DEF Word, Inv, OneSession
  <2> HIDE DEF u
  <2>5. /\ p \in Page /\ p.dialogs = {} /\ p.barTimer = FALSE /\ ~p.callback /\ ~p.crashed
        /\ p.visual = "disconnected"
    BY <2>1, <2>2, <2>4, VisualState, VisualWord
  <2> HIDE DEF p
  <2>6. Keep(p, ui') /\ ui'.panel
    BY <2>3, <2>5, StatusKeeps
  <2>7. /\ ui'.dialogs = {} /\ ui'.barTimer = FALSE /\ ~ui'.callback /\ ~ui'.crashed
        /\ ui'.visual = "disconnected"
    BY <2>5, <2>6 DEF Keep, Same
  <2>8. ui'.rfb = None
    <3>1. SUFFICES ASSUME ui'.rfb # None PROVE FALSE
      OBVIOUS
    <3>2. ui'.rfb \in Ids /\ ui'.visual = conn[ui'.rfb].state
      BY <1>0, <2>3, <3>1 DEF Inv, TypeOK, Page, OneSession
    <3>3. conn'[ui'.rfb].state \in {"connecting", "connected", "disconnecting"}
      BY <1>0, <3>2 DEF Inv, OneSession, Live
    <3> QED BY <2>3, <2>7, <3>2, <3>3
  <2>9. NoHeld' /\ Tidy(ui') /\ Offers(ui')
    BY <2>6, <2>7, <2>8 DEF NoHeld, Tidy, Offers
  <2> QED BY <1>0, <2>3, <2>9 DEF Word
<1>7. CASE disconnect
  <2>1. ui.rfb # None /\ Same(ui, ui) /\ Leave(ui)
    BY <1>7 DEF disconnect, Word, Inv, OneSession, Same
  <2> QED BY <1>1, <2>1, LeaveWord
<1>8. CASE rejectServer
  <2> DEFINE u == [ui EXCEPT !.dialogs = Shut("verify")]
  <2>1. \/ ui.rfb = None /\ ui' = u /\ conn' = conn /\ wanted' = wanted
        \/ ui.rfb # None /\ Leave(u)
    BY <1>8 DEF rejectServer, Click
  <2>2. /\ u \in Page /\ Same(ui, u) /\ Tidy(u) /\ Offers(u)
        /\ u.rfb = ui.rfb /\ u.inhibit = ui.inhibit /\ u.callback = ui.callback
    BY <1>2
  <2> HIDE DEF u
  <2> QED BY <1>3, <2>1, <2>2, LeaveWord
<1>9. CASE approveServer
  <2> DEFINE w(j) == [conn[j] EXCEPT !.waits = ""]
  <2>1. /\ ui' = [ui EXCEPT !.dialogs = Shut("verify")] /\ wanted' = wanted
        /\ conn' = [j \in Ids |-> IF j = ui.rfb /\ conn[j].waits = "approval"
                                  THEN w(j) ELSE conn[j]]
    BY <1>9 DEF approveServer, Click
  <2>2. \A j \in Ids : w(j).state = conn[j].state /\ Awaited(w(j))
    <3>1. ASSUME NEW c \in Rfb, Awaited(c)
          PROVE  LET x == [c EXCEPT !.waits = ""] IN x.state = c.state /\ Awaited(x)
      BY <3>1 DEF Rfb, Awaited
    <3>2. \A j \in Ids : conn[j] \in Rfb /\ Awaited(conn[j])
      BY <1>1 DEF Word
    <3> HIDE DEF w
    <3>3. TAKE j \in Ids
    <3>4. conn[j] \in Rfb /\ Awaited(conn[j])
      BY <3>2
    <3> QED BY <3>1, <3>4 DEF w
  <2> HIDE DEF w
  <2>3. \A j \in Ids : conn'[j].state = conn[j].state /\ Awaited(conn'[j])
    BY <2>1, <2>2 DEF Word
  <2> QED BY <1>0, <1>2, <2>1, <2>3, SilentWord
<1>10. CASE setCredentials
  <2> DEFINE i == ui.rfb
             d == [conn[i] EXCEPT !.resume = TRUE]
  <2>1. /\ conn' = [conn EXCEPT ![i] = d] /\ i \in Ids
        /\ ui' = [ui EXCEPT !.dialogs = Shut("credentials")] /\ wanted' = wanted
    BY <1>1, <1>10 DEF setCredentials, Page, Click
  <2>2. d.state = conn[i].state /\ Awaited(d)
    <3>1. conn[i] \in Rfb /\ Awaited(conn[i])
      BY <1>1, <2>1 DEF Word
    <3> HIDE DEF i
    <3> QED BY <3>1 DEF Rfb, Awaited
  <2> HIDE DEF i, d
  <2>3. \A j \in Ids : conn'[j].state = conn[j].state /\ Awaited(conn'[j])
    BY <1>1, <2>1, <2>2 DEF Word
  <2> QED BY <1>0, <1>2, <2>1, <2>3, SilentWord
<1>11. CASE closeControlbar
  <2>1. /\ ui' = [ui EXCEPT !.barTimer = FALSE, !.bar = FALSE, !.crashed = ui.rfb = None]
        /\ conn' = conn /\ wanted' = wanted /\ ui.barTimer
    BY <1>11 DEF closeControlbar
  <2>2. /\ ui'.rfb = ui.rfb /\ ui'.inhibit = ui.inhibit /\ ui'.callback = ui.callback
        /\ ui'.dialogs = ui.dialogs /\ ui'.late = ui.late /\ ui'.panel = ui.panel
        /\ ui'.visual = ui.visual /\ ui'.refused = ui.refused /\ ui'.barTimer = FALSE
    BY <1>1, <2>1 DEF Page
  <2>3. ui'.crashed = (ui.rfb = None)
    BY <1>1, <2>1 DEF Page
  <2>4. ~ui'.crashed
    BY <1>1, <2>1, <2>3 DEF Tidy
  <2>5. Tidy(ui') /\ Offers(ui')
    BY <1>1, <2>2, <2>4 DEF Tidy, Offers
  <2> QED BY <1>3, <2>1, <2>2, <2>5
<1>12. CASE StatusTimeout
  <2>1. ui' = hideStatus(ui) /\ conn' = conn /\ wanted' = wanted
    BY <1>12 DEF StatusTimeout
  <2>2. Keep(ui, ui') /\ ui'.panel = ui.panel
    BY <1>1, <2>1, StatusKeeps
  <2>3. Tidy(ui') /\ Offers(ui')
    BY <1>1, <2>2, KeepTidy
  <2> QED BY <1>3, <2>1, <2>2, <2>3 DEF Keep, Same
<1>13. CASE ChangeSetting
  <2>1. \/ ui' = [ui EXCEPT !.reconnect = ~ui.reconnect]
        \/ ui' = [ui EXCEPT !.host = ~ui.host]
    BY <1>13 DEF ChangeSetting
  <2>2. Keep(ui, ui') /\ ui'.panel = ui.panel
    BY <1>1, <2>1 DEF Page, Keep, Same
  <2>3. Tidy(ui') /\ Offers(ui')
    BY <1>1, <2>2, KeepTidy
  <2>4. conn' = conn /\ wanted' = wanted
    BY <1>13 DEF ChangeSetting, Click
  <2> QED BY <1>3, <2>2, <2>3, <2>4 DEF Keep, Same
<1> QED BY <1>4, <1>5, <1>6, <1>7, <1>8, <1>9, <1>10, <1>11, <1>12, <1>13 DEF UiNext

\* A page just opened has nobody's no to hold.
LEMMA InitWord == Init => Word
<1> SUFFICES ASSUME NEW auto \in BOOLEAN, NEW r \in BOOLEAN, Start(auto, NewPage(r)), Init
             PROVE  Word
  BY DEF Init
<1> DEFINE first == _updateConnectionState(NewRfb, "connecting")
           page == NewPage(r)
<1>0. Inv
  BY InitAgrees
<1>1. Awaited(NewRfb) /\ Awaited(first)
  BY DEF _updateConnectionState, ClearDisconnTimer, Proper, NewRfb, Awaited
<1>2. /\ page \in Page /\ page.rfb = None /\ page.connected = FALSE
      /\ page.dialogs = {} /\ ~page.crashed /\ ~page.barTimer /\ ~page.callback /\ ~page.panel
  BY DEF NewPage, Page, Visuals
<1>3. 1 \in Ids /\ None # 1
  BY BoundsAssumption DEF Ids, None
<1> HIDE DEF first, page
<1>4. CASE auto
  <2> DEFINE p == updateVisualState(page, "connecting")
  <2>1. /\ conn = [j \in Ids |-> IF j = 1 THEN first ELSE NewRfb]
        /\ ui = [p EXCEPT !.rfb = 1] /\ wanted = "up"
    BY <1>4 DEF Start, first, page
  <2>2. "connecting" \in Visuals
    BY DEF Visuals
  <2>3. p \in Page /\ p.dialogs = {} /\ ~p.crashed /\ ~p.panel /\ ~p.callback
    BY <1>2, <2>2, VisualState, VisualWord
  <2> HIDE DEF p
  <2>4. ui.rfb = 1 /\ ui.dialogs = {} /\ ~ui.crashed /\ ~ui.panel /\ ~ui.callback
    BY <2>1, <2>3 DEF Page
  <2>5. NoHeld /\ Tidy(ui) /\ Offers(ui)
    BY <1>3, <2>1, <2>4 DEF NoHeld, Tidy, Offers
  <2>6. \A j \in Ids : Awaited(conn[j])
    BY <1>1, <2>1
  <2> QED BY <1>0, <2>5, <2>6 DEF Word
<1>5. CASE ~auto
  <2>1. conn = [j \in Ids |-> NewRfb] /\ ui = [page EXCEPT !.panel = TRUE]
    BY <1>5 DEF Start, page
  <2>2. /\ ui.rfb = None /\ ui.dialogs = {} /\ ~ui.crashed /\ ~ui.barTimer
        /\ ~ui.callback /\ ui.panel
    BY <1>2, <2>1 DEF Page
  <2>3. NoHeld /\ Tidy(ui) /\ Offers(ui)
    BY <2>2 DEF NoHeld, Tidy, Offers
  <2>4. \A j \in Ids : Awaited(conn[j])
    BY <1>1, <2>1
  <2> QED BY <1>0, <2>3, <2>4 DEF Word
<1> QED BY <1>4, <1>5

\* The user's last word stands against every order of sockets, timers, promises
\* and clicks: after a disconnect, a rejected server or a cancelled reconnection
\* nothing connects again, a dialog is about the connection there is unless it
\* was opened when its connection had already gone, and the page always has a connection that can end, or an offer to make or cancel one.
THEOREM WordStands == Spec => []PageObeys
<1>1. Init => Word
  BY InitWord
<1>2. Word /\ [Next]_vars => Word'
  <2> SUFFICES ASSUME Word, [Next]_vars PROVE Word'
    OBVIOUS
  <2>1. CASE Next
    BY <2>1, UiWord, RfbWord DEF Next
  <2>2. CASE UNCHANGED vars
    <3>1. Inv'
      BY <2>2 DEF Word, Inv, TypeOK, OneSession, Live, vars
    <3> QED BY <2>2, <3>1 DEF Word, NoHeld, vars
  <2> QED BY <2>1, <2>2
<1>3. Word => PageObeys
  <2> SUFFICES ASSUME Word PROVE PageObeys
    OBVIOUS
  <2>1. UserObeyed
    BY DEF Word, NoHeld, Tidy, UserObeyed
  <2>2. NoDeadEnd
    <3>1. CASE ui.rfb = None
      BY <3>1 DEF Word, Offers, NoDeadEnd
    <3>2. CASE ui.rfb # None
      <4>1. ui.rfb \in Ids
        BY <3>2 DEF Word, Inv, TypeOK, Page
      <4>2. conn[ui.rfb].state \in {"connecting", "connected", "disconnecting"}
        BY <4>1 DEF Word, Inv, OneSession, Live
      <4>3. Awaited(conn[ui.rfb])
        BY <4>1 DEF Word
      <4> QED BY <3>2, <4>2, <4>3 DEF Awaited, NoDeadEnd
    <3> QED BY <3>1, <3>2
  <2> QED BY <2>1, <2>2 DEF PageObeys
<1> QED BY <1>1, <1>2, <1>3, PTL DEF Spec
=============================================================================
