------------------------------ MODULE MCNovnc ------------------------------
(***************************************************************************)
(* The console page in the browser, for TLC.  A behaviour exercises one of *)
(* its parts, chosen at the start: the session and its page, the picture,  *)
(* the framing of the protocol, the handshake, the view, the WebSocket's   *)
(* queues, the keyboard, the pointer, the drawn cursor, the text field of  *)
(* the virtual keyboard, the control bar.  The variables of the parts that *)
(* do not run are Off (those of the session: at rest); parts share the      *)
(* variables they name alike.                                              *)
(***************************************************************************)
EXTENDS NovncSession, TLC

CONSTANTS
    Widths, Windows, Rects, MaxRects, MaxUpdates, MaxPanning,
    Sizes, MaxResizes,
    RQSize, MaxRQ, SQSize, Lengths, Pastes, MaxIn, MaxOut,
    Keys, Platforms, MaxPresses,
    Fingers, Buttons, MaxTouches,
    Hots, MaxMoves,
    Chars, DefaultKeyboardinputLen, MaxEdits,
    MaxClicks

VARIABLES
    part,
    d, fbu, flushing, continuous, clip, window, sent, ref, apart,
    wire, asked,
    c, meant,
    h, server,
    v, win, reqs, missed,
    rq, taken, came, sq, pushed, odd,
    k, phys, mute, focus, unheard, caps, leds,
    events, excuse,
    g, m, down, on, solo, lost,
    cap,
    cur, at, recheck, fresh, heard, emulated,
    held,
    field, last, rfb, remote, want, gap,
    u, set, fate

Picture == INSTANCE NovncUpdates WITH MaxUser <- MaxPanning
Streaming == INSTANCE NovncFraming WITH Streams <- {}
Frame == INSTANCE NovncFraming WITH Streams <- Streaming!AllStreams
Scripts == INSTANCE NovncHandshake WITH Servers <- {}
Auth == INSTANCE NovncHandshake WITH Servers <- Scripts!AllServers
View == INSTANCE NovncView WITH MaxUser <- MaxResizes
Socket == INSTANCE NovncSocket
Keyboard == INSTANCE NovncKeyboard WITH MaxEvents <- MaxPresses
Pointer == INSTANCE NovncPointer WITH MaxEvents <- MaxTouches
Cursor == INSTANCE NovncCursor WITH MaxUser <- MaxMoves
Text == INSTANCE NovncText WITH MaxUser <- MaxEdits
Controls == INSTANCE NovncControls WITH MaxUser <- MaxClicks

sessionVars == <<conn, made, ui, wanted>>
pictureVars == <<d, fbu, flushing, continuous, clip, window, sent, ref, apart>>
frameVars == <<c, meant>>
authVars == <<h, server>>
viewVars == <<v, win, reqs, missed>>
socketVars == <<rq, taken, came, sq, pushed, odd>>
keyboardVars == <<k, phys, mute, focus, unheard, caps, leds>>
pointerVars == <<g, m, down, on, solo, lost>>
cursorVars == <<cur, at, recheck, fresh, heard, emulated>>
textVars == <<field, last, rfb, remote, want, gap>>
controlsVars == <<u, set, fate>>
all == <<part, user, wire, asked, events, excuse, cap, held,
         sessionVars, pictureVars, frameVars, authVars, viewVars, socketVars,
         keyboardVars, pointerVars, cursorVars, textVars, controlsVars>>

Off == 0
Runs(p) == part = p

MCInit ==
    /\ part \in {"session", "picture", "frame", "auth", "view", "socket",
                 "keyboard", "pointer", "cursor", "text", "controls"}
    /\ Init /\ (~Runs("session") => made = 0 /\ ~ui.reconnect)
    /\ IF Runs("picture") THEN Picture!Init
       ELSE /\ d = Off /\ fbu = Off /\ flushing = Off /\ continuous = Off /\ clip = Off
            /\ window = Off /\ sent = Off /\ ref = Off /\ apart = Off
    /\ IF Runs("frame") THEN Frame!Init ELSE c = Off /\ meant = Off
    /\ IF Runs("auth") THEN Auth!Init ELSE h = Off /\ server = Off
    /\ IF Runs("view") THEN View!Init ELSE v = Off /\ win = Off /\ reqs = Off /\ missed = Off
    /\ IF Runs("socket") THEN Socket!Init
       ELSE rq = Off /\ taken = Off /\ came = Off /\ sq = Off /\ pushed = Off /\ odd = Off
    /\ IF Runs("keyboard") THEN Keyboard!Init
       ELSE /\ k = Off /\ phys = Off /\ mute = Off /\ focus = Off /\ unheard = Off
            /\ caps = Off /\ leds = Off
    /\ IF Runs("pointer") THEN Pointer!Init
       ELSE g = Off /\ m = Off /\ down = Off /\ on = Off /\ solo = Off /\ lost = Off
    /\ IF Runs("cursor") THEN Cursor!Init
       ELSE cur = Off /\ at = Off /\ recheck = Off /\ fresh = Off /\ heard = Off /\ emulated = Off
    /\ IF Runs("text") THEN Text!Init
       ELSE /\ field = Off /\ last = Off /\ rfb = Off /\ remote = Off /\ want = Off
            /\ gap = Off
    /\ IF Runs("controls") THEN Controls!Init ELSE u = Off /\ set = Off /\ fate = Off
    /\ part \notin {"session", "picture", "view", "cursor", "text", "controls"} => user = Off
    /\ part \notin {"picture", "view"} => wire = Off /\ asked = Off
    /\ part \notin {"keyboard", "pointer"} => events = Off
    /\ part \notin {"keyboard", "pointer", "text"} => excuse = Off
    /\ part \notin {"pointer", "cursor"} => cap = Off
    /\ part \notin {"cursor", "controls"} => held = Off

\* What a part leaves alone: the variables of the others.
ButSession == <<part, wire, asked, events, excuse, cap, held, pictureVars, frameVars,
    authVars, viewVars, socketVars, keyboardVars, pointerVars, cursorVars, textVars, controlsVars>>
ButPicture == <<part, events, excuse, cap, held, sessionVars, frameVars,
    authVars, viewVars, socketVars, keyboardVars, pointerVars, cursorVars, textVars, controlsVars>>
ButFrame == <<part, user, wire, asked, events, excuse, cap, held, sessionVars, pictureVars,
    authVars, viewVars, socketVars, keyboardVars, pointerVars, cursorVars, textVars, controlsVars>>
ButAuth == <<part, user, wire, asked, events, excuse, cap, held, sessionVars, pictureVars,
    frameVars, viewVars, socketVars, keyboardVars, pointerVars, cursorVars, textVars, controlsVars>>
ButView == <<part, events, excuse, cap, held, sessionVars, pictureVars, frameVars,
    authVars, socketVars, keyboardVars, pointerVars, cursorVars, textVars, controlsVars>>
ButSocket == <<part, user, wire, asked, events, excuse, cap, held, sessionVars, pictureVars,
    frameVars, authVars, viewVars, keyboardVars, pointerVars, cursorVars, textVars, controlsVars>>
ButKeyboard == <<part, user, wire, asked, cap, held, sessionVars, pictureVars, frameVars,
    authVars, viewVars, socketVars, pointerVars, cursorVars, textVars, controlsVars>>
ButPointer == <<part, user, wire, asked, held, sessionVars, pictureVars, frameVars,
    authVars, viewVars, socketVars, keyboardVars, cursorVars, textVars, controlsVars>>
ButCursor == <<part, wire, asked, events, excuse, sessionVars, pictureVars, frameVars,
    authVars, viewVars, socketVars, keyboardVars, pointerVars, textVars, controlsVars>>
ButText == <<part, wire, asked, events, cap, held, sessionVars, pictureVars, frameVars,
    authVars, viewVars, socketVars, keyboardVars, pointerVars, cursorVars, controlsVars>>
ButControls == <<part, wire, asked, events, excuse, cap, sessionVars, pictureVars, frameVars,
    authVars, viewVars, socketVars, keyboardVars, pointerVars, cursorVars, textVars>>

MCNext ==
    \/ Runs("session") /\ Next /\ UNCHANGED ButSession
    \/ Runs("picture") /\ Picture!Next /\ UNCHANGED ButPicture
    \/ Runs("frame") /\ Frame!Next /\ UNCHANGED ButFrame
    \/ Runs("auth") /\ Auth!Next /\ UNCHANGED ButAuth
    \/ Runs("view") /\ View!Next /\ UNCHANGED ButView
    \/ Runs("socket") /\ Socket!Next /\ UNCHANGED ButSocket
    \/ Runs("keyboard") /\ Keyboard!Next /\ UNCHANGED ButKeyboard
    \/ Runs("pointer") /\ Pointer!Next /\ UNCHANGED ButPointer
    \/ Runs("cursor") /\ Cursor!Next /\ UNCHANGED ButCursor
    \/ Runs("text") /\ Text!Next /\ UNCHANGED ButText
    \/ Runs("controls") /\ Controls!Next /\ UNCHANGED ButControls

MCSpec == MCInit /\ [][MCNext]_all

-----------------------------------------------------------------------------
(* Values                                                                  *)

Rect(type, x, w) == [type |-> type, x |-> x, w |-> w]

\* A fill, an overlapping copy, a blit of a buffer and one from within a buffer,
\* an image, both ways to resize, and the end of an update of unknown length.
MCRects ==
    { Rect("fill", 0, 2) @@ [color |-> "a"],
      Rect("copy", 0, 1) @@ [oldX |-> 1],
      Rect("blit", 0, 1) @@ [buffer |-> <<"b">>, offset |-> 0],
      Rect("blit", 1, 1) @@ [buffer |-> <<"a", "b">>, offset |-> 1],
      Rect("img", 1, 1) @@ [color |-> "b", state |-> "new"],
      [type |-> "size", w |-> 1], [type |-> "size", w |-> 3], [type |-> "last"] }

Key(code, vk, location, symbols, platforms) ==
    [code |-> code, keyCode |-> vk, location |-> location, symbols |-> symbols,
     on |-> platforms, meta |-> code = "OSLeft", caps |-> code = "CapsLock",
     jp |-> code = "Backquote", shift |-> code = "ShiftLeft" \/ vk = 16,
     altgr |-> code = "AltRight", ctrl |-> code = "ControlLeft"]

\* On each platform the keys its special cases are about.
MCKeys ==
    { Key("ControlLeft", 0, 1, {"Control"}, {"windows", "other"}),
      Key("AltRight", 0, 2, {"Alt"}, {"windows"}),
      Key("ShiftLeft", 0, 1, {"Shift"}, {"windows"}),
      Key("", 16, 2, {"Shift"}, {"windows", "other"}),
      Key("OSLeft", 0, 1, {"OS"}, {"mac"}),
      Key("CapsLock", 0, 0, {"CapsLock"}, {"mac", "other"}),
      Key("KeyA", 0, 0, {"a", "A"}, {"mac", "other"}),
      Key("", 229, 0, {"b"}, {"other"}),
      Key("Backquote", 0, 0, {"Zenkaku"}, {"windows"}) }

FingersAlike == Permutations(Fingers)

-----------------------------------------------------------------------------
(* Properties                                                              *)

\* The browser shows the picture the server drew: rectangles take effect in
\* the order of the messages though images are decoded later, and nothing of
\* what the user sees is out of date.
PictureTrue ==
    Runs("picture") => Picture!PictureInOrder /\ Picture!NothingStale

\* The console never falls silent: an update is on its way, was asked for, or
\* will be asked for when the images are decoded.
NeverQuiet == Runs("picture") => Picture!NeverQuiet

\* Bytes become messages as the server meant them, however the network cuts
\* the stream, and the queues of the WebSocket keep both streams in order.
StreamDecoded ==
    /\ Runs("frame") => Frame!DecodedAsSent
    /\ Runs("socket") => Socket!StreamsKept

\* Every server's handshake comes to the end its protocol has for it.
HandshakeCompletes == Runs("auth") => Auth!HandshakeCompletes

\* Scaling, clipping, dragging and resizing agree with the settings, the
\* window and the remote screen.
ViewFollows == Runs("view") => View!ViewFollows

\* A key is down on the remote machine only while it is held.
KeysLifted == Runs("keyboard") => Keyboard!KeysLifted

\* The remote CapsLock follows the local one.
LockFollows == Runs("keyboard") => Keyboard!LockFollows

\* Every gesture that starts ends, and ends once.
GesturesEnd == Runs("pointer") => Pointer!GesturesEnd

\* The remote pointer is where the local one is, with the same buttons; the
\* drawn cursor is shown where the pointer is, and only over the screen.
PointerFollows ==
    /\ Runs("pointer") => Pointer!PointerFollows
    /\ Runs("cursor") => Cursor!CursorFollows

\* What is typed into the text field arrives.
TextFollows == Runs("text") => Text!TextFollows

\* The page never contradicts itself: panels, buttons, focus and settings.
ControlsCoherent == Runs("controls") => Controls!ControlsCoherent
=============================================================================
