---------------------------- MODULE NovncKeyboard ----------------------------
(***************************************************************************)
(* From a key under a finger to a key held on the remote machine:          *)
(* core/input/keyboard.js with core/input/util.js, the key part of         *)
(* core/rfb.js, and the modifier buttons of app/ui.js.  The keyboard and   *)
(* the browser, with the habits of each platform that the code works       *)
(* around, are the environment.                                            *)
(***************************************************************************)
EXTENDS Naturals, Sequences, FiniteSets, TLC

CONSTANTS
    Keys,        \* physical keys: what the browser reports for each
    Platforms,   \* subset of {"windows", "mac", "other"}
    MaxEvents    \* bound: what the user does

VARIABLES
    k,        \* the Keyboard object, what the RFB object knows, the remote keys
    phys,     \* keys under a finger
    mute,     \* of those, the keys whose release the system will not report
    focus,    \* what has the focus: the "canvas", another element of the "page",
              \* or, "away", another window
    unheard,  \* history: keys let go elsewhere on the page, none lifted since
    caps,     \* the local CapsLock
    leds,     \* LED reports of the server on their way
    events,   \* user events so far
    excuse    \* history: why a remote key may stay down or a lock differ

vars == <<k, phys, mute, focus, unheard, caps, leds, events, excuse>>

-----------------------------------------------------------------------------
(* core/input/util.js, with the part of its tables that Keys needs.        *)

vkeys == [vk \in {16, 17, 93} |-> CASE vk = 16 -> "ShiftLeft"
                                     [] vk = 17 -> "ControlLeft"
                                     [] vk = 93 -> "ContextMenu"]

RightOf == [c \in {"ShiftLeft", "ControlLeft", "AltLeft"} |->
              CASE c = "ShiftLeft" -> "ShiftRight"
                [] c = "ControlLeft" -> "ControlRight"
                [] c = "AltLeft" -> "AltRight"]

\* Symbols by location: the left or only key, the left one, the right one.
DOMKeyTable ==
    [n \in {"Shift", "Control", "Alt", "AltGraph", "Meta", "CapsLock", "Zenkaku"} |->
       CASE n = "Shift" -> <<"Shift_L", "Shift_L", "Shift_R">>
         [] n = "Control" -> <<"Control_L", "Control_L", "Control_R">>
         [] n = "Alt" -> <<"Alt_L", "Alt_L", "Alt_R">>
         [] n = "AltGraph" -> <<"ISO_Level3_Shift", "ISO_Level3_Shift", "ISO_Level3_Shift">>
         [] n = "Meta" -> <<"Super_L", "Super_L", "Super_R">>
         [] n = "CapsLock" -> <<"Caps_Lock", "Caps_Lock", "Caps_Lock">>
         [] n = "Zenkaku" -> <<"Zenkaku", "Zenkaku", "Zenkaku">>]

\* KeyboardEvent.code, or the code behind a legacy key number.
getKeycode(e, platform) ==
    LET code == IF e.keyCode \in DOMAIN vkeys THEN vkeys[e.keyCode] ELSE "Unidentified"
        mac == IF platform = "mac" /\ code = "ContextMenu" THEN "MetaRight" ELSE code
    IN  CASE e.code = "OSLeft" -> "MetaLeft"
          [] e.code = "OSRight" -> "MetaRight"
          [] e.code \notin {"", "OSLeft", "OSRight"} -> e.code
          [] e.code = "" -> IF e.location = 2 /\ mac \in DOMAIN RightOf
                            THEN RightOf[mac] ELSE mac

\* KeyboardEvent.key under its standard name.
getKey(e) == IF e.key = "OS" THEN "Meta" ELSE e.key

\* The symbol of a key; "" is none.  A key with no entry is a character.
getKeysym(e, platform) ==
    LET key == getKey(e)
        code == getKeycode(e, platform)
        location == IF key = "Meta" /\ e.location = 0 THEN 2 ELSE e.location
    IN  CASE key = "Unidentified" -> ""
          [] key = "Meta" /\ code = "AltLeft" -> "Meta_L"
          [] key = "Meta" /\ code = "AltRight" -> "Meta_R"
          [] key = "Zenkaku" /\ platform = "windows" -> "Zenkaku_Hankaku"
          [] OTHER -> IF key \in DOMAIN DOMKeyTable THEN DOMKeyTable[key][location + 1]
                      ELSE key

-----------------------------------------------------------------------------
(* core/rfb.js: what reaches the server.  A server that understands scan   *)
(* codes follows the key, any other follows the symbol.                    *)

Scancodes == {"ShiftLeft", "ShiftRight", "ControlLeft", "AltRight", "MetaLeft",
              "CapsLock", "KeyA", "Backquote"}

\* RFB.sendKey, and the server that holds and releases; the server's CapsLock
\* turns with each press of the key.
sendKey(s, keysym, code, down) ==
    LET id == IF s.qemu /\ code \in Scancodes THEN code ELSE keysym
        press == keysym = "Caps_Lock" /\ down
    IN  IF s.viewOnly \/ id = "" THEN s
        ELSE [s EXCEPT !.remote = IF down THEN @ \cup {id} ELSE @ \ {id},
                       !.truth = IF press THEN ~@ ELSE @,
                       !.turns = IF press THEN @ + 1 ELSE @]

\* history: a turn made to follow the local lock ended away from it, though no
\* report had been overtaken.
Judged(s, lock) ==
    [s EXCEPT !.spoiled = @ \/ (lock # "undefined" /\ ~s.stale /\ s.truth # (lock = "on"))]

\* Mutant: the remote state is taken to be the last one reported though a turn
\* was sent since.
HandleKeyEventStale(s, keysym, code, down, lock) ==
    LET own == IF code = "CapsLock" /\ down THEN [s EXCEPT !.known = "null"] ELSE s
        fix == own.known # "null" /\ lock # "null" /\ own.known # lock /\ down
        fixed == sendKey(sendKey(own, "Caps_Lock", "CapsLock", TRUE),
                         "Caps_Lock", "CapsLock", FALSE)
    IN  sendKey(IF fix THEN Judged(fixed, lock) ELSE own, keysym, code, down)

\* lock: the local CapsLock of the event, "null" on a release, "undefined"
\* when the caller passes none.  A known remote state that differs is
\* brought into line first, and is unknown until the server reports it.
_handleKeyEvent(s, keysym, code, down, lock) ==
    LET own == IF code = "CapsLock" /\ down THEN [s EXCEPT !.known = "null"] ELSE s
        fix == own.known # "null" /\ lock # "null" /\ own.known # lock /\ down
        fixed == [sendKey(sendKey(own, "Caps_Lock", "CapsLock", TRUE),
                          "Caps_Lock", "CapsLock", FALSE) EXCEPT !.known = "null"]
    IN  sendKey(IF fix THEN Judged(fixed, lock) ELSE own, keysym, code, down)

-----------------------------------------------------------------------------
(* core/input/keyboard.js                                                  *)

Without(list, code) == [c \in DOMAIN list \ {code} |-> list[c]]

_sendKeyEvent(s, keysym, code, down, lock) ==
    IF down
    THEN _handleKeyEvent([s EXCEPT !.list = (code :> keysym) @@ @], keysym, code, TRUE, lock)
    ELSE IF code \notin DOMAIN s.list THEN s
    ELSE _handleKeyEvent([s EXCEPT !.list = Without(@, code)], keysym, code, FALSE, "null")

Tap(s, keysym, code, lock) ==
    _sendKeyEvent(_sendKeyEvent(s, keysym, code, TRUE, lock), keysym, code, FALSE, lock)

\* The end of a suspected AltGr that was none.
CtrlAfterAll(s, lock) ==
    _sendKeyEvent([s EXCEPT !.armed = FALSE], "Control_L", "ControlLeft", TRUE, lock)

MacSymbol(keysym) ==
    CASE keysym = "Super_L" -> "Alt_L"
      [] keysym = "Super_R" -> "Super_L"
      [] keysym = "Alt_L" -> "Mode_switch"
      [] keysym = "Alt_R" -> "ISO_Level3_Shift"
      [] OTHER -> keysym

\* quick: less than 50 ms since the Control of a suspected AltGr.
_handleKeyDown(s, e, quick) ==
    LET code == getKeycode(e, s.platform)
        mac == s.platform = "mac"
        lock == e.caps
        altGr == s.armed /\ code = "AltRight" /\ quick
        t == IF altGr THEN [s EXCEPT !.armed = FALSE]
             ELSE IF s.armed THEN CtrlAfterAll(s, lock) ELSE s
        own == IF altGr THEN "ISO_Level3_Shift" ELSE getKeysym(e, s.platform)
        keysym == IF code \in DOMAIN t.list THEN t.list[code]
                  ELSE IF mac THEN MacSymbol(own) ELSE own
    IN  CASE code = "Unidentified" -> IF own = "" THEN t ELSE Tap(t, own, code, lock)
          [] code # "Unidentified" /\
             \/ mac /\ e.meta /\ code \notin {"MetaLeft", "MetaRight"}
             \/ s.platform = "windows" /\ keysym = "Zenkaku_Hankaku"
             -> Tap(t, keysym, code, lock)
          [] mac /\ ~e.meta /\ code = "CapsLock" -> Tap(t, "Caps_Lock", code, lock)
          [] OTHER -> IF code = "ControlLeft" /\ s.platform = "windows"
                         /\ code \notin DOMAIN t.list
                      THEN [t EXCEPT !.armed = TRUE]
                      ELSE _sendKeyEvent(t, keysym, code, TRUE, lock)

Up(s, code) ==
    IF code \in DOMAIN s.list THEN _sendKeyEvent(s, s.list[code], code, FALSE, "null") ELSE s

_handleKeyUp(s, e) ==
    LET code == getKeycode(e, s.platform)
        t == IF s.armed THEN CtrlAfterAll(s, "null") ELSE s
    IN  CASE s.platform = "mac" /\ code = "CapsLock" ->
               Tap(t, "Caps_Lock", "CapsLock", "null")
          [] s.platform = "windows" /\ code \in {"ShiftLeft", "ShiftRight"} ->
               Up(Up(Up(t, code), "ShiftRight"), "ShiftLeft")
          [] OTHER -> Up(t, code)

\* Mutant: the list is emptied before the releases are sent.
AllKeysForgotten(s) == [s EXCEPT !.list = <<>>]

\* Every listed key is released with the symbol it went down with; the order
\* makes no difference to the keys the server holds.
_allKeysUp(s) ==
    [s EXCEPT !.list = <<>>,
              !.remote = IF s.viewOnly THEN @
                         ELSE @ \ {IF s.qemu /\ c \in Scancodes THEN c ELSE s.list[c] :
                                   c \in DOMAIN s.list}]

\* rfb.viewOnly: set first, then the keyboard is let go or taken.
viewOnly(s, on) ==
    LET t == [s EXCEPT !.viewOnly = on, !.grabbed = ~on]
    IN  IF on THEN _allKeysUp(t) ELSE t

-----------------------------------------------------------------------------
(* The user, the browser and the server.                                   *)

Acts == events < MaxEvents /\ events' = events + 1

Event(key, symbol) ==
    [code |-> key.code, keyCode |-> key.keyCode, location |-> key.location,
     key |-> symbol, meta |-> \E p \in phys : p.meta,
     caps |-> IF caps THEN "on" ELSE "off"]

\* Keyboard.grab listens for keys on the canvas, for a blur on the window.
Hears == focus = "canvas" /\ k.grabbed

\* The handler leaves s; the server reports a CapsLock that turned.
Handled(s) ==
    /\ k' = s
    /\ leds' = IF s.turns # k.turns /\ s.leds
               THEN Append(leds, [on |-> IF s.truth THEN "on" ELSE "off", turn |-> s.turns])
               ELSE leds

\* A key goes down.  On Windows an AltGr is a Control and an Alt at once; on a
\* Mac a key pressed under Meta will not report its release, and CapsLock
\* reports a press when it turns on and a release when it turns off.
Press == \E key \in Keys, quick \in BOOLEAN : \E symbol \in key.symbols :
    /\ Acts /\ key \notin phys /\ k.platform \in key.on
    /\ quick => k.armed
    /\ LET e == Event(key, symbol)
           ctrl == [e EXCEPT !.code = "ControlLeft", !.key = "Control", !.location = 1]
           fake == key.altgr /\ k.platform = "windows" /\ ~k.armed
                   /\ "ControlLeft" \notin DOMAIN k.list
           off == k.platform = "mac" /\ key.caps /\ caps
           now == [e EXCEPT !.caps = IF key.caps = caps THEN "off" ELSE "on"]
       IN  Handled(IF ~Hears THEN k
                   ELSE IF fake THEN _handleKeyDown(_handleKeyDown(k, ctrl, FALSE), e, TRUE)
                   ELSE IF off THEN _handleKeyUp(k, now)
                   ELSE _handleKeyDown(k, now, quick))
    /\ caps' = (caps # key.caps)
    /\ phys' = phys \cup {key}
    /\ mute' = IF \/ k.platform = "mac" /\ (key.caps \/ (~key.meta /\ \E p \in phys : p.meta))
                  \/ k.platform = "windows" /\ key.jp
               THEN mute \cup {key} ELSE mute
    /\ UNCHANGED <<focus, unheard, excuse>>

\* A key goes up.  On Windows one Shift does not report while the other is
\* held, and the end of an AltGr is that of a Control and an Alt.
Release == \E key \in phys :
    /\ Acts
    /\ phys' = phys \ {key} /\ mute' = mute \ {key}
    /\ LET e == Event(key, "")
           ctrl == [e EXCEPT !.code = "ControlLeft"]
           silent == key \in mute \/
                     (k.platform = "windows" /\ key.shift /\ \E p \in phys' : p.shift)
       IN  Handled(IF ~Hears \/ silent THEN k
                   ELSE IF key.altgr /\ k.platform = "windows" /\ \A p \in phys : ~p.ctrl
                   THEN _handleKeyUp(_handleKeyUp(k, ctrl), e)
                   ELSE _handleKeyUp(k, e))
    /\ unheard' = IF focus = "page" /\ (k.list # <<>> \/ k.armed) THEN unheard \cup {key}
                  ELSE IF Hears THEN unheard \ {key} ELSE unheard
    /\ UNCHANGED <<focus, caps, excuse>>

\* A held key repeats.
Repeat == \E key \in phys \ mute : \E symbol \in key.symbols :
    /\ Acts /\ Hears /\ ~key.caps /\ ~key.jp /\ ~key.altgr
    /\ Handled(_handleKeyDown(k, Event(key, symbol), FALSE))
    /\ UNCHANGED <<phys, mute, focus, unheard, caps, excuse>>

\* The user goes to another element of the page, which nobody here hears of,
\* or back: a click on the canvas, or UI code that calls RFB.focus.
FocusElsewhere ==
    /\ Acts /\ focus = "canvas" /\ focus' = "page"
    /\ UNCHANGED <<k, phys, mute, unheard, caps, leds, excuse>>

_focusCanvas ==
    /\ Acts /\ focus = "page" /\ focus' = "canvas"
    /\ UNCHANGED <<k, phys, mute, unheard, caps, leds, excuse>>

\* The window loses the focus.  Keys let go elsewhere are not heard of.
Blur ==
    /\ Acts /\ focus # "away"
    /\ focus' = "away"
    /\ Handled(IF k.grabbed THEN _allKeysUp(k) ELSE k)
    /\ unheard' = IF k.grabbed THEN {} ELSE unheard
    /\ excuse' = IF k.armed THEN excuse \cup {"altgr"} ELSE excuse
    /\ UNCHANGED <<phys, mute, caps>>

WindowFocus ==
    /\ Acts /\ focus = "away"
    /\ focus' \in {"canvas", "page"}
    /\ UNCHANGED <<k, phys, mute, unheard, caps, leds, excuse>>

_handleAltGrTimeout ==
    /\ k.armed
    /\ Handled(CtrlAfterAll(k, "null"))
    /\ UNCHANGED <<phys, mute, focus, unheard, caps, events, excuse>>

updateViewOnly ==
    /\ Acts
    /\ Handled(viewOnly(k, ~k.viewOnly))
    /\ excuse' = excuse \cup (IF ~k.viewOnly /\ k.remote # {} THEN {"viewonly"} ELSE {})
                        \cup (IF k.armed THEN {"altgr"} ELSE {})
    /\ UNCHANGED <<phys, mute, focus, unheard, caps>>

\* The Ctrl button of the control bar holds the key until the next click.
toggleCtrl ==
    /\ Acts /\ ~k.viewOnly
    /\ Handled([sendKey(k, "Control_L", "ControlLeft", ~k.toggled) EXCEPT !.toggled = ~@])
    /\ UNCHANGED <<phys, mute, focus, unheard, caps, excuse>>

\* _handleGesture for a pinch: Control around the steps, without the locks.
Pinch ==
    /\ Acts /\ ~k.viewOnly
    /\ Handled(_handleKeyEvent(_handleKeyEvent(k, "Control_L", "ControlLeft", TRUE, "undefined"),
                               "Control_L", "ControlLeft", FALSE, "undefined"))
    /\ excuse' = IF k.known = "null" THEN excuse ELSE excuse \cup {"pinch"}
    /\ UNCHANGED <<phys, mute, focus, unheard, caps>>

_handleLedEvent ==
    /\ leds # <<>>
    /\ k' = [k EXCEPT !.known = Head(leds).on, !.stale = Head(leds).turn # k.turns]
    /\ leds' = Tail(leds)
    /\ UNCHANGED <<phys, mute, focus, unheard, caps, events, excuse>>

\* The server announces that it takes scan codes; a key held since before is
\* released under its code.
QemuSupported ==
    /\ ~k.qemu
    /\ k' = [k EXCEPT !.qemu = TRUE]
    /\ excuse' = IF k.remote = {} THEN excuse ELSE excuse \cup {"qemu"}
    /\ UNCHANGED <<phys, mute, focus, unheard, caps, leds, events>>

Init ==
    /\ \E p \in Platforms, l \in BOOLEAN :
         /\ k = [platform |-> p, list |-> <<>>, armed |-> FALSE, grabbed |-> TRUE,
                 viewOnly |-> FALSE, qemu |-> FALSE, toggled |-> FALSE,
                 remote |-> {}, truth |-> FALSE, turns |-> 0, known |-> "null",
                 stale |-> FALSE, spoiled |-> FALSE, leds |-> l]
         /\ leds = IF l THEN <<[on |-> "off", turn |-> 0]>> ELSE <<>>
    /\ phys = {} /\ mute = {} /\ focus = "canvas" /\ unheard = {} /\ caps \in BOOLEAN
    /\ events = 0 /\ excuse = {}

Next ==
    \/ Press
    \/ Release
    \/ Repeat
    \/ FocusElsewhere
    \/ _focusCanvas
    \/ Blur
    \/ WindowFocus
    \/ _handleAltGrTimeout
    \/ updateViewOnly
    \/ toggleCtrl
    \/ Pinch
    \/ _handleLedEvent
    \/ QemuSupported

Spec == Init /\ [][Next]_vars

-----------------------------------------------------------------------------
\* No key is left down on the remote machine.  When no key is held here, or
\* the window has lost the focus, the server holds none, on every platform and
\* whatever the system swallowed.  A key let go while another element of the
\* page has the focus is the first exception: keyup is heard on the canvas
\* only and nothing hears the canvas lose the focus, so the remote key stays
\* down until it is pressed again or the window loses the focus, which lifts
\* it too.  The others: view-only was switched on over held keys (their
\* releases are then suppressed), the window was left in the tenth of a second
\* in which a Control may become an AltGr, or the server changed to scan codes
\* over held keys.
KeysLifted ==
    /\ excuse \cap {"viewonly", "altgr", "qemu"} = {} /\ ~k.armed /\ ~k.toggled
       /\ (phys \cup unheard = {} \/ focus = "away") => k.remote = {}
    /\ DOMAIN k.list = {} \/ k.grabbed \/ "altgr" \in excuse

\* The remote CapsLock is turned only towards the local one: when a key press
\* finds the reported state different from the local lock, one press of
\* CapsLock is sent and no second before the server has reported again.  A
\* report overtaken by a press is the exception, and so is a pinch, which asks
\* for the comparison without a local state.
LockFollows == ~k.spoiled
=============================================================================
