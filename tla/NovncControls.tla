--------------------------- MODULE NovncControls ---------------------------
(***************************************************************************)
(* app/ui.js: the control bar with its handle and its timers, its panels,  *)
(* the buttons that depend on the session, the virtual keyboard, and one   *)
(* setting between its control, the cache of app/webutil.js, localStorage  *)
(* and the page's URL.  Layout is left out.                                *)
(***************************************************************************)
EXTENDS Naturals, FiniteSets

CONSTANT
    MaxUser     \* bound: what the user and the server do

VARIABLES
    u,         \* the page
    set,       \* the setting
    held,      \* the left button is held since it went down on the handle
    fate,      \* history: the handle was not let go since a handler threw or a
               \* release was not heard; view-only was switched in a session
    user       \* steps so far

vars == <<u, set, held, fate, user>>

Panels == {"settings", "power", "clipboard", "extra"}
Acts == user < MaxUser /\ user' = user + 1

-----------------------------------------------------------------------------
(* Panels and bar.                                                         *)

\* The focus moves: onfocusVirtualKeyboard and onblurVirtualKeyboard.
Focused(p, where) ==
    [p EXCEPT !.focus = where, !.kbd = (where = "field"),
              !.focusOnClick = IF p.rfb /\ "field" \in {p.focus, where}
                               THEN where # "field" ELSE @]

\* A click in the bar does not take the focus from the hidden text field.
keepVirtualKeyboard(p) == IF p.focus = "field" THEN p ELSE Focused(p, "bar")

closeAllPanels(p) == [p EXCEPT !.open = {}, !.selected = {}]
openControlbar(p) == [p EXCEPT !.bar = TRUE]
keepControlbar(p) == [p EXCEPT !.closing = FALSE]
activateControlbar(p) == [p EXCEPT !.idle = FALSE, !.idling = TRUE]

\* openSettingsPanel, openPowerPanel, openClipboardPanel, openExtraKeys
openPanel(p, n) ==
    [openControlbar(closeAllPanels(p)) EXCEPT !.open = {n}, !.selected = {n}]

closePanel(p, n) == [p EXCEPT !.open = @ \ {n}, !.selected = @ \ {n}]

togglePanel(p, n) == IF n \in p.open THEN closePanel(p, n) ELSE openPanel(p, n)

\* Does not fade while something in the bar has the focus.
idleControlbar(p) ==
    IF p.focus = "bar" THEN activateControlbar(p) ELSE [p EXCEPT !.idle = TRUE]

\* Ends with UI.rfb.focus(), which throws without a connection.
closeControlbar(p) ==
    LET shut == [closeAllPanels(p) EXCEPT !.bar = FALSE]
    IN  IF p.rfb THEN Focused(shut, "screen") ELSE [shut EXCEPT !.threw = TRUE]

toggleControlbar(p) == IF p.bar THEN closeControlbar(p) ELSE openControlbar(p)

updatePowerButton(p) ==
    IF p.connected /\ p.power /\ ~p.viewOnly THEN [p EXCEPT !.hidden = @ \ {"power"}]
    ELSE closePanel([p EXCEPT !.hidden = @ \cup {"power"}], "power")

updateViewOnly(p, on) ==
    IF ~p.rfb THEN p
    ELSE [p EXCEPT !.viewOnly = on,
                   !.hidden = IF on THEN @ \cup {"keyboard", "extra", "clipboard"}
                              ELSE @ \ {"keyboard", "extra", "clipboard"}]

\* Mutant: the timer that closes the bar is left running when the session ends.
VisualStateKeepsTimer(p) ==
    closeAllPanels(IF p.connected THEN [p EXCEPT !.closing = TRUE] ELSE updatePowerButton(p))

\* What updateVisualState does to the bar.
updateVisualState(p) ==
    closeAllPanels(IF p.connected THEN [p EXCEPT !.closing = TRUE]
                   ELSE keepControlbar(updatePowerButton(p)))

-----------------------------------------------------------------------------
(* The setting: a box.  A value is TRUE or FALSE, as itself or as text.    *)

Value(b, text) == [b |-> b, text |-> text]
None == [b |-> FALSE, text |-> "none"]

\* WebUtil.writeSetting: only a value that differs from the cached one is
\* written through.
writeSetting(s, b) ==
    IF s.cache = Value(b, "no") THEN s
    ELSE [s EXCEPT !.cache = Value(b, "no"), !.stored = Value(b, "yes")]

\* WebUtil.readSetting after a load of the page: cached on first use.
readSetting(s, default) ==
    IF s.stored = None THEN Value(default, "no") ELSE s.stored

updateSetting(s) == [s EXCEPT !.ctrl = s.cache.b]

\* initSetting: the URL's value is cached and not stored.
initSetting(s, default) ==
    updateSetting([s EXCEPT !.cache = IF s.url = None THEN readSetting(s, default) ELSE s.url])

\* saveSetting, on the control's change event.
saveSetting(s) == writeSetting(s, s.ctrl)

forceSetting(s, b) == [updateSetting([s EXCEPT !.cache = Value(b, "no")]) EXCEPT !.disabled = TRUE]
enableSetting(s) == [s EXCEPT !.disabled = FALSE]

-----------------------------------------------------------------------------
(* The steps.  A click in the bar goes with mouse events that keep it.     *)

Page(p) == u' = p /\ UNCHANGED fate
InBar(p) == activateControlbar(keepControlbar(p))

PanelButton == \E n \in Panels \ u.hidden :
    /\ Acts /\ u.bar /\ (u.connected \/ n = "settings")
    /\ Page(togglePanel(InBar(keepVirtualKeyboard(u)), n))
    /\ UNCHANGED <<set, held>>

\* sendKey hands the focus back and fades the bar.
ExtraKey ==
    /\ Acts /\ "extra" \in u.open
    /\ Page(IF u.rfb THEN idleControlbar(Focused(InBar(u), IF u.kbd THEN "field" ELSE "screen"))
            ELSE [InBar(u) EXCEPT !.threw = TRUE])
    /\ UNCHANGED <<set, held>>

toggleVirtualKeyboard ==
    /\ Acts /\ u.bar /\ u.connected /\ "keyboard" \notin u.hidden
    /\ Page(Focused(InBar(u), IF u.kbd THEN "none" ELSE "field"))
    /\ UNCHANGED <<set, held>>

\* keyInput on an emptied field: the focus leaves and a timer brings it back.
FieldEmptied ==
    /\ Acts /\ u.focus = "field" /\ u.rfb
    /\ Page(Focused([u EXCEPT !.refocus = TRUE], "none"))
    /\ UNCHANGED <<set, held>>

FocusTimeout ==
    /\ u.refocus
    /\ Page(Focused([u EXCEPT !.refocus = FALSE], "field"))
    /\ UNCHANGED <<set, held, user>>

ClickScreen ==
    /\ Acts /\ u.connected
    /\ Page(IF u.focusOnClick THEN Focused(u, "screen") ELSE u)
    /\ UNCHANGED <<set, held>>

\* The left button on the handle, which captures the mouse.
controlbarHandleMouseDown ==
    /\ Acts /\ ~held
    /\ held' = TRUE
    /\ Page(InBar([u EXCEPT !.captured = TRUE, !.grabbed = TRUE, !.dragged = FALSE,
                           !.hint = TRUE]))
    /\ UNCHANGED set

dragControlbarHandle ==
    /\ Acts /\ u.grabbed
    /\ \E side \in BOOLEAN :
         Page(InBar([u EXCEPT !.dragged = TRUE, !.hint = @ /\ ~side]))
    /\ UNCHANGED <<set, held>>

\* Another button goes down and up: the handle ignores both, but the release of
\* any button ends the capture.
OtherButton ==
    /\ Acts /\ u.captured
    /\ Page(activateControlbar([u EXCEPT !.captured = FALSE]))
    /\ UNCHANGED <<set, held>>

\* Mutant: a click that dragged nothing is the only one that ends the grab.
LetGoAfterClick(p) ==
    IF p.grabbed /\ ~p.dragged
    THEN [InBar(toggleControlbar(p)) EXCEPT !.grabbed = FALSE, !.hint = FALSE]
    ELSE p

\* A handler that throws in toggleControlbar never lets the handle go.
LetGo(p) ==
    LET t == IF p.grabbed /\ ~p.dragged THEN toggleControlbar(p) ELSE p
    IN  IF t.threw THEN t
        ELSE [IF p.grabbed /\ ~p.dragged THEN InBar(t) ELSE t
                EXCEPT !.grabbed = FALSE, !.hint = FALSE]

\* The left button goes up, over the handle or elsewhere; without the capture
\* the handle hears of it only in the first case.
controlbarHandleMouseUp ==
    /\ Acts /\ held
    /\ held' = FALSE
    /\ \E over \in BOOLEAN :
         IF over \/ u.captured
         THEN LET p == LetGo([u EXCEPT !.captured = FALSE])
              IN  /\ u' = [p EXCEPT !.threw = FALSE]
                  /\ fate' = IF p.threw THEN fate \cup {"stuck"} ELSE fate \ {"stuck"}
         ELSE u' = u /\ fate' = fate \cup {"stuck"}
    /\ UNCHANGED set

CloseTimeout ==
    /\ u.closing
    /\ Page(closeControlbar([u EXCEPT !.closing = FALSE]))
    /\ UNCHANGED <<set, held, user>>

IdleTimeout ==
    /\ u.idling
    /\ Page(idleControlbar([u EXCEPT !.idling = FALSE]))
    /\ UNCHANGED <<set, held, user>>

\* A session begins, with the view-only setting of the moment, and ends.
Connect ==
    /\ Acts /\ ~u.rfb
    /\ Page(updateViewOnly(updateVisualState([u EXCEPT !.rfb = TRUE, !.focusOnClick = TRUE,
                                                        !.viewOnly = FALSE]), u.wants))
    /\ UNCHANGED <<set, held>>

connectFinished ==
    /\ Acts /\ u.rfb /\ ~u.connected /\ ~u.ending
    /\ Page(Focused(updateVisualState([u EXCEPT !.connected = TRUE]), "screen"))
    /\ UNCHANGED <<set, held>>

\* UI.disconnect: the page has left the session, whose object is still there.
disconnect ==
    /\ Acts /\ u.rfb /\ ~u.ending
    /\ Page(updateVisualState([u EXCEPT !.connected = FALSE, !.ending = TRUE]))
    /\ UNCHANGED <<set, held>>

disconnectFinished ==
    /\ Acts /\ u.rfb
    /\ LET p == updateVisualState([u EXCEPT !.rfb = FALSE, !.connected = FALSE, !.ending = FALSE,
                                           !.power = FALSE,
                                           !.focus = IF @ = "screen" THEN "none" ELSE @])
       IN  Page(p) \/ Page(openControlbar(p))
    /\ UNCHANGED <<set, held>>

\* The "capabilities" event: the server offers power control.
Capabilities ==
    /\ Acts /\ u.connected /\ ~u.power
    /\ Page(updatePowerButton([u EXCEPT !.power = TRUE]))
    /\ UNCHANGED <<set, held>>

\* The view-only box of the settings panel.
ViewOnlyChanged ==
    /\ Acts /\ "settings" \in u.open
    /\ LET p == updateViewOnly([InBar(u) EXCEPT !.wants = ~@], ~u.wants)
       IN  /\ u' = p
           /\ fate' = IF u.rfb /\ u.power THEN fate \cup {"viewonly"} ELSE fate
    /\ UNCHANGED <<set, held>>

\* The box of the setting modelled, which another may force, and a reload.
SettingChanged ==
    /\ Acts /\ "settings" \in u.open /\ ~set.disabled
    /\ set' = saveSetting([set EXCEPT !.ctrl = ~@, !.chosen = Value(~set.ctrl, "no")])
    /\ Page(InBar(u))
    /\ UNCHANGED held

Force ==
    /\ Acts
    /\ set' = IF set.disabled THEN enableSetting(set) ELSE forceSetting(set, FALSE)
    /\ UNCHANGED <<u, held, fate>>

NewPage == [open |-> {}, selected |-> {}, bar |-> TRUE, closing |-> FALSE, idle |-> FALSE,
            idling |-> FALSE, focus |-> "none", kbd |-> FALSE, focusOnClick |-> TRUE,
            rfb |-> FALSE, connected |-> FALSE, ending |-> FALSE, power |-> FALSE,
            viewOnly |-> FALSE, wants |-> FALSE, hidden |-> {"power"}, captured |-> FALSE,
            grabbed |-> FALSE, dragged |-> FALSE, hint |-> FALSE, refocus |-> FALSE, threw |-> FALSE]

Reload ==
    /\ Acts
    /\ u' = [NewPage EXCEPT !.wants = u.wants]
    /\ set' = initSetting([set EXCEPT !.disabled = FALSE], FALSE)
    /\ held' = FALSE /\ fate' = {}

Init ==
    /\ u = NewPage /\ held = FALSE /\ fate = {} /\ user = 0
    /\ \E url \in {None, Value(TRUE, "yes"), Value(FALSE, "yes")},
          stored \in {None, Value(TRUE, "yes"), Value(FALSE, "yes")} :
         set = initSetting([cache |-> None, stored |-> stored, url |-> url, ctrl |-> FALSE,
                            disabled |-> FALSE, chosen |-> None], FALSE)

Next ==
    \/ PanelButton
    \/ ExtraKey
    \/ toggleVirtualKeyboard
    \/ FieldEmptied
    \/ FocusTimeout
    \/ ClickScreen
    \/ controlbarHandleMouseDown
    \/ dragControlbarHandle
    \/ OtherButton
    \/ controlbarHandleMouseUp
    \/ CloseTimeout
    \/ IdleTimeout
    \/ Connect
    \/ connectFinished
    \/ disconnect
    \/ disconnectFinished
    \/ Capabilities
    \/ ViewOnlyChanged
    \/ SettingChanged
    \/ Force
    \/ Reload

Spec == Init /\ [][Next]_vars

-----------------------------------------------------------------------------
\* The bar never contradicts itself or the session: at most one panel is open,
\* with its button marked, in an open bar; power control is offered in a
\* session that has it and is not view-only; the keyboard button tells whether
\* the text field has the focus, and clicks on the screen do not take it away
\* then; the timer that closes the bar never outlives the session whose screen
\* it gives the focus to; the handle is let go, and the mouse with it, when the
\* left button is; what the user chose last is what is stored, and the box
\* shows the value in use; and no other handler finds its session gone.
\* Exceptions, the first two until the handle is next
\* clicked: a handle click without a connection throws before the handle is
\* let go; the release of another button ends the capture of the mouse, and
\* the left one, let go elsewhere, leaves the handle following the mouse;
\* view-only switched during a session leaves the power button.
ControlsCoherent ==
    /\ Cardinality(u.open) <= 1 /\ u.selected = u.open
    /\ u.open # {} => u.bar
    /\ "power" \notin u.hidden /\ "viewonly" \notin fate => u.connected /\ u.power /\ ~u.viewOnly
    /\ "power" \in u.open => "power" \notin u.hidden
    /\ u.kbd = (u.focus = "field")
    /\ u.connected => u.focusOnClick = ~u.kbd
    /\ u.closing => u.connected
    /\ u.hint => u.grabbed
    /\ "stuck" \notin fate => u.grabbed = held
    /\ u.captured => held /\ u.grabbed
    /\ ~u.threw
    /\ set.chosen # None => set.stored.b = set.chosen.b
    /\ set.ctrl = set.cache.b
=============================================================================
