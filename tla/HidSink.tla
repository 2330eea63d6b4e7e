------------------------------- MODULE HidSink ------------------------------
(***************************************************************************)
(* Keyboard input of the three consoles: the RFB reader turns key events    *)
(* into reports, and a goroutine per clipboard text types it.  The AMI and  *)
(* iLO sinks keep the keys that are down and build a report under mu, which *)
(* they send after they have released it; the AMT sink keeps no state.      *)
(***************************************************************************)
EXTENDS Naturals, Sequences, FiniteSets

CONSTANTS
    Keys,      \* keys with a USB usage
    Mods,      \* keys with a modifier bit, among them Shift
    Shift,     \* the left Shift key, one of Mods
    Unmapped,  \* a key without either
    Slots,     \* keys in a report, 6
    Texts,     \* clipboard texts: sequences of [key, shift]
    Pastes,    \* goroutines of CutText
    MaxEvents  \* bound: events of the browser

VARIABLES
    backend,  \* the console: "ami", "ilo" or "amt"
    held,     \* the keys that are down in the browser
    mods,     \* HIDSink.mods
    pressed,  \* HIDSink.pressed
    out,      \* the report a goroutine has built and not sent
    paste,    \* what a goroutine of CutText has to type, and if a key is down
    target,   \* the keys that are down on the host
    latest,   \* the goroutine that built the newest report
    overtaken,\* whether the last report sent was not the newest one
    typed,    \* the keys that went down on the host since the last paste began
    alone,    \* the text of that paste, while nobody else sends
    events    \* events so far

vars == <<backend, held, mods, pressed, out, paste, target, latest, overtaken,
          typed, alone, events>>

Procs == Pastes \cup {"reader"}
NoReport == {"none"}
Idle == [todo |-> <<>>, down |-> FALSE]
Nobody == <<[key |-> Unmapped, shift |-> TRUE]>>
Chars == [key : Keys \cup {Unmapped}, shift : BOOLEAN]

\* The type of every variable of a sink.
TypeOK ==
    /\ backend \in {"ami", "ilo", "amt"}
    /\ held \subseteq Keys \cup Mods \cup {Unmapped}
    /\ mods \subseteq Mods
    /\ pressed \in Seq(Keys) /\ Len(pressed) <= Slots
    /\ out \in [Procs -> {NoReport} \cup SUBSET (Keys \cup Mods)]
    /\ paste \in [Pastes -> [todo : Seq(Chars), down : BOOLEAN]]
    /\ target \subseteq Keys \cup Mods
    /\ latest \in Procs /\ overtaken \in BOOLEAN
    /\ typed \in Seq(Chars) /\ alone \in Seq(Chars)
    /\ events \in 0..MaxEvents

Init ==
    /\ backend \in {"ami", "ilo", "amt"}
    /\ held = {} /\ mods = {} /\ pressed = <<>>
    /\ out = [p \in Procs |-> NoReport]
    /\ paste = [p \in Pastes |-> Idle]
    /\ target = {} /\ latest = "reader" /\ overtaken = FALSE
    /\ typed = <<>> /\ alone = Nobody /\ events = 0

-----------------------------------------------------------------------------
(* The host receives a report or, from the AMT sink, a key event.           *)

\* The order in which keys of one report go down does not matter here: a
\* typed report has one.  The keysym of an event can stand for the character
\* that is typed with Shift; a report only has the keys.
Arrive(down, upper) ==
    LET new == (down \ target) \cap Keys
    IN /\ target' = down
       /\ typed' = IF new = {} \/ alone = Nobody THEN typed
                   ELSE Append(typed, [key |-> CHOOSE k \in new : TRUE,
                                       shift |-> upper \/ Shift \in down])

-----------------------------------------------------------------------------
(* KeyEvent                                                                 *)

Range(s) == {s[k] : k \in DOMAIN s}

addKey(u) ==
    IF u \in Range(pressed) \/ Len(pressed) >= Slots THEN pressed ELSE Append(pressed, u)

removeKey(u) == SelectSeq(pressed, LAMBDA k : k # u)

\* Mutant: the report is of the keys before the event.
BuildFirst(p, k, down) ==
    /\ backend # "amt" /\ k # Unmapped
    /\ IF k \in Mods
       THEN /\ mods' = IF down THEN mods \cup {k} ELSE mods \ {k}
            /\ UNCHANGED pressed
       ELSE /\ pressed' = IF down THEN addKey(k) ELSE removeKey(k)
            /\ UNCHANGED mods
    /\ latest' = p
    /\ out' = [out EXCEPT ![p] = mods \cup Range(pressed)]
    /\ UNCHANGED <<target, typed, overtaken>>

\* KeyEvent until mu is released: the report is built.
Build(p, k, down) ==
    /\ backend # "amt" /\ k # Unmapped
    /\ IF k \in Mods
       THEN /\ mods' = IF down THEN mods \cup {k} ELSE mods \ {k}
            /\ UNCHANGED pressed
       ELSE /\ pressed' = IF down THEN addKey(k) ELSE removeKey(k)
            /\ UNCHANGED mods
    /\ latest' = p
    /\ out' = [out EXCEPT ![p] = mods' \cup Range(pressed')]
    /\ UNCHANGED <<target, typed, overtaken>>

\* A key that is not mapped: nothing is sent.
Ignore(k) ==
    /\ backend # "amt" /\ k = Unmapped
    /\ UNCHANGED <<mods, pressed, out, latest, overtaken, target, typed>>

\* The AMT sink passes the keysym on; the management engine types its character.
Forward(c, down) ==
    /\ backend = "amt"
    /\ IF c.key = Unmapped THEN UNCHANGED <<target, typed>>
       ELSE Arrive(IF down THEN target \cup {c.key} ELSE target \ {c.key}, c.shift)
    /\ UNCHANGED <<mods, pressed, out, latest, overtaken>>

\* The keysym of a character: usbUsage of the AMI and iLO sinks has the same
\* usage for a capital and a small letter, so a report does not have its case.
KeyEvent(p, c, down) == Build(p, c.key, down) \/ Ignore(c.key) \/ Forward(c, down)

\* SendHIDReport and Channel.Send: the report is written.
Send(p) ==
    /\ out[p] # NoReport
    /\ Arrive(out[p], FALSE)
    /\ out' = [out EXCEPT ![p] = NoReport]
    /\ overtaken' = (p # latest)
    /\ UNCHANGED <<backend, held, mods, pressed, paste, latest, alone, events>>

\* The RFB reader handles one message after the other; the AMT sink types a
\* text in the reader itself.
ReaderFree ==
    /\ out["reader"] = NoReport
    /\ backend = "amt" => \A p \in Pastes : paste[p] = Idle

Browser(k, down) ==
    /\ events < MaxEvents /\ ReaderFree
    /\ events' = events + 1
    /\ held' = IF down THEN held \cup {k} ELSE held \ {k}
    /\ KeyEvent("reader", [key |-> k, shift |-> FALSE], down)
    /\ alone' = Nobody
    /\ UNCHANGED <<backend, paste>>

Press == \E k \in Keys \cup Mods \cup {Unmapped} : Browser(k, TRUE)
Release == \E k \in held : Browser(k, FALSE)

-----------------------------------------------------------------------------
(* CutText                                                                  *)

\* No report waits to be sent and no text is being typed.
Quiet == \A p \in Procs : out[p] = NoReport /\ (p \in Pastes => paste[p] = Idle)

CutText ==
    /\ events < MaxEvents /\ ReaderFree /\ events' = events + 1
    /\ \E p \in Pastes, t \in Texts :
        /\ paste[p] = Idle /\ out[p] = NoReport
        /\ paste' = [paste EXCEPT ![p] = [todo |-> t, down |-> FALSE]]
        /\ alone' = IF Quiet /\ target \cup mods \cup Range(pressed) = {}
                    THEN t ELSE Nobody
    /\ typed' = <<>>
    /\ UNCHANGED <<backend, held, mods, pressed, out, target, latest, overtaken>>

Typing(p) == paste[p].todo # <<>> /\ out[p] = NoReport
Advance(p) ==
    paste' = [paste EXCEPT ![p] =
                IF @.down THEN [todo |-> Tail(@.todo), down |-> FALSE]
                ELSE [@ EXCEPT !.down = TRUE]]

\* Mutant: a character without a key ends the paste.
SkipRest(p) == paste' = [paste EXCEPT ![p] = Idle]

\* asciiToUsage knows no key for the character: it is left out.
Skip(p) == paste' = [paste EXCEPT ![p].todo = Tail(@)]

\* The AMI sink types with reports of its own: the key with or without Shift,
\* and after the delay one that releases everything.
TypeAmi(p) ==
    LET c == Head(paste[p].todo)
    IN IF c.key = Unmapped
       THEN Skip(p) /\ UNCHANGED <<target, typed>>
       ELSE /\ Advance(p)
            /\ Arrive(IF paste[p].down THEN {}
                      ELSE {c.key} \cup (IF c.shift THEN {Shift} ELSE {}), FALSE)

\* One step of a typing goroutine: the iLO and AMT sinks use KeyEvent.
Type(p) ==
    /\ Typing(p)
    /\ IF backend = "ami"
       THEN TypeAmi(p) /\ UNCHANGED <<mods, pressed, out, latest, overtaken>>
       ELSE Advance(p) /\ KeyEvent(p, Head(paste[p].todo), ~paste[p].down)
    /\ UNCHANGED <<backend, held, alone, events>>

Next ==
    \/ Press \/ Release \/ CutText
    \/ \E p \in Procs : Send(p)
    \/ \E p \in Pastes : Type(p)

-----------------------------------------------------------------------------
(* Properties                                                               *)

\* A report of the iLO sink was sent after one that is newer: KeyEvent of the
\* reader and of a paste send after they have released mu.
Overtaken == backend = "ilo" /\ overtaken

\* No key stays down: when every report is sent and no text is being typed, a
\* key that is down on the host is down in the browser, whatever was typed,
\* ignored or beyond the six keys of a report, unless the iLO sink sent its last
\* reports in the wrong order.
KeysReleased == Quiet /\ ~Overtaken => target \subseteq held

\* The iLO sink types a character that needs Shift: KeyEvent of its keysym
\* presses the key alone, so X arrives as x and ! as 1.
ShiftLost(c) == backend = "ilo" /\ c.shift

\* A text typed while nobody else sends arrives as the text: each character
\* that has a key goes down once and in order, also two equal ones, with Shift
\* if it needs Shift, but for the characters named above, which lose it.
TextTyped ==
    Quiet /\ alone # Nobody =>
        LET chars == SelectSeq(alone, LAMBDA c : c.key # Unmapped)
        IN /\ Len(typed) = Len(chars)
           /\ \A k \in DOMAIN chars :
                /\ typed[k].key = chars[k].key
                /\ typed[k].shift = chars[k].shift \/ ShiftLost(chars[k])
=============================================================================
