----------------------------- MODULE NovncText -----------------------------
(***************************************************************************)
(* app/ui.js: text from an on-screen keyboard.  Such keyboards edit a      *)
(* hidden text field instead of sending keys; keyInput compares the field  *)
(* with what it last held and sends backspaces and characters.  The field  *)
(* always holds some placeholder text for backspace to work on.            *)
(***************************************************************************)
EXTENDS Naturals, Sequences

CONSTANTS
    Chars,                     \* characters typed
    DefaultKeyboardinputLen,
    MaxUser                    \* bound: edits

VARIABLES
    field,     \* the value of the text field
    last,      \* UI.lastKeyboardinput
    rfb,       \* UI.rfb: "none"; "deaf" while it is not connected, or view-only; "up"
    remote,    \* the text before the cursor on the remote machine
    want,      \* history: the text the user means to be there, but for what was lost
    gap,       \* history: how much of the front of the field has lost edits in it
    excuse,    \* history
    user       \* edits so far

vars == <<field, last, rfb, remote, want, gap, excuse, user>>

Text(c, n) == [i \in 1..n |-> c]
Front(s, n) == SubSeq(s, 1, Len(s) - n)
Min2(a, b) == IF a < b THEN a ELSE b

-----------------------------------------------------------------------------
keyboardinputReset == Text("_", DefaultKeyboardinputLen - 1)

\* Mutant: only what the text is shorter by is erased.
SentShorter(old, new) ==
    LET differ == {i \in 1..Min2(Len(old), Len(new)) : old[i] # new[i]}
        first == CHOOSE i \in differ : \A j \in differ : i <= j
        keep == IF differ # {} THEN first - 1 ELSE Min2(Len(old), Len(new))
    IN  [backspaces |-> IF Len(old) > Len(new) THEN Len(old) - Len(new) ELSE 0,
         chars |-> SubSeq(new, keep + 1, Len(new))]

\* What is sent: so many backspaces, then the end of the new text.
Sent(old, new) ==
    LET differ == {i \in 1..Min2(Len(old), Len(new)) : old[i] # new[i]}
        first == CHOOSE i \in differ : \A j \in differ : i <= j
        keep == IF differ # {} THEN first - 1 ELSE Min2(Len(old), Len(new))
    IN  [backspaces |-> Len(old) - keep, chars |-> SubSeq(new, keep + 1, Len(new))]

\* The handler of the field's input event, on the value the keyboard put there.
\* sendKey drops what comes while the session is not connected, or view-only;
\* the handler does not know and takes the value as sent.
keyInput(new) ==
    IF rfb = "none" THEN field' = new /\ UNCHANGED <<last, remote>>
    ELSE LET sent == Sent(last, new)
             value == IF Len(new) > 2 * DefaultKeyboardinputLen \/ Len(new) < 1
                      THEN keyboardinputReset ELSE new
         IN  /\ field' = value /\ last' = value
             /\ remote' = IF rfb = "up" THEN Front(remote, sent.backspaces) \o sent.chars
                          ELSE remote

-----------------------------------------------------------------------------
\* The keyboard inserts, removes or corrects with k characters behind, in the
\* field and in the text the user sees.
Edit(s, k, gone, new) ==
    LET n == Len(s) - k IN SubSeq(s, 1, n - gone) \o new \o SubSeq(s, n + 1, Len(s))

Type == \E k \in 0..1, gone \in 0..1, new \in {<<>>} \cup {<<c>> : c \in Chars} :
    LET now == Edit(field, k, gone, new)
    IN  /\ user < MaxUser /\ user' = user + 1
        /\ k + gone <= Len(field) /\ (gone = 1 \/ new # <<>>)
        /\ keyInput(now)
        /\ want' = IF rfb = "up" THEN Edit(want, k, gone, new) ELSE want
        /\ gap' = CASE field' # now -> 0
                    [] field' = now /\ rfb = "deaf" -> Len(now) - Min2(k, Len(field) - gap)
                    [] OTHER -> gap
        /\ excuse' = excuse
             \cup (IF rfb = "none" THEN {"offline"} ELSE {})
             \cup (IF rfb = "up" /\ Len(field) - k - gone < gap THEN {"lost"} ELSE {})
             \cup (IF k = 1 /\ field[Len(field)] = "_" THEN {"placeholder"} ELSE {})
        /\ UNCHANGED rfb

\* The session comes, connects or becomes view-only and back, ends or goes.
SessionChanges ==
    /\ user < MaxUser /\ user' = user + 1
    /\ rfb' \in CASE rfb = "none" -> {"deaf"}
                  [] rfb = "deaf" -> {"up", "none"}
                  [] rfb = "up" -> {"deaf", "none"}
    /\ UNCHANGED <<field, last, remote, want, gap, excuse>>

Init ==
    /\ field = keyboardinputReset /\ last = keyboardinputReset /\ rfb = "up"
    /\ remote = Text("p", MaxUser) /\ want = remote
    /\ gap = 0 /\ excuse = {} /\ user = 0

Next == Type \/ SessionChanges

Spec == Init /\ [][Next]_vars

-----------------------------------------------------------------------------
\* What arrives is what was typed: through insertions, deletions, corrections
\* and the field's resets at both ends, the text on the remote machine is the
\* one the user means, and the field is ready for a backspace.  Exceptions.
\* What is typed while there is a session that is not connected, or that is
\* view-only, is lost for good: it is never sent later and disturbs nothing
\* typed behind it, but a correction of it is sent as if it had arrived.  A
\* change in front of a placeholder character types the placeholder.  What is
\* typed without a session stays in the field and goes to the next one.
TextFollows ==
    /\ excuse = {} => remote = want
    /\ "offline" \notin excuse => field = last /\ Len(field) > 0
=============================================================================
