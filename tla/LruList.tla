------------------------------ MODULE LruList -------------------------------
(***************************************************************************)
(* What the colour cache of the DVC decoder promises: the colours by how    *)
(* recently they were used, of which a known number, the first ones, has    *)
(* been used in the current block.                                          *)
(***************************************************************************)
EXTENDS Naturals, Sequences, SequencesExt

CONSTANTS Colors, Size

VARIABLES
    list,    \* the colours, the most recently used one first
    touched  \* how many of them the current block has used

vars == <<list, touched>>

Init == list = <<>> /\ touched = 0

\* The k-th colour is used.
Touch(k) ==
    /\ list' = <<list[k]>> \o RemoveAt(list, k)
    /\ touched' = IF k <= touched THEN touched ELSE touched + 1

\* A new colour is used; a full list gives up its last one.
Add(c) ==
    /\ c \notin ToSet(list)
    /\ list' = <<c>> \o (IF Len(list) = Size THEN Front(list) ELSE list)
    /\ touched' = IF touched = Size THEN touched ELSE touched + 1

\* The block is complete: only its colours stay.
EndBlock ==
    /\ list' = SubSeq(list, 1, touched)
    /\ touched' = 0

Reset == list' = <<>> /\ touched' = 0

Next ==
    \/ \E k \in 1..Len(list) : Touch(k)
    \/ \E c \in Colors : Add(c)
    \/ EndBlock \/ Reset

Spec == Init /\ [][Next]_vars
=============================================================================
