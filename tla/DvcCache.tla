------------------------------ MODULE DvcCache ------------------------------
(***************************************************************************)
(* The colour cache of the iLO video decoder: three arrays whose first      *)
(* active entries are in use, ranked by a usage counter.  The decoder names *)
(* a colour by its rank, so a rank that is missing or doubled shows a wrong *)
(* colour or latches the decoder.                                           *)
(***************************************************************************)
EXTENDS Naturals, FiniteSets

CONSTANTS
    Colors,  \* the colour values
    Entries     \* entries of the cache, 17 in the code

ASSUME DvcCacheAssumption == Entries \in Nat \ {0}

VARIABLES
    active,              \* ccActive
    color, usage, block, \* ccColor, ccUsage, ccBlock
    phase, i                \* inside cachePrune, and its loop variable

cacheVars == <<active, color, usage, block, phase, i>>

Slots == 0..(Entries - 1)
Active == {j \in Slots : j < active}

\* The type of every variable of the cache.
CacheTypeOK ==
    /\ active \in 0..Entries
    /\ color \in [Slots -> Colors]
    /\ usage \in [Slots -> Nat]
    /\ block \in [Slots -> {0, 1}]
    /\ phase \in {"idle", "prune"}
    /\ i \in 0..Entries

\* Go zeroes the arrays; which colour value that is does not matter.
CacheInit ==
    /\ active = 0
    /\ color \in {[j \in Slots |-> c] : c \in Colors}
    /\ usage = [j \in Slots |-> 0]
    /\ block = [j \in Slots |-> 0]
    /\ phase = "idle" /\ i = 0

\* Mutant: the entries that were less recent than rank r age, too.
RejuvenateAll(j, r, n) ==
    [k \in Slots |-> IF k = j THEN 0
                     ELSE IF k < n THEN usage[k] + 1
                     ELSE usage[k]]

\* Entry j becomes the most recent one of the first n; those that were more
\* recent than rank r age by one.
Rejuvenate(j, r, n) ==
    [k \in Slots |-> IF k = j THEN 0
                     ELSE IF k < n /\ usage[k] < r THEN usage[k] + 1
                     ELSE usage[k]]

\* Mutant: the least recent entry is looked for one rank too early.
OldestEarly == {j \in Active : usage[j] + 2 = active}

\* The entries with the last rank.
Oldest == {j \in Active : usage[j] + 1 = active}

\* cacheLRU for a colour that is in the cache.
Hit(c) ==
    /\ phase = "idle"
    /\ \E j \in Active :
        /\ color[j] = c /\ \A k \in Active : k < j => color[k] # c
        /\ usage' = Rejuvenate(j, usage[j], active)
        /\ block' = [block EXCEPT ![j] = 1]
    /\ UNCHANGED <<active, color, phase, i>>

\* cacheLRU for a new colour, while there is room.
Insert(c) ==
    /\ phase = "idle" /\ \A j \in Active : color[j] # c
    /\ active < Entries
    /\ active' = active + 1
    /\ color' = [color EXCEPT ![active] = c]
    /\ block' = [block EXCEPT ![active] = 1]
    /\ usage' = Rejuvenate(active, active, active + 1)
    /\ UNCHANGED <<phase, i>>

\* cacheLRU for a new colour in a full cache: the loop leaves in idx the last
\* entry with the last rank, or the first entry if there is none.
Replace(c) ==
    /\ phase = "idle" /\ \A j \in Active : color[j] # c
    /\ active = Entries
    /\ \E j \in Slots :
        /\ IF Oldest = {} THEN j = 0 ELSE j \in Oldest /\ \A k \in Oldest : k <= j
        /\ color' = [color EXCEPT ![j] = c]
        /\ block' = [block EXCEPT ![j] = 1]
        /\ usage' = Rejuvenate(j, usage[j], active)
    /\ UNCHANGED <<active, phase, i>>

\* cacheFind of a rank; a rank that is not found changes nothing.
Find(r) ==
    /\ phase = "idle"
    /\ \E j \in Active :
        /\ usage[j] = r /\ \A k \in Active : k < j => usage[k] # r
        /\ usage' = Rejuvenate(j, r, active)
        /\ block' = [block EXCEPT ![j] = 1]
    /\ UNCHANGED <<active, color, phase, i>>

\* cachePrune begins.
Prune ==
    /\ phase = "idle"
    /\ phase' = "prune" /\ i' = 0
    /\ UNCHANGED <<active, color, usage, block>>

\* An iteration that drops entry i: the last one takes its place.
Drop ==
    /\ phase = "prune" /\ i < active /\ block[i] = 0
    /\ active' = active - 1
    /\ block' = [block EXCEPT ![i] = block[active - 1]]
    /\ color' = [color EXCEPT ![i] = color[active - 1]]
    /\ usage' = [usage EXCEPT ![i] = usage[active - 1]]
    /\ UNCHANGED <<phase, i>>

\* An iteration that keeps entry i and clears its mark.
Keep ==
    /\ phase = "prune" /\ i < active /\ block[i] # 0
    /\ block' = [block EXCEPT ![i] = block[i] - 1]
    /\ i' = i + 1
    /\ UNCHANGED <<active, color, usage, phase>>

PruneDone ==
    /\ phase = "prune" /\ i >= active
    /\ phase' = "idle" /\ i' = 0
    /\ UNCHANGED <<active, color, usage, block>>

\* cacheReset, from the reset state and from a mode change.
ResetCache ==
    /\ phase = "idle"
    /\ active' = 0
    /\ UNCHANGED <<color, usage, block, phase, i>>

CacheNext ==
    \/ \E c \in Colors : Hit(c) \/ Insert(c) \/ Replace(c)
    \/ \E r \in Slots : Find(r)
    \/ Prune \/ Drop \/ Keep \/ PruneDone \/ ResetCache

CacheSpec == CacheInit /\ [][CacheNext]_cacheVars

-----------------------------------------------------------------------------
(* Properties                                                               *)

\* Between the operations the usages of the active entries are exactly the
\* ranks 0 to active - 1: cacheFind finds every rank that the stream may name,
\* and pruning after a block does not leave gaps.
UsagesAreRanks ==
    phase = "idle" =>
        /\ \A j \in Active : usage[j] < active
        /\ \A r \in 0..(active - 1) : \E j \in Active : usage[j] = r
        /\ \A j, k \in Active : usage[j] = usage[k] => j = k

\* No colour is in the cache twice, so the entry that cacheLRU finds is the
\* one that cacheFind names.
ColorsDistinct == \A j, k \in Active : color[j] = color[k] => j = k

\* The entries of the abstract list: while pruning, those that will stay.
Listed == {j \in Active : phase = "prune" => j < i \/ block[j] = 1}
=============================================================================
