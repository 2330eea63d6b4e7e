--------------------------- MODULE MCSolConsole ----------------------------
(***************************************************************************)
(* The serial console and the pages' scripts, for TLC: two console requests *)
(* against the SOL slot of one adapter, the tabs of one browser, or the    *)
(* page of a serial console.                                               *)
(***************************************************************************)
EXTENDS SolConsole

CONSTANTS Tabs, Metrics, Sensors, Ranges, Slots, MaxUser

VARIABLES part, page, stored, inbox, recorded, sol, user

Page == INSTANCE Pages

pageVars == <<page, stored, inbox, recorded, sol, user>>
all == <<part, vars, pageVars>>

\* The choices of the parts that do not run are fixed, and so are the first
\* theme and the first range: exchanging the two changes nothing.
MCInit ==
    /\ part \in {"sol", "page", "terminal"}
    /\ Init /\ Page!Init
    /\ part # "sol" => \A h \in Handlers : ~cancelled[h]
    /\ stored = "light"
    /\ \A t \in Tabs : page[t].range = CHOOSE r \in Ranges : TRUE
    /\ part # "page" => recorded = {} /\ \A t \in Tabs : page[t].url.sensors = {}

InPage(A) == part = "page" /\ A /\ UNCHANGED <<part, vars>>

MCNext ==
    \/ part = "sol" /\ Next /\ UNCHANGED <<part, pageVars>>
    \/ InPage(Page!Browser)
    \/ part = "terminal" /\ Page!Console /\ UNCHANGED <<part, vars>>

\* The fairness of the two modules; an adapter that nobody asks for a console
\* has nothing to do.
MCSpec ==
    /\ MCInit /\ [][MCNext]_all
    /\ Fairness
    /\ \A t \in Metrics : WF_all(InPage(Page!Interval(t)))
    /\ \A t \in Metrics, s \in Slots :
            SF_all(InPage(Page!Serve(t, s))) /\ SF_all(InPage(Page!Answer(t, s)))

\* The pages never contradict themselves.
PagesCoherent == Page!PagesCoherent

\* Handlers return and their pumps end; the chart comes to show what the form
\* asks for.
SolLive == HandlersReturn /\ (part = "page" => Page!ChartCatchesUp)
=============================================================================
