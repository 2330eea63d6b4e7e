------------------------------- MODULE Pages -------------------------------
(***************************************************************************)
(* The scripts of the server's own pages, internal/ui/static/js: the       *)
(* metrics page (metrics.js: a form, requests whose answers come in any    *)
(* order, one chart), the theme shared by the tabs of a browser through    *)
(* localStorage (theme.js), and the serial console's page (console.js:     *)
(* a terminal on one WebSocket).                                           *)
(***************************************************************************)
EXTENDS Naturals, Sequences, FiniteSets

CONSTANTS
    Tabs,        \* tabs of one browser
    Metrics,     \* those that show the metrics page
    Sensors,     \* the host's sensors; at most six
    Ranges,      \* what may be chosen as range
    Slots,       \* bound: requests of a tab that may be in flight
    MaxUser      \* bound: what the user does

VARIABLES
    page,      \* tab -> its document
    stored,    \* localStorage: the theme
    inbox,     \* tab -> storage events on their way to it
    recorded,  \* the server: the sensors the store has samples of
    sol,       \* the serial console's page: its WebSocket and its banner
    user       \* steps of the user so far

vars == <<page, stored, inbox, recorded, sol, user>>

NoConfig == [range |-> "", sensors |-> {}]
NoPayload == [range |-> "", series |-> {}, samples |-> {}]
NoRequest == [asked |-> NoConfig, payload |-> NoPayload]
Acts == user < MaxUser /\ user' = user + 1
Other(theme) == IF theme = "light" THEN "dark" ELSE "light"

-----------------------------------------------------------------------------
(* The server's answer to a request for metrics: one series per sensor     *)
(* asked for, with the samples there are of it.                            *)

\* The names that look like temperatures and fans, at most eight, then others
\* up to six: with at most six names, all of them.
defaultMetricSensors(names) == names

\* Mutant: no sensor asked for is no series.
SeriesAsAsked(cfg) ==
    [range |-> cfg.range, series |-> cfg.sensors, samples |-> cfg.sensors \cap recorded]

\* A request that names no sensor gets the default ones.
handleAPIMetrics(cfg) ==
    LET series == IF cfg.sensors = {} THEN defaultMetricSensors(recorded) ELSE cfg.sensors
    IN  [range |-> cfg.range, series |-> series, samples |-> series \cap recorded]

-----------------------------------------------------------------------------
(* metrics.js                                                              *)

currentConfig(p) == [range |-> p.range, sensors |-> p.ticked]

destroyChart(p) == IF p.chart THEN [p EXCEPT !.alive = @ - 1, !.chart = FALSE] ELSE p

\* A payload without samples leaves no chart; a new chart is drawn in the
\* colours of the moment.
render(p, payload) ==
    LET d == destroyChart([p EXCEPT !.lastPayload = payload, !.status = "samples"])
    IN  IF payload.samples = {} THEN [d EXCEPT !.status = "none"]
        ELSE [d EXCEPT !.chart = TRUE, !.alive = @ + 1, !.colours = p.theme]

\* Mutant: the chart keeps its colours.
ThemeLeavesChart(p) == p

applyThemeToChart(p) ==
    IF p.lastPayload = NoPayload THEN p ELSE render(destroyChart(p), p.lastPayload)

load(p, slot) == [p EXCEPT !.flight[slot] = [NoRequest EXCEPT !.asked = currentConfig(p)]]

\* The chips and the count are made anew from the boxes ticked.
syncPickerUI(p) == [p EXCEPT !.chips = p.ticked]

syncURL(p) == [p EXCEPT !.url = currentConfig(p)]

-----------------------------------------------------------------------------
(* theme.js                                                                *)

\* localStorage.setItem tells the other tabs, if the value is a new one.
setItem(t, theme, boxes) ==
    [u \in Tabs |-> IF u # t /\ theme # stored THEN Append(boxes[u], theme) ELSE boxes[u]]

applyTheme(t, theme, boxes) ==
    /\ stored' = theme
    /\ inbox' = setItem(t, theme, boxes)
    /\ page' = [page EXCEPT ![t] = applyThemeToChart([@ EXCEPT !.theme = theme])]

toggleTheme(t) ==
    /\ Acts
    /\ applyTheme(t, Other(page[t].theme), inbox)
    /\ UNCHANGED <<recorded, sol>>

StorageEvent(t) ==
    /\ inbox[t] # <<>>
    /\ applyTheme(t, Head(inbox[t]), [inbox EXCEPT ![t] = Tail(@)])
    /\ UNCHANGED <<recorded, sol, user>>

-----------------------------------------------------------------------------
(* metrics.js: the handlers onReady installs.                              *)

OnPage(t, p) ==
    page' = [page EXCEPT ![t] = p] /\ UNCHANGED <<stored, inbox, recorded, sol>>

Free(t) == {i \in Slots : page[t].flight[i] = NoRequest}

\* A box of the form, or the chip of a sensor.
TickSensor(t) == \E s \in page[t].boxes :
    /\ Acts
    /\ OnPage(t, syncPickerUI([page[t] EXCEPT !.ticked = IF s \in @ THEN @ \ {s}
                                                         ELSE @ \cup {s}]))

ClearSensors(t) ==
    /\ Acts
    /\ OnPage(t, syncPickerUI([page[t] EXCEPT !.ticked = {}]))

ChooseRange(t) == \E r \in Ranges \ {page[t].range}, i \in Free(t) :
    /\ Acts
    /\ OnPage(t, load([page[t] EXCEPT !.range = r], i))

Submit(t) == \E i \in Free(t) :
    /\ Acts
    /\ OnPage(t, load(syncURL(page[t]), i))

\* Mutant: the timer asks for what the URL says, not the form.
IntervalFromURL(t) == \E i \in Free(t) :
    /\ OnPage(t, [page[t] EXCEPT !.flight[i] = [NoRequest EXCEPT !.asked = page[t].url]])
    /\ UNCHANGED user

\* setInterval(load, 15000)
Interval(t) == \E i \in Free(t) :
    /\ OnPage(t, load(page[t], i))
    /\ UNCHANGED user

\* The server handles a request ...
Serve(t, i) == LET f == page[t].flight[i] IN
    /\ f # NoRequest /\ f.payload = NoPayload
    /\ OnPage(t, [page[t] EXCEPT !.flight[i].payload = handleAPIMetrics(f.asked)])
    /\ UNCHANGED user

\* ... and the answers come in any order.
Answer(t, i) == LET f == page[t].flight[i] IN
    /\ f.payload # NoPayload
    /\ OnPage(t, render([page[t] EXCEPT !.flight[i] = NoRequest], f.payload))
    /\ UNCHANGED user

\* The catch of load: the chart stays.
LoadFails(t, i) ==
    /\ page[t].flight[i] # NoRequest
    /\ OnPage(t, [page[t] EXCEPT !.flight[i] = NoRequest, !.status = "failed"])
    /\ UNCHANGED user

\* The collector records the sensors of the host.
Poll ==
    /\ recorded # Sensors /\ recorded' = Sensors
    /\ UNCHANGED <<page, stored, inbox, sol, user>>

-----------------------------------------------------------------------------
(* console.js                                                              *)

OnSol(ws, banner) ==
    /\ sol' = [sol EXCEPT !.ws = ws, !.banner = banner]
    /\ UNCHANGED <<page, stored, inbox, recorded, user>>

onopen == sol.ws = "connecting" /\ OnSol("open", "ok")

\* The closing handshake: the browser no longer sends, the script is not told.
Closing == sol.ws = "open" /\ OnSol("closing", sol.banner)

\* The connection is gone.  When it failed, onerror is called first, and its
\* banner replaced in the same turn.
onclose == sol.ws # "closed" /\ OnSol("closed", "warn")

\* Mutant: typed text goes to the socket whatever its state.
onDataUnchecked ==
    /\ Acts
    /\ sol' = [sol EXCEPT !.sent = Append(@, sol.banner)]
    /\ UNCHANGED <<page, stored, inbox, recorded>>

\* Typed before the socket is open, or once it closes: not sent.
onData ==
    /\ Acts
    /\ sol' = IF sol.ws = "open" THEN [sol EXCEPT !.sent = Append(@, sol.banner)] ELSE sol
    /\ UNCHANGED <<page, stored, inbox, recorded>>

-----------------------------------------------------------------------------
\* handleMetrics and onReady of the scripts: the form has a box for every
\* sensor recorded, ticked if the address named it or, when it named none, if
\* it is a default one; the page shows the stored theme and asks for its data.
Init == \E theme \in {"light", "dark"}, r \in Ranges, names, query \in SUBSET Sensors :
    LET ticked == IF query = {} THEN defaultMetricSensors(names) ELSE query \cap names
        cfg == [range |-> r, sensors |-> ticked]
    IN
    /\ stored = theme
    /\ recorded = names
    /\ page = [t \in Tabs |->
         [range |-> r, boxes |-> names, ticked |-> ticked, chips |-> ticked,
          url |-> [range |-> r, sensors |-> query],
          flight |-> [i \in Slots |-> IF t \in Metrics /\ i = 1
                                      THEN [NoRequest EXCEPT !.asked = cfg] ELSE NoRequest],
          lastPayload |-> NoPayload, status |-> "", chart |-> FALSE, alive |-> 0,
          theme |-> theme, colours |-> theme]]
    /\ inbox = [t \in Tabs |-> <<>>]
    /\ sol = [ws |-> "connecting", banner |-> "", sent |-> <<>>]
    /\ user = 0

OfTab(t) ==
    \/ toggleTheme(t)
    \/ StorageEvent(t)

OfMetrics(t) ==
    \/ TickSensor(t)
    \/ ClearSensors(t)
    \/ ChooseRange(t)
    \/ Submit(t)
    \/ Interval(t)
    \/ \E i \in Slots : Serve(t, i) \/ Answer(t, i) \/ LoadFails(t, i)

Console == onopen \/ Closing \/ onclose \/ onData

Browser ==
    \/ Poll
    \/ \E t \in Tabs : OfTab(t)
    \/ \E t \in Metrics : OfMetrics(t)

Next == Browser \/ Console

\* The interval timer keeps firing, and no request fails for ever.
Fairness == \A t \in Metrics :
    /\ WF_vars(Interval(t))
    /\ \A i \in Slots : SF_vars(Serve(t, i)) /\ SF_vars(Answer(t, i))

Spec == Init /\ [][Next]_vars /\ Fairness

-----------------------------------------------------------------------------
\* A page never contradicts itself.  At most one Chart object is alive, the one
\* on the page; there is one exactly when the last answer heard has samples,
\* whatever failed since, in the colours of the theme the page has now; the
\* status line speaks of samples only beside a chart, and the chips are the
\* boxes ticked.  Once no storage event is on its way every tab shows the stored
\* theme.  What the serial console has sent was typed while its banner said
\* Connected, and the banner never says so of a socket that is closed.
PagesCoherent ==
    /\ \A t \in Tabs : LET p == page[t] IN
         /\ p.alive = IF p.chart THEN 1 ELSE 0
         /\ p.chart <=> p.lastPayload.samples # {}
         /\ p.chart => p.colours = p.theme
         /\ p.status = "samples" => p.chart
         /\ p.status = "none" => ~p.chart
         /\ p.chips = p.ticked
    /\ (\A t \in Tabs : inbox[t] = <<>>) => \A t \in Tabs : page[t].theme = stored
    /\ sol.banner = "ok" => sol.ws # "closed"
    /\ \A i \in DOMAIN sol.sent : sol.sent[i] = "ok"

\* Whatever order the answers came in, the chart comes to show what the form
\* asks for, or the default sensors if it asks for none, of what is recorded by
\* then: again and again once the user leaves the form alone.
ChartCatchesUp == \A t \in Metrics :
    []<>(\/ user < MaxUser
         \/ LET p == page[t] IN
            /\ p.lastPayload = handleAPIMetrics(currentConfig(p))
            /\ p.ticked = {} => p.chart \/ recorded = {})
=============================================================================
