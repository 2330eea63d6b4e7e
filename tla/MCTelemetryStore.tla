------------------------- MODULE MCTelemetryStore --------------------------
(***************************************************************************)
(* The store from Open on: every life of the process first migrates the     *)
(* file (StoreMigration) and then records and reads (TelemetryStore).       *)
(***************************************************************************)
EXTENDS TelemetryStore

CONSTANT MaxStops

VARIABLES columns, indexes, version, opening, next, stops, half

Migration == INSTANCE StoreMigration WITH pc <- opening

schema == <<columns, indexes, version, opening, next, stops, half>>
all == <<vars, schema>>

LifeInit == Init /\ Migration!Init

\* Open: no handler and no collector exists yet.
Opening ==
    /\ opening # "open"
    /\ Migration!Next
    /\ UNCHANGED vars

\* The store is open and one of its callers takes a step.
Running(A) ==
    /\ opening = "open"
    /\ A
    /\ UNCHANGED schema

\* The process dies with whatever its callers were doing.
Dying ==
    /\ opening = "open"
    /\ Crash /\ Migration!Stop

LifeNext == Opening \/ Running(Work) \/ Dying

\* Goroutines are scheduled, and a stopped program is started again;
\* database/sql hands the connection to the caller that has waited longest,
\* and sync.RWMutex does not starve a writer.
LifeSpec ==
    /\ LifeInit /\ [][LifeNext]_all
    /\ WF_all(Opening /\ ~Migration!Stop)
    /\ SF_all(Running(CollectorStep))
    /\ \A c \in Others : SF_all(Running(PrunePower(c)))
    /\ \A p \in Procs : SF_all(Running(RecordStep(p)))
    /\ \A r \in Readers : WF_all(Running(QueryDone(r)))

\* In every life of the process an open store has the complete schema of this
\* release, and the history holds no part of a poll.
StoreWhole == Migration!TypeOK /\ Migration!SchemaComplete /\ WholePolls

\* No life of the process goes back behind what it has shown, or drops a table
\* the store has written to.
NothingUndone == NeverBack /\ Migration!HistoryKept

\* No call of the store blocks for ever: s.mu and the one connection are not
\* waited for in a circle, and LoadSnapshots, which waits for s.mu with the
\* connection in hand, always gets it, unless the process dies first.
CallsReturn ==
    \A p \in Procs :
        opening = "open" /\ pc[p] # "idle" ~> opening # "open" \/ pc[p] = "idle"

\* The store is opened in the end, unless it was cut off in the DROPs, and its
\* calls return.
StoreLive == Migration!EventuallyOpen /\ CallsReturn
=============================================================================
