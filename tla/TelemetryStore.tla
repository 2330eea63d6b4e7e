-------------------------- MODULE TelemetryStore ---------------------------
(***************************************************************************)
(* telemetry.Store for one host: the snapshots in memory under s.mu, the    *)
(* SQLite file behind a pool of one connection, the collector that loads    *)
(* the snapshots and then polls, the power handlers that also record, the   *)
(* metrics queries, and restarts of the process.                            *)
(*                                                                          *)
(* A result is named by the number of the poll that produced it.  Every     *)
(* statement outside a transaction is durable on its own.                   *)
(***************************************************************************)
EXTENDS Naturals, FiniteSets, TLAPS

CONSTANTS
    Collector,  \* the goroutine running Collector.Run
    Recorders,  \* power handlers, which call RecordPower
    Readers,    \* metrics handlers, which call QuerySamples
    Others,     \* collectors of other hosts, which prune all hosts' rows
    None,
    Sensors,    \* the sensors of one poll that have a numeric value
    MaxPolls,   \* bound: results obtained from the BMC
    MaxCrashes  \* bound: crashes of the process

Pruners == {Collector} \cup Others
Procs == Pruners \cup Recorders \cup Readers
Kinds == {"power", "sensors", "sel"}     \* mcinfo is handled like sel

ASSUME TelemetryStoreAssumption ==
    /\ Collector \notin Recorders \cup Readers \cup Others
    /\ Recorders \cap Readers = {} /\ Others \cap (Recorders \cup Readers) = {}
    /\ None \notin Procs
    /\ MaxPolls \in Nat /\ MaxCrashes \in Nat

VARIABLES
    mem,        \* hostSnap: the latest result of each kind, 0 for none
    err,        \* lastError is set
    mu,         \* who holds s.mu for more than one step
    conn,       \* who holds the one connection of the pool
    pc, kind, ver,
    pending,    \* the samples inserted by the open transaction
    samples, power, snap,   \* the tables
    cut,        \* results up to this one are pruned by a running Prune
    pruned,     \* results up to this one may have been pruned
    polls, crashes

memory == <<mem, err, mu>>
tables == <<samples, power, snap>>
call == <<kind, ver>>
retention == <<cut, pruned>>
vars == <<mem, err, mu, conn, pc, kind, ver, pending, samples, power, snap,
          cut, pruned, polls, crashes>>

PCs == {"start", "load", "loading", "idle", "begin", "insert", "row", "memory",
        "snapshot", "error", "errorRow", "prunePower", "reading"}

\* The type of every variable of the store.
TypeOK ==
    /\ mem \in [Kinds -> 0..MaxPolls]
    /\ err \in BOOLEAN
    /\ mu \in Procs \cup {None}
    /\ conn \in Procs \cup {None}
    /\ pc \in [Procs -> PCs]
    /\ kind \in [Procs -> Kinds]
    /\ ver \in [Procs -> 0..MaxPolls]
    /\ pending \subseteq Sensors
    /\ samples \subseteq (1..MaxPolls) \X Sensors
    /\ power \subseteq 1..MaxPolls
    /\ snap \in [Kinds -> 0..MaxPolls]
    /\ cut \in [Pruners -> 0..MaxPolls]
    /\ pruned \in 0..MaxPolls
    /\ polls \in 0..MaxPolls
    /\ crashes \in 0..MaxCrashes

NoResult == [k \in Kinds |-> 0]
FirstPC == [p \in Procs |-> IF p = Collector THEN "start" ELSE "idle"]

Init ==
    /\ mem = NoResult /\ err = FALSE
    /\ mu = None /\ conn = None
    /\ pc = FirstPC
    /\ kind = [p \in Procs |-> "power"]
    /\ ver = [p \in Procs |-> 0]
    /\ pending = {}
    /\ samples = {} /\ power = {} /\ snap = NoResult
    /\ cut = [c \in Pruners |-> 0]
    /\ pruned = 0 /\ polls = 0 /\ crashes = 0

Goto(p, l) == pc' = [pc EXCEPT ![p] = l]
Return(p) == Goto(p, "idle")

-----------------------------------------------------------------------------
(* LoadSnapshots                                                            *)

\* Mutant: the collector may load the snapshots again between polls.
LoadQueryAgain ==
    /\ pc[Collector] \in {"start", "idle"} /\ conn = None
    /\ conn' = Collector
    /\ Goto(Collector, "load")
    /\ UNCHANGED <<memory, call, pending, tables, retention, polls, crashes>>

\* The query takes the connection and keeps it until rows.Close, or fails; Run
\* ignores the error.
LoadQuery ==
    /\ pc[Collector] = "start" /\ conn = None
    /\ \/ conn' = Collector /\ Goto(Collector, "load")
       \/ UNCHANGED conn /\ Return(Collector)
    /\ UNCHANGED <<memory, call, pending, tables, retention, polls, crashes>>

\* s.mu.Lock, with the rows still open.
LoadLock ==
    /\ pc[Collector] = "load" /\ mu = None
    /\ mu' = Collector
    /\ Goto(Collector, "loading")
    /\ UNCHANGED <<mem, err, conn, call, pending, tables, retention, polls, crashes>>

\* Copy the rows into memory, up to an error; the deferred calls unlock and
\* close.
LoadRows ==
    /\ pc[Collector] = "loading"
    /\ \E K \in SUBSET {k \in Kinds : snap[k] # 0} :
        mem' = [k \in Kinds |-> IF k \in K THEN snap[k] ELSE mem[k]]
    /\ mu' = None /\ conn' = None
    /\ Return(Collector)
    /\ UNCHANGED <<err, call, pending, tables, retention, polls, crashes>>

-----------------------------------------------------------------------------
(* Results and errors of the adapter                                        *)

FirstStep(k) ==
    CASE k = "sensors" -> "begin" [] k = "power" -> "row" [] OTHER -> "memory"

\* A poll of the collector, or the status a power handler has read.
Result(p, k) ==
    /\ pc[p] = "idle" /\ polls < MaxPolls
    /\ p = Collector \/ (p \in Recorders /\ k = "power")
    /\ polls' = polls + 1
    /\ kind' = [kind EXCEPT ![p] = k]
    /\ ver' = [ver EXCEPT ![p] = polls + 1]
    /\ Goto(p, FirstStep(k))
    /\ UNCHANGED <<memory, conn, pending, tables, retention, crashes>>

\* The adapter failed: SetError.
PollFails ==
    /\ pc[Collector] = "idle"
    /\ Goto(Collector, "error")
    /\ UNCHANGED <<memory, conn, call, pending, tables, retention, polls, crashes>>

SetError ==
    /\ pc[Collector] = "error" /\ mu = None
    /\ err' = TRUE
    /\ Goto(Collector, "errorRow")
    /\ UNCHANGED <<mem, mu, conn, call, pending, tables, retention, polls, crashes>>

\* The upsert into meta, whose outcome is ignored and never read.
SetErrorRow ==
    /\ pc[Collector] = "errorRow" /\ conn = None
    /\ Return(Collector)
    /\ UNCHANGED <<memory, conn, call, pending, tables, retention, polls, crashes>>

-----------------------------------------------------------------------------
(* RecordPower, RecordSensors, RecordSEL                                    *)

\* Mutant: the result of a poll that recorded nothing is shown.
InsertPowerShown(p) ==
    /\ pc[p] = "row" /\ conn = None
    /\ power' \in {power, power \cup {ver[p]}} /\ Goto(p, "memory")
    /\ UNCHANGED <<memory, conn, call, pending, samples, snap, retention, polls,
                   crashes>>

\* INSERT INTO power; an error ends the call.
InsertPower(p) ==
    /\ pc[p] = "row" /\ conn = None
    /\ \/ power' = power \cup {ver[p]} /\ Goto(p, "memory")
       \/ UNCHANGED power /\ Return(p)
    /\ UNCHANGED <<memory, conn, call, pending, samples, snap, retention, polls,
                   crashes>>

\* db.Begin takes the connection.
Begin ==
    /\ pc[Collector] = "begin" /\ conn = None
    /\ conn' = Collector
    /\ pending' = {}
    /\ Goto(Collector, "insert")
    /\ UNCHANGED <<memory, call, tables, retention, polls, crashes>>

\* Mutant: the samples are inserted outside the transaction.
InsertSampleNow(s) ==
    /\ pc[Collector] = "insert" /\ s \in Sensors \ pending
    /\ pending' = pending \cup {s}
    /\ samples' = samples \cup {<<ver[Collector], s>>}
    /\ UNCHANGED <<memory, conn, pc, call, power, snap, retention, polls, crashes>>

\* stmt.Exec for one sensor.
InsertSample(s) ==
    /\ pc[Collector] = "insert" /\ s \in Sensors \ pending
    /\ pending' = pending \cup {s}
    /\ UNCHANGED <<memory, conn, pc, call, tables, retention, polls, crashes>>

\* tx.Commit, or an error and the deferred Rollback.
EndTransaction ==
    /\ pc[Collector] = "insert"
    /\ \/ /\ pending = Sensors
          /\ samples' = samples \cup ({ver[Collector]} \X Sensors)
          /\ Goto(Collector, "memory")
       \/ UNCHANGED samples /\ Return(Collector)
    /\ conn' = None /\ pending' = {}
    /\ UNCHANGED <<memory, call, power, snap, retention, polls, crashes>>

\* Mutant: the collector's Record operations do not unlock s.mu.
SetLatestKeepsMu(p) ==
    /\ pc[p] = "memory" /\ mu = None
    /\ mem' = [mem EXCEPT ![kind[p]] = ver[p]]
    /\ err' = FALSE
    /\ mu' = IF p = Collector THEN p ELSE mu
    /\ Goto(p, "snapshot")
    /\ UNCHANGED <<conn, call, pending, tables, retention, polls, crashes>>

\* The critical section: the latest result, and touchSuccess.
SetLatest(p) ==
    /\ pc[p] = "memory" /\ mu = None
    /\ mem' = [mem EXCEPT ![kind[p]] = ver[p]]
    /\ err' = FALSE
    /\ Goto(p, "snapshot")
    /\ UNCHANGED <<mu, conn, call, pending, tables, retention, polls, crashes>>

\* writeSnapshot; its error is logged.
WriteSnapshot(p) ==
    /\ pc[p] = "snapshot" /\ conn = None
    /\ snap' \in {snap, [snap EXCEPT ![kind[p]] = ver[p]]}
    /\ Return(p)
    /\ UNCHANGED <<memory, conn, call, pending, samples, power, retention, polls,
                   crashes>>

-----------------------------------------------------------------------------
(* Prune, queries and restarts                                              *)

\* pruneT fires; results up to v are older than the retention by the clock
\* that this call of Prune has read.
Prune(c) ==
    /\ pc[c] = "idle" /\ conn = None
    /\ \E v \in 0..polls :
        /\ cut' = [cut EXCEPT ![c] = v]
        /\ pruned' = IF v > pruned THEN v ELSE pruned
        /\ samples' = {r \in samples : r[1] > v}
    /\ Goto(c, "prunePower")
    /\ UNCHANGED <<memory, conn, call, pending, power, snap, polls, crashes>>

\* The second DELETE, or an error.
PrunePower(c) ==
    /\ pc[c] = "prunePower" /\ conn = None
    /\ power' \in {power, {v \in power : v > cut[c]}}
    /\ cut' = [cut EXCEPT ![c] = 0]
    /\ Return(c)
    /\ UNCHANGED <<memory, conn, call, pending, samples, snap, pruned, polls,
                   crashes>>

\* QuerySamples keeps the connection while it reads the rows.
Query(r) ==
    /\ pc[r] = "idle" /\ conn = None
    /\ conn' = r
    /\ Goto(r, "reading")
    /\ UNCHANGED <<memory, call, pending, tables, retention, polls, crashes>>

QueryDone(r) ==
    /\ pc[r] = "reading"
    /\ conn' = None
    /\ Return(r)
    /\ UNCHANGED <<memory, call, pending, tables, retention, polls, crashes>>

\* The process dies and is started again: what is not in the tables is lost.
Crash ==
    /\ crashes < MaxCrashes
    /\ crashes' = crashes + 1
    /\ mem' = NoResult /\ err' = FALSE
    /\ mu' = None /\ conn' = None
    /\ pc' = FirstPC
    /\ kind' = [p \in Procs |-> "power"]
    /\ ver' = [p \in Procs |-> 0]
    /\ pending' = {}
    /\ cut' = [c \in Pruners |-> 0]
    /\ UNCHANGED <<tables, pruned, polls>>

CollectorStep ==
    \/ LoadQuery \/ LoadLock \/ LoadRows
    \/ SetError \/ SetErrorRow
    \/ Begin \/ (\E s \in Sensors : InsertSample(s)) \/ EndTransaction
    \/ PrunePower(Collector)

RecordStep(p) == InsertPower(p) \/ SetLatest(p) \/ WriteSnapshot(p)

Work ==
    \/ CollectorStep \/ PollFails
    \/ \E c \in Pruners : Prune(c) \/ PrunePower(c)
    \/ \E p \in Procs : RecordStep(p) \/ (\E k \in Kinds : Result(p, k))
    \/ \E r \in Readers : Query(r) \/ QueryDone(r)

Next == Work \/ Crash

Spec == Init /\ [][Next]_vars

-----------------------------------------------------------------------------
(* Properties                                                               *)

\* History before display: what the pages show of power and sensors has been
\* recorded, completely, unless it is past the retention; a result whose
\* insert failed is not shown, and a restart shows nothing else.
ShownIsRecorded ==
    /\ mem["power"] > pruned => mem["power"] \in power
    /\ mem["sensors"] > pruned
         => \A s \in Sensors : <<mem["sensors"], s>> \in samples

\* A poll's samples are in the history all together or not at all, wherever
\* the process dies and whatever insert fails.
WholePolls ==
    \A r \in samples : \A s \in Sensors : <<r[1], s>> \in samples

\* For the kinds only the collector records, the page never goes back to an
\* older result while the process lives; loading the snapshots does not undo
\* a poll.
NeverBack ==
    [][crashes' = crashes
         => \A k \in Kinds \ {"power"} : mem[k] <= mem'[k]]_vars

-----------------------------------------------------------------------------
(***************************************************************************)
(* Proofs about TelemetryStore: the history is written before anything is   *)
(* shown or snapshotted, for any number of handlers, sensors and restarts.  *)
(***************************************************************************)

(* Only results of polls are recorded; they are numbered from one, and a    *)
(* call is in the statements of its kind.  No Prune goes past pruned.       *)
Typed ==
    /\ TypeOK
    /\ \A c \in Pruners : cut[c] <= pruned
    /\ \A p \in Procs :
        /\ pc[p] \in {"begin", "insert", "row", "memory", "snapshot"} => ver[p] > 0
        /\ pc[p] = "row" => kind[p] = "power"
        /\ pc[p] \in {"begin", "insert"} => kind[p] = "sensors"

LEMMA TypedStep == Typed /\ [Next]_vars => Typed'
<1> SUFFICES ASSUME Typed, [Next]_vars PROVE Typed'
  OBVIOUS
<1>0. /\ Collector \in Pruners /\ Collector \in Procs
      /\ Pruners \subseteq Procs /\ Readers \subseteq Procs
  BY DEF Procs, Pruners
<1> USE <1>0, TelemetryStoreAssumption DEF Typed, TypeOK, PCs, Goto, Return,
        memory, tables, call, retention
<1>1. CASE UNCHANGED vars
  BY <1>1 DEF vars
<1>2. CASE LoadQuery \/ LoadLock
  <2>1. CASE LoadQuery
    BY <2>1 DEF LoadQuery
  <2>2. CASE LoadLock
    BY <2>2 DEF LoadLock
  <2> QED BY <1>2, <2>1, <2>2
<1>3. CASE LoadRows
  <2>1. PICK K \in SUBSET Kinds :
            mem' = [k \in Kinds |-> IF k \in K THEN snap[k] ELSE mem[k]]
    BY <1>3 DEF LoadRows
  <2>2. mem' \in [Kinds -> 0..MaxPolls]
    BY <2>1
  <2> QED BY <1>3, <2>2 DEF LoadRows
<1>4. CASE SetError \/ SetErrorRow \/ PollFails
  <2>1. CASE SetError
    BY <2>1 DEF SetError
  <2>2. CASE SetErrorRow
    BY <2>2 DEF SetErrorRow
  <2>3. CASE PollFails
    BY <2>3 DEF PollFails
  <2> QED BY <1>4, <2>1, <2>2, <2>3
<1>5. CASE Begin
  BY <1>5 DEF Begin
<1>6. ASSUME NEW s \in Sensors, InsertSample(s) PROVE Typed'
  BY <1>6 DEF InsertSample
<1>7. CASE EndTransaction
  <2>1. ver[Collector] \in 1..MaxPolls
    BY <1>7 DEF EndTransaction
  <2>2. samples' \subseteq (1..MaxPolls) \X Sensors
    BY <1>7, <2>1 DEF EndTransaction
  <2> QED BY <1>7, <2>2 DEF EndTransaction
<1>8. ASSUME NEW c \in Pruners, Prune(c) \/ PrunePower(c) PROVE Typed'
  <2>1. CASE Prune(c)
    BY <2>1 DEF Prune
  <2>2. CASE PrunePower(c)
    BY <2>2 DEF PrunePower
  <2> QED BY <1>8, <2>1, <2>2
<1>9. CASE Crash
  <2>1. NoResult \in [Kinds -> 0..MaxPolls] /\ FirstPC \in [Procs -> PCs]
    BY DEF NoResult, FirstPC
  <2>2. /\ [p \in Procs |-> "power"] \in [Procs -> Kinds]
        /\ [p \in Procs |-> 0] \in [Procs -> 0..MaxPolls]
        /\ [c \in Pruners |-> 0] \in [Pruners -> 0..MaxPolls]
    BY DEF Kinds
  <2>3. \A p \in Procs : FirstPC[p] \in {"start", "idle"}
    BY DEF FirstPC
  <2>4. err' \in BOOLEAN
    BY <1>9, Zenon DEF Crash
  <2>5. pc' = FirstPC
    BY <1>9 DEF Crash
  <2>6. \A p \in Procs :
            pc'[p] \notin {"begin", "insert", "row", "memory", "snapshot"}
    BY <2>3, <2>5
  <2>7. TypeOK'
    <3> HIDE DEF PCs
    <3> QED BY <1>9, <2>1, <2>2, <2>4 DEF Crash
  <2>8. \A c \in Pruners : cut'[c] <= pruned'
    BY <1>9 DEF Crash
  <2> QED BY <2>6, <2>7, <2>8
<1>10. ASSUME NEW p \in Procs, RecordStep(p) PROVE Typed'
  <2>1. CASE InsertPower(p)
    <3>1. ver[p] \in 1..MaxPolls
      BY <2>1 DEF InsertPower
    <3>2. power' \subseteq 1..MaxPolls
      BY <2>1, <3>1 DEF InsertPower
    <3>3. pc' \in [Procs -> PCs] /\ pc'[p] \in {"memory", "idle"}
          /\ \A q \in Procs \ {p} : pc'[q] = pc[q]
      BY <2>1 DEF InsertPower
    <3> QED BY <2>1, <3>1, <3>2, <3>3 DEF InsertPower
  <2>2. CASE SetLatest(p)
    BY <2>2 DEF SetLatest
  <2>3. CASE WriteSnapshot(p)
    BY <2>3 DEF WriteSnapshot
  <2> QED BY <1>10, <2>1, <2>2, <2>3 DEF RecordStep
<1>11. ASSUME NEW p \in Procs, NEW k \in Kinds, Result(p, k) PROVE Typed'
  <2>1. /\ FirstStep(k) \in {"begin", "row", "memory"}
        /\ FirstStep(k) = "row" => k = "power"
        /\ FirstStep(k) = "begin" => k = "sensors"
    BY DEF FirstStep, Kinds
  <2> QED BY <1>11, <2>1 DEF Result
<1>12. ASSUME NEW r \in Readers, Query(r) \/ QueryDone(r) PROVE Typed'
  <2>1. CASE Query(r)
    BY <2>1 DEF Query
  <2>2. CASE QueryDone(r)
    BY <2>2 DEF QueryDone
  <2> QED BY <1>12, <2>1, <2>2
<1> QED
  BY <1>1, <1>2, <1>3, <1>4, <1>5, <1>6, <1>7, <1>8, <1>9, <1>10, <1>11, <1>12
     DEF Next, Work, CollectorStep

LEMMA TypedInvariant == Spec => []Typed
<1>1. Init => Typed
  <2> SUFFICES ASSUME Init PROVE Typed
    OBVIOUS
  <2>1. NoResult \in [Kinds -> 0..MaxPolls] /\ FirstPC \in [Procs -> PCs]
    BY TelemetryStoreAssumption DEF NoResult, FirstPC, PCs
  <2>2. /\ [p \in Procs |-> "power"] \in [Procs -> Kinds]
        /\ [p \in Procs |-> 0] \in [Procs -> 0..MaxPolls]
        /\ [c \in Pruners |-> 0] \in [Pruners -> 0..MaxPolls]
    BY TelemetryStoreAssumption DEF Kinds
  <2>3. \A p \in Procs : FirstPC[p] \in {"start", "idle"}
    BY DEF FirstPC
  <2>4. err \in BOOLEAN
    BY Zenon DEF Init
  <2>5. TypeOK
    BY <2>1, <2>2, <2>4, TelemetryStoreAssumption DEF Init, TypeOK
  <2> QED BY <2>3, <2>5 DEF Init, Typed
<1> QED BY <1>1, TypedStep, PTL DEF Spec

\* Type correctness, the tables' columns included.
THEOREM TypeCorrect == Spec => []TypeOK
<1>1. Typed => TypeOK
  BY DEF Typed
<1> QED BY <1>1, TypedInvariant, PTL

-----------------------------------------------------------------------------
(* A result is recorded: its rows are in the history or past the retention. *)
Recorded(k, v) ==
    v > pruned =>
        /\ k = "power" => v \in power
        /\ k = "sensors" => \A s \in Sensors : <<v, s>> \in samples

(* Everything past the insert is recorded: what is about to be shown or     *)
(* snapshotted, what is shown, and what a restart would load.               *)
AllRecorded ==
    /\ \A k \in Kinds : Recorded(k, mem[k]) /\ Recorded(k, snap[k])
    /\ \A p \in Procs :
        pc[p] \in {"memory", "snapshot"} => Recorded(kind[p], ver[p])
    /\ WholePolls

LEMMA RecordedStep == Typed /\ AllRecorded /\ [Next]_vars => AllRecorded'
<1> SUFFICES ASSUME Typed, AllRecorded, [Next]_vars PROVE AllRecorded'
  OBVIOUS
<1>0. /\ Collector \in Pruners /\ Collector \in Procs
      /\ Pruners \subseteq Procs /\ Readers \subseteq Procs
  BY DEF Procs, Pruners
<1> USE <1>0, TelemetryStoreAssumption DEF Typed, TypeOK, AllRecorded, Goto,
        Return, memory, tables, call, retention
<1>1. CASE UNCHANGED vars
  BY <1>1 DEF vars, Recorded, WholePolls
<1>2. CASE LoadQuery \/ LoadLock \/ SetError \/ SetErrorRow \/ PollFails \/ Begin
  BY <1>2 DEF LoadQuery, LoadLock, SetError, SetErrorRow, PollFails, Begin,
              Recorded, WholePolls
<1>3. CASE LoadRows
  BY <1>3 DEF LoadRows, Recorded, WholePolls
<1>4. ASSUME NEW s \in Sensors, InsertSample(s) PROVE AllRecorded'
  BY <1>4 DEF InsertSample, Recorded, WholePolls
<1>5. CASE EndTransaction
  <2> DEFINE v == ver[Collector]
  <2>1. /\ samples' \in {samples, samples \cup ({v} \X Sensors)}
        /\ power' = power /\ pruned' = pruned /\ mem' = mem /\ snap' = snap
        /\ kind' = kind /\ ver' = ver
        /\ \A p \in Procs \ {Collector} : pc'[p] = pc[p]
    BY <1>5 DEF EndTransaction
  <2>2. \A k \in Kinds, w \in Nat : Recorded(k, w) => Recorded(k, w)'
    BY <2>1 DEF Recorded
  <2>3. WholePolls'
    <3> SUFFICES ASSUME NEW r \in samples', NEW s \in Sensors
                 PROVE <<r[1], s>> \in samples'
      BY DEF WholePolls
    <3>1. CASE r \in samples
      BY <2>1, <3>1 DEF WholePolls
    <3>2. CASE r \notin samples
      <4>1. samples' = samples \cup ({v} \X Sensors) /\ r[1] = v
        BY <2>1, <3>2
      <4> QED BY <4>1
    <3> QED BY <3>1, <3>2
  <2>4. pc'[Collector] \in {"memory", "snapshot"}
            => \A s \in Sensors : <<v, s>> \in samples'
    BY <1>5 DEF EndTransaction
  <2>5. kind[Collector] = "sensors"
    BY <1>5 DEF EndTransaction
  <2>6. \A p \in Procs : pc'[p] \in {"memory", "snapshot"} => Recorded(kind[p], ver[p])'
    BY <2>1, <2>2, <2>4, <2>5 DEF Recorded
  <2> QED BY <2>1, <2>2, <2>3, <2>6
<1>6. ASSUME NEW c \in Pruners, Prune(c) PROVE AllRecorded'
  <2>1. PICK v \in 0..polls :
            /\ pruned' = IF v > pruned THEN v ELSE pruned
            /\ samples' = {r \in samples : r[1] > v}
    BY <1>6 DEF Prune
  <2>2. v \in Nat /\ pruned' \in Nat /\ pruned' >= pruned /\ pruned' >= v /\ power' = power
    BY <1>6, <2>1 DEF Prune
  <2>3. \A w \in Nat, s \in Sensors :
            w > v /\ <<w, s>> \in samples => <<w, s>> \in samples'
    BY <2>1
  <2>4. \A k \in Kinds, w \in Nat : Recorded(k, w) => Recorded(k, w)'
    <3>1. \A w \in Nat : w > pruned' => w > v /\ w > pruned
      BY <2>2
    <3> QED BY <2>2, <2>3, <3>1 DEF Recorded
  <2>5. WholePolls'
    <3> SUFFICES ASSUME NEW r \in samples', NEW s \in Sensors
                 PROVE <<r[1], s>> \in samples'
      BY DEF WholePolls
    <3>1. r \in samples /\ r[1] > v /\ r[1] \in Nat
      BY <2>1
    <3>2. <<r[1], s>> \in samples
      BY <3>1 DEF WholePolls
    <3> QED BY <2>3, <3>1, <3>2
  <2> QED BY <1>6, <2>4, <2>5 DEF Prune
<1>7. ASSUME NEW c \in Pruners, PrunePower(c) PROVE AllRecorded'
  <2>1. cut[c] <= pruned
    BY <1>7 DEF PrunePower
  <2>2. /\ samples' = samples /\ pruned' = pruned
        /\ \A w \in power : w > pruned => w \in power'
    BY <1>7, <2>1 DEF PrunePower
  <2>3. \A k \in Kinds, w \in Nat : Recorded(k, w) => Recorded(k, w)'
    BY <2>2 DEF Recorded
  <2> QED BY <1>7, <2>2, <2>3 DEF PrunePower, WholePolls
<1>8. CASE Crash
  <2>1. \A p \in Procs : pc'[p] \in {"start", "idle"}
    BY <1>8 DEF Crash, FirstPC
  <2>2. \A k \in Kinds : mem'[k] = 0
    BY <1>8 DEF Crash, NoResult
  <2> QED BY <1>8, <2>1, <2>2 DEF Crash, Recorded, WholePolls
<1>9. ASSUME NEW p \in Procs, RecordStep(p) PROVE AllRecorded'
  <2>1. CASE InsertPower(p)
    <3>1. /\ power \subseteq power' /\ samples' = samples /\ pruned' = pruned
          /\ mem' = mem /\ snap' = snap /\ kind' = kind /\ ver' = ver
          /\ \A q \in Procs \ {p} : pc'[q] = pc[q]
      BY <2>1 DEF InsertPower
    <3>2. \A k \in Kinds, w \in Nat : Recorded(k, w) => Recorded(k, w)'
      BY <3>1 DEF Recorded
    <3>3. pc'[p] \in {"memory", "snapshot"} => ver[p] \in power'
      BY <2>1 DEF InsertPower
    <3>4. kind[p] = "power"
      BY <2>1 DEF InsertPower
    <3>5. \A q \in Procs : pc'[q] \in {"memory", "snapshot"} => Recorded(kind[q], ver[q])'
      BY <3>1, <3>2, <3>3, <3>4 DEF Recorded
    <3> QED BY <3>1, <3>2, <3>5 DEF WholePolls
  <2>2. CASE SetLatest(p)
    BY <2>2 DEF SetLatest, Recorded, WholePolls
  <2>3. CASE WriteSnapshot(p)
    BY <2>3 DEF WriteSnapshot, Recorded, WholePolls
  <2> QED BY <1>9, <2>1, <2>2, <2>3 DEF RecordStep
<1>10. ASSUME NEW p \in Procs, NEW k \in Kinds, Result(p, k) PROVE AllRecorded'
  <2>1. FirstStep(k) # "snapshot" /\ (FirstStep(k) = "memory" => k = "sel")
    BY DEF FirstStep, Kinds
  <2> QED BY <1>10, <2>1 DEF Result, Recorded, WholePolls
<1>11. ASSUME NEW r \in Readers, Query(r) \/ QueryDone(r) PROVE AllRecorded'
  BY <1>11 DEF Query, QueryDone, Recorded, WholePolls
<1> QED
  BY <1>1, <1>2, <1>3, <1>4, <1>5, <1>6, <1>7, <1>8, <1>9, <1>10, <1>11
     DEF Next, Work, CollectorStep

\* What the pages show, before and after restarts, is in the history, and
\* the history has no half poll.
THEOREM HistoryComplete == Spec => [](ShownIsRecorded /\ WholePolls)
<1>1. Init => AllRecorded
  BY DEF Init, AllRecorded, Recorded, WholePolls, NoResult, FirstPC
<1>2. AllRecorded => ShownIsRecorded /\ WholePolls
  BY DEF AllRecorded, Recorded, ShownIsRecorded, Kinds
<1> QED BY <1>1, <1>2, RecordedStep, TypedInvariant, PTL DEF Spec
=============================================================================
