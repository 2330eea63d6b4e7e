----------------------------- MODULE PowerPath -----------------------------
(***************************************************************************)
(* The power state of one host, from the chassis to the page: the adapters' *)
(* PowerStatus and PowerControl with their three-second cache, the          *)
(* collector's poll, handlePowerAction, and Store.RecordPower.              *)
(*                                                                          *)
(* A status is named by the number of power commands the chassis had        *)
(* executed when the BMC answered.  The IPMI adapter serialises its         *)
(* exchanges by a.mu on one RMCP+ session; the iLO, AMT and iDRAC adapters  *)
(* make independent HTTP requests, the iDRAC one after a detection that     *)
(* runs once.  An entry older than the cache allows is the same as none.    *)
(***************************************************************************)
EXTENDS Naturals, FiniteSets, TLAPS

CONSTANTS
    Actors,     \* the requests for /h/{id}/power/action
    Poller,     \* the collector of the host
    None

Procs == Actors \cup {Poller}

ASSUME PowerPathAssumption ==
    /\ Poller \notin Actors /\ None \notin Procs
    /\ IsFiniteSet(Actors)

VARIABLES
    cmds,       \* commands the chassis has executed
    cache,      \* powerCache: the statuses in it (none or one)
    lock,       \* who holds a.mu
    sess,       \* a.client is a connected session
    resolved,   \* what resolveOnce has found
    pc, op, val,
    issued,     \* the command of an actor, 0 until the BMC acknowledged one
    raced,      \* history: a read was in flight when the command was executed
    latest,     \* Store's power status in memory (none or one)
    snap,       \* the power row of the snapshots table (none or one)
    backend     \* the adapter of the host, fixed by Init

client == <<lock, sess>>
store == <<latest, snap>>
path == <<cmds, cache, client, resolved, pc, op, val, issued, raced, store>>
vars == <<path, backend>>

Backends == {"ipmi", "ilo", "amt", "idrac"}

AtMostOne(S) == S \subseteq Nat /\ \A u, v \in S : u = v

PCs == {"idle", "resolve", "check", "enter", "connect", "exchange", "store",
        "invalidate", "row", "memory", "snapshot", "done", "failed"}

\* The type of every variable; the caches hold at most one status.
TypeOK ==
    /\ cmds \in Nat
    /\ AtMostOne(cache)
    /\ lock \in Procs \cup {None}
    /\ sess \in BOOLEAN
    /\ resolved \in {"no", "yes", "error"}
    /\ pc \in [Procs -> PCs]
    /\ op \in [Procs -> {"status", "control"}]
    /\ val \in [Procs -> Nat]
    /\ issued \in [Actors -> Nat]
    /\ raced \in [Actors -> BOOLEAN]
    /\ AtMostOne(latest)
    /\ AtMostOne(snap)
    /\ backend \in Backends

Init ==
    /\ cmds = 0
    /\ cache = {}
    /\ lock = None
    /\ sess = FALSE
    /\ resolved = "no"
    /\ pc = [p \in Procs |-> "idle"]
    /\ op = [p \in Procs |-> "status"]
    /\ val = [p \in Procs |-> 0]
    /\ issued = [a \in Actors |-> 0]
    /\ raced = [a \in Actors |-> FALSE]
    /\ latest = {}
    /\ snap = {}
    /\ backend \in Backends

Goto(p, l) == pc' = [pc EXCEPT ![p] = l]

\* Where an adapter call starts: the iDRAC adapter detects its backend first,
\* PowerStatus then looks at the cache, PowerControl goes to the BMC.
AfterResolve(o) == IF o = "status" THEN "check" ELSE "enter"
Entry(o) == IF backend = "idrac" THEN "resolve" ELSE AfterResolve(o)

Call(p, o) == op' = [op EXCEPT ![p] = o] /\ Goto(p, Entry(o))

-----------------------------------------------------------------------------
(* The callers                                                              *)

\* powerT fires: pollPower calls PowerStatus.
Poll ==
    /\ pc[Poller] = "idle"
    /\ Call(Poller, "status")
    /\ UNCHANGED <<cmds, cache, client, resolved, val, issued, raced, store>>

\* handlePowerAction calls PowerControl.
Act(a) ==
    /\ pc[a] = "idle"
    /\ Call(a, "control")
    /\ UNCHANGED <<cmds, cache, client, resolved, val, issued, raced, store>>

\* The adapter returned an error.  The collector records it and waits for the
\* next tick; the handler reads the status after a failed command all the
\* same, and renders without one after a failed read.
CallFails(p) ==
    IF p = Poller THEN Goto(p, "idle") /\ UNCHANGED op
    ELSE IF op[p] = "control" THEN Call(p, "status")
    ELSE Goto(p, "failed") /\ UNCHANGED op

-----------------------------------------------------------------------------
(* The adapter                                                              *)

\* ensureBackend: sync.Once keeps the first outcome, errors included.
Resolve(p) ==
    /\ pc[p] = "resolve"
    /\ resolved' \in (IF resolved = "no" THEN {"yes", "error"} ELSE {resolved})
    /\ IF resolved' = "yes"
       THEN Goto(p, AfterResolve(op[p])) /\ UNCHANGED op
       ELSE CallFails(p)
    /\ UNCHANGED <<cmds, cache, client, val, issued, raced, store>>

\* PowerStatus: a fresh entry is the answer, otherwise ask the BMC.
CheckCache(p) ==
    /\ pc[p] = "check"
    /\ \/ cache # {} /\ val' \in {[val EXCEPT ![p] = v] : v \in cache}
          /\ Goto(p, "row")
       \/ cache = {} /\ Goto(p, "enter") /\ UNCHANGED val
    /\ UNCHANGED <<cmds, cache, client, resolved, op, issued, raced, store>>

\* Mutant: the age of the entry is not looked at.
ExpireNever == FALSE /\ UNCHANGED path

\* Three seconds have passed since the entry was stored.
Expire ==
    /\ cache # {}
    /\ cache' = {}
    /\ UNCHANGED <<cmds, client, resolved, pc, op, val, issued, raced, store>>

\* withClient: take a.mu.  The other adapters have nothing to take.
Enter(p) ==
    /\ pc[p] = "enter"
    /\ IF backend = "ipmi"
       THEN lock = None /\ lock' = p /\ Goto(p, "connect")
       ELSE UNCHANGED lock /\ Goto(p, "exchange")
    /\ UNCHANGED <<cmds, cache, sess, resolved, op, val, issued, raced, store>>

\* Mutant: a failed connect is not noticed.
ConnectUnchecked(p) ==
    /\ pc[p] = "connect"
    /\ Goto(p, "exchange") /\ sess' \in {sess, TRUE} /\ UNCHANGED <<lock, op>>
    /\ UNCHANGED <<cmds, cache, resolved, val, issued, raced, store>>

\* ensureClient: use the session, connect one, or fail.
Connect(p) ==
    /\ pc[p] = "connect"
    /\ \/ Goto(p, "exchange") /\ sess' = TRUE /\ UNCHANGED <<lock, op>>
       \/ ~sess /\ CallFails(p) /\ lock' = None /\ UNCHANGED sess
    /\ UNCHANGED <<cmds, cache, resolved, val, issued, raced, store>>

\* The deferred unlock of withClient.
Unlocked == IF backend = "ipmi" THEN None ELSE lock

\* The BMC answers a status request; the answer is stored after the unlock.
AnswerStatus(p) ==
    /\ pc[p] = "exchange" /\ op[p] = "status"
    /\ val' = [val EXCEPT ![p] = cmds]
    /\ lock' = Unlocked
    /\ Goto(p, "store")
    /\ UNCHANGED <<cmds, cache, sess, resolved, op, issued, raced, store>>

\* The BMC executes a command and its acknowledgement arrives.
AnswerControl(a) ==
    /\ pc[a] = "exchange" /\ op[a] = "control"
    /\ cmds' = cmds + 1
    /\ issued' = [issued EXCEPT ![a] = cmds + 1]
    /\ raced' = [raced EXCEPT ![a] = \E p \in Procs : pc[p] = "store"]
    /\ Goto(a, "invalidate")
    /\ UNCHANGED <<cache, client, resolved, op, val, store>>

\* The exchange fails: the BMC refused it, or executed it and the answer was
\* lost.  sessionBroken decides whether the IPMI session is dropped.
ExchangeFails(p) ==
    /\ pc[p] = "exchange"
    /\ cmds' \in (IF op[p] = "control" THEN {cmds, cmds + 1} ELSE {cmds})
    /\ sess' \in (IF backend = "ipmi" THEN BOOLEAN ELSE {sess})
    /\ lock' = Unlocked
    /\ CallFails(p)
    /\ UNCHANGED <<cache, resolved, val, issued, raced, store>>

\* PowerStatus caches the answer and returns it.
Store(p) ==
    /\ pc[p] = "store"
    /\ cache' = {val[p]}
    /\ Goto(p, "row")
    /\ UNCHANGED <<cmds, client, resolved, op, val, issued, raced, store>>

\* Mutant: PowerControl leaves the cache alone.
InvalidateNothing(a) ==
    /\ pc[a] = "invalidate"
    /\ lock' = Unlocked
    /\ Call(a, "status")
    /\ UNCHANGED <<cmds, cache, sess, resolved, val, issued, raced, store>>

\* PowerControl drops the cached status and returns; the handler sleeps and
\* calls PowerStatus.
Invalidate(a) ==
    /\ pc[a] = "invalidate"
    /\ cache' = {}
    /\ lock' = Unlocked
    /\ Call(a, "status")
    /\ UNCHANGED <<cmds, sess, resolved, val, issued, raced, store>>

\* Adapter.Close, from the registry.
CloseClient ==
    /\ backend = "ipmi" /\ lock = None /\ sess
    /\ sess' = FALSE
    /\ UNCHANGED <<cmds, cache, lock, resolved, pc, op, val, issued, raced, store>>

-----------------------------------------------------------------------------
(* Store.RecordPower                                                        *)

\* A caller that has its status and is through with RecordPower.
Return(p) == Goto(p, IF p = Poller THEN "idle" ELSE "done")

\* INSERT INTO power; an error ends RecordPower.
InsertRow(p) ==
    /\ pc[p] = "row"
    /\ Goto(p, "memory") \/ Return(p)
    /\ UNCHANGED <<cmds, cache, client, resolved, op, val, issued, raced, store>>

\* The critical section that sets h.power.
SetLatest(p) ==
    /\ pc[p] = "memory"
    /\ latest' = {val[p]}
    /\ Goto(p, "snapshot")
    /\ UNCHANGED <<cmds, cache, client, resolved, op, val, issued, raced, snap>>

\* writeSnapshot.
WriteSnapshot(p) ==
    /\ pc[p] = "snapshot"
    /\ snap' \in {{val[p]}, snap}
    /\ Return(p)
    /\ UNCHANGED <<cmds, cache, client, resolved, op, val, issued, raced, latest>>

CallStep(p) ==
    \/ Resolve(p) \/ CheckCache(p) \/ Enter(p) \/ Connect(p)
    \/ AnswerStatus(p) \/ ExchangeFails(p) \/ Store(p)
    \/ InsertRow(p) \/ SetLatest(p) \/ WriteSnapshot(p)

ActorStep(a) == Act(a) \/ AnswerControl(a) \/ Invalidate(a)

Next ==
    /\ \/ Poll \/ Expire \/ CloseClient
       \/ \E a \in Actors : ActorStep(a)
       \/ \E p \in Procs : CallStep(p)
    /\ UNCHANGED backend

Spec == Init /\ [][Next]_vars

\* Goroutines are scheduled, tickers fire, time passes; a BMC or a database
\* that the collector asks again and again answers now and then, and a.mu is
\* handed to those who wait.  Nobody has to press a power button, and nothing
\* a power request asks for has to succeed.
FairSpec ==
    /\ Spec
    /\ WF_path(Poll) /\ WF_path(Expire)
    /\ SF_path(Enter(Poller)) /\ SF_path(Connect(Poller) /\ sess')
    /\ SF_path(AnswerStatus(Poller))
    /\ SF_path(InsertRow(Poller) /\ pc'[Poller] = "memory")
    /\ SF_path(WriteSnapshot(Poller) /\ snap' = {val[Poller]})
    /\ \A p \in Procs : WF_path(CallStep(p))
    /\ \A a \in Actors : WF_path(AnswerControl(a)) /\ WF_path(Invalidate(a))

-----------------------------------------------------------------------------
(* Properties                                                               *)

\* An IPMI exchange runs under a.mu on a connected session: nobody closes or
\* replaces the shared client while somebody uses it.
ExchangeOwnsSession ==
    \A p \in Procs :
        backend = "ipmi" /\ pc[p] \in {"connect", "exchange", "invalidate"}
            => lock = p /\ (pc[p] # "connect" => sess)

\* "Read live once for feedback" (handlePowerAction): the status rendered after
\* an acknowledged command is not older than the command, but in one case: a
\* status that the BMC had answered before the command was still on its way
\* into the cache.
FeedbackExplained ==
    \A a \in Actors :
        pc[a] = "done" /\ issued[a] > 0 /\ val[a] < issued[a] => raced[a]

\* "collector will refresh store shortly" (handlePowerAction): once no more
\* commands come, the page and the snapshot that a restart would load end up
\* with the state of the chassis, whatever was cached, lost or overtaken.  The
\* exception is an iDRAC whose only detection failed: it is never asked again.
StoreCatchesUp ==
    <>[](latest = {cmds} /\ snap = {cmds}) \/ <>(resolved = "error")

-----------------------------------------------------------------------------
(***************************************************************************)
(* Proofs about PowerPath, for any number of power requests and every       *)
(* adapter.                                                                 *)
(***************************************************************************)

LEMMA TypeStep == TypeOK /\ [Next]_vars => TypeOK'
<1> SUFFICES ASSUME TypeOK, [Next]_vars PROVE TypeOK'
  OBVIOUS
<1> USE PowerPathAssumption DEF TypeOK, AtMostOne, PCs, Procs, Goto, Call,
        Entry, AfterResolve, Unlocked, Return, client, store
<1>0. backend' = backend
  BY DEF Next, vars
<1> USE <1>0
<1>1. CASE UNCHANGED vars
  BY <1>1 DEF vars, path
<1>2. CASE Poll \/ Expire \/ CloseClient
  BY <1>2 DEF Poll, Expire, CloseClient
<1>3. ASSUME NEW a \in Actors, ActorStep(a) PROVE TypeOK'
  <2>1. CASE Act(a)
    BY <2>1 DEF Act
  <2>2. CASE AnswerControl(a)
    <3>1. raced' \in [Actors -> BOOLEAN]
      BY <2>2, Zenon DEF AnswerControl
    <3> QED BY <2>2, <3>1 DEF AnswerControl
  <2>3. CASE Invalidate(a)
    BY <2>3 DEF Invalidate
  <2> QED BY <1>3, <2>1, <2>2, <2>3 DEF ActorStep
<1>4. ASSUME NEW p \in Procs, CallStep(p) PROVE TypeOK'
  <2>1. CASE Resolve(p)
    BY <2>1 DEF Resolve, CallFails
  <2>2. CASE CheckCache(p)
    BY <2>2 DEF CheckCache
  <2>3. CASE Enter(p)
    BY <2>3 DEF Enter
  <2>4. CASE Connect(p)
    BY <2>4 DEF Connect, CallFails
  <2>5. CASE AnswerStatus(p)
    BY <2>5 DEF AnswerStatus
  <2>6. CASE ExchangeFails(p)
    BY <2>6 DEF ExchangeFails, CallFails
  <2>7. CASE Store(p)
    BY <2>7 DEF Store
  <2>8. CASE InsertRow(p)
    BY <2>8 DEF InsertRow
  <2>9. CASE SetLatest(p)
    BY <2>9 DEF SetLatest
  <2>10. CASE WriteSnapshot(p)
    BY <2>10 DEF WriteSnapshot
  <2> QED BY <1>4, <2>1, <2>2, <2>3, <2>4, <2>5, <2>6, <2>7, <2>8, <2>9,
             <2>10 DEF CallStep
<1> QED BY <1>1, <1>2, <1>3, <1>4 DEF Next

\* Type correctness: among it, each cache holds at most one status.
THEOREM TypeCorrect == Spec => []TypeOK
<1>1. Init => TypeOK
  <2> SUFFICES ASSUME Init PROVE TypeOK
    OBVIOUS
  <2>1. raced \in [Actors -> BOOLEAN]
    BY Zenon DEF Init
  <2> QED BY <2>1 DEF Init, TypeOK, AtMostOne, PCs, Procs
<1> QED BY <1>1, TypeStep, PTL DEF Spec

-----------------------------------------------------------------------------
(* a.mu protects the shared session.                                        *)

LEMMA SessionStep == TypeOK /\ ExchangeOwnsSession /\ [Next]_vars
                        => ExchangeOwnsSession'
<1> SUFFICES ASSUME TypeOK, ExchangeOwnsSession, [Next]_vars
             PROVE  ExchangeOwnsSession'
  OBVIOUS
<1> USE PowerPathAssumption DEF TypeOK, ExchangeOwnsSession, Procs, Goto,
        Call, Entry, AfterResolve, Unlocked, Return, client, store
<1>0. backend' = backend
  BY DEF Next, vars
<1> USE <1>0
<1>1. CASE UNCHANGED vars
  BY <1>1 DEF vars, path
<1>2. CASE Poll \/ Expire \/ CloseClient
  BY <1>2 DEF Poll, Expire, CloseClient
<1>3. ASSUME NEW a \in Actors, ActorStep(a) PROVE ExchangeOwnsSession'
  <2>1. CASE Act(a)
    BY <2>1 DEF Act
  <2>2. CASE AnswerControl(a)
    BY <2>2 DEF AnswerControl
  <2>3. CASE Invalidate(a)
    BY <2>3 DEF Invalidate
  <2> QED BY <1>3, <2>1, <2>2, <2>3 DEF ActorStep
<1>4. ASSUME NEW p \in Procs, CallStep(p) PROVE ExchangeOwnsSession'
  <2>1. CASE Resolve(p) \/ CheckCache(p) \/ Store(p)
    BY <2>1 DEF Resolve, CallFails, CheckCache, Store
  <2>2. CASE Enter(p)
    BY <2>2 DEF Enter
  <2>3. CASE Connect(p)
    BY <2>3 DEF Connect, CallFails
  <2>4. CASE AnswerStatus(p)
    BY <2>4 DEF AnswerStatus
  <2>5. CASE ExchangeFails(p)
    BY <2>5 DEF ExchangeFails, CallFails
  <2>6. CASE InsertRow(p) \/ SetLatest(p) \/ WriteSnapshot(p)
    BY <2>6 DEF InsertRow, SetLatest, WriteSnapshot
  <2> QED BY <1>4, <2>1, <2>2, <2>3, <2>4, <2>5, <2>6 DEF CallStep
<1> QED BY <1>1, <1>2, <1>3, <1>4 DEF Next

\* The shared RMCP+ session is used only under a.mu and only while connected.
THEOREM SessionProtected == Spec => []ExchangeOwnsSession
<1>1. Init => ExchangeOwnsSession
  BY DEF Init, ExchangeOwnsSession
<1> QED BY <1>1, SessionStep, TypeCorrect, PTL DEF Spec

-----------------------------------------------------------------------------
(* An acknowledged command that no read overlapped: every status on its way *)
(* into the cache, and after the invalidation every cached one, is at least *)
(* as new as the command.                                                   *)
Newer ==
    \A a \in Actors :
        issued[a] > 0 =>
            /\ issued[a] <= cmds /\ pc[a] # "idle"
            /\ pc[a] = "invalidate" \/ op[a] = "status"
            /\ ~raced[a] =>
                /\ \A p \in Procs : pc[p] = "store" => val[p] >= issued[a]
                /\ pc[a] # "invalidate" => \A v \in cache : v >= issued[a]
                /\ pc[a] \in {"row", "memory", "snapshot", "done"}
                      => val[a] >= issued[a]

LEMMA NewerStep == TypeOK /\ Newer /\ [Next]_vars => Newer'
<1> SUFFICES ASSUME TypeOK, Newer, [Next]_vars PROVE Newer'
  OBVIOUS
<1> USE PowerPathAssumption DEF TypeOK, Newer, Procs, Goto, Call, Entry,
        AfterResolve, Return, client, store
<1>0. backend' = backend
  BY DEF Next, vars
<1> USE <1>0
<1>1. CASE UNCHANGED vars
  BY <1>1 DEF vars, path
<1>2. CASE Poll \/ Expire \/ CloseClient
  BY <1>2 DEF Poll, Expire, CloseClient
<1>3. ASSUME NEW a \in Actors, ActorStep(a) PROVE Newer'
  <2>1. CASE Act(a)
    BY <2>1 DEF Act
  <2>2. CASE AnswerControl(a)
    BY <2>2 DEF AnswerControl
  <2>3. CASE Invalidate(a)
    BY <2>3 DEF Invalidate
  <2> QED BY <1>3, <2>1, <2>2, <2>3 DEF ActorStep
<1>4. ASSUME NEW p \in Procs, CallStep(p) PROVE Newer'
  <2>1. CASE Resolve(p)
    BY <2>1 DEF Resolve, CallFails
  <2>2. CASE CheckCache(p)
    BY <2>2 DEF CheckCache, AtMostOne
  <2>3. CASE Enter(p) \/ Connect(p)
    BY <2>3 DEF Enter, Connect, CallFails
  <2>4. CASE AnswerStatus(p)
    BY <2>4 DEF AnswerStatus
  <2>5. CASE ExchangeFails(p)
    BY <2>5 DEF ExchangeFails, CallFails
  <2>6. CASE Store(p)
    BY <2>6 DEF Store
  <2>7. CASE InsertRow(p) \/ SetLatest(p) \/ WriteSnapshot(p)
    BY <2>7 DEF InsertRow, SetLatest, WriteSnapshot
  <2> QED BY <1>4, <2>1, <2>2, <2>3, <2>4, <2>5, <2>6, <2>7 DEF CallStep
<1> QED BY <1>1, <1>2, <1>3, <1>4 DEF Next

\* The feedback of a power action is stale only if a status read overlapped
\* the command: without such a read PowerControl's invalidation is enough.
THEOREM FeedbackStaleOnlyWhenRaced == Spec => []FeedbackExplained
<1>1. Init => Newer
  BY DEF Init, Newer
<1>2. TypeOK /\ Newer => FeedbackExplained
  BY DEF TypeOK, Newer, FeedbackExplained, Procs
<1> QED BY <1>1, <1>2, NewerStep, TypeCorrect, PTL DEF Spec
=============================================================================
