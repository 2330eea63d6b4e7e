----------------------------- MODULE KvmBridge -----------------------------
(***************************************************************************)
(* The KVM bridge of one host and the WebSocket handlers that use it:       *)
(* httpapi.handleKVMWS calls Acquire, upgrades the connection, runs         *)
(* rfb.Serve and releases.  The three bridges (AMI internal/kvm, AMT        *)
(* internal/amt/redir, iLO internal/ilo/rc) share the slot protocol and     *)
(* differ in how a session is connected and who closes it, which the        *)
(* variable backend, fixed by Init, selects.                                *)
(*                                                                          *)
(* Every handler creates at most one BMC session, so a session is named by  *)
(* its handler.  Critical sections of b.mu are atomic steps, and so is each *)
(* network exchange of Connect.                                             *)
(***************************************************************************)
EXTENDS Naturals, FiniteSets

CONSTANTS
    Handlers,   \* the requests for /h/{id}/ws/kvm
    None        \* Go's nil

ASSUME KvmBridgeAssumption == None \notin Handlers

VARIABLES
    active,     \* b.active
    client,     \* b.client (AMT: b.conn); b.cancel is set and cleared with it
    pc,         \* where each handler is
    step,       \* the exchange of Connect a handler is in, or failed in
    cancelled,  \* the session's context is cancelled
    sock,       \* the video socket of the session is open on our side
    web,        \* the login's web session is at the BMC and nobody has asked
                \* for its logout
    gone,       \* the BMC ended the stream, or it could not be decoded
    run,        \* the goroutine that calls Run
    victim,     \* the client Release took out of the slot
    backend,    \* the bridge of this host: "ami", "amt" or "ilo"
    early       \* history: a session ended before its handler released it

slot == <<active, client>>
session == <<step, cancelled, sock, web, gone>>
bridge == <<slot, pc, session, run, victim>>
vars == <<bridge, backend, early>>

\* The exchanges of Connect, in the order the code makes them.
Steps == {"login", "enable", "launch", "token", "dial", "handshake", "ready"}

Backends == {"ami", "amt", "ilo"}

\* A handler in one of these holds the slot: Acquire reserved it and Release
\* has not given it back.
Holding == {"connecting", "upgrading", "serving", "releasing"}

\* Acquire has returned a session and Release has not run yet.
Granted == {"upgrading", "serving", "releasing"}

PCs == Holding \cup {"idle", "closing", "returning", "done"}

\* The type of every variable of the bridge and its handlers.
TypeOK ==
    /\ active \in BOOLEAN
    /\ client \in Handlers \cup {None}
    /\ pc \in [Handlers -> PCs]
    /\ step \in [Handlers -> Steps]
    /\ cancelled \in [Handlers -> BOOLEAN]
    /\ sock \in [Handlers -> BOOLEAN]
    /\ web \in [Handlers -> BOOLEAN]
    /\ gone \in [Handlers -> BOOLEAN]
    /\ run \in [Handlers -> {"none", "running", "ended", "cleared", "done"}]
    /\ victim \in [Handlers -> Handlers \cup {None}]
    /\ backend \in Backends
    /\ early \in BOOLEAN

FirstStep(b) == IF b = "amt" THEN "enable" ELSE "login"

Init ==
    /\ active = FALSE
    /\ client = None
    /\ pc = [h \in Handlers |-> "idle"]
    /\ backend \in Backends
    /\ early = FALSE
    /\ step = [h \in Handlers |-> FirstStep(backend)]
    /\ cancelled = [h \in Handlers |-> FALSE]
    /\ sock = [h \in Handlers |-> FALSE]
    /\ web = [h \in Handlers |-> FALSE]
    /\ gone = [h \in Handlers |-> FALSE]
    /\ run = [h \in Handlers |-> "none"]
    /\ victim = [h \in Handlers |-> None]

Goto(h, p) == pc' = [pc EXCEPT ![h] = p]

-----------------------------------------------------------------------------
(* Acquire                                                                  *)

\* Mutant: the busy check is dropped.
AcquireUnchecked(h) ==
    /\ pc[h] = "idle"
    /\ Goto(h, "connecting") /\ active' = TRUE
    /\ UNCHANGED <<client, session, run, victim>>

\* The first critical section of Acquire: refuse with ErrBusy (the handler
\* answers 409 and returns) or reserve the slot.
Acquire(h) ==
    /\ pc[h] = "idle"
    /\ \/ active /\ Goto(h, "done") /\ UNCHANGED active
       \/ ~active /\ Goto(h, "connecting") /\ active' = TRUE
    /\ UNCHANGED <<client, session, run, victim>>

Reach(h, s) == step' = [step EXCEPT ![h] = s]

\* FetchLaunchArgs: web login, then the JNLP; both honour the context.
AmiFetchLaunchArgs(h) ==
    /\ ~cancelled[h]
    /\ \/ /\ step[h] = "login" /\ Reach(h, "launch")
          /\ web' = [web EXCEPT ![h] = TRUE]
       \/ step[h] = "launch" /\ Reach(h, "token") /\ UNCHANGED web
    /\ UNCHANGED sock

\* kvm.Connect: after the launch arguments, the token check, the dial and the
\* IVTP handshake, which do not look at the context.
AmiConnect(h) ==
    /\ backend = "ami"
    /\ \/ AmiFetchLaunchArgs(h)
       \/ step[h] = "token" /\ Reach(h, "dial") /\ UNCHANGED <<web, sock>>
       \/ /\ step[h] = "dial" /\ Reach(h, "handshake")
          /\ sock' = [sock EXCEPT ![h] = TRUE] /\ UNCHANGED web
       \/ step[h] = "handshake" /\ Reach(h, "ready") /\ UNCHANGED <<web, sock>>

\* The AMT bridge: WS-MAN EnableKVM under its own timeout, redirection dial,
\* RFB handshake; no web session is kept.
AmtConnect(h) ==
    /\ backend = "amt"
    /\ \/ step[h] = "enable" /\ Reach(h, "dial") /\ UNCHANGED sock
       \/ /\ step[h] = "dial" /\ Reach(h, "handshake")
          /\ sock' = [sock EXCEPT ![h] = TRUE]
       \/ step[h] = "handshake" /\ Reach(h, "ready") /\ UNCHANGED sock
    /\ UNCHANGED web

\* rc.Connect: web login, rc_info, console dial with its handshake; none of
\* them looks at the context.
IloConnect(h) ==
    /\ backend = "ilo"
    /\ \/ /\ step[h] = "login" /\ Reach(h, "launch")
          /\ web' = [web EXCEPT ![h] = TRUE] /\ UNCHANGED sock
       \/ step[h] = "launch" /\ Reach(h, "dial") /\ UNCHANGED <<web, sock>>
       \/ /\ step[h] = "dial" /\ Reach(h, "ready")
          /\ sock' = [sock EXCEPT ![h] = TRUE] /\ UNCHANGED web

Connect(h) ==
    /\ pc[h] = "connecting" /\ step[h] # "ready"
    /\ AmiConnect(h) \/ AmtConnect(h) \/ IloConnect(h)
    /\ UNCHANGED <<slot, pc, cancelled, gone, run, victim>>

\* What a failed Connect leaves behind: every error path calls Logout and
\* closes, except that FetchLaunchArgs returns a failed JNLP fetch without
\* calling it for the web session Login has just made.
WebAfterFailure(h) == backend = "ami" /\ step[h] = "launch" /\ web[h]

\* Mutant: the error return forgets to free the slot.
ConnectFailKeepsSlot(h) ==
    /\ pc[h] = "connecting" /\ step[h] # "ready"
    /\ cancelled' = [cancelled EXCEPT ![h] = TRUE]
    /\ sock' = [sock EXCEPT ![h] = FALSE]
    /\ web' = [web EXCEPT ![h] = WebAfterFailure(h)]
    /\ Goto(h, "done")
    /\ UNCHANGED <<active, client, step, gone, run, victim>>

\* Mutant: a failed exchange starts Connect over instead of returning.
ConnectFailRetries(h) ==
    /\ pc[h] = "connecting" /\ step[h] # "ready"
    /\ sock' = [sock EXCEPT ![h] = FALSE]
    /\ web' = [web EXCEPT ![h] = FALSE]
    /\ step' = [step EXCEPT ![h] = FirstStep(backend)]
    /\ UNCHANGED <<slot, pc, cancelled, gone, run, victim>>

\* Connect returned an error: cancel, free the slot, answer 502.
ConnectFail(h) ==
    /\ pc[h] = "connecting" /\ step[h] # "ready"
    /\ cancelled' = [cancelled EXCEPT ![h] = TRUE]
    /\ sock' = [sock EXCEPT ![h] = FALSE]
    /\ web' = [web EXCEPT ![h] = WebAfterFailure(h)]
    /\ active' = FALSE
    /\ Goto(h, "done")
    /\ UNCHANGED <<client, step, gone, run, victim>>

\* The second critical section: publish the session, start Run.
Publish(h) ==
    /\ pc[h] = "connecting" /\ step[h] = "ready"
    /\ client' = h
    /\ run' = [run EXCEPT ![h] = "running"]
    /\ Goto(h, "upgrading")
    /\ UNCHANGED <<active, session, victim>>

-----------------------------------------------------------------------------
(* The handler after Acquire, and Release                                   *)

\* The WebSocket upgrade succeeds and rfb.Serve starts, or it fails and the
\* deferred release is next.
Upgrade(h) ==
    /\ pc[h] = "upgrading"
    /\ Goto(h, "serving") \/ Goto(h, "releasing")
    /\ UNCHANGED <<slot, session, run, victim>>

\* rfb.Serve returns: the browser left or the WebSocket failed.  Serve does
\* not watch the BMC session, and r.Context() of a hijacked request is only
\* cancelled when the handler returns.
ServeEnds(h) ==
    /\ pc[h] = "serving"
    /\ Goto(h, "releasing")
    /\ UNCHANGED <<slot, session, run, victim>>

\* The critical section of Release: it takes whatever session the bridge
\* points to, not the caller's.
Release(h) ==
    /\ pc[h] = "releasing"
    /\ victim' = [victim EXCEPT ![h] = client]
    /\ active' = FALSE
    /\ client' = None
    /\ Goto(h, "closing")
    /\ UNCHANGED <<session, run>>

\* The rest of Release: cancel and close the session that was taken, if any.
\* Closing the client also asks for the logout of its web session.  Logout is
\* best effort: one request, whose failure nobody sees, and a web session the
\* BMC keeps all the same is left to its timeout there.
Teardown(h) ==
    /\ pc[h] = "closing"
    /\ cancelled' = [v \in Handlers |-> cancelled[v] \/ v = victim[h]]
    /\ sock' = [v \in Handlers |-> sock[v] /\ v # victim[h]]
    /\ web' = [v \in Handlers |-> web[v] /\ v # victim[h]]
    /\ Goto(h, "returning")
    /\ UNCHANGED <<slot, step, gone, run, victim>>

\* ServeHTTP returns, which cancels r.Context() and the session's context.
HandlerReturns(h) ==
    /\ pc[h] = "returning"
    /\ cancelled' = [cancelled EXCEPT ![h] = TRUE]
    /\ Goto(h, "done")
    /\ UNCHANGED <<slot, step, sock, web, gone, run, victim>>

-----------------------------------------------------------------------------
(* The goroutines of a session                                              *)

\* Mutant: Run waits for the BMC only.
RunStopsWithPeer(h) == gone[h]

\* AMI and iLO Run select on the context; AMT Run only reads the socket.
RunStops(h) == gone[h] \/ ~sock[h] \/ (backend # "amt" /\ cancelled[h])

\* Mutant: Run returns without the deferred Close.
RunEndsOpen(h) ==
    /\ run[h] = "running" /\ RunStops(h)
    /\ run' = [run EXCEPT ![h] = "ended"]
    /\ UNCHANGED <<slot, pc, step, cancelled, sock, web, gone, victim>>

\* kvm.Client.Run closes the client as it returns, which asks for the logout of
\* its web session; rc.Client.Run and the AMT rfbClient.Run close nothing.
ClosedByRun(h) ==
    IF backend = "ami"
    THEN /\ sock' = [sock EXCEPT ![h] = FALSE]
         /\ web' = [web EXCEPT ![h] = FALSE]
    ELSE UNCHANGED <<sock, web>>

\* Run returns.
RunEnds(h) ==
    /\ run[h] = "running" /\ RunStops(h)
    /\ run' = [run EXCEPT ![h] = "ended"]
    /\ ClosedByRun(h)
    /\ UNCHANGED <<slot, pc, step, cancelled, gone, victim>>

\* The critical section after Run: free the slot if it still points here.
RunClears(h) ==
    /\ run[h] = "ended"
    /\ IF client = h THEN active' = FALSE /\ client' = None ELSE UNCHANGED slot
    /\ run' = [run EXCEPT ![h] = IF backend = "amt" THEN "cleared" ELSE "done"]
    /\ UNCHANGED <<pc, session, victim>>

\* The AMT goroutine closes its socket last.
AmtRunCloses(h) ==
    /\ run[h] = "cleared"
    /\ sock' = [sock EXCEPT ![h] = FALSE]
    /\ run' = [run EXCEPT ![h] = "done"]
    /\ UNCHANGED <<slot, pc, step, cancelled, web, gone, victim>>

\* The second AMT goroutine closes the socket once the context is cancelled.
AmtCtxCloses(h) ==
    /\ backend = "amt" /\ run[h] # "none" /\ cancelled[h] /\ sock[h]
    /\ sock' = [sock EXCEPT ![h] = FALSE]
    /\ UNCHANGED <<slot, pc, step, cancelled, web, gone, run, victim>>

-----------------------------------------------------------------------------
(* The environment                                                          *)

\* The BMC stops the session, drops the connection or sends what Run rejects.
BmcEnds(h) ==
    /\ run[h] = "running" /\ sock[h] /\ ~gone[h]
    /\ early' = TRUE
    /\ gone' = [gone EXCEPT ![h] = TRUE]
    /\ UNCHANGED <<slot, pc, step, cancelled, sock, web, run, victim>>

\* The browser disconnects before the upgrade: net/http cancels r.Context().
BrowserLeaves(h) ==
    /\ early' = TRUE
    /\ pc[h] \in {"connecting", "upgrading"} /\ ~cancelled[h]
    /\ cancelled' = [cancelled EXCEPT ![h] = TRUE]
    /\ UNCHANGED <<slot, pc, step, sock, web, gone, run, victim>>

HandlerStep(h) ==
    \/ Acquire(h) \/ Connect(h) \/ ConnectFail(h) \/ Publish(h)
    \/ Upgrade(h) \/ ServeEnds(h) \/ Release(h) \/ Teardown(h)
    \/ HandlerReturns(h)

SessionStep(h) ==
    \/ RunEnds(h) \/ RunClears(h) \/ AmtRunCloses(h) \/ AmtCtxCloses(h)

Next ==
    /\ \E h \in Handlers :
         \/ (HandlerStep(h) \/ SessionStep(h)) /\ UNCHANGED early
         \/ BmcEnds(h) \/ BrowserLeaves(h)
    /\ UNCHANGED backend

\* The one exchange of Connect that nothing bounds.
Unbounded(h) == backend = "amt" /\ step[h] = "handshake"

\* Fairness.  Goroutines are scheduled, and every exchange of Connect is
\* bounded by a timeout, so it succeeds or fails - except the AMT RFB
\* handshake, which runs after Dial has cleared the deadline.  Nothing makes
\* a browser ask for or leave a console.
ConnectBounded(h) ==
    /\ ~Unbounded(h)
    /\ Connect(h) \/ ConnectFail(h)

Fairness ==
    \A h \in Handlers :
        /\ WF_bridge(ConnectBounded(h))
        /\ WF_bridge(Publish(h)) /\ WF_bridge(Upgrade(h))
        /\ WF_bridge(Release(h)) /\ WF_bridge(Teardown(h))
        /\ WF_bridge(HandlerReturns(h))
        /\ WF_bridge(RunEnds(h)) /\ WF_bridge(RunClears(h))
        /\ WF_bridge(AmtRunCloses(h)) /\ WF_bridge(AmtCtxCloses(h))

Spec == Init /\ [][Next]_vars

FairSpec == Spec /\ Fairness

-----------------------------------------------------------------------------
(* Properties                                                               *)

\* The slot is never left reserved with nobody to free it: once no handler is
\* between Acquire and Release, Acquire would succeed again.  It holds even
\* when stale releases and failed connects hit somebody else's reservation,
\* so a host cannot answer 409 for ever because of an earlier session.
SlotFreeWhenIdle ==
    (\A h \in Handlers : pc[h] \notin Holding) => ~active /\ client = None

\* Two handlers that hold the slot never both have an open video socket.
OwnsOneSession ==
    \A g, h \in Handlers :
        (sock[g] /\ sock[h] /\ pc[g] \in Holding /\ pc[h] \in Holding) => g = h

\* "Bridge owns at most one BMC KVM session" (kvm/bridge.go:18), of the AMI
\* bridge whose comment it is: there Run closes its socket before the slot is
\* cleared, so only a Release that frees somebody else's slot can break it.
AmiOwnsOneSession == backend = "ami" => OwnsOneSession

\* The part of that claim Acquire and Release deliver: one session at a time
\* until some session ends before its own handler has released it.
AtMostOneSession == ~early => OwnsOneSession

\* The web session a failed JNLP fetch leaves to time out at the BMC.
LostInFetch(h) == backend = "ami" /\ run[h] = "none" /\ step[h] = "launch"

\* An iLO session whose goroutine forgot it before Release could take it:
\* rc.Client.Run closes nothing, so nobody does.
ForgottenByRun(h) == backend = "ilo" /\ victim[h] # h

\* When a handler has returned and the goroutine of its session is through,
\* the video socket is closed and the logout of the web session has been asked
\* for, on every path (failed connects, failed upgrades, BMC drops, stale
\* releases) but the two named above.
ClosedWhenDone ==
    \A h \in Handlers :
        pc[h] = "done" /\ run[h] \in {"none", "done"}
            => \/ ~sock[h] /\ (web[h] => LostInFetch(h))
               \/ run[h] = "done" /\ ForgottenByRun(h)

\* A session never outlives its handler for long: after the handler returns,
\* the goroutine of the session (if it was started) finishes.
SessionFollowsHandler ==
    \A h \in Handlers : pc[h] = "done" ~> run[h] \in {"none", "done"}

\* Acquire returns, or waits for the RFB handshake of an ME: it never leaves
\* the slot reserved behind a BMC that stopped answering anywhere else.
AcquireReturns ==
    \A h \in Handlers :
        pc[h] = "connecting" ~> pc[h] # "connecting" \/ Unbounded(h)

\* The handler that holds the slot, and what each handler was told: a handler
\* that returned without its context being cancelled was refused.
Holder ==
    IF \E h \in Handlers : pc[h] \in Holding
    THEN CHOOSE h \in Handlers : pc[h] \in Holding
    ELSE None

Reply ==
    [h \in Handlers |->
        IF pc[h] = "idle" THEN "none"
        ELSE IF pc[h] = "done" /\ ~cancelled[h] THEN "busy" ELSE "granted"]

Slot == INSTANCE ExclusiveSlot WITH
    Clients <- Handlers, holder <- Holder, reply <- Reply

\* The slot protocol implements ExclusiveSlot until a session ends early: 409
\* only while another handler holds the slot, and only the holder gives it
\* back.
SlotImplemented ==
    /\ Slot!Init
    /\ [][early' \/ [Slot!Next]_(Slot!vars)]_vars
=============================================================================
