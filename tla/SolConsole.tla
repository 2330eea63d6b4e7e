---------------------------- MODULE SolConsole -----------------------------
(***************************************************************************)
(* Serial-over-LAN on one host: httpapi.handleSOLWS, which pumps between a  *)
(* WebSocket and a session, and ipmi.Adapter.OpenSOL, which owns the one    *)
(* SOL slot of the adapter, a dedicated RMCP+ client, two io.Pipes and the  *)
(* goroutine that runs the library's SOLActivate.  io.Pipe is synchronous:  *)
(* a write blocks until it is read or one of the ends is closed.            *)
(*                                                                          *)
(* Every handler opens at most one session, so a session is named by its    *)
(* handler.  SOLActivate (goipmi) is external: it is modelled by the calls  *)
(* it makes and by what makes it return.                                    *)
(***************************************************************************)
EXTENDS Naturals, FiniteSets

CONSTANTS
    Handlers,   \* the requests for /h/{id}/ws/sol
    None

ASSUME SolAssumption == None \notin Handlers

VARIABLES
    solActive,  \* a.solActive
    pc,         \* where handleSOLWS is, OpenSOL and Close included
    conn,       \* the RMCP+ client of the session is connected
    act,        \* the SOLActivate goroutine
    ready,      \* what the one-place channel ready holds
    cancelled,  \* solCtx is cancelled
    shut,       \* onClose has closed bmcInW and bmcOutR
    ws,         \* the WebSocket is open
    out,        \* the goroutine that pumps the session to the WebSocket
    in,         \* the goroutine that pumps the WebSocket to the session
    errs        \* errors in errCh (capacity two)

pumps == <<out, in, errs>>
vars == <<solActive, pc, conn, act, ready, cancelled, shut, ws, out, in, errs>>

\* OpenSOL has reserved the slot and release has not run.
Owning == {"connecting", "activating", "serving", "closing", "waiting"}

\* How a handler ends: the upgrade failed, OpenSOL said ErrBusy, or it had
\* the slot.
Returned == {"noUpgrade", "refused", "done"}

PCs == Owning \cup Returned \cup {"idle", "asking", "busy", "hangup"}

\* The type of every variable of the SOL sessions.
TypeOK ==
    /\ solActive \in BOOLEAN
    /\ pc \in [Handlers -> PCs]
    /\ conn \in [Handlers -> BOOLEAN]
    /\ act \in [Handlers -> {"off", "starting", "active", "writing", "returned"}]
    /\ ready \in [Handlers -> {"empty", "nil", "err"}]
    /\ cancelled \in [Handlers -> BOOLEAN]
    /\ shut \in [Handlers -> BOOLEAN]
    /\ ws \in [Handlers -> BOOLEAN]
    /\ out \in [Handlers -> {"off", "reading", "sending", "ended"}]
    /\ in \in [Handlers -> {"off", "reading", "writing", "ended"}]
    /\ errs \in [Handlers -> 0..2]

Init ==
    /\ solActive = FALSE
    /\ pc = [h \in Handlers |-> "idle"]
    /\ conn = [h \in Handlers |-> FALSE]
    /\ act = [h \in Handlers |-> "off"]
    /\ ready = [h \in Handlers |-> "empty"]
    /\ cancelled \in [Handlers -> BOOLEAN]
    /\ shut = [h \in Handlers |-> FALSE]
    /\ ws = [h \in Handlers |-> FALSE]
    /\ out = [h \in Handlers |-> "off"]
    /\ in = [h \in Handlers |-> "off"]
    /\ errs = [h \in Handlers |-> 0]

Goto(h, p) == pc' = [pc EXCEPT ![h] = p]
Push(c, h, v) == IF c[h] = "empty" THEN [c EXCEPT ![h] = v] ELSE c

-----------------------------------------------------------------------------
(* handleSOLWS and OpenSOL                                                  *)

\* Upgrade the request to a WebSocket, or return.
Upgrade(h) ==
    /\ pc[h] = "idle"
    /\ \/ Goto(h, "asking") /\ ws' = [ws EXCEPT ![h] = TRUE]
       \/ Goto(h, "noUpgrade") /\ UNCHANGED ws
    /\ UNCHANGED <<solActive, conn, act, ready, cancelled, shut, pumps>>

\* Mutant: solActive is not tested before it is set.
OpenUnchecked(h) ==
    /\ pc[h] = "asking"
    /\ solActive' = TRUE /\ Goto(h, "connecting")
    /\ UNCHANGED <<conn, act, ready, cancelled, shut, ws, pumps>>

\* OpenSOL: refuse with ErrBusy (the handler says so and returns) or reserve.
Open(h) ==
    /\ pc[h] = "asking"
    /\ \/ solActive /\ Goto(h, "busy") /\ UNCHANGED solActive
       \/ ~solActive /\ solActive' = TRUE /\ Goto(h, "connecting")
    /\ UNCHANGED <<conn, act, ready, cancelled, shut, ws, pumps>>

\* c.Connect succeeds and the goroutine is started, or the slot is released.
Connect(h) ==
    /\ pc[h] = "connecting"
    /\ \/ /\ ~cancelled[h]
          /\ Goto(h, "activating")
          /\ conn' = [conn EXCEPT ![h] = TRUE]
          /\ act' = [act EXCEPT ![h] = "starting"]
          /\ UNCHANGED <<solActive, cancelled>>
       \/ /\ Goto(h, "hangup") /\ solActive' = FALSE
          /\ cancelled' = [cancelled EXCEPT ![h] = TRUE]
          /\ UNCHANGED <<conn, act>>
    /\ UNCHANGED <<ready, shut, ws, pumps>>

\* The select of OpenSOL: activated, failed, timed out or cancelled.  The two
\* pumps are started when OpenSOL returns the session.
Activated(h) ==
    /\ pc[h] = "activating"
    /\ \/ /\ ready[h] = "nil" /\ Goto(h, "serving")
          /\ ready' = [ready EXCEPT ![h] = "empty"]
          /\ out' = [out EXCEPT ![h] = "reading"]
          /\ in' = [in EXCEPT ![h] = "reading"]
       \/ /\ ready[h] = "err" /\ Goto(h, "closing")
          /\ ready' = [ready EXCEPT ![h] = "empty"] /\ UNCHANGED <<out, in>>
       \/ Goto(h, "closing") /\ UNCHANGED <<ready, out, in>>
    /\ UNCHANGED <<solActive, conn, act, cancelled, shut, ws, errs>>

\* <-errCh: one of the pumps has ended.
PumpEnded(h) ==
    /\ pc[h] = "serving" /\ errs[h] > 0
    /\ errs' = [errs EXCEPT ![h] = @ - 1]
    /\ Goto(h, "closing")
    /\ UNCHANGED <<solActive, conn, act, ready, cancelled, shut, ws, out, in>>

\* Mutant: onClose waits for the goroutine before it closes the pipes.
CloseWaitsFirst(h) ==
    /\ pc[h] = "closing"
    /\ cancelled' = [cancelled EXCEPT ![h] = TRUE]
    /\ Goto(h, "waiting")
    /\ UNCHANGED <<solActive, conn, act, ready, shut, ws, pumps>>

\* onClose up to <-done: cancel and close our ends of the pipes.
Close(h) ==
    /\ pc[h] = "closing"
    /\ cancelled' = [cancelled EXCEPT ![h] = TRUE]
    /\ shut' = [shut EXCEPT ![h] = TRUE]
    /\ Goto(h, "waiting")
    /\ UNCHANGED <<solActive, conn, act, ready, ws, pumps>>

\* Mutant: the slot is released without waiting for the goroutine, and the
\* client is left to it.
CloseDoneUnwaited(h) ==
    /\ pc[h] = "waiting"
    /\ solActive' = FALSE
    /\ Goto(h, "hangup")
    /\ UNCHANGED <<conn, act, ready, cancelled, shut, ws, pumps>>

\* onClose after <-done: close the other ends and the client, release.
CloseDone(h) ==
    /\ pc[h] = "waiting" /\ act[h] = "returned"
    /\ conn' = [conn EXCEPT ![h] = FALSE]
    /\ solActive' = FALSE
    /\ Goto(h, "hangup")
    /\ UNCHANGED <<act, ready, cancelled, shut, ws, pumps>>

\* The deferred conn.Close of the WebSocket, and the handler returns.
HangUp(h) ==
    /\ \/ pc[h] = "busy" /\ Goto(h, "refused")
       \/ pc[h] = "hangup" /\ Goto(h, "done")
    /\ ws' = [ws EXCEPT ![h] = FALSE]
    /\ cancelled' = [cancelled EXCEPT ![h] = TRUE]
    /\ UNCHANGED <<solActive, conn, act, ready, shut, pumps>>

-----------------------------------------------------------------------------
(* The SOLActivate goroutine                                                *)

\* The BMC accepts: OnActivated puts nil into ready if there is room.
Activate(h) ==
    /\ act[h] = "starting"
    /\ act' = [act EXCEPT ![h] = "active"]
    /\ ready' = Push(ready, h, "nil")
    /\ UNCHANGED <<solActive, pc, conn, cancelled, shut, ws, pumps>>

\* The BMC has output: SOLActivate blocks in the write to bmcOutW.
BmcOutput(h) ==
    /\ act[h] = "active"
    /\ act' = [act EXCEPT ![h] = "writing"]
    /\ UNCHANGED <<solActive, pc, conn, ready, cancelled, shut, ws, pumps>>

\* SOLActivate returns: refused, session lost, context cancelled, or a pipe
\* end was closed.  The goroutine offers the result to ready and closes both
\* of its pipe ends and done.
ActReturns(h) ==
    /\ \/ act[h] \in {"starting", "active"}
       \/ act[h] = "writing" /\ shut[h]
    /\ act' = [act EXCEPT ![h] = "returned"]
    /\ \E r \in {"nil", "err"} : ready' = Push(ready, h, r)
    /\ UNCHANGED <<solActive, pc, conn, cancelled, shut, ws, pumps>>

-----------------------------------------------------------------------------
(* The pumps of handleSOLWS                                                 *)

\* A pump sends its error to errCh and returns.
Ended(p, h) ==
    /\ p' = [p EXCEPT ![h] = "ended"]
    /\ errs' = [errs EXCEPT ![h] = @ + 1]

\* sess.Read returns data, or fails once either end of the pipe is closed.
OutReads(h) ==
    /\ out[h] = "reading"
    /\ \/ /\ act[h] = "writing"
          /\ act' = [act EXCEPT ![h] = "active"]
          /\ out' = [out EXCEPT ![h] = "sending"] /\ UNCHANGED errs
       \/ (shut[h] \/ act[h] = "returned") /\ Ended(out, h) /\ UNCHANGED act
    /\ UNCHANGED <<solActive, pc, conn, ready, cancelled, shut, ws, in>>

\* conn.WriteMessage succeeds or fails.
OutSends(h) ==
    /\ out[h] = "sending"
    /\ \/ ws[h] /\ out' = [out EXCEPT ![h] = "reading"] /\ UNCHANGED errs
       \/ ~ws[h] /\ Ended(out, h)
    /\ UNCHANGED <<solActive, pc, conn, act, ready, cancelled, shut, ws, in>>

\* The browser types.
InReads(h) ==
    /\ in[h] = "reading" /\ ws[h]
    /\ in' = [in EXCEPT ![h] = "writing"]
    /\ UNCHANGED <<solActive, pc, conn, act, ready, cancelled, shut, ws, out, errs>>

\* conn.ReadMessage fails because the WebSocket is closed.
InFails(h) ==
    /\ in[h] = "reading" /\ ~ws[h] /\ Ended(in, h)
    /\ UNCHANGED <<solActive, pc, conn, act, ready, cancelled, shut, ws, out>>

\* sess.Write: SOLActivate takes the data, or an end of the pipe is closed.
InWrites(h) ==
    /\ in[h] = "writing"
    /\ \/ act[h] = "active" /\ in' = [in EXCEPT ![h] = "reading"] /\ UNCHANGED errs
       \/ (shut[h] \/ act[h] = "returned") /\ Ended(in, h)
    /\ UNCHANGED <<solActive, pc, conn, act, ready, cancelled, shut, ws, out>>

\* The browser leaves.
Disconnect(h) ==
    /\ ws[h]
    /\ ws' = [ws EXCEPT ![h] = FALSE]
    /\ UNCHANGED <<solActive, pc, conn, act, ready, cancelled, shut, pumps>>

HandlerStep(h) ==
    \/ Upgrade(h) \/ Open(h) \/ Connect(h) \/ Activated(h) \/ PumpEnded(h)
    \/ Close(h) \/ CloseDone(h) \/ HangUp(h)

ActStep(h) == Activate(h) \/ BmcOutput(h) \/ ActReturns(h)

PumpStep(h) ==
    OutReads(h) \/ OutSends(h) \/ InReads(h) \/ InFails(h) \/ InWrites(h)

Next ==
    \E h \in Handlers :
        HandlerStep(h) \/ ActStep(h) \/ PumpStep(h) \/ Disconnect(h)

Spec == Init /\ [][Next]_vars

\* Goroutines are scheduled; Connect is bounded by the library, the select of
\* OpenSOL by its 15 s timer; SOLActivate returns once its context is
\* cancelled or its output pipe is closed.  Nobody has to ask for a console,
\* type, send output or leave.
Fairness ==
    \A h \in Handlers :
        /\ WF_vars(Open(h)) /\ WF_vars(Connect(h)) /\ WF_vars(Activated(h))
        /\ WF_vars(PumpEnded(h)) /\ WF_vars(Close(h)) /\ WF_vars(CloseDone(h))
        /\ WF_vars(HangUp(h))
        /\ SF_vars(cancelled[h] /\ ActReturns(h))
        /\ WF_vars(OutReads(h)) /\ WF_vars(OutSends(h))
        /\ WF_vars(InFails(h)) /\ WF_vars(InWrites(h))

FairSpec == Spec /\ Fairness

-----------------------------------------------------------------------------
(* Properties                                                               *)

\* "Only one SOL session is allowed" (OpenSOL): two RMCP+ SOL clients are
\* never connected at once, not even while one of them is being closed.
OneSolSession ==
    \A g, h \in Handlers : conn[g] /\ conn[h] => g = h

\* Nothing is left behind: when a handler has returned, its client is closed
\* and SOLActivate is not running, however far OpenSOL got; and the slot is
\* reserved only while some handler is between OpenSOL and release.
NothingLeftBehind ==
    /\ \A h \in Handlers :
         pc[h] \in Returned => ~conn[h] /\ act[h] \in {"off", "returned"}
    /\ solActive => \E h \in Handlers : pc[h] \in Owning

\* Nobody waits on anybody for ever: OpenSOL ends with a session or an answer
\* even when activation hangs, and once the browser is gone the handler returns
\* and both pumps end, whichever pipe or channel they were blocked on.
HandlersReturn ==
    \A h \in Handlers :
        /\ pc[h] = "connecting" ~> pc[h] \in {"serving", "hangup"}
        /\ pc[h] = "serving" /\ ~ws[h]
             ~> pc[h] = "done" /\ out[h] = "ended" /\ in[h] = "ended"

\* The handler that owns the slot, and what each handler was told.
Owner ==
    IF \E h \in Handlers : pc[h] \in Owning
    THEN CHOOSE h \in Handlers : pc[h] \in Owning
    ELSE None

Reply ==
    [h \in Handlers |->
        IF pc[h] \in {"idle", "asking", "noUpgrade"} THEN "none"
        ELSE IF pc[h] \in {"busy", "refused"} THEN "busy" ELSE "granted"]

\* OpenSOL and the session's Close implement ExclusiveSlot, whatever the BMC
\* and the browsers do: a console is refused only while another handler owns
\* the slot, and only the owner gives it back.
Slot == INSTANCE ExclusiveSlot WITH
    Clients <- Handlers, holder <- Owner, reply <- Reply

SlotImplemented == Slot!Spec
=============================================================================
