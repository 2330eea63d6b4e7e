-------------------------- MODULE KvmBridgeProofs --------------------------
(***************************************************************************)
(* Proofs about KvmBridge, for any number of handlers.                      *)
(***************************************************************************)
EXTENDS KvmBridge, TLAPS

\* Type correctness of the bridge and its handlers.
THEOREM TypeCorrect == Spec => []TypeOK
<1>1. Init => TypeOK
  <2>1. \A b : FirstStep(b) \in Steps
    BY DEF FirstStep, Steps
  <2> QED BY <2>1 DEF Init, TypeOK, PCs, Holding
<1>2. TypeOK /\ [Next]_vars => TypeOK'
  <2> SUFFICES ASSUME TypeOK, [Next]_vars PROVE TypeOK'
    OBVIOUS
  <2> USE DEF TypeOK, PCs, Holding, Steps, Backends, session, slot, Goto,
              Reach
  <2>1. CASE UNCHANGED vars
    BY <2>1 DEF vars, bridge
  <2>2. ASSUME NEW h \in Handlers, HandlerStep(h), UNCHANGED <<backend, early>>
        PROVE  TypeOK'
    <3>0. UNCHANGED <<backend, early>>
      BY <2>2
    <3> USE <3>0
    <3>1. CASE Acquire(h)
      BY <3>1 DEF Acquire
    <3>2. CASE Connect(h)
      <4>1. CASE AmiConnect(h)
        BY <3>2, <4>1 DEF Connect, AmiConnect, AmiFetchLaunchArgs
      <4>2. CASE AmtConnect(h)
        BY <3>2, <4>2 DEF Connect, AmtConnect
      <4>3. CASE IloConnect(h)
        BY <3>2, <4>3 DEF Connect, IloConnect
      <4> QED BY <3>2, <4>1, <4>2, <4>3 DEF Connect
    <3>3. CASE ConnectFail(h)
      <4>1. WebAfterFailure(h) \in BOOLEAN
        BY DEF WebAfterFailure
      <4> QED BY <3>3, <4>1 DEF ConnectFail
    <3>4. CASE Publish(h)
      BY <3>4 DEF Publish
    <3>5. CASE Upgrade(h)
      BY <3>5 DEF Upgrade
    <3>6. CASE ServeEnds(h)
      BY <3>6 DEF ServeEnds
    <3>7. CASE Release(h)
      BY <3>7 DEF Release
    <3>8. CASE Teardown(h)
      BY <3>8 DEF Teardown
    <3>9. CASE HandlerReturns(h)
      BY <3>9 DEF HandlerReturns
    <3> QED
      BY <2>2, <3>1, <3>2, <3>3, <3>4, <3>5, <3>6, <3>7, <3>8, <3>9
         DEF HandlerStep
  <2>3. ASSUME NEW h \in Handlers, SessionStep(h), UNCHANGED <<backend, early>>
        PROVE  TypeOK'
    <3>0. UNCHANGED <<backend, early>>
      BY <2>3
    <3> USE <3>0
    <3>1. CASE RunEnds(h)
      BY <3>1 DEF RunEnds, ClosedByRun
    <3>2. CASE RunClears(h)
      BY <3>2 DEF RunClears
    <3>3. CASE AmtRunCloses(h)
      BY <3>3 DEF AmtRunCloses
    <3>4. CASE AmtCtxCloses(h)
      BY <3>4 DEF AmtCtxCloses
    <3> QED BY <2>3, <3>1, <3>2, <3>3, <3>4 DEF SessionStep
  <2>4. ASSUME NEW h \in Handlers, BmcEnds(h), UNCHANGED backend PROVE TypeOK'
    BY <2>4 DEF BmcEnds
  <2>5. ASSUME NEW h \in Handlers, BrowserLeaves(h), UNCHANGED backend
        PROVE  TypeOK'
    BY <2>5 DEF BrowserLeaves
  <2> QED BY <2>1, <2>2, <2>3, <2>4, <2>5 DEF Next
<1> QED BY <1>1, <1>2, PTL DEF Spec

-----------------------------------------------------------------------------
(* The slot is never left reserved.  A published session belongs to a       *)
(* handler that has not released yet, and a reservation has a handler that  *)
(* is connecting or a published session behind it.                          *)
SlotBacked ==
    /\ client # None => client \in Handlers /\ pc[client] \in Granted
    /\ active => client # None \/ \E h \in Handlers : pc[h] = "connecting"

LEMMA SlotBackedStep ==
    TypeOK /\ SlotBacked /\ [Next]_vars => SlotBacked'
<1> SUFFICES ASSUME TypeOK, SlotBacked, [Next]_vars PROVE SlotBacked'
  OBVIOUS
<1> USE KvmBridgeAssumption
    DEF TypeOK, SlotBacked, PCs, Holding, Granted, session, slot, Goto
<1>1. CASE UNCHANGED vars
  BY <1>1 DEF vars, bridge
<1>2. ASSUME NEW h \in Handlers, HandlerStep(h) PROVE SlotBacked'
  <2>1. CASE Acquire(h)
    BY <2>1 DEF Acquire
  <2>2. CASE Connect(h)
    BY <2>2 DEF Connect
  <2>3. CASE ConnectFail(h)
    BY <2>3 DEF ConnectFail
  <2>4. CASE Publish(h)
    BY <2>4 DEF Publish
  <2>5. CASE Upgrade(h)
    BY <2>5 DEF Upgrade
  <2>6. CASE ServeEnds(h)
    BY <2>6 DEF ServeEnds
  <2>7. CASE Release(h)
    BY <2>7 DEF Release
  <2>8. CASE Teardown(h)
    BY <2>8 DEF Teardown
  <2>9. CASE HandlerReturns(h)
    BY <2>9 DEF HandlerReturns
  <2> QED
    BY <1>2, <2>1, <2>2, <2>3, <2>4, <2>5, <2>6, <2>7, <2>8, <2>9
       DEF HandlerStep
<1>3. ASSUME NEW h \in Handlers, SessionStep(h) PROVE SlotBacked'
  BY <1>3 DEF SessionStep, RunEnds, ClosedByRun, RunClears, AmtRunCloses,
              AmtCtxCloses
<1>4. ASSUME NEW h \in Handlers, BmcEnds(h) PROVE SlotBacked'
  BY <1>4 DEF BmcEnds
<1>5. ASSUME NEW h \in Handlers, BrowserLeaves(h) PROVE SlotBacked'
  BY <1>5 DEF BrowserLeaves
<1> QED BY <1>1, <1>2, <1>3, <1>4, <1>5 DEF Next

\* However sessions end, a bridge no handler uses is free: a stale Release, a
\* failed Connect and a Run that ends early never leave the slot reserved.
THEOREM SlotNeverStuck == Spec => []SlotFreeWhenIdle
<1>1. Init => SlotBacked
  BY DEF Init, SlotBacked
<1>2. SlotBacked => SlotFreeWhenIdle
  BY DEF SlotBacked, SlotFreeWhenIdle, Holding, Granted
<1> QED BY <1>1, <1>2, SlotBackedStep, TypeCorrect, PTL DEF Spec

-----------------------------------------------------------------------------
(* One session at a time.  As long as no session ends before its handler    *)
(* releases it, the handler that holds the slot is unique, the bridge points *)
(* to its session once it is published, and Run keeps running, so that the  *)
(* goroutine cannot clear the slot under the handler.                       *)
Exclusive ==
    /\ \A g, h \in Handlers : pc[g] \in Holding /\ pc[h] \in Holding => g = h
    /\ active <=> \E h \in Handlers : pc[h] \in Holding
    /\ \A h \in Handlers :
        /\ pc[h] \in Granted =>
             /\ client = h /\ run[h] = "running" /\ sock[h]
        /\ pc[h] \in Holding => ~cancelled[h]
        /\ pc[h] = "idle" =>
             ~cancelled[h] /\ step[h] \notin {"handshake", "ready"}
        /\ pc[h] \in {"closing", "returning"} => victim[h] = h
        /\ pc[h] \in {"idle", "connecting"} => run[h] = "none"
        /\ step[h] \in {"handshake", "ready"} /\ pc[h] \in Holding => sock[h]
        /\ ~gone[h]
    /\ client # None => pc[client] \in Granted

LEMMA ExclusiveInit == Init => Exclusive
<1> SUFFICES ASSUME Init PROVE Exclusive
  OBVIOUS
<1>1. \A b : FirstStep(b) \notin {"handshake", "ready"}
  BY DEF FirstStep
<1> QED BY <1>1 DEF Init, Exclusive, Holding, Granted

LEMMA ExclusiveStep ==
    TypeOK /\ Exclusive /\ [Next]_vars /\ ~early' => Exclusive'
<1> SUFFICES ASSUME TypeOK, Exclusive, [Next]_vars, ~early'
             PROVE  Exclusive'
  OBVIOUS
<1> USE KvmBridgeAssumption
    DEF TypeOK, Exclusive, PCs, Holding, Granted, session, slot, Goto
<1>1. CASE UNCHANGED vars
  BY <1>1 DEF vars, bridge
<1>2. ASSUME NEW h \in Handlers, HandlerStep(h) PROVE Exclusive'
  <2>1. CASE Acquire(h)
    <3>1. CASE active
      BY <2>1, <3>1 DEF Acquire
    <3>2. CASE ~active
      <4>1. \A g \in Handlers : pc[g] \notin Holding
        BY <3>2
      <4>2. /\ active' /\ pc' = [pc EXCEPT ![h] = "connecting"]
            /\ UNCHANGED <<client, step, cancelled, sock, gone, run, victim>>
        BY <2>1, <3>2 DEF Acquire
      <4>3. run[h] = "none" /\ ~cancelled[h] /\ step[h] \notin {"handshake", "ready"}
        BY <2>1 DEF Acquire
      <4> QED BY <4>1, <4>2, <4>3
    <3> QED BY <3>1, <3>2
  <2>2. CASE Connect(h)
    <3> USE DEF Connect, Reach, Steps
    <3>1. CASE AmiConnect(h)
      BY <2>2, <3>1 DEF AmiConnect, AmiFetchLaunchArgs
    <3>2. CASE AmtConnect(h)
      BY <2>2, <3>2 DEF AmtConnect
    <3>3. CASE IloConnect(h)
      BY <2>2, <3>3 DEF IloConnect
    <3> QED BY <2>2, <3>1, <3>2, <3>3
  <2>3. CASE ConnectFail(h)
    BY <2>3 DEF ConnectFail
  <2>4. CASE Publish(h)
    BY <2>4 DEF Publish
  <2>5. CASE Upgrade(h)
    BY <2>5 DEF Upgrade
  <2>6. CASE ServeEnds(h)
    BY <2>6 DEF ServeEnds
  <2>7. CASE Release(h)
    BY <2>7 DEF Release
  <2>8. CASE Teardown(h)
    BY <2>8 DEF Teardown
  <2>9. CASE HandlerReturns(h)
    BY <2>9 DEF HandlerReturns
  <2> QED
    BY <1>2, <2>1, <2>2, <2>3, <2>4, <2>5, <2>6, <2>7, <2>8, <2>9
       DEF HandlerStep
<1>3. ASSUME NEW h \in Handlers, SessionStep(h) PROVE Exclusive'
  <2>1. CASE RunEnds(h)
    BY <2>1 DEF RunEnds, ClosedByRun, RunStops
  <2>2. CASE RunClears(h)
    BY <2>2 DEF RunClears
  <2>3. CASE AmtRunCloses(h)
    BY <2>3 DEF AmtRunCloses
  <2>4. CASE AmtCtxCloses(h)
    BY <2>4 DEF AmtCtxCloses
  <2> QED BY <1>3, <2>1, <2>2, <2>3, <2>4 DEF SessionStep
<1>4. ASSUME NEW h \in Handlers, BmcEnds(h) \/ BrowserLeaves(h)
      PROVE Exclusive'
  BY <1>4 DEF BmcEnds, BrowserLeaves
<1> QED BY <1>1, <1>2, <1>3, <1>4 DEF Next

\* A session that ended early is never forgotten.
LEMMA EarlyStays == early /\ [Next]_vars => early'
BY DEF Next, vars, BmcEnds, BrowserLeaves

\* The invariant itself, used by the two theorems below.
LEMMA ExclusiveInvariant == Spec => [](~early => Exclusive)
<1>1. Init => (~early => Exclusive)
  BY ExclusiveInit
<1>2. TypeOK /\ (~early => Exclusive) /\ [Next]_vars => (~early => Exclusive)'
  <2> SUFFICES ASSUME TypeOK, ~early => Exclusive, [Next]_vars, ~early'
               PROVE  Exclusive'
    OBVIOUS
  <2>1. ~early
    BY EarlyStays
  <2> QED BY <2>1, ExclusiveStep
<1> QED BY <1>1, <1>2, TypeCorrect, PTL DEF Spec

\* "Bridge owns at most one BMC KVM session", for any number of requests, as
\* long as neither the BMC nor a browser ends a session before its handler
\* releases it.
THEOREM OneSession == Spec => []AtMostOneSession
<1>1. (~early => Exclusive) => AtMostOneSession
  BY DEF Exclusive, AtMostOneSession, OwnsOneSession
<1> QED BY <1>1, ExclusiveInvariant, PTL

-----------------------------------------------------------------------------
(* Refinement.  Acquire takes or is refused the abstract slot, ConnectFail  *)
(* and Release give it back, and every other step leaves it alone.          *)

LEMMA HolderIs ==
    ASSUME Exclusive, NEW h \in Handlers, pc[h] \in Holding
    PROVE  Holder = h
BY DEF Exclusive, Holder

LEMMA HolderIsNone ==
    ASSUME \A h \in Handlers : pc[h] \notin Holding
    PROVE  Holder = None
BY DEF Holder

LEMMA HolderStable ==
    ASSUME Exclusive, Exclusive',
           \A h \in Handlers : pc'[h] \in Holding <=> pc[h] \in Holding
    PROVE  Holder' = Holder
<1>1. CASE \A h \in Handlers : pc[h] \notin Holding
  BY <1>1 DEF Holder
<1>2. ASSUME NEW h \in Handlers, pc[h] \in Holding PROVE Holder' = Holder
  <2>1. Holder = h
    BY <1>2, HolderIs
  <2>2. pc'[h] \in Holding
    BY <1>2
  <2>3. Holder' = h
    BY <2>2 DEF Exclusive, Holder
  <2> QED BY <2>1, <2>3
<1> QED BY <1>1, <1>2

LEMMA SlotStep ==
    ASSUME ~early', TypeOK, Exclusive, Exclusive', [Next]_vars
    PROVE  [Slot!Next]_(Slot!vars)
<1> USE KvmBridgeAssumption
<1> DEFINE Stutters == UNCHANGED <<Holder, Reply>>
<1>0. Stutters => UNCHANGED Slot!vars
  BY DEF Slot!vars
<1>1. CASE UNCHANGED vars
  <2>1. UNCHANGED <<pc, cancelled>>
    BY <1>1 DEF vars, bridge, session
  <2> QED BY <1>0, <2>1, HolderStable DEF Reply
<1>2. ASSUME NEW h \in Handlers, HandlerStep(h)
      PROVE  [Slot!Next]_(Slot!vars)
  <2> USE DEF TypeOK, Goto, session, slot
  <2>1. CASE Acquire(h) /\ active
    <3>1. PICK g \in Handlers : pc[g] \in Holding
      BY <2>1 DEF Exclusive
    <3>2. Holder # None
      BY <3>1, HolderIs
    <3>3. /\ pc[h] = "idle" /\ pc' = [pc EXCEPT ![h] = "done"]
          /\ UNCHANGED cancelled /\ ~cancelled[h]
      BY <2>1 DEF Acquire, Exclusive
    <3>4. Holder' = Holder
      BY <3>3, HolderStable DEF Holding
    <3>5. Reply[h] = "none" /\ Reply' = [Reply EXCEPT ![h] = "busy"]
      BY <3>3 DEF Reply
    <3> QED BY <3>2, <3>4, <3>5 DEF Slot!Next, Slot!Refuse
  <2>2. CASE Acquire(h) /\ ~active
    <3>1. /\ pc[h] = "idle" /\ pc' = [pc EXCEPT ![h] = "connecting"]
          /\ UNCHANGED cancelled
      BY <2>2 DEF Acquire
    <3>2. Holder = None
      BY <2>2, HolderIsNone DEF Exclusive
    <3>3. Holder' = h
      BY <3>1 DEF Exclusive, Holder, Holding
    <3>4. Reply[h] = "none" /\ Reply' = [Reply EXCEPT ![h] = "granted"]
      BY <3>1 DEF Reply
    <3> QED BY <3>2, <3>3, <3>4 DEF Slot!Next, Slot!Take
  <2>3. CASE ConnectFail(h) \/ Release(h)
    <3>1. /\ pc[h] \in {"connecting", "releasing"}
          /\ \/ /\ pc' = [pc EXCEPT ![h] = "done"]
                /\ cancelled' = [cancelled EXCEPT ![h] = TRUE]
             \/ pc' = [pc EXCEPT ![h] = "closing"] /\ UNCHANGED cancelled
      BY <2>3 DEF ConnectFail, Release
    <3>2. Holder = h
      BY <3>1, HolderIs DEF Holding
    <3>3. Holder' = None
      BY <3>1 DEF Exclusive, Holder, Holding
    <3>4. Reply' = Reply
      BY <3>1 DEF Reply
    <3> QED BY <3>2, <3>3, <3>4 DEF Slot!Next, Slot!Give
  <2>4. CASE Connect(h)
    <3>1. UNCHANGED <<pc, cancelled>>
      BY <2>4 DEF Connect
    <3> QED BY <1>0, <3>1, HolderStable DEF Reply
  <2>5. CASE Publish(h) \/ Upgrade(h) \/ ServeEnds(h)
    <3>1. /\ UNCHANGED cancelled
          /\ pc[h] \in Holding \ {"idle", "done"}
          /\ \E p \in Holding : pc' = [pc EXCEPT ![h] = p]
      BY <2>5 DEF Publish, Upgrade, ServeEnds, Holding
    <3>2. Holder' = Holder
      BY <3>1, HolderStable
    <3>3. Reply' = Reply
      BY <3>1 DEF Reply, Holding
    <3> QED BY <1>0, <3>2, <3>3
  <2>6. CASE Teardown(h) \/ HandlerReturns(h)
    <3>1. /\ pc[h] \in {"closing", "returning"}
          /\ \/ pc' = [pc EXCEPT ![h] = "returning"]
             \/ pc' = [pc EXCEPT ![h] = "done"] /\ cancelled'[h]
          /\ \A g \in Handlers \ {h} : cancelled'[g] = cancelled[g]
      BY <2>6 DEF Teardown, HandlerReturns, Exclusive
    <3>2. Holder' = Holder
      BY <3>1, HolderStable DEF Holding
    <3>3. Reply' = Reply
      BY <3>1 DEF Reply
    <3> QED BY <1>0, <3>2, <3>3
  <2> QED BY <1>2, <2>1, <2>2, <2>3, <2>4, <2>5, <2>6 DEF HandlerStep
<1>3. ASSUME NEW h \in Handlers,
             SessionStep(h) \/ BmcEnds(h) \/ BrowserLeaves(h)
      PROVE  [Slot!Next]_(Slot!vars)
  <2>1. UNCHANGED <<pc, cancelled>>
    BY <1>3 DEF SessionStep, RunEnds, ClosedByRun, RunClears, AmtRunCloses,
                AmtCtxCloses, BmcEnds, BrowserLeaves, session
  <2> QED BY <1>0, <2>1, HolderStable DEF Reply
<1> QED BY <1>1, <1>2, <1>3 DEF Next

\* The bridge implements ExclusiveSlot for any number of requests until a
\* session ends early: 409 is answered only while another handler holds the
\* slot, and only that handler frees it.
THEOREM BridgeImplementsSlot == Spec => SlotImplemented
<1>1. Init => Slot!Init
  <2> SUFFICES ASSUME Init PROVE Slot!Init
    OBVIOUS
  <2>1. Holder = None
    BY HolderIsNone DEF Init, Holding
  <2>2. Reply = [h \in Handlers |-> "none"]
    BY DEF Init, Reply
  <2> QED BY <2>1, <2>2 DEF Slot!Init
<1>2. TypeOK /\ (~early => Exclusive) /\ (~early => Exclusive)' /\ [Next]_vars
        => [early' \/ [Slot!Next]_(Slot!vars)]_vars
  <2> SUFFICES ASSUME TypeOK, ~early => Exclusive, (~early => Exclusive)',
                      [Next]_vars, ~early'
               PROVE  [Slot!Next]_(Slot!vars)
    OBVIOUS
  <2>1. Exclusive /\ Exclusive'
    BY EarlyStays
  <2> QED BY <2>1, SlotStep
<1> QED
  BY <1>1, <1>2, TypeCorrect, ExclusiveInvariant, PTL
     DEF Spec, SlotImplemented

-----------------------------------------------------------------------------
(* Nothing stays open.  On the AMI and AMT bridges the goroutine of a        *)
(* session closes it by itself, so the argument does not depend on who       *)
(* released the slot: a session that was never started has been closed by    *)
(* Connect's error path, and one whose goroutine is through has been closed  *)
(* by it.  On the iLO bridge Release closes the session it took.             *)
Accounted ==
    \A h \in Handlers :
        /\ pc[h] = "idle" => run[h] = "none" /\ ~sock[h] /\ ~web[h]
        /\ pc[h] = "connecting" => run[h] = "none"
        /\ pc[h] \in Granted \cup {"closing", "returning"} => run[h] # "none"
        /\ run[h] = "none" /\ pc[h] = "done" =>
             ~sock[h] /\ (web[h] => backend = "ami" /\ step[h] = "launch")
        /\ backend # "ilo" /\ run[h] = "done" => ~sock[h]
        /\ backend = "ami" /\ run[h] \in {"ended", "done"} => ~web[h] /\ ~sock[h]
        /\ backend # "amt" => run[h] # "cleared"
        /\ backend = "amt" => ~web[h]
        /\ pc[h] \in {"returning", "done"} /\ victim[h] = h
             => ~sock[h] /\ ~web[h]
        /\ pc[h] \in {"idle", "connecting"} => victim[h] = None

LEMMA AccountedStep ==
    TypeOK /\ Accounted /\ [Next]_vars => Accounted'
<1> SUFFICES ASSUME TypeOK, Accounted, [Next]_vars PROVE Accounted'
  OBVIOUS
<1> USE KvmBridgeAssumption
    DEF TypeOK, Accounted, PCs, Holding, Granted, session, slot, Goto
<1>1. CASE UNCHANGED vars
  BY <1>1 DEF vars, bridge
<1>2. ASSUME NEW h \in Handlers, HandlerStep(h), UNCHANGED backend
      PROVE  Accounted'
  <2>0. UNCHANGED backend
    BY <1>2
  <2> USE <2>0
  <2>1. CASE Acquire(h)
    BY <2>1 DEF Acquire
  <2>2. CASE Connect(h)
    <3> USE DEF Connect, Reach, Steps
    <3>1. CASE AmiConnect(h)
      BY <2>2, <3>1 DEF AmiConnect, AmiFetchLaunchArgs
    <3>2. CASE AmtConnect(h)
      BY <2>2, <3>2 DEF AmtConnect
    <3>3. CASE IloConnect(h)
      BY <2>2, <3>3 DEF IloConnect
    <3> QED BY <2>2, <3>1, <3>2, <3>3
  <2>3. CASE ConnectFail(h)
    <3>1. web'[h] => backend = "ami" /\ step[h] = "launch"
      BY <2>3 DEF ConnectFail, WebAfterFailure
    <3>2. pc[h] = "connecting" /\ ~sock'[h] /\ UNCHANGED <<step, run, victim>>
      BY <2>3 DEF ConnectFail
    <3>3. \A g \in Handlers \ {h} : sock'[g] = sock[g] /\ web'[g] = web[g]
      BY <2>3 DEF ConnectFail
    <3>4. pc' = [pc EXCEPT ![h] = "done"]
      BY <2>3 DEF ConnectFail
    <3> QED BY <3>1, <3>2, <3>3, <3>4
  <2>4. CASE Publish(h)
    BY <2>4 DEF Publish
  <2>5. CASE Upgrade(h)
    BY <2>5 DEF Upgrade
  <2>6. CASE ServeEnds(h)
    BY <2>6 DEF ServeEnds
  <2>7. CASE Release(h)
    BY <2>7 DEF Release
  <2>8. CASE Teardown(h)
    BY <2>8 DEF Teardown
  <2>9. CASE HandlerReturns(h)
    BY <2>9 DEF HandlerReturns
  <2> QED
    BY <1>2, <2>1, <2>2, <2>3, <2>4, <2>5, <2>6, <2>7, <2>8, <2>9
       DEF HandlerStep
<1>3. ASSUME NEW h \in Handlers, SessionStep(h), UNCHANGED backend
      PROVE  Accounted'
  <2>0. UNCHANGED backend
    BY <1>3
  <2> USE <2>0
  <2>1. CASE RunEnds(h)
    BY <2>1 DEF RunEnds, ClosedByRun, RunStops
  <2>2. CASE RunClears(h)
    BY <2>2 DEF RunClears, Backends
  <2>3. CASE AmtRunCloses(h)
    BY <2>3 DEF AmtRunCloses
  <2>4. CASE AmtCtxCloses(h)
    BY <2>4 DEF AmtCtxCloses
  <2> QED BY <1>3, <2>1, <2>2, <2>3, <2>4 DEF SessionStep
<1>4. ASSUME NEW h \in Handlers, BmcEnds(h) \/ BrowserLeaves(h),
             UNCHANGED backend
      PROVE  Accounted'
  BY <1>4 DEF BmcEnds, BrowserLeaves
<1> QED BY <1>1, <1>2, <1>3, <1>4 DEF Next

\* Nothing is left open once a handler and the goroutine of its session are
\* through, even when a session ends early or Release hits somebody else's;
\* the exceptions are the web session lost by a failed JNLP fetch and the iLO
\* session its goroutine forgot.
THEOREM NothingLeftOpen == Spec => []ClosedWhenDone
<1>1. Init => Accounted
  BY KvmBridgeAssumption DEF Init, Accounted, Granted
<1>2. TypeOK /\ Accounted => ClosedWhenDone
  BY DEF TypeOK, Backends, Accounted, ClosedWhenDone, LostInFetch, ForgottenByRun
<1> QED BY <1>1, <1>2, AccountedStep, TypeCorrect, PTL DEF Spec
=============================================================================
