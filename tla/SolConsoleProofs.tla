------------------------- MODULE SolConsoleProofs --------------------------
(***************************************************************************)
(* Proofs about SolConsole, for any number of console requests.             *)
(***************************************************************************)
EXTENDS SolConsole, TLAPS

(* errCh has room for both pumps: it never holds more errors than pumps     *)
(* have ended, so a pump never blocks in its last send.                     *)
EndedPumps(h) ==
    (IF out[h] = "ended" THEN 1 ELSE 0) + (IF in[h] = "ended" THEN 1 ELSE 0)

Typed ==
    /\ TypeOK
    /\ \A h \in Handlers :
        /\ errs[h] <= EndedPumps(h)
        /\ pc[h] \in {"idle", "asking", "connecting", "activating"}
             => out[h] = "off" /\ in[h] = "off"

LEMMA TypedStep == Typed /\ [Next]_vars => Typed'
<1> SUFFICES ASSUME Typed, [Next]_vars PROVE Typed'
  OBVIOUS
<1> USE DEF Typed, TypeOK, PCs, Owning, Returned, pumps, Goto, EndedPumps
<1>1. CASE UNCHANGED vars
  BY <1>1 DEF vars
<1>2. ASSUME NEW h \in Handlers, HandlerStep(h) PROVE Typed'
  <2>1. CASE Upgrade(h)
    BY <2>1 DEF Upgrade
  <2>2. CASE Open(h)
    BY <2>2 DEF Open
  <2>3. CASE Connect(h)
    BY <2>3 DEF Connect
  <2>4. CASE Activated(h)
    BY <2>4 DEF Activated
  <2>5. CASE PumpEnded(h)
    BY <2>5 DEF PumpEnded
  <2>6. CASE Close(h)
    BY <2>6 DEF Close
  <2>7. CASE CloseDone(h)
    BY <2>7 DEF CloseDone
  <2>8. CASE HangUp(h)
    BY <2>8 DEF HangUp
  <2> QED
    BY <1>2, <2>1, <2>2, <2>3, <2>4, <2>5, <2>6, <2>7, <2>8 DEF HandlerStep
<1>3. ASSUME NEW h \in Handlers, ActStep(h) PROVE Typed'
  BY <1>3 DEF ActStep, Activate, BmcOutput, ActReturns, Push
<1>4. ASSUME NEW h \in Handlers, PumpStep(h) PROVE Typed'
  <2>1. CASE OutReads(h)
    BY <2>1 DEF OutReads, Ended
  <2>2. CASE OutSends(h)
    BY <2>2 DEF OutSends, Ended
  <2>3. CASE InReads(h)
    BY <2>3 DEF InReads
  <2>4. CASE InFails(h)
    BY <2>4 DEF InFails, Ended
  <2>5. CASE InWrites(h)
    BY <2>5 DEF InWrites, Ended
  <2> QED BY <1>4, <2>1, <2>2, <2>3, <2>4, <2>5 DEF PumpStep
<1>5. ASSUME NEW h \in Handlers, Disconnect(h) PROVE Typed'
  BY <1>5 DEF Disconnect
<1> QED BY <1>1, <1>2, <1>3, <1>4, <1>5 DEF Next

\* The types of the model, among them the bound of errCh: the error channel
\* of capacity two never overflows, so no pump goroutine is left blocked.
THEOREM TypeCorrect == Spec => []TypeOK
<1>1. Init => Typed
  <2> SUFFICES ASSUME Init PROVE Typed
    OBVIOUS
  <2>1. TypeOK
    <3>1. solActive \in BOOLEAN /\ cancelled \in [Handlers -> BOOLEAN]
      BY DEF Init
    <3>2. /\ conn \in [Handlers -> BOOLEAN]
          /\ shut \in [Handlers -> BOOLEAN]
          /\ ws \in [Handlers -> BOOLEAN]
      BY Zenon DEF Init
    <3>3. pc \in [Handlers -> PCs]
      BY DEF Init, PCs
    <3>4. /\ act \in [Handlers -> {"off", "starting", "active", "writing",
                                   "returned"}]
          /\ ready \in [Handlers -> {"empty", "nil", "err"}]
          /\ out \in [Handlers -> {"off", "reading", "sending", "ended"}]
          /\ in \in [Handlers -> {"off", "reading", "writing", "ended"}]
          /\ errs \in [Handlers -> 0..2]
      BY DEF Init
    <3> QED BY <3>1, <3>2, <3>3, <3>4 DEF TypeOK
  <2>2. \A h \in Handlers : errs[h] = 0 /\ out[h] = "off" /\ in[h] = "off"
    BY DEF Init
  <2>3. \A h \in Handlers : errs[h] <= EndedPumps(h)
    BY <2>2 DEF EndedPumps
  <2> QED BY <2>1, <2>2, <2>3 DEF Typed
<1>2. Typed => TypeOK
  BY DEF Typed
<1> QED BY <1>1, <1>2, TypedStep, PTL DEF Spec

-----------------------------------------------------------------------------
(* The slot has one owner, and a session exists only under an owner.        *)
OneOwner ==
    /\ \A g, h \in Handlers : pc[g] \in Owning /\ pc[h] \in Owning => g = h
    /\ solActive <=> \E h \in Handlers : pc[h] \in Owning
    /\ \A h \in Handlers :
        /\ conn[h] => pc[h] \in Owning \ {"connecting"}
        /\ pc[h] \in {"idle", "asking", "connecting", "busy", "refused",
                      "noUpgrade"} => act[h] = "off"
        /\ pc[h] \in {"hangup", "done"} => act[h] \in {"off", "returned"}

LEMMA OneOwnerStep == TypeOK /\ OneOwner /\ [Next]_vars => OneOwner'
<1> SUFFICES ASSUME TypeOK, OneOwner, [Next]_vars PROVE OneOwner'
  OBVIOUS
<1> USE DEF TypeOK, OneOwner, PCs, Owning, Returned, pumps, Goto
<1>1. CASE UNCHANGED vars
  BY <1>1 DEF vars
<1>2. ASSUME NEW h \in Handlers, HandlerStep(h) PROVE OneOwner'
  <2>1. CASE Upgrade(h)
    BY <2>1 DEF Upgrade
  <2>2. CASE Open(h) /\ solActive
    BY <2>2 DEF Open
  <2>3. CASE Open(h) /\ ~solActive
    <3>1. \A g \in Handlers : pc[g] \notin Owning
      BY <2>3
    <3>2. /\ solActive' /\ pc' = [pc EXCEPT ![h] = "connecting"]
          /\ pc[h] = "asking" /\ UNCHANGED <<conn, act>>
      BY <2>3 DEF Open
    <3> QED BY <3>1, <3>2
  <2>4. CASE Connect(h)
    BY <2>4 DEF Connect
  <2>5. CASE Activated(h) \/ PumpEnded(h)
    BY <2>5 DEF Activated, PumpEnded
  <2>6. CASE Close(h)
    BY <2>6 DEF Close
  <2>7. CASE CloseDone(h)
    BY <2>7 DEF CloseDone
  <2>8. CASE HangUp(h)
    BY <2>8 DEF HangUp
  <2> QED
    BY <1>2, <2>1, <2>2, <2>3, <2>4, <2>5, <2>6, <2>7, <2>8 DEF HandlerStep
<1>3. ASSUME NEW h \in Handlers, ActStep(h) PROVE OneOwner'
  <2>1. act[h] \notin {"off", "returned"}
    BY <1>3 DEF ActStep, Activate, BmcOutput, ActReturns
  <2>2. /\ UNCHANGED <<pc, conn, solActive>>
        /\ \E a \in {"active", "writing", "returned"} :
               act' = [act EXCEPT ![h] = a]
    BY <1>3 DEF ActStep, Activate, BmcOutput, ActReturns
  <2> QED BY <2>1, <2>2
<1>4. ASSUME NEW h \in Handlers, PumpStep(h) \/ Disconnect(h) PROVE OneOwner'
  <2>1. /\ UNCHANGED <<pc, conn, solActive>>
        /\ \/ UNCHANGED act
           \/ act[h] = "writing" /\ act' = [act EXCEPT ![h] = "active"]
    BY <1>4 DEF PumpStep, OutReads, OutSends, InReads, InFails, InWrites,
                Disconnect
  <2> QED BY <2>1
<1> QED BY <1>1, <1>2, <1>3, <1>4 DEF Next

LEMMA OneOwnerInvariant == Spec => []OneOwner
<1>1. Init => OneOwner
  BY DEF Init, OneOwner, Owning
<1> QED BY <1>1, OneOwnerStep, TypeCorrect, PTL DEF Spec

\* Two SOL clients are never connected to a host at once, and a handler that
\* returned has closed its client and its SOLActivate goroutine.
THEOREM SolSafety == Spec => [](OneSolSession /\ NothingLeftBehind)
<1>1. OneOwner => OneSolSession /\ NothingLeftBehind
  BY DEF OneOwner, OneSolSession, NothingLeftBehind, Owning, Returned
<1> QED BY <1>1, OneOwnerInvariant, PTL

-----------------------------------------------------------------------------
(* Refinement: Open takes or is refused, a failed Connect and CloseDone give *)
(* the slot back, every other step leaves it alone.                          *)

LEMMA OwnerStable ==
    ASSUME OneOwner, OneOwner',
           \A h \in Handlers : pc'[h] \in Owning <=> pc[h] \in Owning
    PROVE  Owner' = Owner
<1>1. CASE \A h \in Handlers : pc[h] \notin Owning
  BY <1>1 DEF Owner
<1>2. ASSUME NEW h \in Handlers, pc[h] \in Owning PROVE Owner' = Owner
  <2>1. Owner = h
    BY <1>2 DEF OneOwner, Owner
  <2>2. Owner' = h
    BY <1>2 DEF OneOwner, Owner
  <2> QED BY <2>1, <2>2
<1> QED BY <1>1, <1>2

LEMMA SlotStep ==
    ASSUME TypeOK, OneOwner, OneOwner', [Next]_vars
    PROVE  [Slot!Next]_(Slot!vars)
<1> USE SolAssumption
<1> DEFINE Stutters == UNCHANGED <<Owner, Reply>>
<1>0. Stutters => UNCHANGED Slot!vars
  BY DEF Slot!vars
<1>1. CASE UNCHANGED pc
  BY <1>0, <1>1, OwnerStable DEF Reply
<1>2. ASSUME NEW h \in Handlers, HandlerStep(h)
      PROVE  [Slot!Next]_(Slot!vars)
  <2> USE DEF TypeOK, Goto
  <2>1. CASE Upgrade(h)
    <3>1. /\ pc[h] = "idle"
          /\ \E p \in {"asking", "noUpgrade"} : pc' = [pc EXCEPT ![h] = p]
      BY <2>1 DEF Upgrade
    <3>2. Owner' = Owner
      BY <3>1, OwnerStable DEF Owning
    <3>3. Reply' = Reply
      BY <3>1 DEF Reply
    <3> QED BY <1>0, <3>2, <3>3
  <2>2. CASE Open(h) /\ solActive
    <3>1. PICK g \in Handlers : pc[g] \in Owning
      BY <2>2 DEF OneOwner
    <3>2. Owner # None
      BY <3>1 DEF OneOwner, Owner
    <3>3. pc[h] = "asking" /\ pc' = [pc EXCEPT ![h] = "busy"]
      BY <2>2 DEF Open
    <3>4. Owner' = Owner
      BY <3>3, OwnerStable DEF Owning
    <3>5. Reply[h] = "none" /\ Reply' = [Reply EXCEPT ![h] = "busy"]
      BY <3>3 DEF Reply
    <3> QED BY <3>2, <3>4, <3>5 DEF Slot!Next, Slot!Refuse
  <2>3. CASE Open(h) /\ ~solActive
    <3>1. pc[h] = "asking" /\ pc' = [pc EXCEPT ![h] = "connecting"]
      BY <2>3 DEF Open
    <3>2. Owner = None
      BY <2>3 DEF OneOwner, Owner
    <3>3. Owner' = h
      BY <3>1 DEF OneOwner, Owner, Owning
    <3>4. Reply[h] = "none" /\ Reply' = [Reply EXCEPT ![h] = "granted"]
      BY <3>1 DEF Reply
    <3> QED BY <3>2, <3>3, <3>4 DEF Slot!Next, Slot!Take
  <2>4. CASE /\ Connect(h) \/ CloseDone(h)
             /\ pc' = [pc EXCEPT ![h] = "hangup"]
    <3>1. pc[h] \in {"connecting", "waiting"}
      BY <2>4 DEF Connect, CloseDone
    <3>2. Owner = h
      BY <3>1 DEF OneOwner, Owner, Owning
    <3>3. Owner' = None
      BY <2>4, <3>1 DEF OneOwner, Owner, Owning
    <3>4. Reply' = Reply
      BY <2>4, <3>1 DEF Reply
    <3> QED BY <3>2, <3>3, <3>4 DEF Slot!Next, Slot!Give
  <2>5. CASE \/ Connect(h) /\ pc' = [pc EXCEPT ![h] = "activating"]
             \/ Activated(h) \/ PumpEnded(h) \/ Close(h)
    <3>1. pc[h] \in Owning /\ \E p \in Owning : pc' = [pc EXCEPT ![h] = p]
      BY <2>5 DEF Connect, Activated, PumpEnded, Close, Owning
    <3>2. Owner' = Owner
      BY <3>1, OwnerStable
    <3>3. Reply' = Reply
      BY <3>1 DEF Reply, Owning
    <3> QED BY <1>0, <3>2, <3>3
  <2>6. CASE HangUp(h)
    <3>1. \/ pc[h] = "busy" /\ pc' = [pc EXCEPT ![h] = "refused"]
          \/ pc[h] = "hangup" /\ pc' = [pc EXCEPT ![h] = "done"]
      BY <2>6 DEF HangUp
    <3>2. Owner' = Owner
      BY <3>1, OwnerStable DEF Owning
    <3>3. Reply' = Reply
      BY <3>1 DEF Reply
    <3> QED BY <1>0, <3>2, <3>3
  <2>7. Connect(h) => \/ pc' = [pc EXCEPT ![h] = "hangup"]
                      \/ pc' = [pc EXCEPT ![h] = "activating"]
    BY DEF Connect
  <2>8. CloseDone(h) => pc' = [pc EXCEPT ![h] = "hangup"]
    BY DEF CloseDone
  <2> QED
    BY <1>2, <2>1, <2>2, <2>3, <2>4, <2>5, <2>6, <2>7, <2>8 DEF HandlerStep
<1>3. ASSUME NEW h \in Handlers, ActStep(h) \/ PumpStep(h) \/ Disconnect(h)
      PROVE  UNCHANGED pc
  BY <1>3 DEF ActStep, Activate, BmcOutput, ActReturns, PumpStep, OutReads,
              OutSends, InReads, InFails, InWrites, Disconnect
<1> QED BY <1>1, <1>2, <1>3 DEF Next, vars

\* SOL consoles implement ExclusiveSlot without any assumption on the BMC or
\* the browsers: unlike the KVM bridges, release belongs to one session.
THEOREM SolImplementsSlot == Spec => SlotImplemented
<1>1. Init => Slot!Init
  <2> SUFFICES ASSUME Init PROVE Slot!Init
    OBVIOUS
  <2>1. Owner = None
    BY DEF Init, Owner, Owning
  <2>2. Reply = [h \in Handlers |-> "none"]
    BY DEF Init, Reply
  <2> QED BY <2>1, <2>2 DEF Slot!Init
<1>2. TypeOK /\ OneOwner /\ OneOwner' /\ [Next]_vars
        => [Slot!Next]_(Slot!vars)
  BY SlotStep
<1> QED
  BY <1>1, <1>2, TypeCorrect, OneOwnerInvariant, PTL
     DEF Spec, SlotImplemented, Slot!Spec
=============================================================================
