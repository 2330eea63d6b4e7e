------------------------------ MODULE AmtEnable ------------------------------
(***************************************************************************)
(* amt.Adapter.EnableKVM: a sequence of WS-MAN reads and writes that turns  *)
(* on the redirection listener and the KVM service of the management engine *)
(* (ME) and gives up user consent.  Reads and writes are separate           *)
(* exchanges, each of which may fail, and another management console may    *)
(* change the ME in between.                                                *)
(***************************************************************************)
EXTENDS Naturals

CONSTANT MaxChanges  \* bound: changes by another console

VARIABLES
    step,     \* the exchange EnableKVM is at
    fields,   \* the instance of AMT_RedirectionService it has read
    redir,    \* ME: EnabledState and ListenerEnabled of that service
    sap,      \* ME: the KVM service: "none", "off", "on"
    policy,   \* ME: OptInPolicy: "none", "on", "off"
    consent,  \* ME: OptInRequired and CanModifyOptInPolicy
    changes,
    changed   \* history: another console made a change after the first read

enableVars == <<step, fields, redir, sap, policy, consent, changes, changed>>

\* EnabledState: 1 for IDE redirection and 2 for serial-over-LAN on top of this.
Base == 32768
States == Base..(Base + 3)

Init ==
    /\ step = "idle" /\ fields = [state |-> Base, listener |-> FALSE]
    /\ redir \in [state : States, listener : BOOLEAN]
    /\ sap \in {"none", "off", "on"} /\ policy \in {"none", "on", "off"}
    /\ consent \in [required : 0..1, canModify : 0..1]
    /\ changes = 0 /\ changed = FALSE

\* An exchange that fails ends EnableKVM with its error.
Fails ==
    /\ step \notin {"idle", "state", "done", "failed"} /\ step' = "failed"
    /\ UNCHANGED <<fields, redir, sap, policy, consent, changes, changed>>

ReadRedir ==
    /\ step \in {"idle", "done", "failed"}
    /\ \/ step' = "state" /\ fields' = redir /\ changed' = FALSE
       \/ step' = "failed" /\ UNCHANGED <<fields, changed>>
    /\ UNCHANGED <<redir, sap, policy, consent, changes>>

\* Mutant: both services are always turned on.
NewStateAll == Base + 3

\* 32768 + (EnabledState & 3): the two other services stay as they are.
NewState == Base + (fields.state % 4)

\* RequestStateChange on the redirection service; its error is ignored.
ChangeState ==
    /\ step = "state" /\ step' = "policy"
    /\ redir' \in {redir, [redir EXCEPT !.state = NewState]}
    /\ UNCHANGED <<fields, sap, policy, consent, changes, changed>>

\* clearKVMOptIn.  An ME without the first class is not asked for the second.
ReadPolicy ==
    /\ step = "policy"
    /\ step' = CASE policy = "none" -> "sap" [] policy = "on" -> "putPolicy" [] OTHER -> "consent"
    /\ UNCHANGED <<fields, redir, sap, policy, consent, changes, changed>>

PutPolicy ==
    /\ step = "putPolicy" /\ step' = "consent" /\ policy' = "off"
    /\ UNCHANGED <<fields, redir, sap, consent, changes, changed>>

ReadConsent ==
    /\ step = "consent"
    /\ step' = IF consent.required = 0 \/ consent.canModify = 0 THEN "sap" ELSE "putConsent"
    /\ UNCHANGED <<fields, redir, sap, policy, consent, changes, changed>>

PutConsent ==
    /\ step = "putConsent" /\ step' = "sap" /\ consent' = [consent EXCEPT !.required = 0]
    /\ UNCHANGED <<fields, redir, sap, policy, changes, changed>>

ReadSap ==
    /\ step = "sap"
    /\ step' = CASE sap = "none" -> "failed" [] sap = "on" -> "put" [] OTHER -> "enable"
    /\ UNCHANGED <<fields, redir, sap, policy, consent, changes, changed>>

EnableSap ==
    /\ step = "enable" /\ step' = "put" /\ sap' = "on"
    /\ UNCHANGED <<fields, redir, policy, consent, changes, changed>>

\* The PUT of the instance read at the start, with two fields replaced.
PutRedir ==
    /\ step = "put" /\ step' = "done"
    /\ redir' = [state |-> NewState, listener |-> TRUE]
    /\ UNCHANGED <<fields, sap, policy, consent, changes, changed>>

OtherConsole ==
    /\ changes < MaxChanges /\ changes' = changes + 1 /\ changed' = TRUE
    /\ \/ redir' \in [state : States, listener : BOOLEAN] /\ UNCHANGED sap
       \/ sap # "none" /\ sap' \in {"off", "on"} /\ UNCHANGED redir
    /\ UNCHANGED <<step, fields, policy, consent>>

Next ==
    \/ Fails \/ ReadRedir \/ ChangeState \/ ReadPolicy \/ PutPolicy \/ ReadConsent
    \/ PutConsent \/ ReadSap \/ EnableSap \/ PutRedir \/ OtherConsole

-----------------------------------------------------------------------------
TypeOK ==
    /\ step \in {"idle", "state", "policy", "putPolicy", "consent", "putConsent", "sap",
                 "enable", "put", "done", "failed"}
    /\ fields \in [state : States, listener : BOOLEAN]
    /\ redir \in [state : States, listener : BOOLEAN]
    /\ sap \in {"none", "off", "on"} /\ policy \in {"none", "on", "off"}
    /\ consent \in [required : 0..1, canModify : 0..1]
    /\ changes \in 0..MaxChanges /\ changed \in BOOLEAN

\* EnableKVM that reports success has turned on listener and KVM, has given up
\* consent as far as the ME lets it, and has left the two other redirection
\* services as it found them, whatever attempts failed half-way before.  Voided
\* by another console's change after the first read, which the PUT undoes.
EnabledWhole ==
    step = "done" /\ ~changed =>
        /\ redir.listener /\ sap = "on" /\ policy # "on"
        /\ policy = "none" \/ consent.required = 0 \/ consent.canModify = 0
        /\ redir.state = fields.state
=============================================================================
