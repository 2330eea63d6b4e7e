-------------------------------- MODULE MCWeb --------------------------------
(***************************************************************************)
(* The process and its logins, for TLC: a behaviour exercises one of the    *)
(* life of the process, the login of a browser, the web session of an iDRAC *)
(* and the set-up of a KVM session with an AMT host.                        *)
(***************************************************************************)
EXTENDS Naturals

CONSTANTS
    Hosts, Requests,
    Tabs, None, MaxLogins, MaxStarts,
    Callers, Ids, Pool, MaxExpiries,
    MaxChanges

VARIABLES
    part,
    inventory, default, i, order, clients, phase, store, ctx, collector, listen,
    request, timedOut,
    oidc, cookie, sessions, tab, login, sent, token, begun, starts, upset,
    logged, st2, jar, at, ret, tok, hdr, ran, closer, live, ask, expiries, raced, cutOff,
    step, fields, redir, sap, policy, consent, changes, changed

Process == INSTANCE OutbandProcess
Gate == INSTANCE LoginGate
Idrac == INSTANCE IdracWeb
Amt == INSTANCE AmtEnable

procVars == <<inventory, default, i, order, clients, phase, store, ctx, collector,
              listen, request, timedOut>>
gateVars == <<oidc, cookie, sessions, tab, login, sent, token, begun, starts, upset>>
idracVars == <<logged, st2, jar, at, ret, tok, hdr, ran, closer, live, ask,
               expiries, raced, cutOff>>
amtVars == <<step, fields, redir, sap, policy, consent, changes, changed>>
all == <<part, procVars, gateVars, idracVars, amtVars>>

\* The choices of the parts that do not run are fixed.
Init ==
    /\ part \in {"process", "gate", "idrac", "amt"}
    /\ Process!Init /\ Gate!Init /\ Idrac!Init /\ Amt!Init
    /\ part # "process" => inventory = <<[id |-> default, kind |-> "ok"]>>
                           /\ default = CHOOSE h \in Hosts : TRUE
    /\ part # "idrac" => ask = "url"
    /\ part # "amt" => sap = "on" /\ policy = "off"
        /\ redir = fields /\ consent = [required |-> 0, canModify |-> 0]

InProcess(A) == part = "process" /\ A /\ UNCHANGED <<part, gateVars, idracVars, amtVars>>
InGate(A) == part = "gate" /\ A /\ UNCHANGED <<part, procVars, idracVars, amtVars>>
InIdrac(A) == part = "idrac" /\ A /\ UNCHANGED <<part, procVars, gateVars, amtVars>>
InAmt(A) == part = "amt" /\ A /\ UNCHANGED <<part, procVars, gateVars, idracVars>>

Next ==
    \/ InProcess(Process!Next) \/ InGate(Gate!Next)
    \/ InIdrac(Idrac!Next) \/ InAmt(Amt!Next)

\* main goes on, its Shutdown bounded by 10 s; every exchange of the iDRAC
\* client is bounded by its context.
Spec ==
    /\ Init /\ [][Next]_all
    /\ WF_all(InProcess(Process!Main))
    /\ \A c \in Callers : WF_all(InIdrac(Idrac!CallerStep(c)))

-----------------------------------------------------------------------------
\* The iDRAC adapter holds the one session it takes itself to be logged in to,
\* and a request is executed once at most; a login to the UI fails only for a
\* stated reason.
LoginsHold ==
    /\ Idrac!TypeOK /\ Idrac!ExecutedOnce /\ Idrac!SessionKept
    /\ Gate!TypeOK /\ Gate!FailureExplained

\* A process that serves has all its hosts, and requests find them until they
\* are answered; EnableKVM that succeeds has enabled all of KVM and nothing else.
SetupWhole ==
    /\ Process!TypeOK /\ Process!RegistryWhole /\ Process!RequestsServed
    /\ Amt!TypeOK /\ Amt!EnabledWhole

\* Logins and set-ups are what the code takes them to be.
WebHolds == LoginsHold /\ SetupWhole

\* A signal ends the process; a call to an iDRAC returns.
WebLive ==
    /\ Process!Stops
    /\ Idrac!CallsReturn
=============================================================================
