------------------------------ MODULE LoginGate ------------------------------
(***************************************************************************)
(* Logging in to the UI: the gate's session map (httpapi/auth.go), the OIDC *)
(* code flow with its three short-lived cookies (httpapi/oidc.go), and a    *)
(* browser with several tabs that share one set of cookies.  A response     *)
(* changes the cookies when it arrives, not when its handler reads them.    *)
(* The three OIDC cookies are set, cleared and dropped together, so they    *)
(* are one variable that names the login they belong to.                    *)
(***************************************************************************)
EXTENDS Naturals

CONSTANTS
    Tabs,       \* tabs of the browser; each makes one login at a time
    None,
    MaxLogins,  \* bound: logins that are begun
    MaxStarts   \* bound: restarts of the process

VARIABLES
    oidc,      \* the login the OIDC cookies in the browser belong to
    cookie,    \* the session cookie in the browser
    sessions,  \* g.sessions: token -> not expired yet
    tab,       \* what each tab is doing
    login,     \* the number of a tab's login: state, nonce and verifier
    sent,      \* the cookies a request in flight was sent with
    token,     \* the session token a response in flight carries
    begun, starts,
    upset      \* history: why a tab's login may fail, see FailureExplained

gateVars == <<oidc, cookie, sessions, tab, login, sent, token, begun, starts, upset>>

Logins == 1..MaxLogins     \* also the tokens: a login is given one at most
Waiting == {"idp", "code"}
InFlight == {"callback", "exchange", "welcome", "error"}

Goto(t, p) == tab' = [tab EXCEPT ![t] = p]

\* A response of tab t replaces the OIDC cookies under the logins of other tabs.
Upset(t) == [u \in Tabs |-> upset[u] \/ (u # t /\ tab[u] \in Waiting)]

Init ==
    /\ oidc = None /\ cookie = None /\ sessions = [k \in {} |-> TRUE]
    /\ tab = [t \in Tabs |-> "out"] /\ login = [t \in Tabs |-> None]
    /\ sent = [t \in Tabs |-> None] /\ token = [t \in Tabs |-> None]
    /\ begun = 0 /\ starts = 0 /\ upset = [t \in Tabs |-> FALSE]

\* Mutant: cookies of a login that has begun are kept.
OIDCLoginKeeps(t) ==
    /\ tab[t] \in {"out", "failed"} /\ begun < MaxLogins
    /\ begun' = begun + 1 /\ login' = [login EXCEPT ![t] = begun + 1]
    /\ oidc' = (IF oidc = None THEN begun + 1 ELSE oidc) /\ Goto(t, "idp")
    /\ upset' = [Upset(t) EXCEPT ![t] = FALSE]
    /\ UNCHANGED <<cookie, sessions, sent, token, starts>>

\* handleOIDCLogin: fresh state, nonce and verifier go into cookies and, the
\* verifier hashed, into the URL of the identity provider.
OIDCLogin(t) ==
    /\ tab[t] \in {"out", "failed"} /\ begun < MaxLogins
    /\ begun' = begun + 1 /\ login' = [login EXCEPT ![t] = begun + 1]
    /\ oidc' = begun + 1 /\ Goto(t, "idp")
    /\ upset' = [Upset(t) EXCEPT ![t] = FALSE]
    /\ UNCHANGED <<cookie, sessions, sent, token, starts>>

\* The provider sends the browser back with a code, or with an error.
Return(t) ==
    /\ tab[t] = "idp"
    /\ \/ Goto(t, "code") /\ UNCHANGED upset
       \/ Goto(t, "error") /\ upset' = [upset EXCEPT ![t] = TRUE]
    /\ UNCHANGED <<oidc, cookie, sessions, login, sent, token, begun, starts>>

Request(t) ==
    /\ tab[t] = "code" /\ Goto(t, "callback")
    /\ sent' = [sent EXCEPT ![t] = oidc]
    /\ UNCHANGED <<oidc, cookie, sessions, login, token, begun, starts, upset>>

\* handleOIDCCallback up to the exchange: cookies there, state the same.
Callback(t) ==
    /\ tab[t] = "callback"
    /\ Goto(t, IF sent[t] = login[t] THEN "exchange" ELSE "error")
    /\ UNCHANGED <<oidc, cookie, sessions, login, sent, token, begun, starts, upset>>

\* Code and verifier for an ID token whose nonce is the one of the login; the
\* provider may refuse or not answer.  Then issueTokenFor.
Exchange(t) ==
    /\ tab[t] = "exchange"
    /\ \/ /\ sent[t] = login[t] /\ Goto(t, "welcome")
          /\ token' = [token EXCEPT ![t] = login[t]]
          /\ sessions' = [k \in DOMAIN sessions \cup {login[t]} |->
                            IF k = login[t] THEN TRUE ELSE sessions[k]]
          /\ UNCHANGED upset
       \/ Goto(t, "error") /\ upset' = [upset EXCEPT ![t] = TRUE] /\ UNCHANGED <<token, sessions>>
    /\ UNCHANGED <<oidc, cookie, login, sent, begun, starts>>

\* The response of the callback reaches the browser: OIDC cookies are cleared,
\* whosever they are by now, and after a success the session cookie is set.
Respond(t) ==
    /\ tab[t] \in {"welcome", "error"}
    /\ oidc' = None
    /\ upset' = IF oidc = None THEN upset ELSE Upset(t)
    /\ IF tab[t] = "welcome" THEN cookie' = token[t] /\ Goto(t, "in")
                             ELSE Goto(t, "failed") /\ UNCHANGED cookie
    /\ sent' = [sent EXCEPT ![t] = None] /\ token' = [token EXCEPT ![t] = None]
    /\ UNCHANGED <<sessions, login, begun, starts>>

\* handleLoginPost with the right password, and its response.
PasswordLogin(t) ==
    /\ tab[t] \in {"out", "failed"} /\ begun < MaxLogins
    /\ begun' = begun + 1 /\ cookie' = begun + 1 /\ Goto(t, "in")
    /\ sessions' = [k \in DOMAIN sessions \cup {begun + 1} |->
                      IF k = begun + 1 THEN TRUE ELSE sessions[k]]
    /\ UNCHANGED <<oidc, login, sent, token, starts, upset>>

\* handleLogout, and its response.
Logout(t) ==
    /\ tab[t] = "in" /\ Goto(t, "out")
    /\ sessions' = [k \in DOMAIN sessions \ {cookie} |-> sessions[k]]
    /\ cookie' = None
    /\ UNCHANGED <<oidc, login, sent, token, begun, starts, upset>>

\* The middleware lets a page through, or deletes an expired session and
\* redirects to /login.
Visit(t) ==
    /\ tab[t] = "in"
    /\ IF cookie \in DOMAIN sessions /\ sessions[cookie]
       THEN UNCHANGED <<sessions, tab>>
       ELSE Goto(t, "out") /\ sessions' = [k \in DOMAIN sessions \ {cookie} |-> sessions[k]]
    /\ UNCHANGED <<oidc, cookie, login, sent, token, begun, starts, upset>>

\* Time passes: a session expires, or the cookies of a login do.
Expire ==
    /\ \/ /\ \E k \in DOMAIN sessions : sessions' = [sessions EXCEPT ![k] = FALSE]
          /\ UNCHANGED <<oidc, upset>>
       \/ /\ oidc # None /\ oidc' = None /\ UNCHANGED sessions
          /\ upset' = [t \in Tabs |-> upset[t] \/ tab[t] \in Waiting]
    /\ UNCHANGED <<cookie, tab, login, sent, token, begun, starts>>

\* A new process has no sessions and breaks off the requests in flight; the
\* cookies of a login stay with the browser.
Restart ==
    /\ starts < MaxStarts /\ starts' = starts + 1
    /\ sessions' = [k \in {} |-> TRUE]
    /\ tab' = [t \in Tabs |-> IF tab[t] \in InFlight THEN "failed" ELSE tab[t]]
    /\ upset' = [t \in Tabs |-> upset[t] \/ tab[t] \in InFlight]
    /\ sent' = [t \in Tabs |-> None] /\ token' = [t \in Tabs |-> None]
    /\ UNCHANGED <<oidc, cookie, login, begun>>

Next ==
    \/ \E t \in Tabs :
        \/ OIDCLogin(t) \/ Return(t) \/ Request(t) \/ Callback(t) \/ Exchange(t)
        \/ Respond(t) \/ PasswordLogin(t) \/ Logout(t) \/ Visit(t)
    \/ Expire \/ Restart

-----------------------------------------------------------------------------
TypeOK ==
    /\ oidc \in Logins \cup {None} /\ cookie \in Logins \cup {None}
    /\ DOMAIN sessions \subseteq Logins /\ \A k \in DOMAIN sessions : sessions[k] \in BOOLEAN
    /\ tab \in [Tabs -> {"out", "in", "failed"} \cup Waiting \cup InFlight]
    /\ login \in [Tabs -> Logins \cup {None}]
    /\ sent \in [Tabs -> Logins \cup {None}] /\ token \in [Tabs -> Logins \cup {None}]
    /\ begun \in 0..MaxLogins /\ starts \in 0..MaxStarts /\ upset \in [Tabs -> BOOLEAN]

\* A login fails only for a stated reason: the provider said no, its cookies ran
\* out or were replaced or cleared by another tab's response, or the process
\* stopped under the callback.  A restart while the user is with the provider is
\* no such reason.
FailureExplained == \A t \in Tabs : tab[t] \in {"error", "failed"} => upset[t]
=============================================================================
