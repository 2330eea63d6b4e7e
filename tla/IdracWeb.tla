------------------------------ MODULE IdracWeb ------------------------------
(***************************************************************************)
(* The web session of the iDRAC adapter (idrac/web.go): collector and       *)
(* handlers call postData at the same time and share logged, st2 and the    *)
(* cookie jar of the HTTP client; Close logs out.  Locks cover single       *)
(* reads and writes, so everything between two network exchanges can be     *)
(* overtaken.  The firmware takes a request whose cookie names a live       *)
(* session and whose ST2 header, if it uses one, belongs to it, and has     *)
(* room for a few sessions.                                                 *)
(***************************************************************************)
EXTENDS Naturals, FiniteSets, TLAPS

CONSTANTS
    Callers,     \* goroutines that call postData
    Ids,         \* numbers of sessions, and of their ST2 tokens
    None,        \* no session, the empty string
    Pool,        \* sessions the firmware has room for
    MaxExpiries  \* bound: sessions the firmware ends

VARIABLES
    logged, st2, jar,  \* the fields of webBackend; the session of its cookie
    at,                \* where each caller is
    ret,               \* where ensureLogin returns to
    tok,               \* the ST2 value a login has found
    hdr,               \* ST2 header of a caller's request
    ran,               \* how often the request of the call has been executed
    closer,            \* where Close is
    live,              \* sessions the firmware holds
    ask,               \* where the firmware gives out ST2, fixed
    expiries,
    raced, cutOff      \* history: see SessionKept

webVars == <<logged, st2, jar, at, ret, tok, hdr, ran, closer, live, ask,
             expiries, raced, cutOff>>

LoggingIn == {"login", "index", "store"}
Busy(c) == \E d \in Callers \ {c} : at[d] \in LoggingIn
Others(c) == \E d \in Callers \ {c} : at[d] \notin {"idle", "ensure", "again"}
UnderWay == \E c \in Callers : at[c] # "idle"
Goto(c, p) == at' = [at EXCEPT ![c] = p]

\* Ids in use are not given out again, so that a stale token stays one.
Fresh == Ids \ (live \cup {jar, st2}
                \cup {tok[c] : c \in Callers} \cup {hdr[c] : c \in Callers})

Init ==
    /\ logged = FALSE /\ st2 = None /\ jar = None
    /\ at = [c \in Callers |-> "idle"] /\ ret = [c \in Callers |-> "headers"]
    /\ tok = [c \in Callers |-> None] /\ hdr = [c \in Callers |-> None]
    /\ ran = [c \in Callers |-> 0]
    /\ closer = "open" /\ live = {} /\ expiries = 0
    /\ ask \in {"nowhere", "url", "page"}
    /\ raced = FALSE /\ cutOff = FALSE

\* A method of the backend calls postData.
Call(c) ==
    /\ at[c] = "idle" /\ closer = "open"
    /\ Goto(c, "ensure") /\ ran' = [ran EXCEPT ![c] = 0]
    /\ UNCHANGED <<logged, st2, jar, ret, tok, hdr, closer, live, ask, expiries, raced, cutOff>>

\* Mutant: the session is not looked for.
EnsureBlindly(c) ==
    /\ at[c] \in {"ensure", "again"}
    /\ Goto(c, "login") /\ raced' = IF Busy(c) THEN TRUE ELSE raced
    /\ ret' = [ret EXCEPT ![c] = "headers"]
    /\ UNCHANGED <<logged, st2, jar, tok, hdr, ran, closer, live, ask, expiries, cutOff>>

\* ensureLogin looks at logged and logs in without holding the lock.  After a
\* 401 postData calls it twice: on its own account and as it calls itself.
EnsureLogin(c) ==
    /\ at[c] \in {"ensure", "again"}
    /\ LET back == IF at[c] = "ensure" THEN "headers" ELSE "ensure" IN
        /\ ret' = [ret EXCEPT ![c] = back]
        /\ Goto(c, IF logged THEN back ELSE "login")
    /\ raced' = IF ~logged /\ Busy(c) THEN TRUE ELSE raced
    /\ UNCHANGED <<logged, st2, jar, tok, hdr, ran, closer, live, ask, expiries, cutOff>>

\* The login page and the POST.  The answer's cookie replaces the one in the
\* jar; the answer or its body may be lost, the login refused or not sent.
Login(c) ==
    /\ at[c] = "login"
    /\ \/ /\ Cardinality(live) < Pool
          /\ raced' = IF Others(c) THEN TRUE ELSE raced
          /\ \E s \in Fresh :
              /\ \A i \in Fresh : s <= i
              /\ live' = live \cup {s}
              /\ \/ /\ jar' = s
                    /\ tok' = [tok EXCEPT ![c] = IF ask = "url" THEN s ELSE None]
                    /\ Goto(c, IF ask = "page" THEN "index" ELSE "store")
                    /\ UNCHANGED cutOff
                 \/ /\ jar' \in {jar, s}
                    /\ Goto(c, "idle") /\ cutOff' = TRUE /\ UNCHANGED tok
       \/ Goto(c, "idle") /\ UNCHANGED <<live, jar, tok, raced, cutOff>>
    /\ UNCHANGED <<logged, st2, ret, hdr, ran, closer, ask, expiries>>

\* The page behind the login has the token of the session whose cookie is sent;
\* errors are ignored.
Index(c) ==
    /\ at[c] = "index" /\ Goto(c, "store")
    /\ \/ jar \in live /\ tok' = [tok EXCEPT ![c] = jar] /\ UNCHANGED cutOff
       \/ tok' = [tok EXCEPT ![c] = None] /\ cutOff' = TRUE
    /\ UNCHANGED <<logged, st2, jar, ret, hdr, ran, closer, live, ask, expiries, raced>>

StoreLogin(c) ==
    /\ at[c] = "store" /\ Goto(c, ret[c])
    /\ logged' = TRUE /\ st2' = tok[c]
    /\ tok' = [tok EXCEPT ![c] = None]
    /\ UNCHANGED <<jar, ret, hdr, ran, closer, live, ask, expiries, raced, cutOff>>

\* setHeaders copies st2; the cookie is added when the request is sent.
SetHeaders(c) ==
    /\ at[c] = "headers" /\ Goto(c, "send")
    /\ hdr' = [hdr EXCEPT ![c] = st2]
    /\ UNCHANGED <<logged, st2, jar, ret, tok, ran, closer, live, ask, expiries, raced, cutOff>>

Accepted(c) == jar \in live /\ (ask = "nowhere" \/ hdr[c] = jar)

\* Mutant: an error of the connection is answered by sending the request again.
SendAgain(c) ==
    /\ at[c] = "send"
    /\ IF Accepted(c)
       THEN ran' = [ran EXCEPT ![c] = @ + 1] /\ at' \in {[at EXCEPT ![c] = p] : p \in {"idle", "ensure"}}
       ELSE Goto(c, "refused") /\ UNCHANGED ran
    /\ hdr' = [hdr EXCEPT ![c] = None]
    /\ ran'[c] < 3
    /\ UNCHANGED <<logged, st2, jar, ret, tok, closer, live, ask, expiries, raced, cutOff>>

\* The POST.  Executed or not, its answer may be lost: the call then fails.
Send(c) ==
    /\ at[c] = "send"
    /\ IF Accepted(c)
       THEN ran' = [ran EXCEPT ![c] = @ + 1] /\ Goto(c, "idle")
       ELSE UNCHANGED ran /\ at' \in {[at EXCEPT ![c] = p] : p \in {"idle", "refused"}}
    /\ hdr' = [hdr EXCEPT ![c] = None]
    /\ UNCHANGED <<logged, st2, jar, ret, tok, closer, live, ask, expiries, raced, cutOff>>

\* Mutant: the session is still taken for a good one.
RefusedKeeps(c) ==
    /\ at[c] = "refused" /\ Goto(c, "again")
    /\ UNCHANGED <<logged, st2, jar, ret, tok, hdr, ran, closer, live, ask, expiries, raced, cutOff>>

\* 401: forget the login, whoever has logged in since, and start again.
Refused(c) ==
    /\ at[c] = "refused" /\ Goto(c, "again")
    /\ logged' = FALSE
    /\ UNCHANGED <<st2, jar, ret, tok, hdr, ran, closer, live, ask, expiries, raced, cutOff>>

\* Close, while calls may still be under way, logs out without the ST2 header.
Close ==
    /\ closer = "open"
    /\ closer' = IF logged THEN "logout" ELSE "closed"
    /\ logged' = FALSE /\ st2' = None
    /\ raced' = IF UnderWay THEN TRUE ELSE raced
    /\ UNCHANGED <<jar, at, ret, tok, hdr, ran, live, ask, expiries, cutOff>>

Logout ==
    /\ closer = "logout" /\ closer' = "closed"
    /\ \/ live' = live \ {jar} /\ UNCHANGED cutOff
       \/ live' = live /\ cutOff' = TRUE
    /\ UNCHANGED <<logged, st2, jar, at, ret, tok, hdr, ran, ask, expiries, raced>>

\* The firmware ends a session: it was idle, or the iDRAC restarted.
Expire ==
    /\ expiries < MaxExpiries /\ expiries' = expiries + 1
    /\ \E s \in live : live' = live \ {s}
    /\ UNCHANGED <<logged, st2, jar, at, ret, tok, hdr, ran, closer, ask, raced, cutOff>>

CallerStep(c) ==
    \/ EnsureLogin(c) \/ Login(c) \/ Index(c) \/ StoreLogin(c)
    \/ SetHeaders(c) \/ Send(c) \/ Refused(c)

Next ==
    \/ \E c \in Callers : Call(c) \/ CallerStep(c)
    \/ Close \/ Logout \/ Expire

Spec == Init /\ [][Next]_webVars

-----------------------------------------------------------------------------
TypeOK ==
    /\ logged \in BOOLEAN /\ raced \in BOOLEAN /\ cutOff \in BOOLEAN
    /\ {st2, jar} \subseteq Ids \cup {None} /\ live \subseteq Ids
    /\ at \in [Callers -> {"idle", "ensure", "again", "headers", "send", "refused"} \cup LoggingIn]
    /\ ret \in [Callers -> {"headers", "ensure"}]
    /\ tok \in [Callers -> Ids \cup {None}] /\ hdr \in [Callers -> Ids \cup {None}]
    /\ ran \in [Callers -> Nat]
    /\ ask \in {"nowhere", "url", "page"}
    /\ closer \in {"open", "logout", "closed"} /\ expiries \in Nat

\* A request is executed at most once for a call, whatever is lost: power
\* commands go through postData.
ExecutedOnce == \A c \in Callers : ran[c] <= 1

\* The adapter holds at most one session on the iDRAC, the one it takes itself
\* to be logged in to, and none once it is closed.  Two things void this, which
\* the code does nothing about: a login while another call is past its look at
\* logged, or a call that is still under way at Close (raced), and a login or
\* logout whose answer was lost (cutOff).
SessionKept ==
    raced \/ cutOff \/
    /\ live \subseteq {jar}
    /\ logged => jar \in Ids /\ (ask = "nowhere" \/ st2 = jar)
    /\ closer = "closed" => live = {}

\* A call returns, although nothing in postData counts its attempts: each one
\* needs a new session, and the firmware runs out of them.
CallsReturn == \A c \in Callers : at[c] # "idle" ~> at[c] = "idle"

-----------------------------------------------------------------------------
(***************************************************************************)
(* The web session of the iDRAC adapter, for any number of callers and      *)
(* sessions: types, requests executed at most once, and one session as long *)
(* as calls do not race and answers are not lost.                           *)
(***************************************************************************)

LEMMA TypeStep == TypeOK /\ [Next]_webVars => TypeOK'
<1> SUFFICES ASSUME TypeOK, [Next]_webVars PROVE TypeOK'
  OBVIOUS
<1> USE DEF TypeOK, LoggingIn, Goto
<1>1. CASE UNCHANGED webVars
  BY <1>1 DEF webVars
<1>2. ASSUME NEW c \in Callers, Call(c) PROVE TypeOK'
  BY <1>2 DEF Call
<1>3. ASSUME NEW c \in Callers, EnsureLogin(c) PROVE TypeOK'
  <2>1. Busy(c) \in BOOLEAN
    BY DEF Busy
  <2> QED BY <1>3, <2>1 DEF EnsureLogin
<1>4. ASSUME NEW c \in Callers, Login(c) PROVE TypeOK'
  <2>1. Others(c) \in BOOLEAN /\ Fresh \subseteq Ids
    BY DEF Others, Fresh
  <2> QED BY <1>4, <2>1 DEF Login
<1>5. ASSUME NEW c \in Callers, Index(c) PROVE TypeOK'
  BY <1>5 DEF Index
<1>6. ASSUME NEW c \in Callers, StoreLogin(c) PROVE TypeOK'
  BY <1>6 DEF StoreLogin
<1>7. ASSUME NEW c \in Callers, SetHeaders(c) PROVE TypeOK'
  BY <1>7 DEF SetHeaders
<1>8. ASSUME NEW c \in Callers, Send(c) PROVE TypeOK'
  BY <1>8 DEF Send
<1>9. ASSUME NEW c \in Callers, Refused(c) PROVE TypeOK'
  BY <1>9 DEF Refused
<1>10. CASE Close
  BY <1>10 DEF Close
<1>11. CASE Logout
  BY <1>11 DEF Logout
<1>12. CASE Expire
  BY <1>12 DEF Expire
<1> QED
  BY <1>1, <1>2, <1>3, <1>4, <1>5, <1>6, <1>7, <1>8, <1>9, <1>10, <1>11, <1>12
     DEF Next, CallerStep

\* The variables of webBackend, of its callers and of the firmware keep their
\* types, for any number of callers and sessions.
THEOREM TypeCorrect == Spec => []TypeOK
<1>1. Init => TypeOK
  <2> SUFFICES ASSUME Init PROVE TypeOK
    OBVIOUS
  <2>1. logged \in BOOLEAN /\ raced \in BOOLEAN /\ cutOff \in BOOLEAN
    BY DEF Init
  <2>2. {st2, jar} \subseteq Ids \cup {None} /\ live \subseteq Ids
    BY DEF Init
  <2> QED BY <2>1, <2>2 DEF Init, TypeOK, LoggingIn
<1> QED BY <1>1, TypeStep, PTL DEF Spec

-----------------------------------------------------------------------------
\* A call that has not returned has not been executed: postData starts again
\* after a 401 only.
NotYet == \A c \in Callers : ran[c] <= 1 /\ (at[c] # "idle" => ran[c] = 0)

\* A request is executed at most once for a call of postData, however calls
\* interleave, sessions expire and answers are lost.
THEOREM AtMostOnce == Spec => []ExecutedOnce
<1>1. Init => NotYet
  BY DEF Init, NotYet
<1>2. TypeOK /\ NotYet /\ [Next]_webVars => NotYet'
  <2> SUFFICES ASSUME TypeOK, NotYet, [Next]_webVars PROVE NotYet'
    OBVIOUS
  <2> USE DEF TypeOK, NotYet, Goto
  <2>1. CASE UNCHANGED webVars
    BY <2>1 DEF webVars
  <2>2. ASSUME NEW c \in Callers, Call(c) PROVE NotYet'
    BY <2>2 DEF Call
  <2>3. ASSUME NEW c \in Callers, EnsureLogin(c) PROVE NotYet'
    BY <2>3 DEF EnsureLogin
  <2>4. ASSUME NEW c \in Callers, Login(c) PROVE NotYet'
    BY <2>4 DEF Login
  <2>5. ASSUME NEW c \in Callers, Index(c) \/ StoreLogin(c) \/ SetHeaders(c) \/ Refused(c)
        PROVE  NotYet'
    BY <2>5 DEF Index, StoreLogin, SetHeaders, Refused
  <2>6. ASSUME NEW c \in Callers, Send(c) PROVE NotYet'
    BY <2>6 DEF Send
  <2>7. CASE Close \/ Logout \/ Expire
    BY <2>7 DEF Close, Logout, Expire
  <2> QED BY <2>1, <2>2, <2>3, <2>4, <2>5, <2>6, <2>7 DEF Next, CallerStep
<1>3. NotYet => ExecutedOnce
  BY DEF NotYet, ExecutedOnce
<1> QED BY <1>1, <1>2, <1>3, TypeCorrect, PTL DEF Spec

-----------------------------------------------------------------------------
Clean == ~raced /\ ~cutOff
Matches(t) == jar \in Ids /\ (ask = "nowhere" \/ t = jar)

\* What holds of one session as long as nothing raced or was cut off: only the
\* cookie's session is alive; a login runs alone and while nobody is logged in;
\* calls past their look at logged carry the token of the cookie.
OneLogin ==
    /\ live \subseteq {jar}
    /\ logged => Matches(st2)
    /\ closer # "open" => ~logged /\ \A c \in Callers : at[c] = "idle"
    /\ closer = "closed" => live = {}
    /\ ~logged /\ closer # "logout" /\ (\A c \in Callers : at[c] \notin {"index", "store"}) => live = {}
    /\ \A c \in Callers :
        /\ at[c] \in LoggingIn => ~logged
        /\ at[c] \in LoggingIn => \A d \in Callers \ {c} : at[d] \notin LoggingIn
        /\ at[c] \in {"index", "store"} =>
            /\ jar \in Ids
            /\ \A d \in Callers \ {c} : at[d] \in {"idle", "ensure", "again"}
        /\ at[c] = "store" => Matches(tok[c])
        /\ at[c] \in {"headers", "send"} => Matches(st2)
        /\ at[c] = "send" => Matches(hdr[c])
        /\ at[c] = "refused" => live = {}

LEMMA OneLoginStep == TypeOK /\ (Clean => OneLogin) /\ [Next]_webVars => (Clean => OneLogin)'
<1> SUFFICES ASSUME TypeOK, Clean => OneLogin, [Next]_webVars, Clean' PROVE OneLogin'
  BY DEF Clean
<1>0. raced' = FALSE /\ cutOff' = FALSE /\ ~raced' /\ ~cutOff'
  <2>1. TypeOK' BY TypeStep
  <2> QED BY <2>1 DEF Clean, TypeOK
<1> USE DEF TypeOK, LoggingIn, Goto, Matches
<1>1. CASE UNCHANGED webVars
  BY <1>0, <1>1 DEF webVars, Clean, OneLogin
<1>2. ASSUME NEW c \in Callers, Call(c) PROVE OneLogin'
  BY <1>0, <1>2 DEF Call, Clean, OneLogin
<1>3. ASSUME NEW c \in Callers, EnsureLogin(c) PROVE OneLogin'
  <2>1. raced' = (IF ~logged /\ Busy(c) THEN TRUE ELSE raced) /\ UNCHANGED cutOff
    BY <1>3 DEF EnsureLogin
  <2>2. ~(~logged /\ Busy(c))
    BY <1>0, <2>1
  <2>3. OneLogin
    BY <1>0, <2>1, <2>2 DEF Clean
  <2>4. logged \/ \A d \in Callers \ {c} : at[d] \notin LoggingIn
    BY <2>2 DEF Busy
  <2>5. CASE logged
    BY <1>3, <2>3, <2>5 DEF EnsureLogin, OneLogin
  <2>6. CASE ~logged
    BY <1>3, <2>3, <2>4, <2>6 DEF EnsureLogin, OneLogin
  <2> QED BY <2>5, <2>6
<1>4. ASSUME NEW c \in Callers, Login(c) PROVE OneLogin'
  <2>1. Fresh \subseteq Ids
    BY DEF Fresh
  <2>2. CASE UNCHANGED <<live, jar, tok, raced, cutOff>> /\ Goto(c, "idle")
    <3>1. OneLogin
      BY <1>0, <2>2 DEF Clean
    <3> QED BY <1>4, <2>2, <3>1 DEF Login, OneLogin
  <2>3. ASSUME raced' = IF Others(c) THEN TRUE ELSE raced, UNCHANGED cutOff,
               NEW s \in Ids, live' = live \cup {s}, jar' = s,
               tok' = [tok EXCEPT ![c] = IF ask = "url" THEN s ELSE None],
               Goto(c, IF ask = "page" THEN "index" ELSE "store")
        PROVE  OneLogin'
    <3>1. ~raced /\ ~cutOff /\ ~Others(c)
      BY <1>0, <2>3
    <3>2. OneLogin
      BY <3>1 DEF Clean
    <3>3. \A d \in Callers \ {c} : at[d] \in {"idle", "ensure", "again"}
      BY <3>1 DEF Others
    <3>4. at[c] = "login" /\ UNCHANGED <<logged, st2, hdr, closer, ask>>
      BY <1>4 DEF Login
    <3>5. live = {} /\ ~logged /\ closer = "open"
      BY <3>2, <3>3, <3>4 DEF OneLogin
    <3> QED BY <2>3, <3>2, <3>3, <3>4, <3>5 DEF OneLogin
  <2> QED BY <1>0, <1>4, <2>1, <2>2, <2>3 DEF Login
<1>5. ASSUME NEW c \in Callers, Index(c) PROVE OneLogin'
  BY <1>0, <1>5 DEF Index, Clean, OneLogin
<1>6. ASSUME NEW c \in Callers, StoreLogin(c) PROVE OneLogin'
  BY <1>0, <1>6 DEF StoreLogin, Clean, OneLogin
<1>7. ASSUME NEW c \in Callers, SetHeaders(c) PROVE OneLogin'
  BY <1>0, <1>7 DEF SetHeaders, Clean, OneLogin
<1>8. ASSUME NEW c \in Callers, Send(c) PROVE OneLogin'
  BY <1>0, <1>8 DEF Send, Accepted, Clean, OneLogin
<1>9. ASSUME NEW c \in Callers, Refused(c) PROVE OneLogin'
  BY <1>0, <1>9 DEF Refused, Clean, OneLogin
<1>10. CASE Close
  <2>0. raced' = (IF UnderWay THEN TRUE ELSE raced) /\ UNCHANGED cutOff
    BY <1>10 DEF Close
  <2>1. OneLogin /\ \A c \in Callers : at[c] = "idle"
    <3>1. ~UnderWay
      BY <1>0, <2>0
    <3> QED BY <1>0, <2>0, <3>1 DEF Clean, UnderWay
  <2>2. closer = "open" /\ logged' = FALSE /\ UNCHANGED <<live, jar, at, tok, hdr, ask>>
    BY <1>10 DEF Close
  <2>3. closer' = "closed" => ~logged
    BY <1>10 DEF Close
  <2>4. live = {} \/ logged
    BY <2>1, <2>2 DEF OneLogin
  <2>5. closer' \in {"logout", "closed"}
    BY <1>10 DEF Close
  <2> QED BY <2>1, <2>2, <2>3, <2>4, <2>5 DEF OneLogin
<1>11. CASE Logout
  BY <1>0, <1>11 DEF Logout, Clean, OneLogin
<1>12. CASE Expire
  BY <1>0, <1>12 DEF Expire, Clean, OneLogin
<1> QED
  BY <1>1, <1>2, <1>3, <1>4, <1>5, <1>6, <1>7, <1>8, <1>9, <1>10, <1>11, <1>12
     DEF Next, CallerStep

\* While no login overtakes another call and no answer of a login or logout is
\* lost, the adapter holds one session at most, the one its cookie and ST2
\* belong to, and none after Close.
THEOREM OneWebSession == Spec => []SessionKept
<1>1. Init => (Clean => OneLogin)
  BY DEF Init, OneLogin, Matches, LoggingIn
<1>2. TypeOK /\ (Clean => OneLogin) => SessionKept
  BY DEF TypeOK, Clean, OneLogin, Matches, SessionKept
<1> QED BY <1>1, <1>2, OneLoginStep, TypeCorrect, PTL DEF Spec
=============================================================================
