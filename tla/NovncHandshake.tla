--------------------------- MODULE NovncHandshake ---------------------------
(***************************************************************************)
(* The noVNC client's handshake with an RFB server (core/rfb.js, _initMsg   *)
(* and the authentication schemes; core/ra2.js): protocol version, choice   *)
(* of a security type, authentication, security result, ServerInit.  Bytes  *)
(* arrive in any pieces, but a server sends each part only after the        *)
(* client's message before it; meanwhile the user is asked for credentials  *)
(* or to approve the server, and keys are computed in the background.       *)
(***************************************************************************)
EXTENDS NovncWire

CONSTANT Servers    \* scripts: parts sent after so many client messages, and the outcome

VARIABLES h,        \* the client
          server

vars == <<h, server>>

\* Security types.
None == 1
VNCAuth == 2
RA2ne == 6
Tight == 16
VeNCrypt == 19
XVP == 22
ARD == 30
MSLogonII == 113
UnixLogon == 129
Plain == 256
Supported == {None, VNCAuth, RA2ne, Tight, VeNCrypt, XVP, ARD, MSLogonII, Plain}

\* Key lengths in bits, a 64th of the real ones.
MinKey == 1024 \div 64
MaxKey == 8192 \div 64
ClientKeyBytes == (2048 \div 64) \div 8

\* The page gives the password of its settings along, if it has one.
NewClient(s, creds) ==
    [rQ |-> FlattenSeq([i \in DOMAIN s.parts |-> s.parts[i].bytes]), rQlen |-> 0, rQi |-> 0,
     failed |-> FALSE, connected |-> FALSE, state |-> "ProtocolVersion", version |-> 0, scheme |-> 0,
     vencrypt |-> 0, subtypes |-> 0, tightVNC |-> FALSE, creds |-> creds, asked |-> FALSE,
     answered |-> FALSE, resume |-> FALSE, ard |-> "none",
     ra2 |-> [pc |-> 0, wait |-> 0, needs |-> {}, ready |-> FALSE],
     torn |-> FALSE, out |-> <<>>]

Send(d, message) == [d EXCEPT !.out = Append(@, message)]
To(d, state) == [d EXCEPT !.state = state]

\* The user is asked for the credentials that are not there, and the handshake
\* pauses.
Lacks(d, types) == ~(types \subseteq d.creds)
Ask(d) == Wait([d EXCEPT !.asked = TRUE])

Refused(d) == Throw(Send(d, <<"security failure">>))

-----------------------------------------------------------------------------
\* The version decides the protocol; after answering it the loop of
\* _handleMessage ends, as undefined is returned.
_negotiateProtocolVersion(d) ==
    LET v == Peek(d, 4, 7)
        number == <<v[3], 100 * v[5] + 10 * v[6] + v[7]>>
        version == CASE number \in {<<3, 3>>, <<3, 6>>} -> 33
                     [] number = <<3, 7>> -> 37
                     [] number \in {<<3, 8>>, <<3, 889>>, <<4, 0>>, <<4, 1>>, <<5, 0>>} -> 38
                     [] OTHER -> 0
        e == rQskipBytes(d, 12)
    IN IF rQwait(d, 12) THEN Wait(d)
       ELSE IF number = <<0, 0>> THEN Done(Send(e, <<"repeater">>))
       ELSE IF version = 0 THEN Throw(e)
       ELSE Wait(Send([To(e, "Security") EXCEPT !.version = version], <<"version", version>>))

\* The first type of the list that the client supports, or -1.
Choose(types, allowed) ==
    LET ok == {i \in DOMAIN types : types[i] \in allowed}
    IN IF ok = {} THEN -1 ELSE types[Min(ok)]

_negotiateSecurity(d) ==
    LET n == U8(d, 0)
        type == Choose(Peek(d, 1, n), Supported)
        e == rQskipBytes(d, 1 + n)
        f == [To(rQskipBytes(d, 4), "Authentication") EXCEPT !.scheme = U32(d, 0)]
    IN IF d.version >= 37
       THEN IF rQwait(rQskipBytes(d, 1), n) THEN Wait(d)
            ELSE IF n = 0 THEN Done(To(e, "SecurityReason"))
            ELSE IF type = -1 THEN Throw(e)
            ELSE Done(Send([To(e, "Authentication") EXCEPT !.scheme = type], <<"type", type>>))
       ELSE IF rQwait(d, 4) THEN Wait(d)
            ELSE Done(IF f.scheme = 0 THEN To(f, "SecurityReason") ELSE f)

\* Mutant: the length of the reason is not put back.
SecurityReasonForgets(d) ==
    LET n == U32(d, 0)
        e == rQskipBytes(d, 4)
    IN IF rQwait(d, 4) THEN Wait(d)
       ELSE IF n > 0 /\ rQwait(e, n) THEN Wait(e)
       ELSE Refused(rQskipBytes(e, n))

_handleSecurityReason(d) ==
    LET n == U32(d, 0)
        e == rQskipBytes(d, 4)
    IN IF rQwait(d, 4) THEN Wait(d)
       ELSE IF n > 0 /\ rQwait(e, n) THEN Wait(Goback(e, 4))
       ELSE Refused(rQskipBytes(e, n))

_handleSecurityResult(d) ==
    LET e == rQskipBytes(d, 4)
    IN IF rQwait(d, 4) THEN Wait(d)
       ELSE IF U32(d, 0) = 0 THEN Done(To(e, "ClientInitialisation"))
       ELSE IF d.version >= 38 THEN Done(To(e, "SecurityReason"))
       ELSE Refused(e)

-----------------------------------------------------------------------------
Answered(d, message) == Done(To(Send(d, message), "SecurityResult"))

_negotiateStdVNCAuth(d) ==
    IF rQwait(d, 16) THEN Wait(d)
    ELSE IF Lacks(d, {"password"}) THEN Ask(d)
    ELSE Answered(rQskipBytes(d, 16), <<"response", rQshiftBytes(d, 16)>>)

\* The user and the target first, then as VNC authentication.
_negotiateXvpAuth(d) ==
    IF Lacks(d, {"username", "password", "target"}) THEN Ask(d)
    ELSE _negotiateStdVNCAuth([Send(d, <<"target">>) EXCEPT !.scheme = VNCAuth])

\* Plain and Tight's Unix logon.
_negotiatePlainAuth(d) ==
    IF Lacks(d, {"username", "password"}) THEN Ask(d) ELSE Answered(d, <<"login">>)

_negotiateMSLogonIIAuth(d) ==
    IF rQwait(d, 24) THEN Wait(d)
    ELSE IF Lacks(d, {"username", "password"}) THEN Ask(d)
    ELSE Answered(rQskipBytes(d, 24), <<"login", rQshiftBytes(d, 24)>>)

\* Version, acknowledgement, number of subtypes, subtypes: each step is entered
\* as soon as the one before is done, as no other event may follow.
VeNCryptVersion(d) ==
    LET e == rQskipBytes(d, 2)
    IN IF d.vencrypt # 0 THEN Done(d)
       ELSE IF rQwait(d, 2) THEN Wait(d)
       ELSE IF Peek(d, 0, 2) # <<0, 2>> THEN Throw(e)
       ELSE Done([Send(e, <<"vencrypt">>) EXCEPT !.vencrypt = 1])

VeNCryptAck(d) ==
    LET e == rQskipBytes(d, 1)
    IN IF d.vencrypt # 1 THEN Done(d)
       ELSE IF rQwait(d, 1) THEN Wait(d)
       ELSE IF U8(d, 0) # 0 THEN Throw(e)
       ELSE Done([e EXCEPT !.vencrypt = 2])

VeNCryptLength(d) ==
    LET e == rQskipBytes(d, 1)
    IN IF d.vencrypt # 2 THEN Done(d)
       ELSE IF rQwait(d, 1) THEN Wait(d)
       ELSE IF U8(d, 0) < 1 THEN Throw(e)
       ELSE Done([e EXCEPT !.vencrypt = 3, !.subtypes = U8(d, 0)])

VeNCryptSubtypes(d) ==
    LET e == rQskipBytes(d, 4 * d.subtypes)
        type == Choose([i \in 1 .. d.subtypes |-> U32(d, 4 * (i - 1))], Supported \ {VeNCrypt})
    IN IF rQwait(d, 4 * d.subtypes) THEN Wait(d)
       ELSE IF type = -1 THEN Throw(e)
       ELSE Done(Send([e EXCEPT !.vencrypt = 4, !.scheme = type], <<"subtype", type>>))

_negotiateVeNCryptAuth(d) ==
    LET version == VeNCryptVersion(d)
        ack == VeNCryptAck(version.c)
        length == VeNCryptLength(ack.c)
    IN IF ~version.ok THEN version
       ELSE IF ~ack.ok THEN ack
       ELSE IF ~length.ok THEN length
       ELSE VeNCryptSubtypes(length.c)

\* Tunnel capabilities: the first byte of a vendor and signature stands for all
\* of it.  Only NOTUNNEL is supported; a Siemens server forgets to announce it.
NoTunnel == 84
Siemens == 83
_negotiateTightTunnels(d, n) ==
    LET Code(i) == U32(d, 16 * (i - 1))
        Signature(i) == U8(d, 16 * (i - 1) + 4)
        siemens == \E i \in 1 .. n : Code(i) = 1 /\ Signature(i) = Siemens
        e == rQskipBytes(d, 16 * n)
    IN IF siemens \/ \E i \in 1 .. n : Code(i) = 0 /\ Signature(i) = NoTunnel
       THEN Wait(Send(e, <<"notunnel">>)) ELSE Throw(e)

\* Authentication capabilities, in the client's order of preference.
TightTypes == <<None, VNCAuth, UnixLogon>>
_negotiateTightAuth(d) ==
    LET tunnels == U32(d, 0)
        e == [rQskipBytes(d, 4) EXCEPT !.tightVNC = TRUE]
        SubAuth(f) ==
            LET n == U32(f, 0)
                g == rQskipBytes(f, 4)
                offered == {U8(g, 16 * (i - 1) + 4) : i \in 1 .. n}
                type == Choose(TightTypes, offered)
                s == Send(rQskipBytes(g, 16 * n), <<"subauth", type>>)
            IN IF rQwait(f, 4) THEN Wait(f)
               ELSE IF n = 0 THEN Done(To(g, "SecurityResult"))
               ELSE IF rQwait(g, 16 * n) THEN Wait(f)
               ELSE IF type = -1 THEN Throw(rQskipBytes(g, 16 * n))
               ELSE Done(IF type = None THEN To(s, "SecurityResult") ELSE [s EXCEPT !.scheme = type])
    IN IF d.tightVNC THEN SubAuth(d)
       ELSE IF rQwait(d, 4) \/ rQwait(rQskipBytes(d, 4), 16 * tunnels) THEN Wait(d)
       ELSE IF tunnels > 0 THEN _negotiateTightTunnels(e, tunnels)
       ELSE SubAuth(e)

\* The key is computed in the background, which ends by resuming.
_negotiateARDAuth(d) ==
    LET n == 2 * U16(d, 2)
    IN IF Lacks(d, {"username", "password"}) THEN Ask(d)
       ELSE IF d.ard = "ready" THEN Answered([d EXCEPT !.ard = "none"], <<"login">>)
       ELSE IF rQwait(d, 4) \/ rQwait(rQskipBytes(d, 4), n) THEN Wait(d)
       ELSE Wait([rQskipBytes(d, 4 + n) EXCEPT !.ard = "computing"])

-----------------------------------------------------------------------------
\* RA2ne runs on its own, as an async function that waits for bytes, for the
\* user's approval of the server or for credentials.  pc is the step it waits
\* in, wait the bytes it waits for; it goes on once it is ready.
Await(d, pc, n) ==
    [d EXCEPT !.ra2 = [pc |-> pc, wait |-> n, needs |-> {}, ready |-> n > 0 /\ ~rQwait(d, n)]]

\* checkInternalEvents, from _initMsg whenever something has arrived.
checkInternalEvents(d) ==
    LET r == d.ra2
    IN [d EXCEPT !.ra2.ready = \/ @
                               \/ r.wait > 0 /\ ~rQwait(d, r.wait)
                               \/ r.pc = 7 /\ ~Lacks(d, r.needs)]

_negotiateRA2neAuth(d) == Wait(IF d.ra2.pc = 0 THEN Await(d, 1, 4) ELSE checkInternalEvents(d))

approveServer(d) == IF d.ra2.pc = 3 THEN [d EXCEPT !.ra2.ready = TRUE] ELSE d

\* One step of negotiateRA2neAuthAsync.  The server's random number is read as
\* soon as its length is there; a message that does not verify is an error.  The
\* subtype says if the server wants a user and a password or a password alone.
SubtypeNeeds(subtype) == IF subtype = 1 THEN {"username", "password"} ELSE {"password"}
RA2Good(bytes) == \A i \in DOMAIN bytes : bytes[i] = 7
negotiateRA2neAuthAsync(d) ==
    LET pc == d.ra2.pc
        Read(n) == rQskipBytes(d, n)
        bits == U32(d, 0)
        Check(e, ok) == IF ok THEN e ELSE [e EXCEPT !.failed = TRUE]
    IN CASE pc = 1 -> Check(Await(Read(4), 2, 2 * Ceil(bits, 8)), bits \in MinKey .. MaxKey)
         [] pc = 2 -> Await(Read(d.ra2.wait), 3, 0)
         [] pc = 3 -> Await(Send(Send(d, <<"public key">>), <<"random">>), 4, 2)
         [] pc = 4 -> Check(Send(Await([Read(2 + ClientKeyBytes) EXCEPT
                                           !.torn = rQwait(d, 2 + ClientKeyBytes)],
                                       5, 2 + 20 + 16), <<"hash">>),
                            U16(d, 0) = ClientKeyBytes /\ RA2Good(Peek(d, 2, ClientKeyBytes)))
         [] pc = 5 -> Check(Await(Read(38), 6, 2 + 1 + 16), U16(d, 0) = 20 /\ RA2Good(Peek(d, 2, 36)))
         [] pc = 6 -> LET e == checkInternalEvents([Await(Read(19), 7, 0) EXCEPT
                                                      !.ra2.needs = SubtypeNeeds(U8(d, 2))])
                      IN Check([e EXCEPT !.asked = ~e.ra2.ready],
                               U16(d, 0) = 1 /\ RA2Good(Peek(d, 3, 16)) /\ U8(d, 2) \in {1, 2})
         [] pc = 7 -> To(Send(Await(d, 0, 0), IF "username" \in d.ra2.needs THEN <<"login">>
                                              ELSE <<"password">>), "SecurityResult")

-----------------------------------------------------------------------------
_negotiateAuthentication(d) ==
    CASE d.scheme = None ->
            Done(To(d, IF d.version >= 38 THEN "SecurityResult" ELSE "ClientInitialisation"))
      [] d.scheme = XVP -> _negotiateXvpAuth(d)
      [] d.scheme = ARD -> _negotiateARDAuth(d)
      [] d.scheme = VNCAuth -> _negotiateStdVNCAuth(d)
      [] d.scheme = Tight -> _negotiateTightAuth(d)
      [] d.scheme = VeNCrypt -> _negotiateVeNCryptAuth(d)
      [] d.scheme \in {Plain, UnixLogon} -> _negotiatePlainAuth(d)
      [] d.scheme = RA2ne -> _negotiateRA2neAuth(d)
      [] d.scheme = MSLogonII -> _negotiateMSLogonIIAuth(d)
      [] OTHER -> Throw(d)

\* Mutant: what was read before the name is not put back.
ServerInitForgets(d) ==
    LET name == U32(d, 20)
        e == rQskipBytes(d, 24 + name)
    IN IF rQwait(d, 24) THEN Wait(d)
       ELSE IF rQwait(rQskipBytes(d, 24), name) THEN Wait(rQskipBytes(d, 24))
       ELSE Done([Send(e, <<"encodings", Peek(d, 24, name)>>) EXCEPT !.connected = TRUE])

\* ServerInit has the name of the desktop and, after Tight authentication, three
\* lists of capabilities; it is read only when all of it is there.
_negotiateServerInit(d) ==
    LET name == U32(d, 20)
        e == rQskipBytes(d, 24 + name)
        f == rQskipBytes(e, 8)
        lists == 16 * (U16(e, 0) + U16(e, 2) + U16(e, 4))
        after == IF d.tightVNC THEN rQskipBytes(f, lists) ELSE e
    IN IF rQwait(d, 24) THEN Wait(d)
       ELSE IF rQwait(rQskipBytes(d, 24), name) THEN Wait(Goback(rQskipBytes(d, 24), 24))
       ELSE IF d.tightVNC /\ rQwait(e, 8) THEN Wait(Goback(e, 24 + name))
       ELSE IF d.tightVNC /\ rQwait(f, lists) THEN Wait(Goback(f, 32 + name))
       ELSE Done([Send(after, <<"encodings", Peek(d, 24, name)>>) EXCEPT !.connected = TRUE])

_initMsg(d) ==
    CASE d.state = "ProtocolVersion" -> _negotiateProtocolVersion(d)
      [] d.state = "Security" -> _negotiateSecurity(d)
      [] d.state = "Authentication" -> _negotiateAuthentication(d)
      [] d.state = "SecurityResult" -> _handleSecurityResult(d)
      [] d.state = "SecurityReason" -> _handleSecurityReason(d)
      [] d.state = "ClientInitialisation" ->
            Done(To(Send(d, <<"client init">>), "ServerInitialisation"))
      [] d.state = "ServerInitialisation" -> _negotiateServerInit(d)

\* The loop of _handleMessage while connecting.
RECURSIVE _handleMessage(_)
_handleMessage(d) ==
    LET i == _initMsg(d)
    IN IF d.connected \/ d.failed THEN d
       ELSE IF i.ok THEN _handleMessage(i.c) ELSE i.c

-----------------------------------------------------------------------------
Init == \E s \in Servers, creds \in {{}, {"password"}} : server = s /\ h = NewClient(s, creds)

\* What the server may have sent by now.
Sent == FoldLeft(+, 0, [i \in DOMAIN server.parts |->
    IF Len(h.out) >= server.parts[i].after THEN Len(server.parts[i].bytes) ELSE 0])

Arrive == \E n \in 1 .. Sent - h.rQlen :
    /\ h' = _handleMessage([h EXCEPT !.rQlen = @ + n])
    /\ UNCHANGED server

\* Mutant: what the dialog did not ask for is not sent.
SendPasswordOnly ==
    /\ h.asked /\ ~h.failed
    /\ h' = [h EXCEPT !.creds = {"password"}, !.asked = FALSE, !.answered = TRUE, !.resume = TRUE]
    /\ UNCHANGED server

\* setCredentials gives sendCredentials a user and a password, whatever was asked
\* for, and _initMsg runs once in a timeout.
SendCredentials ==
    /\ h.asked /\ ~h.failed
    /\ h' = [h EXCEPT !.creds = {"username", "password"}, !.asked = FALSE, !.answered = TRUE,
                      !.resume = TRUE]
    /\ UNCHANGED server

_resumeAuthentication ==
    /\ h.resume
    /\ h' = _initMsg([h EXCEPT !.resume = FALSE]).c
    /\ UNCHANGED server

ArdComputed ==
    /\ h.ard = "computing"
    /\ h' = [h EXCEPT !.ard = "ready", !.resume = TRUE]
    /\ UNCHANGED server

Approve ==
    /\ h.ra2.pc = 3 /\ ~h.ra2.ready
    /\ h' = approveServer(h)
    /\ UNCHANGED server

RA2Step ==
    /\ h.ra2.ready /\ ~h.failed
    /\ h' = negotiateRA2neAuthAsync(h)
    /\ UNCHANGED server

Next == Arrive \/ SendCredentials \/ _resumeAuthentication \/ ArdComputed \/ Approve \/ RA2Step

Spec == Init /\ [][Next]_vars

-----------------------------------------------------------------------------
\* The handshake never stalls and never misreads: whatever pieces the server's
\* parts arrive in and whenever the user answers, the client sends what the
\* server waits for, in that order, and when nobody has anything left to do the
\* client has read everything and is connected or refused as the server meant.
\* The user who has answered is not asked again.  The exceptions are a server
\* random number of RA2 that arrives in pieces, and XVP, which needs a target
\* that the page never gives: it asks again for ever.
HandshakeCompletes ==
    \/ h.torn
    \/ /\ IsPrefix(h.out, server.out)
       /\ h.failed => ~server.accepts
       /\ h.answered /\ h.asked => h.scheme = XVP
       /\ \/ Sent > h.rQlen \/ h.asked \/ h.resume \/ h.ard = "computing"
          \/ h.ra2.pc = 3 \/ h.ra2.ready
          \/ h.rQi = h.rQlen /\ h.out = server.out /\ h.connected = server.accepts
                              /\ h.failed = ~server.accepts

-----------------------------------------------------------------------------
(***************************************************************************)
(* Servers for the client of NovncHandshake, one for each way through the   *)
(* handshake: what they send, after how many messages of the client, which  *)
(* messages they wait for, and whether they let the client in.              *)
(***************************************************************************)

Part(after, bytes) == [after |-> after, bytes |-> bytes]
Version(major, minor) ==
    Part(0, <<82, 70, 66, 32, 0, 0, major, 46, minor \div 100, (minor \div 10) % 10, minor % 10, 10>>)
Types(list) == Part(1, <<Len(list)>> \o list)
Fill(n) == [i \in 1 .. n |-> 7]
Capability(code, signature) == Bytes(code, 4) \o <<signature>> \o Fill(11)

Name == <<65, 66, 67>>
ServerInit == Fill(20) \o Bytes(3, 4) \o Name
TightInit == ServerInit \o Bytes(1, 2) \o Bytes(0, 2) \o Bytes(1, 2) \o <<0, 0>> \o Fill(32)

\* A server that lets the client in after these parts and answers.
Accepts(parts, answers, init) ==
    LET n == Len(answers)
    IN [parts |-> parts \o <<Part(n, Bytes(0, 4)), Part(n + 1, init)>>, accepts |-> TRUE,
        out |-> answers \o <<<<"client init">>, <<"encodings", Name>>>>]
Refuses(parts, answers) ==
    [parts |-> parts, accepts |-> FALSE, out |-> answers]

V38 == <<"version", 38>>
Type(t) == <<"type", t>>
Auth(types, type, parts, answers) ==
    Accepts(<<Version(3, 8), Types(types)>> \o parts, <<V38, Type(type)>> \o answers, ServerInit)

VNCServer == Auth(<<5, VNCAuth, None>>, VNCAuth, <<Part(2, Fill(16))>>, <<<<"response", Fill(16)>>>>)
XvpServer == Auth(<<XVP>>, XVP, <<Part(3, Fill(16))>>, <<<<"target">>, <<"response", Fill(16)>>>>)
PlainServer == Auth(<<VeNCrypt>>, VeNCrypt,
    <<Part(2, <<0, 2>>), Part(3, <<0, 3>> \o Bytes(VeNCrypt, 4) \o Bytes(257, 4) \o Bytes(Plain, 4))>>,
    <<<<"vencrypt">>, <<"subtype", Plain>>, <<"login">>>>)
ArdServer == Auth(<<ARD>>, ARD, <<Part(2, <<0, 1>> \o Bytes(3, 2) \o Fill(6))>>, <<<<"login">>>>)
MsServer == Auth(<<MSLogonII>>, MSLogonII, <<Part(2, Fill(24))>>, <<<<"login", Fill(24)>>>>)

TightServer(tunnels, subtypes, answers) ==
    LET n == IF tunnels = <<>> THEN 2 ELSE 3
    IN Accepts(<<Version(3, 8), Types(<<Tight>>),
                 Part(2, Bytes(Len(tunnels), 4) \o FlattenSeq(tunnels)),
                 Part(n, Bytes(Len(subtypes), 4) \o FlattenSeq(subtypes))>>,
               <<V38, Type(Tight)>> \o (IF tunnels = <<>> THEN <<>> ELSE <<<<"notunnel">>>>) \o answers,
               TightInit)
TightNone == TightServer(<<>>, <<>>, <<>>)
TightUnix == TightServer(<<Capability(0, NoTunnel)>>,
    <<Capability(9, 9), Capability(129, UnixLogon)>>, <<<<"subauth", UnixLogon>>, <<"login">>>>)
TightSiemens == TightServer(<<Capability(1, Siemens), Capability(2, 9)>>,
    <<Capability(129, UnixLogon), Capability(1, None)>>, <<<<"subauth", None>>>>)

RA2Server(subtype, login) == Auth(<<RA2ne>>, RA2ne,
    <<Part(2, Bytes(16, 4) \o Fill(4)), Part(4, Bytes(ClientKeyBytes, 2) \o Fill(ClientKeyBytes)),
      Part(5, Bytes(20, 2) \o Fill(36) \o Bytes(1, 2) \o <<subtype>> \o Fill(16))>>,
    <<<<"public key">>, <<"random">>, <<"hash">>, <<login>>>>)

\* Older versions; 3.3 has no list of types and no result without authentication.
V33None == [parts |-> <<Version(3, 6), Part(1, Bytes(None, 4)), Part(2, ServerInit)>>, accepts |-> TRUE,
    out |-> <<<<"version", 33>>, <<"client init">>, <<"encodings", Name>>>>]
V37VNC == Accepts(<<Version(3, 7), Types(<<VNCAuth>>), Part(2, Fill(16))>>,
    <<<<"version", 37>>, Type(VNCAuth), <<"response", Fill(16)>>>>, ServerInit)
Repeater == [parts |-> <<Version(0, 0), [Version(3, 8) EXCEPT !.after = 1],
                         [Types(<<None>>) EXCEPT !.after = 2], Part(3, Bytes(0, 4)), Part(4, ServerInit)>>,
    accepts |-> TRUE,
    out |-> <<<<"repeater">>, V38, Type(None), <<"client init">>, <<"encodings", Name>>>>]

\* Servers that refuse, with and without a reason.
NoTypes == Refuses(<<Version(3, 8), Types(<<>>), Part(1, Bytes(2, 4) \o <<78, 111>>)>>,
    <<V38, <<"security failure">>>>)
Refused33 == Refuses(<<Version(3, 3), Part(1, Bytes(0, 4) \o Bytes(0, 4))>>,
    <<<<"version", 33>>, <<"security failure">>>>)
WrongPassword == Refuses(<<Version(4, 1), Types(<<VNCAuth>>), Part(2, Fill(16)),
                           Part(3, Bytes(1, 4) \o Bytes(1, 4) \o <<33>>)>>,
    <<V38, Type(VNCAuth), <<"response", Fill(16)>>, <<"security failure">>>>)
WrongPassword37 == Refuses(<<Version(3, 7), Types(<<VNCAuth>>), Part(2, Fill(16)), Part(3, Bytes(1, 4))>>,
    <<<<"version", 37>>, Type(VNCAuth), <<"response", Fill(16)>>, <<"security failure">>>>)
Unsupported == Refuses(<<Version(5, 0), Types(<<5, 17>>)>>, <<V38>>)

AllServers ==
    {VNCServer, XvpServer, PlainServer, ArdServer, MsServer, TightNone, TightUnix, TightSiemens,
     RA2Server(1, "login"), RA2Server(2, "password"), V33None, V37VNC, Repeater, NoTypes, Refused33, WrongPassword, WrongPassword37,
     Unsupported}
=============================================================================
