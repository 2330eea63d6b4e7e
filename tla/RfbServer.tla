----------------------------- MODULE RfbServer -----------------------------
(***************************************************************************)
(* One KVM console session seen from the browser: the frame source the BMC  *)
(* goroutine updates (rfb/framesource.go), rfb.Serve with its reader        *)
(* goroutine (rfb/server.go), and noVNC, which asks for frames one at a     *)
(* time.  A frame is its size and a version number; the pixels, the         *)
(* version and security exchanges and the input messages are left out.      *)
(***************************************************************************)
EXTENDS Naturals, Sequences

CONSTANTS
    Sizes,      \* the resolutions a BMC may switch between
    FirstSize,  \* the placeholder of NewFrameSource
    MaxFrames   \* bound: frames the BMC sends

VARIABLES
    frame,      \* FrameSource.frame
    changed,    \* FrameSource.changed holds a signal
    upd,        \* "swapped": Update has stored the frame and not signalled yet
    pc,         \* where Serve is
    last,       \* lastW, lastH
    dsOK,       \* desktopSizeOK
    reqc,       \* the update request pending in reqc, if any
    errc,       \* errc holds the reader's error
    reader,     \* the reader goroutine
    up,         \* the WebSocket is open
    ctxDone,    \* the request's context was cancelled before the upgrade
    toServer, toClient,     \* bytes in flight, as messages
    view,       \* what noVNC shows: its framebuffer size and frame version
    late        \* history: the size changed between ServerInit and f0

source == <<frame, changed, upd>>
serve == <<pc, last, reqc, errc>>
vars == <<frame, changed, upd, pc, last, dsOK, reqc, errc, reader, up, ctxDone,
          toServer, toClient, view, late>>

Frames == [size : Sizes, ver : 0..MaxFrames]
ClientMessages == {"encodings", "full", "incremental"}
Requests == {"full", "incremental"}
ServerMessages ==
    [kind : {"init", "desktop", "raw"}, size : Sizes, ver : 0..MaxFrames]

\* The type of every variable of a session.
TypeOK ==
    /\ frame \in Frames
    /\ changed \in BOOLEAN
    /\ upd \in {"idle", "swapped"}
    /\ pc \in {"handshake", "f0", "loop", "wait", "send", "ended"}
    /\ last \in Sizes
    /\ dsOK \in BOOLEAN
    /\ reqc \in Requests \cup {"none"}
    /\ errc \in BOOLEAN
    /\ reader \in {"off", "reading", "ended"}
    /\ up \in BOOLEAN
    /\ ctxDone \in BOOLEAN
    /\ toServer \in Seq(ClientMessages)
    /\ toClient \in Seq(ServerMessages)
    /\ view \in Frames
    /\ late \in BOOLEAN

Init ==
    /\ frame = [size |-> FirstSize, ver |-> 0]
    /\ changed = FALSE
    /\ upd = "idle"
    /\ pc = "handshake"
    /\ last = FirstSize
    /\ dsOK = FALSE
    /\ reqc = "none"
    /\ errc = FALSE
    /\ reader = "off"
    /\ up = TRUE
    /\ ctxDone \in BOOLEAN
    /\ toServer = <<>>
    /\ toClient = <<>>
    /\ view = [size |-> FirstSize, ver |-> 0]
    /\ late = FALSE

-----------------------------------------------------------------------------
(* FrameSource.Update, called by the goroutine that decodes BMC video       *)

\* The critical section: swap the frame in.
Update(s) ==
    /\ upd = "idle" /\ frame.ver < MaxFrames
    /\ frame' = [size |-> s, ver |-> frame.ver + 1]
    /\ upd' = "swapped"
    /\ late' = (late \/ (pc = "f0" /\ s # frame.size))
    /\ UNCHANGED <<changed, serve, dsOK, reader, up, ctxDone, toServer,
                   toClient, view>>

\* Mutant: the signal goes out only when a signal is pending already.
SignalLost ==
    /\ upd = "swapped"
    /\ upd' = "idle"
    /\ UNCHANGED <<frame, changed, serve, dsOK, reader, up, ctxDone, toServer,
                   toClient, view, late>>

\* After the unlock: leave a signal in the one-place channel.
Signal ==
    /\ upd = "swapped"
    /\ changed' = TRUE
    /\ upd' = "idle"
    /\ UNCHANGED <<frame, serve, dsOK, reader, up, ctxDone, toServer,
                   toClient, view, late>>

-----------------------------------------------------------------------------
(* Serve                                                                    *)

Message(k, f) == [kind |-> k, size |-> f.size, ver |-> f.ver]

\* The end of handshake: ServerInit carries the size of the frame of now.
ServerInit ==
    /\ pc = "handshake" /\ up
    /\ toClient' = Append(toClient, Message("init", frame))
    /\ pc' = "f0"
    /\ UNCHANGED <<source, last, dsOK, reqc, errc, reader, up, ctxDone,
                   toServer, view, late>>

\* f0 := src.Frame(), then the reader goroutine is started.
TrackSize ==
    /\ pc = "f0"
    /\ last' = frame.size
    /\ reader' = "reading"
    /\ pc' = "loop"
    /\ UNCHANGED <<source, dsOK, reqc, errc, up, ctxDone, toServer, toClient,
                   view, late>>

\* Serve takes a request; an incremental one waits for a change first.
TakeRequest ==
    /\ pc = "loop" /\ reqc # "none"
    /\ pc' = IF reqc = "incremental" THEN "wait" ELSE "send"
    /\ reqc' = "none"
    /\ UNCHANGED <<source, last, dsOK, errc, reader, up, ctxDone, toServer,
                   toClient, view, late>>

\* The change signal is consumed before the frame is read.
Wake ==
    /\ pc = "wait" /\ changed
    /\ changed' = FALSE
    /\ pc' = "send"
    /\ UNCHANGED <<frame, upd, last, dsOK, reqc, errc, reader, up, ctxDone,
                   toServer, toClient, view, late>>

\* Mutant: the new size is never announced.
UpdateMessagesRawOnly(f) == <<Message("raw", f)>>

\* writeDesktopSize when the size differs from the last one, then writeFrame;
\* both are flushed together.
UpdateMessages(f) ==
    (IF f.size # last /\ dsOK THEN <<Message("desktop", f)>> ELSE <<>>)
        \o <<Message("raw", f)>>

\* Send the latest frame; a failed write ends Serve.
Send ==
    /\ pc = "send"
    /\ IF up
       THEN /\ toClient' = toClient \o UpdateMessages(frame)
            /\ last' = frame.size
            /\ pc' = "loop"
       ELSE pc' = "ended" /\ UNCHANGED <<toClient, last>>
    /\ UNCHANGED <<source, dsOK, reqc, errc, reader, up, ctxDone, toServer,
                   view, late>>

\* Mutant: only the outer select looks at errc and ctx.Done().
StopInLoop ==
    /\ \/ pc = "handshake" /\ ~up
       \/ pc = "loop" /\ (errc \/ ctxDone)
    /\ pc' = "ended"
    /\ UNCHANGED <<source, last, dsOK, reqc, errc, reader, up, ctxDone,
                   toServer, toClient, view, late>>

\* Serve returns: the handshake fails, the reader reported an error or the
\* context is cancelled.
Stop ==
    /\ \/ pc = "handshake" /\ ~up
       \/ pc \in {"loop", "wait"} /\ (errc \/ ctxDone)
    /\ pc' = "ended"
    /\ UNCHANGED <<source, last, dsOK, reqc, errc, reader, up, ctxDone,
                   toServer, toClient, view, late>>

\* handleKVMWS closes the WebSocket once Serve has returned.
CloseConn ==
    /\ pc = "ended" /\ up
    /\ up' = FALSE
    /\ UNCHANGED <<source, serve, dsOK, reader, ctxDone, toServer, toClient,
                   view, late>>

-----------------------------------------------------------------------------
(* readMessages                                                             *)

\* Mutant: a request that arrives while one is pending replaces nothing and
\* the pending one is dropped too.
CoalesceDropsBoth(r) == IF reqc = "none" THEN r ELSE "none"

\* A request that arrives while one is pending is dropped.
Coalesce(r) == IF reqc = "none" THEN r ELSE reqc

\* Mutant: SetEncodings falls through to FramebufferUpdateRequest.
ReadMessageFallsThrough ==
    /\ reader = "reading" /\ toServer # <<>>
    /\ toServer' = Tail(toServer)
    /\ dsOK' = (dsOK \/ Head(toServer) = "encodings")
    /\ reqc' = Coalesce(Head(toServer))
    /\ UNCHANGED <<source, pc, last, errc, reader, up, ctxDone, toClient, view, late>>

\* The reader parses the next message of the browser.
ReadMessage ==
    /\ reader = "reading" /\ toServer # <<>>
    /\ toServer' = Tail(toServer)
    /\ IF Head(toServer) = "encodings"
       THEN dsOK' = TRUE /\ UNCHANGED reqc
       ELSE reqc' = Coalesce(Head(toServer)) /\ UNCHANGED dsOK
    /\ UNCHANGED <<source, pc, last, errc, reader, up, ctxDone, toClient, view, late>>

\* The connection is gone: report the error into the buffered errc and end.
ReadFails ==
    /\ reader = "reading" /\ ~up
    /\ errc' = TRUE
    /\ reader' = "ended"
    /\ UNCHANGED <<source, pc, last, dsOK, reqc, up, ctxDone, toServer,
                   toClient, view, late>>

-----------------------------------------------------------------------------
(* noVNC and the network                                                    *)

\* ServerInit: take the size, send the encodings and ask for a full frame.
ClientInit(m) ==
    /\ m.kind = "init"
    /\ view' = [view EXCEPT !.size = m.size]
    /\ toServer' = toServer \o <<"encodings", "full">>

\* A FramebufferUpdate: resize or draw, then ask for the next change.
ClientUpdate(m) ==
    /\ m.kind # "init"
    /\ view' = IF m.kind = "desktop" THEN [view EXCEPT !.size = m.size]
                                     ELSE [view EXCEPT !.ver = m.ver]
    /\ toServer' = Append(toServer, "incremental")

ClientReceives ==
    /\ up /\ toClient # <<>>
    /\ toClient' = Tail(toClient)
    /\ ClientInit(Head(toClient)) \/ ClientUpdate(Head(toClient))
    /\ UNCHANGED <<source, serve, dsOK, reader, up, ctxDone, late>>

\* The browser leaves or the network fails.
Disconnect ==
    /\ up
    /\ up' = FALSE
    /\ UNCHANGED <<source, serve, dsOK, reader, ctxDone, toServer, toClient,
                   view, late>>

ServeStep ==
    ServerInit \/ TrackSize \/ TakeRequest \/ Wake \/ Send \/ Stop \/ CloseConn

ReaderStep == ReadMessage \/ ReadFails

Next ==
    \/ \E s \in Sizes : Update(s)
    \/ Signal \/ ServeStep \/ ReaderStep \/ ClientReceives \/ Disconnect

Spec == Init /\ [][Next]_vars

\* Goroutines are scheduled and the network delivers; neither the BMC nor the
\* browser has to do anything else.  Go's select picks among its ready cases at
\* random, so each of them is taken if it stays ready.
FairSpec ==
    /\ Spec
    /\ WF_vars(Signal) /\ WF_vars(ServerInit \/ TrackSize \/ Send \/ CloseConn)
    /\ SF_vars(TakeRequest) /\ SF_vars(Wake) /\ SF_vars(Stop)
    /\ WF_vars(ReaderStep) /\ WF_vars(ClientReceives)

-----------------------------------------------------------------------------
(* Properties                                                               *)

\* "It must precede the next Raw update at the new size" (writeDesktopSize):
\* a Raw update reaches noVNC only when its framebuffer has the same size,
\* unless the size changed between ServerInit and the read of f0, which Serve
\* takes for the size it has advertised.
RawFits ==
    ~late /\ toClient # <<>> /\ Head(toClient).kind = "raw"
        => Head(toClient).size = view.size

\* The versions on their way to the browser, or already shown.
Delivered(v) ==
    \/ view.ver = v
    \/ \E i \in DOMAIN toClient : toClient[i].kind = "raw" /\ toClient[i].ver = v

\* No lost wakeup: when Serve waits for a change and the newest frame has not
\* been sent, the signal is in the channel or Update is about to put it there.
NoLostWakeup ==
    pc = "wait" /\ ~Delivered(frame.ver) => changed \/ upd = "swapped"

\* The browser catches up: the last frame the BMC sends is eventually shown,
\* however requests and signals were coalesced on the way, unless the session
\* ends.
LastFrameShown ==
    frame.ver = MaxFrames ~> view.ver = MaxFrames \/ ~up

\* When the connection is gone, Serve and its reader goroutine both end, from
\* wherever they are: the handler can release the bridge.
SessionEnds == ~up ~> pc = "ended" /\ reader # "reading"
=============================================================================
