---------------------------- MODULE MCKvmBridge ----------------------------
(***************************************************************************)
(* The path of a video console, for TLC: two requests against one bridge,  *)
(* or one RFB session between a frame source and a browser.                *)
(***************************************************************************)
EXTENDS KvmBridge

CONSTANTS Sizes, FirstSize, MaxFrames

VARIABLES
    part,
    frame, changed, upd, serve, last, dsOK, reqc, errc, reader, up, ctxDone,
    toServer, toClient, view, late

Rfb == INSTANCE RfbServer WITH pc <- serve

serveVars == <<frame, changed, upd, serve, last, dsOK, reqc, errc, reader, up,
               ctxDone, toServer, toClient, view, late>>
all == <<part, vars, serveVars>>

\* The choices of the part that does not run are fixed.
MCInit ==
    /\ part \in {"bridge", "serve"}
    /\ Init /\ Rfb!Init
    /\ part = "bridge" \/ backend = "ami"
    /\ part = "serve" \/ ~ctxDone

InServe(A) == part = "serve" /\ A /\ UNCHANGED <<part, vars>>

MCNext ==
    \/ part = "bridge" /\ Next /\ UNCHANGED <<part, serveVars>>
    \/ InServe(Rfb!Next)

\* The fairness of the two modules; a bridge that nobody asks for a console has
\* nothing to do.
MCSpec ==
    /\ MCInit /\ [][MCNext]_all
    /\ Fairness
    /\ WF_all(InServe(Rfb!Signal))
    /\ WF_all(InServe(Rfb!ServerInit \/ Rfb!TrackSize \/ Rfb!Send \/ Rfb!CloseConn))
    /\ SF_all(InServe(Rfb!TakeRequest)) /\ SF_all(InServe(Rfb!Wake))
    /\ SF_all(InServe(Rfb!Stop))
    /\ WF_all(InServe(Rfb!ReaderStep)) /\ WF_all(InServe(Rfb!ClientReceives))

\* An update fits the framebuffer it is drawn in, and Serve never waits for a
\* signal that has been lost.
UpdatesServed == Rfb!TypeOK /\ Rfb!RawFits /\ Rfb!NoLostWakeup

\* A session of the bridge ends with its handler, and a request for one is
\* answered; the browser comes to see the last frame, and Serve ends with its
\* connection.
KvmLive ==
    /\ SessionFollowsHandler /\ AcquireReturns
    /\ Rfb!LastFrameShown /\ Rfb!SessionEnds
=============================================================================
