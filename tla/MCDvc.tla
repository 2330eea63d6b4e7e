------------------------------- MODULE MCDvc --------------------------------
(***************************************************************************)
(* The iLO video decoder for TLC: its state machine, its colour cache and   *)
(* its bit buffer, one of which a behaviour exercises.                      *)
(***************************************************************************)
EXTENDS DvcDecoder, DvcCache, DvcBits

VARIABLE part

all == <<vars, cacheVars, bitsVars, part>>

DvcInit ==
    /\ Init /\ CacheInit /\ BitsInit
    /\ part \in {"decoder", "cache", "bits"}
    /\ part # "cache" => color[0] = CHOOSE c \in Colors : TRUE

Decoder(A) == part = "decoder" /\ A /\ UNCHANGED <<cacheVars, bitsVars, part>>

DvcNext ==
    \/ Decoder(Next)
    \/ part = "cache" /\ CacheNext /\ UNCHANGED <<vars, bitsVars, part>>
    \/ part = "bits" /\ BitsNext /\ UNCHANGED <<vars, cacheVars, part>>

\* processBits runs on; the firmware keeps sending.
DvcSpec ==
    /\ DvcInit /\ [][DvcNext]_all
    /\ WF_all(Decoder(Loop)) /\ WF_all(Decoder(Feed))

Lru == INSTANCE LruList WITH
    Size <- Entries,
    list <- [k \in 1..Cardinality(Listed) |->
                color[CHOOSE j \in Listed :
                        Cardinality({m \in Listed : usage[m] <= usage[j]}) = k]],
    touched <- IF phase = "prune" THEN 0
               ELSE Cardinality({j \in Active : block[j] = 1})

\* The arrays implement the list of the colours by recency: every operation is
\* the one on the list, and cachePrune keeps exactly the colours of the block.
LruImplemented == Lru!Spec

\* Nothing of what was received before stays behind: a reset or a hunt starts
\* the decoder afresh, and the bit buffer holds what is unread of the stream.
NothingCarriedOver == FreshStart /\ BufferIsStream

\* Feed returns, and the bits of a code are those of the stream in order.
CodesRead == DecoderResponds /\ CodeFirstBitFirst
=============================================================================
