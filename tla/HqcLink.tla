------------------------------- MODULE HqcLink -------------------------------
(***************************************************************************)
(* The handshake over a link: the flight controller of HqcSession, the     *)
(* ground station of HqcGroundStation and the messages between them.  A    *)
(* message in transit is delivered at any time, in any order.  With        *)
(* Duplicates it may be delivered again, or never: the link loses,         *)
(* repeats and reorders.  Without, it is delivered once or, up to MaxLoss  *)
(* times and only if it is a CT_CHUNK or a CT_ACK, lost; and FINISH does   *)
(* not overtake the ACKs sent before it.                                   *)
(***************************************************************************)
EXTENDS HqcGroundStation

CONSTANTS Duplicates, MaxLoss

VARIABLES
    f2g, g2f,   \* messages in transit
    losses,     \* how many of them the link has lost
    left        \* history: sessions an ACTIVE controller left for a HELLO

linkVars == <<f2g, g2f, losses, left>>
allVars  == <<vars, gcsVars, linkVars>>

LinkInit == Init /\ GcsInit /\ f2g = {} /\ g2f = {} /\ losses = 0 /\ left = {}

Take(net, m) == IF Duplicates THEN net ELSE net \ {m}

\* what the ground station does not react to is not kept in transit
Heeded(msgs) == {m \in msgs : /\ m.type # "PK_ACK"
                              /\ m.type = "STATUS" => m.code \in {"OK", "REJECTED"}}

\* a step of the flight controller, and its messages put on the link
FcSends == f2g' = f2g \cup Heeded(out') /\ UNCHANGED <<gcsVars, losses>>

Deliverable(m) ==
    m.type = "FINISH" /\ ~Duplicates => \A n \in g2f : n.type # "CT_ACK"

FcHandles(m) ==
    \/ m.type = "HELLO"    /\ Hello(m.sid, m.aead)
    \/ m.type = "PK_CHUNK" /\ PkChunk(m.sid, m.idx)
    \/ m.type = "CT_ACK"   /\ CtAckIgnored(m.sid, m.kind)
    \/ m.type = "CT_ACK"   /\ CtAck(m.sid, m.kind, m.got)
    \/ m.type = "FINISH"   /\ Finish(m.sid, m.tag)

FcReceive == \E m \in g2f :
    /\ Deliverable(m)
    /\ FcHandles(m)
    /\ g2f' = Take(g2f, m)
    /\ left' = IF state = "ACTIVE" /\ m.type = "HELLO" THEN left \cup {sid} ELSE left
    /\ FcSends

FcTick == Ticks /\ FcSends /\ UNCHANGED <<g2f, left>>

GcsSends(msgs) == g2f' = g2f \cup msgs /\ out' = {} /\ UNCHANGED <<losses, left>>
FcIdle == UNCHANGED <<state, sid, aead, th, pke, pkeAcked, streamVars, ss, keys,
                      signKey, envVars>>

GcsReceive == \E m \in f2g :
    /\ \/ m.type = "HELLO_ACK" /\ GHelloAck(m) /\ GcsSends(HelloAckReply(m))
       \/ m.type = "CT_CHUNK"  /\ GCtChunk(m) /\ GcsSends(CtChunkReply(m))
       \/ m.type = "STATUS"    /\ GStatus(m) /\ GcsSends({})
       \/ m.type = "ABORT"     /\ GAbort(m) /\ GcsSends({})
    /\ f2g' = Take(f2g, m)
    /\ FcIdle

GcsStart  == \E s \in SessionIds : GHello(s) /\ GcsSends({HelloMsg(s, Offer)})
                                   /\ FcIdle /\ UNCHANGED f2g
GcsFinish == GFinish /\ GcsSends({FinishSent}) /\ FcIdle /\ UNCHANGED f2g

Lose ==
    /\ ~Duplicates
    /\ losses < MaxLoss
    /\ \/ \E m \in f2g : m.type = "CT_CHUNK" /\ f2g' = f2g \ {m} /\ UNCHANGED g2f
       \/ \E m \in g2f : m.type = "CT_ACK"   /\ g2f' = g2f \ {m} /\ UNCHANGED f2g
    /\ losses' = losses + 1
    /\ out' = {}
    /\ FcIdle
    /\ UNCHANGED <<gcsVars, left>>

LinkNext == \/ FcReceive \/ FcTick
            \/ GcsReceive \/ GcsStart \/ GcsFinish \/ Lose

LinkSpec == LinkInit /\ [][LinkNext]_allVars

-----------------------------------------------------------------------------
(* Fairness.  update_send() and the parser run for ever on both sides, so  *)
(* a message that stays in transit is handled, and a controller with       *)
(* nothing else to do ends up sending: t_last_tx ages until an RTO has     *)
(* elapsed or t_last_rx until the nudge is due.  TickExpire gets none: the *)
(* streams must progress without the 20 s limit.                           *)

Retransmit ==
    /\ \/ \E due \in SUBSET Kind, nudge \in BOOLEAN : Tick(due, nudge) /\ out' # {}
       \/ \E due \in SUBSET Kind : TickGiveUp(due)
    /\ FcSends
    /\ UNCHANGED <<g2f, left>>

LinkFairness ==
    /\ WF_allVars(FcReceive)
    /\ WF_allVars(GcsReceive)
    /\ WF_allVars(GcsStart)
    /\ WF_allVars(GcsFinish)
    /\ WF_allVars(Retransmit)

LinkFairSpec == LinkSpec /\ LinkFairness

-----------------------------------------------------------------------------
\* Both ends agree: when the controller is active in the session the ground
\* station has finished, they hold the same keys and hashed the same transcript,
\* whatever the link did to the messages and however often a HELLO or a PK_CHUNK
\* was repeated.
Agreement ==
    state = "ACTIVE" /\ sid = gsid /\ gcs \in {"finish", "done"} =>
        /\ keys = GcsKeys
        /\ th = Append(GcsTranscript, Rec("FINISH", gsid))
        /\ aead = gaead

\* The controller has the session: it is ACTIVE in it, or was until it handled
\* another HELLO.
Established(s) == (state = "ACTIVE" /\ sid = s) \/ s \in left

\* A ground station that believes it is done was told so by a controller that
\* had accepted its FINISH: the controller is ACTIVE in that session, and if it
\* no longer is, a HELLO handled since took it out, while the OK was still on its
\* way or later.  No OK answers a FINISH that was refused or rejected, and no
\* abort, time-out or old message leaves the ground station alone in a session.
DoneTogether == gcs = "done" => Established(gsid)

\* Retransmission delivers both ciphertexts: however the chunks and their ACKs
\* are lost, up to MaxLoss of them, the controller gets to the FINISH or gives
\* the session up, and never needs the 20 s limit to get out of CT_TX.  In
\* particular an ACK that finds every chunk's retries used up, and so sends
\* nothing, does not leave both ends waiting.
StreamsSettle == state = "CT_TX" ~> state # "CT_TX"

\* On a link that loses nothing and repeats nothing an honest ground station's
\* handshake is never rejected.
NotRejected == \A m \in f2g : m.type = "STATUS" => m.code # "REJECTED"

=============================================================================
