--------------------------- MODULE HqcGroundStation ---------------------------
(***************************************************************************)
(* The ground station of the handshake, an environment for HqcSession.     *)
(* Its code is not in the repository: it is modelled from how the handlers *)
(* of GCS_KEMTLS.cpp use it and from the steps listed in                   *)
(* experiments/proxy_c9/DISENO.md, section 2.  It is honest: it opens      *)
(* sessions with fresh ids, sends each fragment of pk_e whole, answers     *)
(* every CT_CHUNK with what it holds of that stream, and sends FINISH when *)
(* it holds both ciphertexts.                                              *)
(***************************************************************************)
EXTENDS HqcSession

CONSTANT Offer      \* the AEAD the ground station offers

ASSUME OfferAssumption == Offer \in AeadOffers

VARIABLES
    gcs,        \* idle, hello, exchange, finish, done, failed
    gsid,       \* the session it runs
    gaead,      \* the algorithm HELLO_ACK chose
    grx         \* chunks received of ct_e and ct_s

gcsVars == <<gcs, gsid, gaead, grx>>

GcsTypeOK ==
    /\ gcs \in {"idle", "hello", "exchange", "finish", "done", "failed"}
    /\ gsid \in Nat
    /\ gaead \in 0..2
    /\ grx \in [Kind -> [Chunks -> CtVal]]

HelloMsg(s, a)      == [type |-> "HELLO", sid |-> s, aead |-> a]
PkChunkMsg(s, i)    == [type |-> "PK_CHUNK", sid |-> s, idx |-> i]
CtAckMsg(s, k, got) == [type |-> "CT_ACK", sid |-> s, kind |-> k, got |-> got]
FinishMsg(s, tag)   == [type |-> "FINISH", sid |-> s, tag |-> tag]

GcsInit ==
    /\ gcs = "idle"
    /\ gsid = NoSid
    /\ gaead = 1
    /\ grx = [k \in Kind |-> [i \in Chunks |-> NoBuf]]

Received(k, r) == {i \in Chunks : r[k][i] # NoBuf}

\* decapsulation: what chunks of different ciphertexts add up to carries no
\* secret of the controller's
Decapsulated(k) ==
    IF \A i \in Chunks : grx[k][i] = grx[k][0] THEN grx[k][0] ELSE Junk

GcsKeys == [e |-> Decapsulated(Eph), s |-> Decapsulated(Sta)]

\* the transcript the ground station expects
GcsTranscript ==
    <<Rec("HELLO", gsid), Rec("CT_S", Decapsulated(Sta)), Rec("HELLO_ACK", gaead),
      Rec("PK", gsid), Rec("CT_E", Decapsulated(Eph))>>

GHello(s) ==
    /\ gcs \in {"idle", "failed"}
    /\ s \in SessionIds
    /\ s = gsid + 1                         \* a fresh id
    /\ gcs' = "hello"
    /\ gsid' = s
    /\ grx' = [k \in Kind |-> [i \in Chunks |-> NoBuf]]
    /\ UNCHANGED gaead

\* handlers; the reply, if any, is given by the operator of the same name
GHelloAck(m) ==
    /\ gcs = "hello"
    /\ m.sid = gsid
    /\ gcs' = IF m.ok THEN "exchange" ELSE "failed"
    /\ gaead' = m.aead
    /\ UNCHANGED <<gsid, grx>>
HelloAckReply(m) == IF m.ok THEN {PkChunkMsg(gsid, i) : i \in Frags} ELSE {}

GCtChunk(m) ==
    /\ gcs \in {"hello", "exchange", "finish"}
    /\ m.sid = gsid
    /\ grx' = [grx EXCEPT ![m.kind][m.idx] = IF @ = NoBuf THEN m.ct ELSE @]
    /\ UNCHANGED <<gcs, gsid, gaead>>
CtChunkReply(m) == {CtAckMsg(gsid, m.kind, Received(m.kind, grx'))}

GFinish ==
    /\ gcs = "exchange"
    /\ \A k \in Kind : Received(k, grx) = Chunks
    /\ gcs' = "finish"
    /\ UNCHANGED <<gsid, gaead, grx>>
FinishSent == FinishMsg(gsid, FinishTag(GcsKeys.e, GcsKeys.s, GcsTranscript))

GStatus(m) ==
    /\ gcs \in {"exchange", "finish"}
    /\ m.sid = gsid
    /\ m.code \in {"OK", "REJECTED"}
    /\ gcs' = IF m.code = "OK" THEN "done" ELSE "failed"
    /\ UNCHANGED <<gsid, gaead, grx>>

GAbort(m) ==
    /\ gcs \in {"hello", "exchange", "finish"}
    /\ m.sid = gsid
    /\ gcs' = "failed"
    /\ UNCHANGED <<gsid, gaead, grx>>

=============================================================================
