--------------------------- MODULE HqcLinkProofs ---------------------------
(***************************************************************************)
(* Both ends of the handshake agree: for any window, number of chunks and  *)
(* fragments, any number of sessions, and a link that loses, repeats and   *)
(* reorders, or not.                                                       *)
(***************************************************************************)
EXTENDS HqcLink, TLAPS

USE SessionIdsAssumption, AeadOffersAssumption, OfferAssumption, SizesAssumption

----------------------------------------------------------------------------
(* The ground station has all it can get of both ciphertexts.              *)
GrxShape == grx = [k \in Kind |-> [i \in Chunks |-> grx[k][i]]]

AllReceived == GrxShape /\ \A k \in Kind : \A i \in Chunks : grx[k][i] # NoBuf

(* It has sent the FINISH of its session, and since then what that was     *)
(* made of cannot change.                                                  *)
Committed == gcs \in {"finish", "done", "failed"} /\ AllReceived

OwnTag == FinishTag(GcsKeys.e, GcsKeys.s, GcsTranscript)

(* A FINISH on its way to the controller is the one of its session.        *)
ToFcHonest ==
    \A m \in g2f :
      /\ m.sid \in Nat /\ m.sid <= gsid
      /\ m.type = "HELLO" => m.aead = Offer
      /\ m.type = "CT_ACK" => m.kind \in Kind
      /\ m.type = "FINISH" /\ m.sid = gsid => Committed /\ m.tag = OwnTag

ChunksOfKinds(msgs) == \A m \in msgs : m.type = "CT_CHUNK" => m.kind \in Kind

ToGcsHonest == ChunksOfKinds(f2g)

(* A transcript that a FINISH can fit tells of the algorithm in use.       *)
TranscriptNamesAead ==
    /\ th \in Seq(ThRecord)
    /\ pke => Len(th) >= 3
    /\ Len(th) >= 3 /\ state # "ACTIVE" => th[3] = Rec("HELLO_ACK", aead)

(* An active session has no buffer that a late message could be for, and   *)
(* if it is the ground station's, both have the same of it.                *)
ActiveAgrees ==
    state = "ACTIVE" =>
      /\ ~pke /\ \A k \in Kind : ct[k] = NoBuf
      /\ sid = gsid => /\ Committed
                       /\ keys = GcsKeys
                       /\ th = Append(GcsTranscript, Rec("FINISH", gsid))
                       /\ aead = gaead

AgreeInv ==
    /\ gsid \in Nat /\ sid \in Nat /\ sid <= gsid
    /\ aead \in Nat /\ encs \in Nat
    /\ ct = [k \in Kind |-> ct[k]]
    /\ GrxShape
    /\ ToFcHonest /\ ToGcsHonest
    /\ TranscriptNamesAead
    /\ ActiveAgrees

----------------------------------------------------------------------------
LEMMA AgreeInit == LinkInit => AgreeInv
BY DEF LinkInit, Init, GcsInit, AgreeInv, ToFcHonest, TranscriptNamesAead, ActiveAgrees, NoSid, ToGcsHonest, ChunksOfKinds, GrxShape, Kind, Eph, Sta

----------------------------------------------------------------------------
(* Steps of the controller.  They leave the ground station as it is and    *)
(* send it nothing that bears on the agreement.                            *)
GcsStill == UNCHANGED gcsVars /\ g2f' \subseteq g2f /\ ToGcsHonest'

LEMMA StationStill ==
  ASSUME AgreeInv, GcsStill
  PROVE  /\ ToFcHonest' /\ ToGcsHonest' /\ Committed' = Committed
         /\ GcsKeys' = GcsKeys /\ GcsTranscript' = GcsTranscript
         /\ gsid' = gsid /\ gaead' = gaead /\ gsid' \in Nat
         /\ GrxShape'
<1>1. gcs' = gcs /\ gsid' = gsid /\ gaead' = gaead /\ grx' = grx
  BY DEF GcsStill, gcsVars
<1>2. Committed' = Committed /\ GrxShape' = GrxShape
  BY <1>1 DEF Committed, AllReceived, GrxShape
<1>3. GcsKeys' = GcsKeys /\ GcsTranscript' = GcsTranscript
  BY <1>1 DEF GcsKeys, GcsTranscript, Decapsulated
<1>4. OwnTag' = OwnTag
  BY <1>3 DEF OwnTag
<1>5. ToFcHonest'
  BY <1>1, <1>2, <1>4 DEF AgreeInv, ToFcHonest, GcsStill
<1> QED
  BY <1>1, <1>2, <1>3, <1>5 DEF AgreeInv, GcsStill

(* A step that leaves what the invariant speaks of alone.                  *)
LEMMA QuietAgrees ==
  ASSUME AgreeInv, GcsStill, UNCHANGED <<state, sid, aead, th, pke, ct, keys, encs>>
  PROVE  AgreeInv'
BY StationStill DEF AgreeInv, TranscriptNamesAead, ActiveAgrees

(* The session is given up.                                                *)
LEMMA AbortAgrees ==
  ASSUME AgreeInv, GcsStill, NEW msgs, AbortSession(msgs)
  PROVE  AgreeInv'
<1>1. /\ state' = "FAIL" /\ sid' = 0 /\ aead' = 1 /\ th' = <<>> /\ pke' = FALSE
      /\ ct' = [k \in Kind |-> NoBuf] /\ encs' = encs
  BY DEF AbortSession, Reset, envVars, NoSid
<1>2. gsid \in Nat /\ encs \in Nat
  BY DEF AgreeInv
<1>3. TranscriptNamesAead'
  BY <1>1 DEF TranscriptNamesAead
<1>4. ActiveAgrees'
  BY <1>1 DEF ActiveAgrees
<1>5. ct' = [k \in Kind |-> ct'[k]]
  BY <1>1
<1> QED
  BY <1>1, <1>2, <1>3, <1>4, <1>5, StationStill DEF AgreeInv

LEMMA RecordType ==
  ASSUME NEW v \in Nat
  PROVE  /\ Rec("PK", v) \in ThRecord
         /\ Rec("CT_E", v) \in ThRecord
         /\ Rec("FINISH", v) \in ThRecord
         /\ Rec("HELLO", v) \in ThRecord /\ Rec("CT_S", v) \in ThRecord
         /\ Rec("HELLO_ACK", v) \in ThRecord /\ Rec("HELLO_NACK", v) \in ThRecord
BY DEF Rec, ThRecord

(* A HELLO of a session the ground station has opened.                     *)
LEMMA HelloAgrees ==
  ASSUME AgreeInv, GcsStill, NEW s \in Nat, s <= gsid, NEW a \in Nat, Hello(s, a)
  PROVE  AgreeInv'
<1>1. state' # "ACTIVE" /\ sid' = s /\ aead' = a /\ encs' \in Nat
  <2>1. CASE HelloAccept(s, a)
    BY <2>1 DEF HelloAccept, AgreeInv
  <2>2. CASE HelloRefuse(s, a)
    BY <2>2 DEF HelloRefuse, Reset, AgreeInv
  <2> QED BY <2>1, <2>2 DEF Hello
<1>2. ct' = [k \in Kind |-> ct'[k]]
  BY DEF Hello, HelloAccept, HelloRefuse, Reset
<1>3. TranscriptNamesAead'
  <2>1. CASE HelloAccept(s, a)
    <3>1. th' = <<Rec("HELLO", s), Rec("CT_S", encs'), Rec("HELLO_ACK", a)>>
      BY <2>1 DEF HelloAccept
    <3>2. th' \in Seq(ThRecord) /\ Len(th') = 3
          /\ th'[3] = Rec("HELLO_ACK", a)
      BY <1>1, <3>1, RecordType
    <3> QED BY <1>1, <3>2 DEF TranscriptNamesAead
  <2>2. CASE HelloRefuse(s, a)
    <3>1. pke' = FALSE /\ (th' = <<Rec("HELLO", s), Rec("HELLO_NACK", a)>> \/ th' = <<Rec("HELLO", s)>>)
      BY <2>2 DEF HelloRefuse, Reset
    <3>2. th' \in Seq(ThRecord) /\ Len(th') <= 2 /\ Len(th') \in Nat
      <4>1. CASE th' = <<Rec("HELLO", s), Rec("HELLO_NACK", a)>>
        BY <4>1, RecordType
      <4>2. CASE th' = <<Rec("HELLO", s)>>
        BY <4>2, RecordType
      <4> QED BY <3>1, <4>1, <4>2
    <3> QED BY <3>1, <3>2 DEF TranscriptNamesAead
  <2> QED BY <2>1, <2>2 DEF Hello
<1>4. ActiveAgrees'
  BY <1>1 DEF ActiveAgrees
<1> QED
  BY <1>1, <1>2, <1>3, <1>4, StationStill DEF AgreeInv

(* A transcript that grows keeps its third record.                         *)
LEMMA ThirdKept ==
  ASSUME NEW S, NEW t \in Seq(S), Len(t) >= 3, NEW a \in S, NEW b \in S
  PROVE  /\ t \o <<a, b>> \in Seq(S) /\ Append(t, a) \in Seq(S)
         /\ Len(t \o <<a, b>>) >= 3 /\ Len(Append(t, a)) >= 3
         /\ (t \o <<a, b>>)[3] = t[3] /\ Append(t, a)[3] = t[3]
<1>1. <<a, b>> \in Seq(S) /\ Len(<<a, b>>) = 2
  OBVIOUS
<1>2. t \o <<a, b>> \in Seq(S) /\ Len(t \o <<a, b>>) = Len(t) + 2
  BY <1>1
<1>3. (t \o <<a, b>>)[3] = t[3]
  BY <1>1
<1>4. Append(t, a) \in Seq(S) /\ Len(Append(t, a)) = Len(t) + 1 /\ Append(t, a)[3] = t[3]
  OBVIOUS
<1> QED
  BY <1>2, <1>3, <1>4

(* A fragment; an active session has no buffer for it.                     *)
LEMMA PkChunkAgrees ==
  ASSUME AgreeInv, GcsStill, NEW s, NEW i, PkChunk(s, i)
  PROVE  AgreeInv'
<1>1. CASE PkChunkRefused(s)
  BY <1>1, QuietAgrees DEF PkChunkRefused, streamVars, envVars
<1>2. CASE PkChunkStored(s, i)
  BY <1>2, QuietAgrees DEF PkChunkStored, streamVars, envVars
<1>3. CASE PkChunkComplete(s, i)
  <2>1. pke /\ pke' = pke /\ sid' = sid /\ aead' = aead /\ encs' = encs + 1
        /\ state' \in {"CT_TX", "FAIL"}
    BY <1>3 DEF PkChunkComplete, EncapsulateOk, EncapsulateFail
  <2>2. encs' \in Nat /\ sid \in Nat
    BY <2>1 DEF AgreeInv
  <2>3. ct' = [k \in Kind |-> ct'[k]]
    BY <1>3 DEF PkChunkComplete, EncapsulateOk, EncapsulateFail, AgreeInv
  <2>4. th \in Seq(ThRecord) /\ Len(th) >= 3 /\ th[3] = Rec("HELLO_ACK", aead)
    BY <2>1 DEF AgreeInv, TranscriptNamesAead, ActiveAgrees
  <2>5. th' = th \o <<Rec("PK", sid), Rec("CT_E", encs')>> \/ th' = Append(th, Rec("PK", sid))
    BY <1>3 DEF PkChunkComplete, EncapsulateOk, EncapsulateFail, ThAddPkAndCt
  <2>6. Rec("PK", sid) \in ThRecord /\ Rec("CT_E", encs') \in ThRecord
    BY <2>2, RecordType
  <2>7. th' \in Seq(ThRecord) /\ Len(th') >= 3 /\ th'[3] = th[3]
    <3>1. CASE th' = th \o <<Rec("PK", sid), Rec("CT_E", encs')>>
      BY <2>4, <2>6, <3>1, ThirdKept
    <3>2. CASE th' = Append(th, Rec("PK", sid))
      BY <2>4, <2>6, <3>2, ThirdKept
    <3> QED BY <2>5, <3>1, <3>2
  <2>8. TranscriptNamesAead'
    BY <2>1, <2>4, <2>7 DEF TranscriptNamesAead, Rec
  <2>9. ActiveAgrees'
    BY <2>1 DEF ActiveAgrees
  <2> QED
    BY <2>1, <2>2, <2>3, <2>8, <2>9, StationStill DEF AgreeInv
<1> QED
  BY <1>1, <1>2, <1>3 DEF PkChunk

(* An ACK; an active session has no ciphertext it could be for.            *)
LEMMA CtAckAgrees ==
  ASSUME AgreeInv, GcsStill, NEW s, NEW k, NEW got, k \in Kind,
         CtAckIgnored(s, k) \/ CtAck(s, k, got)
  PROVE  AgreeInv'
<1>1. CASE CtAckIgnored(s, k)
  BY <1>1, QuietAgrees DEF CtAckIgnored, streamVars, envVars
<1>2. CASE CtAck(s, k, got)
  <2>1. ct[k] # NoBuf /\ UNCHANGED <<sid, aead, th, pke, ct, keys, encs>>
        /\ (state' = "WAIT_CF" \/ state' = state)
    BY <1>2 DEF CtAck, Live, envVars
  <2>2. state # "ACTIVE"
    BY <2>1 DEF AgreeInv, ActiveAgrees
  <2>3. ActiveAgrees'
    BY <2>1, <2>2 DEF ActiveAgrees
  <2> QED
    BY <2>1, <2>2, <2>3, StationStill DEF AgreeInv, TranscriptNamesAead
<1> QED
  BY <1>1, <1>2

(* A FINISH: what it is checked with is the ground station's, if it is of  *)
(* the session the ground station is in.                                   *)
LEMMA FinishAgrees ==
  ASSUME AgreeInv, GcsStill, NEW m \in g2f, m.type = "FINISH", Finish(m.sid, m.tag)
  PROVE  AgreeInv'
<1>1. CASE FinishRefused(m.sid)
  BY <1>1, QuietAgrees DEF FinishRefused, streamVars, envVars
<1>2. CASE FinishRejected(m.sid, m.tag)
  BY <1>2, AbortAgrees DEF FinishRejected
<1>3. CASE FinishAccepted(m.sid, m.tag)
  <2>1. /\ m.sid = sid /\ m.tag = FinishTag(ss[Eph], ss[Sta], th)
        /\ state = "WAIT_CF" /\ state' = "ACTIVE" /\ keys' = [e |-> ss[Eph], s |-> ss[Sta]]
        /\ th' = Append(th, Rec("FINISH", sid)) /\ pke' = FALSE
        /\ ct' = [k \in Kind |-> NoBuf]
        /\ sid' = sid /\ aead' = aead /\ encs' = encs
    BY <1>3 DEF FinishAccepted, TagVerifies, envVars
  <2>2. th \in Seq(ThRecord) /\ Rec("FINISH", sid) \in ThRecord
    BY RecordType DEF AgreeInv, TranscriptNamesAead
  <2>3. TranscriptNamesAead'
    BY <2>1, <2>2 DEF TranscriptNamesAead
  <2>4. ASSUME sid = gsid
        PROVE  /\ Committed' /\ keys' = GcsKeys'
               /\ th' = Append(GcsTranscript', Rec("FINISH", gsid')) /\ aead' = gaead'
    <3>1. Committed /\ m.tag = OwnTag
      BY <2>1, <2>4 DEF AgreeInv, ToFcHonest
    <3>2. ss[Eph] = GcsKeys.e /\ ss[Sta] = GcsKeys.s /\ th = GcsTranscript
      BY <2>1, <3>1 DEF OwnTag, FinishTag
    <3>3. keys' = GcsKeys
      BY <2>1, <3>2 DEF GcsKeys
    <3>4. Len(GcsTranscript) = 5 /\ GcsTranscript[3] = Rec("HELLO_ACK", gaead)
      BY DEF GcsTranscript
    <3>5. aead = gaead
      BY <2>1, <3>2, <3>4 DEF AgreeInv, TranscriptNamesAead, Rec
    <3> QED
      BY <2>1, <2>4, <3>1, <3>2, <3>3, <3>5, StationStill
  <2>5. ActiveAgrees'
    BY <2>1, <2>4, StationStill DEF ActiveAgrees
  <2>6. ct' = [k \in Kind |-> ct'[k]]
    BY <2>1
  <2> QED
    BY <2>1, <2>3, <2>5, <2>6, StationStill DEF AgreeInv
<1> QED
  BY <1>1, <1>2, <1>3 DEF Finish

(* The timers, which an active session does not have.                      *)
LEMMA TickAgrees ==
  ASSUME AgreeInv, GcsStill, Ticks
  PROVE  AgreeInv'
<1>1. CASE TickExpire
  BY <1>1, AbortAgrees DEF TickExpire
<1>2. ASSUME NEW due \in SUBSET Kind, TickGiveUp(due)
      PROVE  AgreeInv'
  BY <1>2, AbortAgrees DEF TickGiveUp
<1>3. ASSUME NEW due \in SUBSET Kind, NEW nudge \in BOOLEAN, Tick(due, nudge)
      PROVE  AgreeInv'
  <2>1. state # "ACTIVE" /\ state' # "ACTIVE" /\ UNCHANGED <<sid, aead, th, pke, ct, keys, encs>>
    BY <1>3 DEF Tick, Handshaking, envVars
  <2>2. ActiveAgrees' /\ TranscriptNamesAead'
    BY <2>1 DEF ActiveAgrees, TranscriptNamesAead, AgreeInv
  <2> QED
    BY <2>1, <2>2, StationStill DEF AgreeInv
<1> QED
  BY <1>1, <1>2, <1>3 DEF Ticks

(* The chunks the controller sends are of the two ciphertexts.             *)
LEMMA KindsSent ==
  ASSUME (\E m \in g2f : FcHandles(m) /\ (m.type = "CT_ACK" => m.kind \in Kind)) \/ Ticks
  PROVE  ChunksOfKinds(out')
<1>1. ASSUME NEW s, NEW a, Hello(s, a) PROVE ChunksOfKinds(out')
  <2>1. \A n \in FirstBurst(s, Sta, encs') : n.kind \in Kind
    BY DEF FirstBurst, CtChunk, Kind
  <2>2. \A n \in out' : n \in FirstBurst(s, Sta, encs') \/ n.type # "CT_CHUNK"
    <3>1. CASE HelloAccept(s, a)
      <4>1. out' = {HelloAck(s, TRUE, a)} \cup FirstBurst(s, Sta, encs')
        BY <3>1 DEF HelloAccept
      <4>2. HelloAck(s, TRUE, a).type # "CT_CHUNK"
        BY DEF HelloAck
      <4> QED BY <4>1, <4>2
    <3>2. CASE HelloRefuse(s, a)
      <4>1. out' = {HelloAck(s, FALSE, a)} \/ out' = {Status(s, "INTERNAL")}
        BY <3>2 DEF HelloRefuse
      <4>2. HelloAck(s, FALSE, a).type # "CT_CHUNK" /\ Status(s, "INTERNAL").type # "CT_CHUNK"
        BY DEF HelloAck, Status
      <4> QED BY <4>1, <4>2
    <3> QED BY <1>1, <3>1, <3>2 DEF Hello
  <2> QED BY <2>1, <2>2 DEF ChunksOfKinds
<1>2. ASSUME NEW s, NEW i, PkChunk(s, i) PROVE ChunksOfKinds(out')
  BY <1>2 DEF PkChunk, PkChunkRefused, PkChunkStored, PkChunkComplete, EncapsulateOk,
              EncapsulateFail, PkAck, Status, FirstBurst, CtChunk, ChunksOfKinds, Kind
<1>3. ASSUME NEW s, NEW k \in Kind, NEW got, CtAckIgnored(s, k) \/ CtAck(s, k, got)
      PROVE  ChunksOfKinds(out')
  BY <1>3 DEF CtAckIgnored, CtAck, CtChunk, ChunksOfKinds
<1>4. ASSUME NEW s, NEW tag, Finish(s, tag) PROVE ChunksOfKinds(out')
  BY <1>4 DEF Finish, FinishRefused, FinishRejected, FinishAccepted, AbortSession, Status,
              ChunksOfKinds
<1>5. CASE TickExpire \/ \E due \in SUBSET Kind : TickGiveUp(due)
  BY <1>5 DEF TickExpire, TickGiveUp, AbortSession, AbortMsg, ChunksOfKinds
<1>6. ASSUME NEW due, NEW nudge, Tick(due, nudge) PROVE ChunksOfKinds(out')
  <2> DEFINE pumped == [k \in Kind |->
                          IF k = Eph THEN Pumped(Eph, Eph \in due) ELSE Pumped(Sta, StaDue(due))]
             more(k) == pumped[k] \cup (IF nudge THEN Nudged(k) ELSE {})
  <2>2. out' = UNION {{CtChunk(sid, k, i, ct[k]) : i \in more(k)} : k \in Kind}
    BY <1>6 DEF Tick
  <2> HIDE DEF more
  <2>1. \A n \in out' : \E k \in Kind : \E i : n = CtChunk(sid, k, i, ct[k])
    BY <2>2
  <2> QED
    BY <2>1 DEF CtChunk, ChunksOfKinds
<1> QED
  BY <1>1, <1>2, <1>3, <1>4, <1>5, <1>6 DEF Ticks, FcHandles

LEMMA FcReceiveAgrees ==
  ASSUME AgreeInv, FcReceive
  PROVE  AgreeInv'
<1>1. PICK m \in g2f : FcHandles(m) /\ g2f' = Take(g2f, m) /\ FcSends
  BY DEF FcReceive
<1>0. ChunksOfKinds(out')
  BY <1>1, KindsSent DEF AgreeInv, ToFcHonest
<1>2. GcsStill
  BY <1>0, <1>1 DEF GcsStill, FcSends, Take, Heeded, AgreeInv, ToGcsHonest, ChunksOfKinds
<1>3. m.sid \in Nat /\ m.sid <= gsid /\ (m.type = "HELLO" => m.aead \in Nat)
  BY DEF AgreeInv, ToFcHonest
<1>4. CASE m.type = "HELLO" /\ Hello(m.sid, m.aead)
  BY <1>2, <1>3, <1>4, HelloAgrees
<1>5. CASE m.type = "PK_CHUNK" /\ PkChunk(m.sid, m.idx)
  BY <1>2, <1>5, PkChunkAgrees
<1>6. CASE m.type = "CT_ACK" /\ (CtAckIgnored(m.sid, m.kind) \/ CtAck(m.sid, m.kind, m.got))
  BY <1>2, <1>6, CtAckAgrees DEF AgreeInv, ToFcHonest
<1>7. CASE m.type = "FINISH" /\ Finish(m.sid, m.tag)
  BY <1>2, <1>7, FinishAgrees
<1> QED
  BY <1>1, <1>4, <1>5, <1>6, <1>7 DEF FcHandles

----------------------------------------------------------------------------
(* Steps of the ground station and the link.                               *)

(* Once the ground station is committed only a new session changes what it *)
(* is committed to.                                                        *)
LEMMA StationKeeps ==
  ASSUME AgreeInv, Committed, GcsReceive
  PROVE  Committed' /\ UNCHANGED <<gsid, gaead, grx>>
<1>1. PICK m \in f2g : GHelloAck(m) \/ GCtChunk(m) \/ GStatus(m) \/ GAbort(m)
  BY DEF GcsReceive
<1>2. CASE GHelloAck(m)
  BY <1>2 DEF GHelloAck, Committed
<1>3. CASE GCtChunk(m)
  <2>1. gcs' = gcs /\ gsid' = gsid /\ gaead' = gaead
    BY <1>3 DEF GCtChunk
  <2>2. grx = [k \in Kind |-> [i \in Chunks |-> grx[k][i]]]
        /\ \A k \in Kind : \A i \in Chunks : grx[k][i] # NoBuf
    BY DEF Committed, AllReceived, GrxShape
  <2>3. grx' = [grx EXCEPT ![m.kind] =
                  [grx[m.kind] EXCEPT ![m.idx] =
                     IF grx[m.kind][m.idx] = NoBuf THEN m.ct ELSE grx[m.kind][m.idx]]]
    BY <1>3 DEF GCtChunk
  <2>4. ASSUME NEW k \in Kind PROVE grx'[k] = grx[k]
    <3>1. grx[k] = [i \in Chunks |-> grx[k][i]]
      BY <2>2
    <3>2. CASE m.kind = k /\ m.idx \in Chunks
      BY <2>2, <2>3, <3>1, <3>2
    <3>3. CASE m.kind = k /\ m.idx \notin Chunks
      BY <2>2, <2>3, <3>1, <3>3
    <3>4. CASE m.kind # k
      BY <2>2, <2>3, <3>4
    <3> QED BY <3>2, <3>3, <3>4
  <2>5. DOMAIN grx' = Kind /\ grx' = [k \in Kind |-> grx'[k]]
    BY <2>2, <2>3
  <2>6. grx' = grx
    BY <2>2, <2>4, <2>5
  <2> QED
    BY <2>1, <2>6 DEF Committed, AllReceived, GrxShape
<1>4. CASE GStatus(m) \/ GAbort(m)
  BY <1>4 DEF GStatus, GAbort, Committed, AllReceived, GrxShape
<1> QED
  BY <1>1, <1>2, <1>3, <1>4

(* What it holds of a ciphertext stays a function of the chunk.            *)
LEMMA ShapeKept ==
  ASSUME GrxShape, NEW m, GCtChunk(m)
  PROVE  GrxShape'
<1>1. grx = [k \in Kind |-> [i \in Chunks |-> grx[k][i]]]
  BY DEF GrxShape
<1>2. grx' = [grx EXCEPT ![m.kind] =
                [grx[m.kind] EXCEPT ![m.idx] =
                   IF grx[m.kind][m.idx] = NoBuf THEN m.ct ELSE grx[m.kind][m.idx]]]
  BY DEF GCtChunk
<1>3. ASSUME NEW k \in Kind PROVE grx'[k] = [i \in Chunks |-> grx'[k][i]]
  <2>1. grx[k] = [i \in Chunks |-> grx[k][i]]
    BY <1>1
  <2>2. CASE m.kind = k
    BY <1>1, <1>2, <2>1, <2>2
  <2>3. CASE m.kind # k
    BY <1>1, <1>2, <2>1, <2>3
  <2> QED BY <2>2, <2>3
<1>4. grx' = [k \in Kind |-> grx'[k]]
  BY <1>1, <1>2
<1> QED
  BY <1>3, <1>4 DEF GrxShape

(* What the ground station answers belongs to its session.                 *)
Answer(n) == n.sid = gsid /\ n.type \in {"PK_CHUNK", "CT_ACK"}
                /\ (n.type = "CT_ACK" => n.kind \in Kind)

LEMMA GcsReceiveAgrees ==
  ASSUME AgreeInv, GcsReceive
  PROVE  AgreeInv'
<1>1. PICK m \in f2g :
        /\ \/ m.type = "HELLO_ACK" /\ GHelloAck(m) /\ GcsSends(HelloAckReply(m))
           \/ m.type = "CT_CHUNK"  /\ GCtChunk(m) /\ GcsSends(CtChunkReply(m))
           \/ m.type = "STATUS"    /\ GStatus(m) /\ GcsSends({})
           \/ m.type = "ABORT"     /\ GAbort(m) /\ GcsSends({})
        /\ f2g' = Take(f2g, m)
        /\ FcIdle
  BY DEF GcsReceive
<1>2. UNCHANGED <<state, sid, aead, th, pke, ct, keys, encs>>
  BY <1>1 DEF FcIdle, streamVars, envVars
<1>3. gsid' = gsid
  BY <1>1 DEF GHelloAck, GCtChunk, GStatus, GAbort
<1>4. ToGcsHonest'
  BY <1>1 DEF AgreeInv, ToGcsHonest, ChunksOfKinds, Take
<1>5. GrxShape'
  <2>1. CASE GCtChunk(m)
    BY <2>1, ShapeKept DEF AgreeInv
  <2>2. CASE GHelloAck(m) \/ GStatus(m) \/ GAbort(m)
    BY <2>2 DEF GHelloAck, GStatus, GAbort, GrxShape, AgreeInv
  <2> QED BY <1>1, <2>1, <2>2
<1>6. \A n \in g2f' : n \in g2f \/ Answer(n)
  <2>1. CASE m.type = "HELLO_ACK" /\ GcsSends(HelloAckReply(m))
    <3>1. \A n \in HelloAckReply(m) : \E i : n = PkChunkMsg(gsid, i)
      BY DEF HelloAckReply
    <3> QED BY <2>1, <3>1 DEF GcsSends, PkChunkMsg, Answer
  <2>2. CASE m.type = "CT_CHUNK" /\ GcsSends(CtChunkReply(m))
    <3>1. m.kind \in Kind
      BY <2>2 DEF AgreeInv, ToGcsHonest, ChunksOfKinds
    <3> QED BY <2>2, <3>1 DEF GcsSends, CtChunkReply, CtAckMsg, Answer
  <2>3. CASE GcsSends({})
    BY <2>3 DEF GcsSends
  <2> QED BY <1>1, <2>1, <2>2, <2>3
<1>7. ASSUME Committed
      PROVE  Committed' /\ GcsKeys' = GcsKeys /\ GcsTranscript' = GcsTranscript
             /\ gaead' = gaead /\ OwnTag' = OwnTag
  <2>1. Committed' /\ UNCHANGED <<gsid, gaead, grx>>
    BY <1>7, StationKeeps
  <2>2. GcsKeys' = GcsKeys /\ GcsTranscript' = GcsTranscript
    BY <2>1 DEF GcsKeys, GcsTranscript, Decapsulated
  <2> QED BY <2>1, <2>2 DEF OwnTag
<1>8. ToFcHonest'
  <2>1. SUFFICES ASSUME NEW n \in g2f'
                 PROVE  /\ n.sid \in Nat /\ n.sid <= gsid
                        /\ n.type = "HELLO" => n.aead = Offer
                        /\ n.type = "CT_ACK" => n.kind \in Kind
                        /\ n.type = "FINISH" /\ n.sid = gsid => Committed' /\ n.tag = OwnTag'
    BY <1>3 DEF ToFcHonest
  <2>2. CASE n \in g2f
    BY <1>7, <2>2 DEF AgreeInv, ToFcHonest
  <2>3. CASE Answer(n)
    BY <2>3 DEF AgreeInv, Answer
  <2> QED BY <1>6, <2>2, <2>3
<1>9. ActiveAgrees'
  BY <1>2, <1>3, <1>7 DEF AgreeInv, ActiveAgrees
<1> QED
  BY <1>2, <1>3, <1>4, <1>5, <1>8, <1>9 DEF AgreeInv, TranscriptNamesAead

(* A session is opened: what is on its way belongs to an older one.        *)
LEMMA GcsStartAgrees ==
  ASSUME AgreeInv, GcsStart
  PROVE  AgreeInv'
<1>1. PICK s \in SessionIds : GHello(s) /\ GcsSends({HelloMsg(s, Offer)}) /\ FcIdle
                              /\ UNCHANGED f2g
  BY DEF GcsStart
<1>2. UNCHANGED <<state, sid, aead, th, pke, ct, keys, encs>>
  BY <1>1 DEF FcIdle, streamVars, envVars
<1>3. gsid' = gsid + 1 /\ gsid' = s /\ gsid \in Nat /\ gsid' \in Nat
  BY <1>1 DEF GHello, AgreeInv
<1>4. g2f' = g2f \cup {HelloMsg(s, Offer)}
  BY <1>1 DEF GcsSends
<1>5. ToFcHonest'
  <2>1. SUFFICES ASSUME NEW n \in g2f'
                 PROVE  /\ n.sid \in Nat /\ n.sid <= gsid'
                        /\ n.type = "HELLO" => n.aead = Offer
                        /\ n.type = "CT_ACK" => n.kind \in Kind
                        /\ ~(n.type = "FINISH" /\ n.sid = gsid')
    BY DEF ToFcHonest
  <2>2. CASE n \in g2f
    BY <1>3, <2>2 DEF AgreeInv, ToFcHonest
  <2>3. CASE n = HelloMsg(s, Offer)
    BY <1>3, <2>3 DEF HelloMsg
  <2> QED BY <1>4, <2>2, <2>3
<1>6. ActiveAgrees'
  BY <1>2, <1>3 DEF AgreeInv, ActiveAgrees
<1>7. GrxShape' /\ ToGcsHonest'
  BY <1>1 DEF GHello, GrxShape, AgreeInv, ToGcsHonest, ChunksOfKinds
<1> QED
  BY <1>2, <1>3, <1>5, <1>6, <1>7 DEF AgreeInv, TranscriptNamesAead

(* FINISH is sent: nothing was before it, and it commits the sender.       *)
LEMMA GcsFinishAgrees ==
  ASSUME AgreeInv, GcsFinish
  PROVE  AgreeInv'
<1>1. GFinish /\ GcsSends({FinishSent}) /\ FcIdle /\ UNCHANGED f2g
  BY DEF GcsFinish
<1>2. UNCHANGED <<state, sid, aead, th, pke, ct, keys, encs>>
  BY <1>1 DEF FcIdle, streamVars, envVars
<1>3. ~Committed /\ gcs' = "finish" /\ UNCHANGED <<gsid, gaead, grx>>
  BY <1>1 DEF GFinish, Committed
<1>4. GrxShape' /\ ToGcsHonest'
  BY <1>1, <1>3 DEF GrxShape, AgreeInv, ToGcsHonest, ChunksOfKinds
<1>5. \A k \in Kind : \A i \in Chunks : grx[k][i] # NoBuf
  BY <1>1 DEF GFinish, Received
<1>6. Committed'
  BY <1>3, <1>4, <1>5 DEF Committed, AllReceived
<1>7. OwnTag' = OwnTag
  BY <1>3 DEF OwnTag, GcsKeys, GcsTranscript, Decapsulated
<1>8. g2f' = g2f \cup {FinishMsg(gsid, OwnTag)}
  BY <1>1 DEF GcsSends, FinishSent, OwnTag
<1>9. ToFcHonest'
  <2>1. SUFFICES ASSUME NEW n \in g2f'
                 PROVE  /\ n.sid \in Nat /\ n.sid <= gsid
                        /\ n.type = "HELLO" => n.aead = Offer
                        /\ n.type = "CT_ACK" => n.kind \in Kind
                        /\ n.type = "FINISH" /\ n.sid = gsid => n.tag = OwnTag
    BY <1>3, <1>6, <1>7 DEF ToFcHonest
  <2>2. CASE n \in g2f
    BY <2>2 DEF AgreeInv, ToFcHonest
  <2>3. CASE n = FinishMsg(gsid, OwnTag)
    BY <2>3 DEF FinishMsg, AgreeInv
  <2> QED BY <1>8, <2>2, <2>3
<1>10. ActiveAgrees'
  BY <1>2, <1>3 DEF AgreeInv, ActiveAgrees
<1> QED
  BY <1>2, <1>3, <1>4, <1>9, <1>10 DEF AgreeInv, TranscriptNamesAead

LEMMA FcTickAgrees ==
  ASSUME AgreeInv, FcTick
  PROVE  AgreeInv'
<1>1. Ticks /\ FcSends /\ UNCHANGED g2f
  BY DEF FcTick
<1>2. ChunksOfKinds(out')
  BY <1>1, KindsSent
<1>3. GcsStill
  BY <1>1, <1>2 DEF GcsStill, FcSends, Heeded, AgreeInv, ToGcsHonest, ChunksOfKinds
<1> QED
  BY <1>1, <1>3, TickAgrees

LEMMA LoseAgrees ==
  ASSUME AgreeInv, Lose
  PROVE  AgreeInv'
<1>1. FcIdle /\ UNCHANGED gcsVars /\ g2f' \subseteq g2f /\ f2g' \subseteq f2g
  BY DEF Lose
<1>2. GcsStill
  BY <1>1 DEF GcsStill, AgreeInv, ToGcsHonest, ChunksOfKinds
<1> QED
  BY <1>1, <1>2, QuietAgrees DEF FcIdle, streamVars, envVars

LEMMA AgreeStep == AgreeInv /\ [LinkNext]_allVars => AgreeInv'
<1> SUFFICES ASSUME AgreeInv, [LinkNext]_allVars PROVE AgreeInv'
  OBVIOUS
<1>1. CASE UNCHANGED allVars
  <2>1. GcsStill /\ UNCHANGED <<state, sid, aead, th, pke, ct, keys, encs>>
    BY <1>1 DEF allVars, vars, linkVars, streamVars, envVars, GcsStill, AgreeInv,
                ToGcsHonest, ChunksOfKinds
  <2> QED BY <2>1, QuietAgrees
<1> QED
  BY <1>1, FcReceiveAgrees, FcTickAgrees, GcsReceiveAgrees, GcsStartAgrees,
     GcsFinishAgrees, LoseAgrees DEF LinkNext

(* When the controller is active in the session the ground station has     *)
(* finished, both derived the same keys from the same transcript, and use  *)
(* the same algorithm.                                                     *)
THEOREM EndsAgree == LinkSpec => []Agreement
<1>1. AgreeInv => Agreement
  BY DEF AgreeInv, ActiveAgrees, Agreement
<1> QED
  BY AgreeInit, AgreeStep, <1>1, PTL DEF LinkSpec

----------------------------------------------------------------------------
(* OK comes from a controller that has accepted the FINISH, and it leaves  *)
(* the session only for a HELLO: the ground station that was told OK is    *)
(* not alone in it.                                                        *)
NoOk(msgs) == \A n \in msgs : n.type = "STATUS" => n.code # "OK"

OksAreTrue == \A m \in f2g : m.type = "STATUS" /\ m.code = "OK" => Established(m.sid)

(* What is established stays so.                                           *)
LEMMA EstablishedStays ==
  ASSUME AgreeInv, LinkNext
  PROVE  \A s : Established(s) => Established(s)'
<1>1. CASE FcReceive
  <2>1. PICK m \in g2f :
          /\ FcHandles(m) /\ (m.type = "CT_ACK" => m.kind \in Kind)
          /\ left' = IF state = "ACTIVE" /\ m.type = "HELLO" THEN left \cup {sid} ELSE left
    BY <1>1 DEF FcReceive, AgreeInv, ToFcHonest
  <2>2. ASSUME state = "ACTIVE", m.type # "HELLO" PROVE state' = "ACTIVE" /\ sid' = sid
    <3>1. ASSUME NEW s, NEW i, PkChunk(s, i) PROVE state' = "ACTIVE" /\ sid' = sid
      BY <2>2, <3>1 DEF PkChunk, PkChunkRefused, PkChunkStored, PkChunkComplete, AgreeInv,
                  ActiveAgrees
    <3>2. ASSUME NEW s, NEW k \in Kind, NEW got, CtAckIgnored(s, k) \/ CtAck(s, k, got)
          PROVE  state' = "ACTIVE" /\ sid' = sid
      BY <2>2, <3>2 DEF CtAckIgnored, CtAck, Live, AgreeInv, ActiveAgrees
    <3>3. ASSUME NEW s, NEW tag, Finish(s, tag) PROVE state' = "ACTIVE" /\ sid' = sid
      BY <2>2, <3>3 DEF Finish, FinishRefused, FinishRejected, FinishAccepted
    <3> QED BY <2>1, <2>2, <3>1, <3>2, <3>3 DEF FcHandles
  <2> QED BY <2>1, <2>2 DEF Established
<1>2. CASE FcTick
  BY <1>2 DEF FcTick, Ticks, TickExpire, TickGiveUp, Tick, Handshaking, Established
<1>3. CASE GcsReceive \/ GcsStart \/ GcsFinish \/ Lose
  BY <1>3 DEF GcsReceive, GcsStart, GcsFinish, Lose, FcIdle, GcsSends, Established
<1> QED BY <1>1, <1>2, <1>3 DEF LinkNext

(* Only the FINISH that is accepted is answered OK.                        *)
LEMMA HelloSaysNoOk ==
  ASSUME NEW s, NEW a, Hello(s, a)
  PROVE  NoOk(out')
<1>1. NoOk(FirstBurst(s, Sta, encs'))
  BY DEF FirstBurst, CtChunk, NoOk
<1>2. CASE HelloAccept(s, a)
  BY <1>1, <1>2 DEF HelloAccept, HelloAck, NoOk
<1>3. CASE HelloRefuse(s, a)
  <2>1. out' = {HelloAck(s, FALSE, a)} \/ out' = {Status(s, "INTERNAL")}
    BY <1>3 DEF HelloRefuse
  <2>2. HelloAck(s, FALSE, a).type = "HELLO_ACK" /\ Status(s, "INTERNAL").code = "INTERNAL"
    BY DEF HelloAck, Status
  <2> QED BY <2>1, <2>2 DEF NoOk
<1> QED BY <1>2, <1>3 DEF Hello

LEMMA AckSaysNoOk ==
  ASSUME NEW s, NEW k, NEW got, CtAckIgnored(s, k) \/ CtAck(s, k, got)
  PROVE  NoOk(out')
BY DEF CtAckIgnored, CtAck, CtChunk, NoOk

LEMMA FinishSaysOk ==
  ASSUME NEW s, NEW tag, Finish(s, tag)
  PROVE  \A n \in out' : n.type = "STATUS" /\ n.code = "OK" => state' = "ACTIVE" /\ sid' = n.sid
<1>1. CASE FinishRefused(s)
  BY <1>1 DEF FinishRefused, Status
<1>2. CASE FinishRejected(s, tag)
  BY <1>2 DEF FinishRejected, AbortSession, Status
<1>3. CASE FinishAccepted(s, tag)
  BY <1>3 DEF FinishAccepted, Status
<1> QED BY <1>1, <1>2, <1>3 DEF Finish

LEMMA TicksSayNoOk ==
  ASSUME Ticks
  PROVE  NoOk(out')
<1>1. CASE TickExpire \/ \E due \in SUBSET Kind : TickGiveUp(due)
  BY <1>1 DEF TickExpire, TickGiveUp, AbortSession, AbortMsg, NoOk
<1>2. ASSUME NEW due, NEW nudge, Tick(due, nudge) PROVE NoOk(out')
  <2> DEFINE pumped == [k \in Kind |->
                          IF k = Eph THEN Pumped(Eph, Eph \in due) ELSE Pumped(Sta, StaDue(due))]
             more(k) == pumped[k] \cup (IF nudge THEN Nudged(k) ELSE {})
  <2>1. out' = UNION {{CtChunk(sid, k, i, ct[k]) : i \in more(k)} : k \in Kind}
    BY <1>2 DEF Tick
  <2> HIDE DEF more
  <2>2. \A n \in out' : \E k \in Kind : \E i : n = CtChunk(sid, k, i, ct[k])
    BY <2>1
  <2> QED
    BY <2>2 DEF CtChunk, NoOk
<1> QED
  BY <1>1, <1>2 DEF Ticks

LEMMA OkSaidByActive ==
  ASSUME FcReceive \/ FcTick
  PROVE  \A n \in f2g' : n \notin f2g /\ n.type = "STATUS" /\ n.code = "OK"
                           => Established(n.sid)'
<1>1. f2g' = f2g \cup Heeded(out')
  BY DEF FcReceive, FcTick, FcSends
<1>2. Heeded(out') \subseteq out'
  BY DEF Heeded
<1>3. CASE FcTick
  BY <1>1, <1>2, <1>3, TicksSayNoOk DEF FcTick, NoOk
<1>4. CASE FcReceive
  <2>1. PICK m \in g2f : FcHandles(m)
    BY <1>4 DEF FcReceive
  <2>2. CASE m.type = "HELLO" /\ Hello(m.sid, m.aead)
    BY <1>1, <1>2, <2>2, HelloSaysNoOk DEF NoOk
  <2>3. CASE m.type = "PK_CHUNK" /\ PkChunk(m.sid, m.idx)
    <3>1. NoOk(out')
      BY <2>3 DEF PkChunk, PkChunkRefused, PkChunkStored, PkChunkComplete, EncapsulateOk,
                  EncapsulateFail, PkAck, Status, FirstBurst, CtChunk, NoOk
    <3> QED BY <1>1, <1>2, <3>1 DEF NoOk
  <2>4. CASE m.type = "CT_ACK" /\ (CtAckIgnored(m.sid, m.kind) \/ CtAck(m.sid, m.kind, m.got))
    BY <1>1, <1>2, <2>4, AckSaysNoOk DEF NoOk
  <2>5. CASE m.type = "FINISH" /\ Finish(m.sid, m.tag)
    BY <1>1, <1>2, <2>5, FinishSaysOk DEF Established
  <2> QED BY <2>1, <2>2, <2>3, <2>4, <2>5 DEF FcHandles
<1> QED BY <1>3, <1>4

LEMMA StationTold ==
  ASSUME AgreeInv, OksAreTrue, DoneTogether, [LinkNext]_allVars
  PROVE  OksAreTrue' /\ DoneTogether'
<1>1. CASE FcReceive \/ FcTick
  <2>1. gcs' = gcs /\ gsid' = gsid
    BY <1>1 DEF FcReceive, FcTick, FcSends, gcsVars
  <2>2. \A s : Established(s) => Established(s)'
    BY <1>1, EstablishedStays DEF LinkNext
  <2> QED
    BY <1>1, <2>1, <2>2, OkSaidByActive DEF OksAreTrue, DoneTogether
<1>2. CASE GcsReceive \/ GcsStart \/ GcsFinish \/ Lose
  <2>1. f2g' \subseteq f2g
    BY <1>2 DEF GcsReceive, GcsStart, GcsFinish, Lose, Take
  <2>2. \A s : Established(s) => Established(s)'
    BY <1>2, EstablishedStays DEF LinkNext
  <2>3. ASSUME gcs' = "done" PROVE Established(gsid')
    <3>1. CASE GcsReceive
      <4>1. PICK m \in f2g : \/ GHelloAck(m) \/ GCtChunk(m) \/ GAbort(m)
                             \/ m.type = "STATUS" /\ GStatus(m)
        BY <3>1 DEF GcsReceive
      <4>2. gsid' = gsid
        BY <4>1 DEF GHelloAck, GCtChunk, GAbort, GStatus
      <4>3. gcs = "done" \/ (m.type = "STATUS" /\ m.code = "OK" /\ m.sid = gsid)
        BY <2>3, <4>1 DEF GHelloAck, GCtChunk, GAbort, GStatus
      <4> QED BY <4>2, <4>3 DEF OksAreTrue, DoneTogether
    <3>2. CASE GcsStart \/ GcsFinish
      BY <2>3, <3>2 DEF GcsStart, GcsFinish, GHello, GFinish
    <3>3. CASE Lose
      BY <2>3, <3>3 DEF Lose, gcsVars, DoneTogether
    <3> QED BY <1>2, <3>1, <3>2, <3>3
  <2> QED
    BY <2>1, <2>2, <2>3 DEF OksAreTrue, DoneTogether
<1>3. CASE UNCHANGED allVars
  BY <1>3 DEF allVars, vars, linkVars, gcsVars, OksAreTrue, DoneTogether, Established
<1> QED BY <1>1, <1>2, <1>3 DEF LinkNext

(* The ground station that is done in a session was told so by a           *)
(* controller that is still ACTIVE in it, or was until a HELLO.            *)
THEOREM EndsAreDoneTogether == LinkSpec => []DoneTogether
<1>1. LinkInit => OksAreTrue /\ DoneTogether
  BY DEF LinkInit, GcsInit, OksAreTrue, DoneTogether
<1>2. AgreeInv /\ OksAreTrue /\ DoneTogether /\ [LinkNext]_allVars
        => OksAreTrue' /\ DoneTogether'
  BY StationTold
<1> QED
  BY AgreeInit, AgreeStep, <1>1, <1>2, PTL DEF LinkSpec


----------------------------------------------------------------------------
(* Without Duplicates nothing honest is rejected.  A session that can still *)
(* be finished, or has failed half-way:                                    *)
Open == state \notin {"IDLE", "ACTIVE"} /\ sid # NoSid

(* It is the one the ground station is in; any other session holds nothing *)
(* a late message could be for.                                            *)
OpenIsOurs ==
    /\ Open => sid = gsid /\ gcs \notin {"idle", "failed"}
    /\ sid = NoSid => state \in {"IDLE", "FAIL"}
    /\ ~Open => ~pke /\ \A k \in Kind : ct[k] = NoBuf

(* Until its HELLO arrives, a session is unknown to the controller.        *)
HelloFirst ==
    \A m \in g2f : m.type = "HELLO" =>
        /\ m = HelloMsg(gsid, Offer) /\ gsid # NoSid /\ sid # gsid /\ gcs = "hello"
        /\ \A n \in f2g : n.sid # gsid
        /\ \A k \in Kind : \A i \in Chunks : grx[k][i] = NoBuf

(* It is answered once, and no fragment is sent before the answer arrives. *)
HelloAckOnce ==
    \A m \in f2g : m.type = "HELLO_ACK" /\ m.sid = gsid =>
        /\ \A n \in f2g : n.type = "HELLO_ACK" /\ n.sid = gsid => n = m
        /\ \A n \in g2f : n.type = "PK_CHUNK" => n.sid # gsid
        /\ Open => m.ok /\ m.aead = aead /\ pkeAcked = {}

(* A fragment on its way has not arrived yet.                              *)
PkChunkOnce ==
    \A m \in g2f : m.type = "PK_CHUNK" /\ m.sid = gsid =>
        /\ gcs \notin {"idle", "hello"}
        /\ m.idx \in Frags /\ m = PkChunkMsg(gsid, m.idx)
        /\ Open => m.idx \notin pkeAcked

(* The transcript is what the ground station expects, as far as it goes,   *)
(* and tells of the secrets at hand.                                       *)
TranscriptAsSent ==
    Open =>
      /\ ctLen[Sta] /\ ct[Sta] = ss[Sta]
      /\ \/ /\ ~ctLen[Eph] /\ ss[Eph] = NoBuf /\ state # "WAIT_CF"
            /\ \/ state = "FAIL" /\ pkeAcked = Frags
               \/ /\ state # "FAIL" /\ pkeAcked # Frags
                  /\ th = <<Rec("HELLO", sid), Rec("CT_S", ss[Sta]), Rec("HELLO_ACK", aead)>>
         \/ /\ ctLen[Eph] /\ pkeAcked = Frags /\ ct[Eph] = ss[Eph] /\ state # "FAIL"
            /\ th = <<Rec("HELLO", sid), Rec("CT_S", ss[Sta]), Rec("HELLO_ACK", aead),
                      Rec("PK", sid), Rec("CT_E", ss[Eph])>>

(* Every chunk, on its way or received, is of the ciphertext made for the  *)
(* secret at hand: none is made twice.                                     *)
CiphertextsAsSent ==
    /\ \A m \in f2g : m.type = "CT_CHUNK" /\ m.sid = gsid =>
          m.ct # NoBuf /\ (Open => m.ct = ss[m.kind])
    /\ Open => \A k \in Kind : \A i \in Chunks : grx[k][i] \in {NoBuf, ss[k]}

AbortedIsClosed ==
    \A m \in f2g : m.sid \in Nat /\ m.sid <= gsid /\ (m.type = "ABORT" /\ m.sid = gsid => ~Open)

AeadChosen == Open /\ gcs # "hello" => gaead = aead

HonestInv ==
    /\ ss = [k \in Kind |-> ss[k]] /\ ctLen = [k \in Kind |-> ctLen[k]]
    /\ OpenIsOurs /\ HelloFirst /\ HelloAckOnce /\ PkChunkOnce
    /\ TranscriptAsSent /\ CiphertextsAsSent /\ AbortedIsClosed /\ AeadChosen
    /\ NotRejected

LEMMA HonestInit == LinkInit => HonestInv
BY DEF LinkInit, Init, GcsInit, HonestInv, OpenIsOurs, HelloFirst, HelloAckOnce, PkChunkOnce,
       TranscriptAsSent, CiphertextsAsSent, AbortedIsClosed, AeadChosen, NotRejected, Open,
       NoSid, Kind

(* Steps of the controller after HELLO: an open session stays what it is,  *)
(* or is closed, and n is what the step may send.                          *)
LaterMessage(n) ==
    /\ n.sid = sid
    /\ n.type \in {"PK_ACK", "CT_CHUNK", "STATUS", "ABORT"}
    /\ n.type = "CT_CHUNK" => n.ct # NoBuf /\ (Open' => n.ct = ss'[n.kind])
    /\ n.type = "ABORT" => ~Open'
    /\ n.type = "STATUS" => n.code # "REJECTED"

SessionGoesOn ==
    Open' => /\ Open /\ sid' = sid /\ aead' = aead
             /\ \A k \in Kind : ss'[k] = ss[k] \/ ss[k] = NoBuf
             /\ \/ pkeAcked' = pkeAcked
                \/ \E n \in g2f : n.type = "PK_CHUNK" /\ n.sid = gsid

LEMMA LaterIsHonest ==
  ASSUME AgreeInv, HonestInv, UNCHANGED gcsVars, g2f' \subseteq g2f,
         f2g' = f2g \cup Heeded(out'), \A n \in out' : LaterMessage(n),
         sid' \in {sid, NoSid}, SessionGoesOn,
         ss' = [k \in Kind |-> ss'[k]], ctLen' = [k \in Kind |-> ctLen'[k]],
         OpenIsOurs', TranscriptAsSent',
         Open' => \A m \in g2f' : m.type = "PK_CHUNK" /\ m.sid = gsid => m.idx \notin pkeAcked'
  PROVE  HonestInv'
<1>1. gcs' = gcs /\ gsid' = gsid /\ gaead' = gaead /\ grx' = grx
  BY DEF gcsVars
<1>2. \A n \in f2g' : n \in f2g \/ LaterMessage(n)
  BY DEF Heeded
<1>3. sid \in Nat /\ gsid \in Nat /\ sid <= gsid
  BY DEF AgreeInv
<1>4. HelloFirst'
  <2>1. SUFFICES ASSUME NEW m \in g2f', m.type = "HELLO"
                 PROVE  /\ m = HelloMsg(gsid, Offer) /\ gsid # NoSid /\ sid' # gsid /\ gcs = "hello"
                        /\ \A n \in f2g' : n.sid # gsid
                        /\ \A k \in Kind : \A i \in Chunks : grx[k][i] = NoBuf
    BY <1>1 DEF HelloFirst, NoSid
  <2>2. /\ m = HelloMsg(gsid, Offer) /\ gsid # NoSid /\ sid # gsid /\ gcs = "hello"
        /\ \A n \in f2g : n.sid # gsid
        /\ \A k \in Kind : \A i \in Chunks : grx[k][i] = NoBuf
    BY <2>1 DEF HonestInv, HelloFirst
  <2> QED BY <1>2, <2>2 DEF LaterMessage
<1>5. HelloAckOnce'
  <2>1. SUFFICES ASSUME NEW m \in f2g', m.type = "HELLO_ACK", m.sid = gsid
                 PROVE  /\ \A n \in f2g' : n.type = "HELLO_ACK" /\ n.sid = gsid => n = m
                        /\ \A n \in g2f' : n.type = "PK_CHUNK" => n.sid # gsid
                        /\ Open' => m.ok /\ m.aead = aead' /\ pkeAcked' = {}
    BY <1>1 DEF HelloAckOnce
  <2>2. m \in f2g /\ \A n \in f2g' : n.type = "HELLO_ACK" => n \in f2g
    BY <1>2, <2>1 DEF LaterMessage
  <2>3. /\ \A n \in f2g : n.type = "HELLO_ACK" /\ n.sid = gsid => n = m
        /\ \A n \in g2f : n.type = "PK_CHUNK" => n.sid # gsid
        /\ Open => m.ok /\ m.aead = aead /\ pkeAcked = {}
    BY <2>1, <2>2 DEF HonestInv, HelloAckOnce
  <2> QED BY <2>2, <2>3 DEF SessionGoesOn
<1>6. PkChunkOnce'
  BY <1>1 DEF HonestInv, PkChunkOnce
<1>7. CiphertextsAsSent'
  <2>1. ASSUME NEW m \in f2g', m.type = "CT_CHUNK", m.sid = gsid
        PROVE  m.ct # NoBuf /\ (Open' => m.ct = ss'[m.kind])
    <3>1. CASE m \in f2g
      <4>1. m.ct # NoBuf /\ (Open => m.ct = ss[m.kind]) /\ m.kind \in Kind
        BY <2>1, <3>1 DEF HonestInv, CiphertextsAsSent, AgreeInv, ToGcsHonest, ChunksOfKinds
      <4> QED BY <4>1 DEF SessionGoesOn
    <3>2. CASE LaterMessage(m)
      BY <2>1, <3>2 DEF LaterMessage
    <3> QED BY <1>2, <3>1, <3>2
  <2>2. Open' => \A k \in Kind : \A i \in Chunks : grx[k][i] \in {NoBuf, ss'[k]}
    BY DEF SessionGoesOn, HonestInv, CiphertextsAsSent
  <2> QED BY <1>1, <2>1, <2>2 DEF CiphertextsAsSent, NoBuf
<1>8. AbortedIsClosed'
  <2>1. ASSUME NEW m \in f2g'
        PROVE  m.sid \in Nat /\ m.sid <= gsid /\ (m.type = "ABORT" /\ m.sid = gsid => ~Open')
    <3>1. CASE m \in f2g
      BY <3>1 DEF HonestInv, AbortedIsClosed, SessionGoesOn
    <3>2. CASE LaterMessage(m)
      BY <1>3, <3>2 DEF LaterMessage
    <3> QED BY <1>2, <3>1, <3>2
  <2> QED BY <1>1, <2>1 DEF AbortedIsClosed
<1>9. AeadChosen'
  BY <1>1 DEF HonestInv, AeadChosen, SessionGoesOn
<1>10. NotRejected'
  BY <1>2 DEF HonestInv, NotRejected, LaterMessage
<1> QED
  BY <1>4, <1>5, <1>6, <1>7, <1>8, <1>9, <1>10 DEF HonestInv

(* The handlers and the timers, one by one.  What each needs of the rest:  *)
LaterStep ==
    /\ AgreeInv /\ HonestInv
    /\ UNCHANGED gcsVars /\ g2f' \subseteq g2f /\ f2g' = f2g \cup Heeded(out')

(* A step that changes no more than what has been sent and acknowledged.   *)
LEMMA SendsIsHonest ==
  ASSUME LaterStep, \A n \in out' : LaterMessage(n),
         UNCHANGED <<state, sid, aead, th, pke, pkeAcked, ct, ctLen, ss>>
  PROVE  HonestInv'
<1>1. /\ OpenIsOurs /\ TranscriptAsSent /\ PkChunkOnce /\ UNCHANGED <<gcs, gsid>>
      /\ ss = [k \in Kind |-> ss[k]] /\ ctLen = [k \in Kind |-> ctLen[k]]
  BY DEF LaterStep, HonestInv, gcsVars
<1>2. Open' = Open
  BY DEF Open
<1>3. OpenIsOurs' /\ TranscriptAsSent'
  BY <1>1, <1>2 DEF OpenIsOurs, TranscriptAsSent
<1>4. SessionGoesOn
  BY <1>2 DEF SessionGoesOn
<1>5. Open' => \A m \in g2f' : m.type = "PK_CHUNK" /\ m.sid = gsid => m.idx \notin pkeAcked'
  BY <1>1, <1>2 DEF LaterStep, PkChunkOnce
<1> QED
  BY <1>1, <1>3, <1>4, <1>5, LaterIsHonest DEF LaterStep

(* The session is closed.                                                  *)
LEMMA AbortIsHonest ==
  ASSUME LaterStep, NEW msgs, AbortSession(msgs), \A n \in msgs : LaterMessage(n)
  PROVE  HonestInv'
<1>1. /\ sid' = NoSid /\ state' = "FAIL" /\ pke' = FALSE /\ out' = msgs
      /\ ct' = [k \in Kind |-> NoBuf]
      /\ ss' = [k \in Kind |-> NoBuf] /\ ctLen' = [k \in Kind |-> FALSE]
  BY DEF AbortSession, Reset
<1>2. ~Open'
  BY <1>1 DEF Open
<1>3. OpenIsOurs' /\ TranscriptAsSent' /\ SessionGoesOn
  BY <1>1, <1>2 DEF OpenIsOurs, TranscriptAsSent, SessionGoesOn
<1>4. ss' = [k \in Kind |-> ss'[k]] /\ ctLen' = [k \in Kind |-> ctLen'[k]]
  BY <1>1
<1> QED
  BY <1>1, <1>2, <1>3, <1>4, LaterIsHonest DEF LaterStep

LEMMA ThreeAndTwo ==
  ASSUME NEW a, NEW b, NEW c, NEW d, NEW e
  PROVE  <<a, b, c>> \o <<d, e>> = <<a, b, c, d, e>>
<1> DEFINE S == {a, b, c, d, e}  u == <<a, b, c>> v == <<d, e>>
<1>1. u \in Seq(S) /\ v \in Seq(S) /\ Len(u) = 3 /\ Len(v) = 2
  OBVIOUS
<1>2. u \o v \in Seq(S) /\ Len(u \o v) = 5
  BY <1>1
<1>3. /\ (u \o v)[1] = a /\ (u \o v)[2] = b /\ (u \o v)[3] = c
      /\ (u \o v)[4] = d /\ (u \o v)[5] = e
  BY <1>1
<1> HIDE DEF u, v
<1> DEFINE w == u \o v
<1>4. w \in Seq(S) /\ Len(w) = 5 /\ w[1] = a /\ w[2] = b /\ w[3] = c /\ w[4] = d /\ w[5] = e
  BY <1>2, <1>3
<1> HIDE DEF w
<1>5. w = <<a, b, c, d, e>>
  BY <1>4
<1> QED
  BY <1>5 DEF w, u, v

(* The function of the two ciphertexts with the ephemeral one's value set. *)
LEMMA PutInEph ==
  ASSUME NEW f, f = [k \in Kind |-> f[k]], NEW c
  PROVE  [f EXCEPT ![Eph] = c] = [k \in Kind |-> IF k = Eph THEN c ELSE f[k]]
BY DEF Kind, Eph, Sta

(* A fragment, or one that came after the session was closed.              *)
LEMMA PkChunkIsHonest ==
  ASSUME LaterStep, NEW m \in g2f, m.type = "PK_CHUNK", m \notin g2f', PkChunk(m.sid, m.idx)
  PROVE  HonestInv'
<1>0. OpenIsOurs /\ TranscriptAsSent /\ PkChunkOnce /\ encs \in Nat /\ UNCHANGED <<gcs, gsid>>
  BY DEF LaterStep, HonestInv, AgreeInv, gcsVars
<1>1. CASE PkChunkRefused(m.sid)
  <2>1. \A n \in out' : LaterMessage(n)
    BY <1>1 DEF PkChunkRefused, LaterMessage, Status
  <2> QED BY <1>1, <2>1, SendsIsHonest DEF PkChunkRefused, streamVars
<1> SUFFICES ASSUME m.sid = sid, pke PROVE HonestInv'
  BY <1>1 DEF PkChunk, PkChunkStored, PkChunkComplete
<1>2. /\ Open /\ sid = gsid /\ gcs \notin {"idle", "failed"} /\ sid # NoSid
      /\ m.idx \in Frags /\ m.idx \notin pkeAcked /\ m = PkChunkMsg(gsid, m.idx)
  BY <1>0 DEF OpenIsOurs, PkChunkOnce, Open
<1>3. \A n \in g2f' : n.type = "PK_CHUNK" /\ n.sid = gsid =>
         /\ n.idx \in Frags /\ n.idx \notin pkeAcked /\ n.idx # m.idx
  BY <1>0, <1>2 DEF PkChunkOnce, LaterStep
<1>4. /\ ctLen[Sta] /\ ct[Sta] = ss[Sta] /\ ~ctLen[Eph] /\ ss[Eph] = NoBuf /\ state # "WAIT_CF"
      /\ pkeAcked # Frags /\ state # "FAIL" 
      /\ th = <<Rec("HELLO", sid), Rec("CT_S", ss[Sta]), Rec("HELLO_ACK", aead)>>
  BY <1>0, <1>2 DEF TranscriptAsSent, Open
<1>5. \A n : n.type = "PK_ACK" /\ n.sid = sid => LaterMessage(n)
  BY DEF LaterMessage
<1>6. ss = [k \in Kind |-> ss[k]] /\ ctLen = [k \in Kind |-> ctLen[k]]
      /\ ct = [k \in Kind |-> ct[k]]
  BY DEF LaterStep, HonestInv, AgreeInv
<1>7. CASE PkChunkStored(m.sid, m.idx)
  <2>1. /\ UNCHANGED <<state, sid, aead, th, pke, ct, ctLen, ss>>
        /\ pkeAcked' = pkeAcked \cup {m.idx} /\ pkeAcked' # Frags
        /\ out' = {PkAck(sid, pkeAcked')}
    BY <1>7 DEF PkChunkStored, streamVars
  <2>2. Open' /\ OpenIsOurs' /\ TranscriptAsSent'
    BY <1>0, <1>2, <1>4, <2>1 DEF Open, OpenIsOurs, TranscriptAsSent
  <2>3. \A n \in out' : LaterMessage(n)
    BY <1>5, <2>1 DEF PkAck
  <2>4. SessionGoesOn
    BY <1>2, <2>1 DEF SessionGoesOn
  <2>5. \A n \in g2f' : n.type = "PK_CHUNK" /\ n.sid = gsid => n.idx \notin pkeAcked'
    BY <1>3, <2>1
  <2> QED BY <1>6, <2>1, <2>2, <2>3, <2>4, <2>5, LaterIsHonest DEF LaterStep
<1>8. CASE PkChunkComplete(m.sid, m.idx)
  <2>1. /\ UNCHANGED <<sid, aead, pke>> /\ encs' = encs + 1 /\ pkeAcked' = Frags
        /\ pkeAcked \cup {m.idx} = Frags
    BY <1>8 DEF PkChunkComplete
  <2>2. \A n \in g2f' : n.type = "PK_CHUNK" /\ n.sid = gsid => n.idx \notin pkeAcked'
    BY <1>3, <2>1
  <2>3. CASE EncapsulateOk
    <3>1. /\ state' = "CT_TX" /\ th' = th \o <<Rec("PK", sid), Rec("CT_E", encs')>>
          /\ ct' = [ct EXCEPT ![Eph] = encs'] /\ ctLen' = [ctLen EXCEPT ![Eph] = TRUE]
          /\ ss' = [ss EXCEPT ![Eph] = encs']
          /\ out' = {PkAck(sid, pkeAcked')} \cup FirstBurst(sid, Eph, encs')
      BY <2>3 DEF EncapsulateOk, ThAddPkAndCt
    <3>2. /\ ss'[Eph] = encs' /\ ct'[Eph] = encs' /\ ctLen'[Eph]
          /\ ss'[Sta] = ss[Sta] /\ ct'[Sta] = ct[Sta] /\ ctLen'[Sta] = ctLen[Sta]
          /\ ss' = [k \in Kind |-> ss'[k]] /\ ctLen' = [k \in Kind |-> ctLen'[k]]
      <4>1. /\ ct' = [k \in Kind |-> IF k = Eph THEN encs' ELSE ct[k]]
            /\ ctLen' = [k \in Kind |-> IF k = Eph THEN TRUE ELSE ctLen[k]]
            /\ ss' = [k \in Kind |-> IF k = Eph THEN encs' ELSE ss[k]]
        BY <1>6, <3>1, PutInEph
      <4> QED BY <4>1 DEF Kind, Eph, Sta
    <3>3. th' = <<Rec("HELLO", sid), Rec("CT_S", ss[Sta]), Rec("HELLO_ACK", aead),
                  Rec("PK", sid), Rec("CT_E", encs')>>
      BY <1>4, <3>1, ThreeAndTwo
    <3>4. Open' /\ OpenIsOurs' /\ TranscriptAsSent'
      BY <1>0, <1>2, <1>4, <2>1, <3>1, <3>2, <3>3 DEF Open, OpenIsOurs, TranscriptAsSent
    <3>5. SessionGoesOn
      BY <1>2, <1>4, <2>1, <3>2 DEF SessionGoesOn, Kind
    <3>6. encs' # NoBuf
      BY <1>0, <2>1 DEF NoBuf
    <3>7. \A n \in FirstBurst(sid, Eph, encs') : LaterMessage(n)
      BY <3>2, <3>6 DEF FirstBurst, CtChunk, LaterMessage
    <3>8. \A n \in out' : LaterMessage(n)
      BY <1>5, <3>1, <3>7 DEF PkAck
    <3> QED BY <2>1, <2>2, <3>2, <3>4, <3>5, <3>8, LaterIsHonest DEF LaterStep
  <2>4. CASE EncapsulateFail
    <3>1. /\ state' = "FAIL" /\ UNCHANGED <<ctLen, ss>> /\ out' = {PkAck(sid, pkeAcked')}
          /\ ct'[Sta] = ct[Sta]
      BY <1>6, <2>4 DEF EncapsulateFail, Kind, Eph, Sta
    <3>2. Open' /\ OpenIsOurs' /\ TranscriptAsSent'
      BY <1>0, <1>2, <1>4, <2>1, <3>1 DEF Open, OpenIsOurs, TranscriptAsSent
    <3>3. SessionGoesOn
      BY <1>2, <1>4, <2>1, <3>1 DEF SessionGoesOn
    <3>4. \A n \in out' : LaterMessage(n)
      BY <1>5, <3>1 DEF PkAck
    <3> QED BY <1>6, <2>1, <2>2, <3>1, <3>2, <3>3, <3>4, LaterIsHonest DEF LaterStep
  <2> QED BY <1>8, <2>3, <2>4 DEF PkChunkComplete
<1> QED
  BY <1>1, <1>7, <1>8 DEF PkChunk

(* A buffer that is sent from holds a ciphertext of the session.           *)
LEMMA LiveIsAsSent ==
  ASSUME HonestInv, NEW k \in Kind, Live(k)
  PROVE  Open /\ ct[k] = ss[k] /\ ct[k] # NoBuf
<1>1. OpenIsOurs /\ TranscriptAsSent
  BY DEF HonestInv
<1>2. Open /\ ct[k] # NoBuf /\ ctLen[k]
  BY <1>1 DEF Live, OpenIsOurs
<1> QED BY <1>1, <1>2 DEF TranscriptAsSent, Kind

LEMMA CtAckIsHonest ==
  ASSUME LaterStep, NEW s, NEW k \in Kind, NEW got, CtAckIgnored(s, k) \/ CtAck(s, k, got)
  PROVE  HonestInv'
<1>1. CASE CtAckIgnored(s, k)
  BY <1>1, SendsIsHonest DEF CtAckIgnored, streamVars
<1>2. CASE CtAck(s, k, got)
  <2>1. /\ Live(k) /\ UNCHANGED <<sid, aead, th, pke, pkeAcked, ct, ctLen, ss>>
        /\ \A n \in out' : \E i : n = CtChunk(sid, k, i, ct[k])
        /\ state' = state \/ (state' = "WAIT_CF" /\ BothAcked')
    BY <1>2 DEF CtAck, envVars
  <2>2. Open /\ ct[k] = ss[k] /\ ct[k] # NoBuf
    BY <2>1, LiveIsAsSent DEF LaterStep
  <2>3. OpenIsOurs /\ TranscriptAsSent /\ PkChunkOnce /\ UNCHANGED <<gcs, gsid>>
        /\ ss = [j \in Kind |-> ss[j]] /\ ctLen = [j \in Kind |-> ctLen[j]]
    BY DEF LaterStep, HonestInv, gcsVars
  <2>4. Open' /\ OpenIsOurs' /\ SessionGoesOn
    BY <2>1, <2>2, <2>3 DEF Open, OpenIsOurs, SessionGoesOn
  <2>5. TranscriptAsSent'
    <3>1. CASE state' = state
      BY <2>1, <2>2, <2>3, <3>1 DEF TranscriptAsSent
    <3>2. CASE state' = "WAIT_CF" /\ BothAcked'
      <4>1. ctLen[Eph]
        BY <2>1, <3>2 DEF BothAcked, AllAcked
      <4> QED BY <2>1, <2>2, <2>3, <3>2, <4>1 DEF TranscriptAsSent
    <3> QED BY <2>1, <3>1, <3>2
  <2>6. \A n \in out' : LaterMessage(n)
    BY <2>1, <2>2 DEF CtChunk, LaterMessage
  <2>7. Open' => \A n \in g2f' : n.type = "PK_CHUNK" /\ n.sid = gsid => n.idx \notin pkeAcked'
    BY <2>1, <2>2, <2>3 DEF LaterStep, PkChunkOnce
  <2> QED BY <2>1, <2>3, <2>4, <2>5, <2>6, <2>7, LaterIsHonest DEF LaterStep
<1> QED BY <1>1, <1>2

(* The ground station put the secrets together from the chunks, and hashed *)
(* what the controller hashed.                                             *)
LEMMA TagFits ==
  ASSUME AgreeInv, HonestInv, state = "WAIT_CF", sid = gsid, Committed
  PROVE  OwnTag = FinishTag(ss[Eph], ss[Sta], th)
<1>1. OpenIsOurs /\ TranscriptAsSent /\ CiphertextsAsSent /\ AeadChosen
  BY DEF HonestInv
<1>2. Open
  BY <1>1 DEF OpenIsOurs, Open
<1>3. gaead = aead
  BY <1>1, <1>2 DEF AeadChosen, Committed
<1>4. ASSUME NEW k \in Kind PROVE Decapsulated(k) = ss[k]
  <2>1. \A i \in Chunks : grx[k][i] = ss[k]
    BY <1>1, <1>2 DEF CiphertextsAsSent, Committed, AllReceived
  <2>2. 0 \in Chunks
    BY DEF Chunks
  <2> QED BY <2>1, <2>2 DEF Decapsulated
<1>5. th = <<Rec("HELLO", sid), Rec("CT_S", ss[Sta]), Rec("HELLO_ACK", aead),
             Rec("PK", sid), Rec("CT_E", ss[Eph])>>
  BY <1>1, <1>2 DEF TranscriptAsSent
<1>6. Decapsulated(Eph) = ss[Eph] /\ Decapsulated(Sta) = ss[Sta]
  BY <1>4 DEF Kind
<1>7. th = GcsTranscript
  BY <1>3, <1>5, <1>6 DEF GcsTranscript
<1> QED
  BY <1>6, <1>7 DEF OwnTag, GcsKeys

LEMMA FinishIsHonest ==
  ASSUME LaterStep, NEW m \in g2f, m.type = "FINISH", Finish(m.sid, m.tag)
  PROVE  HonestInv'
<1>1. CASE FinishRefused(m.sid)
  <2>1. \A n \in out' : LaterMessage(n)
    BY <1>1 DEF FinishRefused, LaterMessage, Status
  <2> QED BY <1>1, <2>1, SendsIsHonest DEF FinishRefused, streamVars
<1> SUFFICES ASSUME m.sid = sid, state = "WAIT_CF" PROVE HonestInv'
  BY <1>1 DEF Finish, FinishRejected, FinishAccepted
<1>2. OpenIsOurs /\ UNCHANGED <<gcs, gsid>> /\ ss = [k \in Kind |-> ss[k]]
      /\ ctLen = [k \in Kind |-> ctLen[k]]
  BY DEF LaterStep, HonestInv, gcsVars
<1>3. sid = gsid /\ sid # NoSid
  BY <1>2 DEF OpenIsOurs, Open
<1>4. Committed /\ m.tag = OwnTag
  BY <1>3 DEF LaterStep, AgreeInv, ToFcHonest
<1>5. CASE FinishRejected(m.sid, m.tag)
  BY <1>3, <1>4, <1>5, TagFits DEF FinishRejected, TagVerifies, LaterStep
<1>6. CASE FinishAccepted(m.sid, m.tag)
  <2>1. /\ state' = "ACTIVE" /\ pke' = FALSE /\ out' = {Status(sid, "OK")}
        /\ ct' = [k \in Kind |-> NoBuf] /\ UNCHANGED <<sid, aead, pkeAcked, ctLen, ss>>
    BY <1>6 DEF FinishAccepted
  <2>2. ~Open'
    BY <2>1 DEF Open
  <2>3. OpenIsOurs' /\ TranscriptAsSent' /\ SessionGoesOn
    BY <1>3, <2>1, <2>2 DEF OpenIsOurs, TranscriptAsSent, SessionGoesOn
  <2>4. \A n \in out' : LaterMessage(n)
    BY <2>1 DEF Status, LaterMessage
  <2> QED BY <1>2, <2>1, <2>2, <2>3, <2>4, LaterIsHonest DEF LaterStep
<1> QED BY <1>1, <1>5, <1>6 DEF Finish

LEMMA TicksAreHonest ==
  ASSUME LaterStep, Ticks
  PROVE  HonestInv'
<1>1. OpenIsOurs /\ TranscriptAsSent /\ PkChunkOnce /\ UNCHANGED <<gcs, gsid>>
      /\ ss = [k \in Kind |-> ss[k]] /\ ctLen = [k \in Kind |-> ctLen[k]]
  BY DEF LaterStep, HonestInv, gcsVars
<1>2. ASSUME AbortSession({AbortMsg(sid)}) PROVE HonestInv'
  <2>1. ~Open'
    BY <1>2 DEF AbortSession, Reset, Open
  <2>2. LaterMessage(AbortMsg(sid))
    BY <2>1 DEF LaterMessage, AbortMsg
  <2> QED BY <1>2, <2>2, AbortIsHonest
<1>3. ASSUME NEW due \in SUBSET Kind, NEW nudge \in BOOLEAN, Tick(due, nudge)
      PROVE  HonestInv'
  <2> DEFINE pumped == [k \in Kind |->
                          IF k = Eph THEN Pumped(Eph, Eph \in due) ELSE Pumped(Sta, StaDue(due))]
             more(k) == pumped[k] \cup (IF nudge THEN Nudged(k) ELSE {})
  <2>1. /\ UNCHANGED <<sid, aead, th, pke, pkeAcked, ct, ctLen, ss>>
        /\ state \notin {"IDLE", "FAIL", "ACTIVE"}
        /\ state' = state \/ (state' = "WAIT_CF" /\ BothAcked)
        /\ out' = UNION {{CtChunk(sid, k, i, ct[k]) : i \in more(k)} : k \in Kind}
    BY <1>3 DEF Tick, Handshaking, envVars
  <2>2. \A k \in Kind : ~Live(k) => more(k) = {}
    BY DEF Pumped, Nudged, Kind, Eph, Sta
  <2> HIDE DEF more
  <2>3. ASSUME NEW n \in out'
        PROVE  \E k \in Kind : \E i : Live(k) /\ n = CtChunk(sid, k, i, ct[k])
    <3>1. PICK k \in Kind : n \in {CtChunk(sid, k, i, ct[k]) : i \in more(k)}
      BY <2>1
    <3>2. PICK i \in more(k) : n = CtChunk(sid, k, i, ct[k])
      BY <3>1
    <3>3. Live(k)
      BY <2>2
    <3> QED BY <3>2, <3>3
  <2>4. \A n \in out' : LaterMessage(n)
    <3>1. SUFFICES ASSUME NEW k \in Kind, NEW i, Live(k)
                   PROVE  LaterMessage(CtChunk(sid, k, i, ct[k]))
      BY <2>3
    <3>2. ct[k] = ss[k] /\ ct[k] # NoBuf
      BY <3>1, LiveIsAsSent DEF LaterStep
    <3> QED BY <2>1, <3>2 DEF LaterMessage, CtChunk
  <2>5. Open /\ Open' /\ OpenIsOurs' /\ SessionGoesOn
    BY <1>1, <2>1 DEF Open, OpenIsOurs, SessionGoesOn
  <2>6. TranscriptAsSent'
    <3>1. CASE state' = state
      BY <1>1, <2>1, <2>5, <3>1 DEF TranscriptAsSent
    <3>2. CASE state' = "WAIT_CF" /\ BothAcked
      <4>1. ctLen[Eph]
        BY <3>2 DEF BothAcked, AllAcked
      <4> QED BY <1>1, <2>1, <2>5, <3>2, <4>1 DEF TranscriptAsSent
    <3> QED BY <2>1, <3>1, <3>2
  <2>7. \A n \in g2f' : n.type = "PK_CHUNK" /\ n.sid = gsid => n.idx \notin pkeAcked'
    BY <1>1, <2>1, <2>5 DEF LaterStep, PkChunkOnce
  <2> QED BY <1>1, <2>1, <2>4, <2>5, <2>6, <2>7, LaterIsHonest DEF LaterStep
<1> QED
  BY <1>2, <1>3 DEF Ticks, TickExpire, TickGiveUp

(* The HELLO of the ground station's session, which the controller has not *)
(* heard of yet.                                                           *)
LEMMA HelloIsHonest ==
  ASSUME LaterStep, NEW m \in g2f, m.type = "HELLO", m \notin g2f', Hello(m.sid, m.aead)
  PROVE  HonestInv'
<1>1. /\ gcs' = gcs /\ gsid' = gsid /\ gaead' = gaead /\ grx' = grx /\ g2f' \subseteq g2f
      /\ gsid \in Nat /\ encs \in Nat
  BY DEF LaterStep, AgreeInv, gcsVars
<1>2. /\ m = HelloMsg(gsid, Offer) /\ gsid # NoSid /\ gcs = "hello"
      /\ \A n \in f2g : n.sid # gsid
      /\ \A k \in Kind : \A i \in Chunks : grx[k][i] = NoBuf
      /\ \A n \in g2f : n.type = "HELLO" => n = m
      /\ \A n \in g2f : n.type = "PK_CHUNK" => n.sid # gsid
  BY DEF LaterStep, HonestInv, HelloFirst, PkChunkOnce
<1>3. m.sid = gsid /\ m.aead = Offer
  BY <1>2 DEF HelloMsg
<1>4. \A n \in f2g' : (n \in f2g /\ n.sid # gsid) \/ n \in out'
  BY <1>2 DEF LaterStep, Heeded
<1>5. \A n \in g2f' : n.type # "HELLO" /\ (n.type = "PK_CHUNK" => n.sid # gsid)
  BY <1>1, <1>2
<1>6. HelloFirst' /\ PkChunkOnce' /\ AeadChosen'
  BY <1>1, <1>2, <1>5 DEF HelloFirst, PkChunkOnce, AeadChosen
<1>7. CASE HelloAccept(m.sid, m.aead)
  <2>1. /\ state' = "CT_TX" /\ sid' = gsid /\ aead' = Offer /\ pke' /\ pkeAcked' = {}
        /\ th' = <<Rec("HELLO", gsid), Rec("CT_S", encs'), Rec("HELLO_ACK", Offer)>>
        /\ ct' = [k \in Kind |-> IF k = Sta THEN encs' ELSE NoBuf]
        /\ ctLen' = [k \in Kind |-> k = Sta]
        /\ ss' = [k \in Kind |-> IF k = Sta THEN encs' ELSE NoBuf]
        /\ out' = {HelloAck(gsid, TRUE, Offer)} \cup FirstBurst(gsid, Sta, encs')
        /\ encs' = encs + 1
    BY <1>3, <1>7 DEF HelloAccept
  <2>2. /\ ss'[Sta] = encs' /\ ss'[Eph] = NoBuf /\ ct'[Sta] = encs' /\ ctLen'[Sta] /\ ~ctLen'[Eph]
        /\ ss' = [k \in Kind |-> ss'[k]] /\ ctLen' = [k \in Kind |-> ctLen'[k]]
    <3>1. Eph \in Kind /\ Sta \in Kind /\ Eph # Sta
      BY DEF Kind, Eph, Sta
    <3>2. ss'[Sta] = encs' /\ ss'[Eph] = NoBuf /\ ct'[Sta] = encs'
      BY <2>1, <3>1
    <3>3. ctLen'[Sta] /\ ~ctLen'[Eph]
      BY <2>1, <3>1
    <3>4. ss' = [k \in Kind |-> ss'[k]]
      BY <2>1
    <3>5. ctLen' = [k \in Kind |-> ctLen'[k]]
      BY <2>1
    <3> QED BY <3>2, <3>3, <3>4, <3>5
  <2>3. encs' # NoBuf
    BY <1>1, <2>1 DEF NoBuf
  <2>4. Open' /\ OpenIsOurs'
    BY <1>1, <1>2, <2>1 DEF Open, OpenIsOurs
  <2>5. pkeAcked' # Frags
    <3>1. 0 \in Frags
      BY DEF Frags
    <3> QED BY <2>1, <3>1
  <2>6. TranscriptAsSent'
    BY <2>1, <2>2, <2>5 DEF TranscriptAsSent
  <2>7. \A n \in out' :
          \/ n = HelloAck(gsid, TRUE, Offer)
          \/ n.type = "CT_CHUNK" /\ n.sid = gsid /\ n.kind = Sta /\ n.ct = encs'
    <3>1. \A n \in FirstBurst(gsid, Sta, encs') : \E i : n = CtChunk(gsid, Sta, i, encs')
      BY DEF FirstBurst
    <3>2. \A n \in FirstBurst(gsid, Sta, encs') :
            n.type = "CT_CHUNK" /\ n.sid = gsid /\ n.kind = Sta /\ n.ct = encs'
      BY <3>1 DEF CtChunk
    <3> QED BY <2>1, <3>2
  <2>8. HelloAckOnce'
    <3>1. \A n \in f2g' : n.type = "HELLO_ACK" /\ n.sid = gsid => n = HelloAck(gsid, TRUE, Offer)
      BY <1>4, <2>7
    <3>2. HelloAck(gsid, TRUE, Offer).ok /\ HelloAck(gsid, TRUE, Offer).aead = Offer
      BY DEF HelloAck
    <3> QED BY <1>1, <1>5, <2>1, <3>1, <3>2 DEF HelloAckOnce
  <2>9. CiphertextsAsSent'
    BY <1>1, <1>2, <1>4, <2>2, <2>3, <2>7 DEF CiphertextsAsSent, HelloAck
  <2>10. AbortedIsClosed' /\ NotRejected'
    BY <1>1, <1>4, <2>7 DEF LaterStep, HonestInv, AbortedIsClosed, NotRejected, HelloAck
  <2> QED BY <1>6, <2>2, <2>4, <2>6, <2>8, <2>9, <2>10 DEF HonestInv
<1>8. CASE HelloRefuse(m.sid, m.aead)
  <2>1. /\ state' = "IDLE" /\ sid' = gsid /\ ~pke'
        /\ ct' = [k \in Kind |-> NoBuf] /\ ctLen' = [k \in Kind |-> FALSE]
        /\ ss' = [k \in Kind |-> NoBuf]
        /\ out' = {HelloAck(gsid, FALSE, Offer)} \/ out' = {Status(gsid, "INTERNAL")}
    BY <1>3, <1>8 DEF HelloRefuse, Reset
  <2>2. ~Open' /\ OpenIsOurs' /\ TranscriptAsSent'
    BY <1>2, <2>1 DEF Open, OpenIsOurs, TranscriptAsSent
  <2>3. \A n \in out' : n = HelloAck(gsid, FALSE, Offer) \/ n = Status(gsid, "INTERNAL")
    BY <2>1
  <2>4. HelloAckOnce'
    <3>1. \A n \in f2g' : n.type = "HELLO_ACK" /\ n.sid = gsid => n = HelloAck(gsid, FALSE, Offer)
      <4>1. Status(gsid, "INTERNAL").type # "HELLO_ACK"
        BY DEF Status
      <4> QED BY <1>4, <2>3, <4>1
    <3> QED BY <1>1, <1>5, <2>2, <3>1 DEF HelloAckOnce
  <2>5. CiphertextsAsSent' /\ AbortedIsClosed' /\ NotRejected'
    BY <1>1, <1>4, <2>2, <2>3 DEF LaterStep, HonestInv, CiphertextsAsSent, AbortedIsClosed,
                                 NotRejected, HelloAck, Status
  <2>6. ss' = [k \in Kind |-> ss'[k]] /\ ctLen' = [k \in Kind |-> ctLen'[k]]
    BY <2>1
  <2> QED BY <1>6, <2>2, <2>4, <2>5, <2>6 DEF HonestInv
<1> QED BY <1>7, <1>8 DEF Hello

(* Steps of the ground station and the link that neither open a session    *)
(* nor take the answer to a HELLO.                                         *)
LEMMA StationIsHonest ==
  ASSUME HonestInv, FcIdle, gsid' = gsid, gaead' = gaead, f2g' \subseteq f2g,
         \A n \in g2f' : n \in g2f \/ n.type \in {"CT_ACK", "FINISH"},
         Open => \A k \in Kind : \A i \in Chunks : grx'[k][i] \in {grx[k][i], ss[k]},
         (\A n \in g2f : n.type # "HELLO") \/ (gcs' = gcs /\ grx' = grx),
         Open => gcs' \notin {"idle", "failed"} /\ (gcs = "hello" => gcs' = "hello"),
         gcs \notin {"idle", "hello"} => gcs' \notin {"idle", "hello"}
  PROVE  HonestInv'
<1>1. UNCHANGED <<state, sid, aead, th, pke, pkeAcked, ct, ctLen, ss>>
  BY DEF FcIdle, streamVars
<1>2. Open' = Open
  BY <1>1 DEF Open
<1>3. \A n \in g2f' : n.type \in {"HELLO", "PK_CHUNK"} => n \in g2f
  OBVIOUS
<1>4. OpenIsOurs' /\ TranscriptAsSent'
  BY <1>1, <1>2 DEF HonestInv, OpenIsOurs, TranscriptAsSent
<1>5. HelloFirst'
  BY <1>1, <1>3 DEF HonestInv, HelloFirst
<1>6. HelloAckOnce' /\ PkChunkOnce'
  BY <1>1, <1>2, <1>3 DEF HonestInv, HelloAckOnce, PkChunkOnce
<1>7. CiphertextsAsSent'
  BY <1>1, <1>2 DEF HonestInv, CiphertextsAsSent
<1>8. AbortedIsClosed' /\ NotRejected'
  BY <1>2 DEF HonestInv, AbortedIsClosed, NotRejected
<1>9. AeadChosen'
  BY <1>1, <1>2 DEF HonestInv, AeadChosen
<1> QED
  BY <1>1, <1>4, <1>5, <1>6, <1>7, <1>8, <1>9 DEF HonestInv

(* The answer to HELLO, and the fragments sent for it.                     *)
LEMMA HelloAckIsHonest ==
  ASSUME HonestInv, FcIdle, NEW m \in f2g, m.type = "HELLO_ACK", f2g' = f2g \ {m},
         GHelloAck(m), GcsSends(HelloAckReply(m))
  PROVE  HonestInv'
<1>1. UNCHANGED <<state, sid, aead, th, pke, pkeAcked, ct, ctLen, ss, gsid, grx>>
      /\ gcs = "hello" /\ m.sid = gsid /\ gaead' = m.aead
      /\ gcs' = IF m.ok THEN "exchange" ELSE "failed"
  BY DEF FcIdle, streamVars, GHelloAck
<1>2. Open' = Open
  BY <1>1 DEF Open
<1>3. /\ \A n \in f2g' : n.type = "HELLO_ACK" => n.sid # gsid
      /\ \A n \in g2f : n.type = "PK_CHUNK" => n.sid # gsid
      /\ \A n \in g2f : n.type # "HELLO"
      /\ Open => m.ok /\ m.aead = aead /\ pkeAcked = {}
  BY <1>1 DEF HonestInv, HelloAckOnce, HelloFirst
<1>4. \A n \in g2f' : n \in g2f \/ (m.ok /\ \E i \in Frags : n = PkChunkMsg(gsid, i))
  BY DEF GcsSends, HelloAckReply
<1>5. OpenIsOurs' /\ TranscriptAsSent' /\ AeadChosen'
  BY <1>1, <1>2, <1>3 DEF HonestInv, OpenIsOurs, TranscriptAsSent, AeadChosen
<1>6. HelloFirst' /\ HelloAckOnce'
  BY <1>1, <1>3, <1>4 DEF HelloFirst, HelloAckOnce, PkChunkMsg
<1>7. PkChunkOnce'
  BY <1>1, <1>2, <1>3, <1>4 DEF PkChunkOnce, PkChunkMsg
<1>8. CiphertextsAsSent' /\ AbortedIsClosed' /\ NotRejected'
  BY <1>1, <1>2 DEF HonestInv, CiphertextsAsSent, AbortedIsClosed, NotRejected
<1> QED
  BY <1>1, <1>5, <1>6, <1>7, <1>8 DEF HonestInv

(* A chunk is of the ciphertext made for the secret at hand.               *)
LEMMA ChunkReceived ==
  ASSUME AgreeInv, HonestInv, NEW m \in f2g, m.type = "CT_CHUNK", GCtChunk(m), Open
  PROVE  \A k \in Kind : \A i \in Chunks : grx'[k][i] \in {grx[k][i], ss[k]}
<1>1. grx = [k \in Kind |-> [i \in Chunks |-> grx[k][i]]]
  BY DEF AgreeInv, GrxShape
<1>2. grx' = [grx EXCEPT ![m.kind] =
                [grx[m.kind] EXCEPT ![m.idx] =
                   IF grx[m.kind][m.idx] = NoBuf THEN m.ct ELSE grx[m.kind][m.idx]]]
      /\ m.sid = gsid
  BY DEF GCtChunk
<1>3. m.ct = ss[m.kind]
  BY <1>2 DEF HonestInv, CiphertextsAsSent
<1>4. ASSUME NEW k \in Kind, NEW i \in Chunks PROVE grx'[k][i] \in {grx[k][i], ss[k]}
  <2>1. grx[k] = [j \in Chunks |-> grx[k][j]]
    BY <1>1
  <2>2. CASE m.kind = k
    <3>1. grx'[k] = [grx[k] EXCEPT ![m.idx] = IF grx[k][m.idx] = NoBuf THEN m.ct ELSE grx[k][m.idx]]
      BY <1>1, <1>2, <2>2
    <3> QED BY <1>3, <2>1, <2>2, <3>1
  <2>3. CASE m.kind # k
    BY <1>1, <1>2, <2>3
  <2> QED BY <2>2, <2>3
<1> QED BY <1>4

LEMMA GcsReceiveIsHonest ==
  ASSUME AgreeInv, HonestInv, ~Duplicates, GcsReceive
  PROVE  HonestInv'
<1>1. PICK m \in f2g :
        /\ \/ m.type = "HELLO_ACK" /\ GHelloAck(m) /\ GcsSends(HelloAckReply(m))
           \/ m.type = "CT_CHUNK"  /\ GCtChunk(m) /\ GcsSends(CtChunkReply(m))
           \/ m.type = "STATUS"    /\ GStatus(m) /\ GcsSends({})
           \/ m.type = "ABORT"     /\ GAbort(m) /\ GcsSends({})
        /\ f2g' = f2g \ {m}
        /\ FcIdle
  BY DEF GcsReceive, Take
<1>2. m.sid = gsid
  BY <1>1 DEF GHelloAck, GCtChunk, GStatus, GAbort
<1>3. \A n \in g2f : n.type # "HELLO"
  BY <1>2 DEF HonestInv, HelloFirst
<1>4. CASE m.type = "HELLO_ACK" /\ GHelloAck(m) /\ GcsSends(HelloAckReply(m))
  BY <1>1, <1>4, HelloAckIsHonest
<1>5. CASE m.type = "CT_CHUNK" /\ GCtChunk(m) /\ GcsSends(CtChunkReply(m))
  <2>1. UNCHANGED <<gcs, gsid, gaead>>
    BY <1>5 DEF GCtChunk
  <2>2. \A n \in g2f' : n \in g2f \/ n.type \in {"CT_ACK", "FINISH"}
    BY <1>5 DEF GcsSends, CtChunkReply, CtAckMsg
  <2>3. Open => \A k \in Kind : \A i \in Chunks : grx'[k][i] \in {grx[k][i], ss[k]}
    BY <1>5, ChunkReceived
  <2>4. Open => gcs \notin {"idle", "failed"}
    BY DEF HonestInv, OpenIsOurs
  <2> QED BY <1>1, <1>3, <2>1, <2>2, <2>3, <2>4, StationIsHonest
<1>6. CASE m.type = "STATUS" /\ GStatus(m) /\ GcsSends({})
  <2>1. gcs' = "done" /\ gcs \notin {"idle", "hello"} /\ UNCHANGED <<gsid, gaead, grx, g2f>>
    BY <1>6 DEF GStatus, HonestInv, NotRejected, GcsSends
  <2> QED BY <1>1, <1>3, <2>1, StationIsHonest
<1>7. CASE m.type = "ABORT" /\ GAbort(m) /\ GcsSends({})
  <2>1. gcs' = "failed" /\ UNCHANGED <<gsid, gaead, grx, g2f>>
    BY <1>7 DEF GAbort, GcsSends
  <2>2. ~Open
    BY <1>2, <1>7 DEF HonestInv, AbortedIsClosed
  <2> QED BY <1>1, <1>3, <2>1, <2>2, StationIsHonest
<1> QED BY <1>1, <1>4, <1>5, <1>6, <1>7

(* A session is opened: the controller has given up the one before, and    *)
(* nothing on its way is of the new one.                                   *)
LEMMA GcsStartIsHonest ==
  ASSUME AgreeInv, HonestInv, GcsStart
  PROVE  HonestInv'
<1>1. PICK s \in SessionIds : GHello(s) /\ GcsSends({HelloMsg(s, Offer)}) /\ FcIdle
                              /\ UNCHANGED f2g
  BY DEF GcsStart
<1>2. UNCHANGED <<state, sid, aead, th, pke, pkeAcked, ct, ctLen, ss, f2g>>
  BY <1>1 DEF FcIdle, streamVars
<1>3. /\ gcs \in {"idle", "failed"} /\ gcs' = "hello" /\ gsid' = gsid + 1 /\ gsid' = s
      /\ grx' = [k \in Kind |-> [i \in Chunks |-> NoBuf]]
      /\ g2f' = g2f \cup {HelloMsg(gsid', Offer)} /\ gsid \in Nat
  BY <1>1 DEF GHello, GcsSends, AgreeInv
<1>4. ~Open /\ ~Open'
  BY <1>2, <1>3 DEF HonestInv, OpenIsOurs, Open
<1>5. /\ \A n \in g2f : n.type # "HELLO" /\ n.sid # gsid'
      /\ \A n \in f2g : n.sid \in Nat /\ n.sid <= gsid /\ n.sid # gsid'
      /\ sid # gsid' /\ gsid' # NoSid
  BY <1>3 DEF HonestInv, HelloFirst, AbortedIsClosed, AgreeInv, ToFcHonest, NoSid
<1>6. OpenIsOurs' /\ TranscriptAsSent' /\ AeadChosen'
  BY <1>2, <1>4 DEF HonestInv, OpenIsOurs, TranscriptAsSent, AeadChosen
<1>7. HelloFirst'
  BY <1>2, <1>3, <1>5 DEF HelloFirst
<1>8. HelloAckOnce' /\ PkChunkOnce'
  BY <1>2, <1>3, <1>5 DEF HelloAckOnce, PkChunkOnce, HelloMsg
<1>9. CiphertextsAsSent' /\ AbortedIsClosed' /\ NotRejected'
  BY <1>2, <1>3, <1>4, <1>5 DEF HonestInv, CiphertextsAsSent, AbortedIsClosed, NotRejected
<1> QED
  BY <1>2, <1>6, <1>7, <1>8, <1>9 DEF HonestInv

LEMMA GcsFinishIsHonest ==
  ASSUME HonestInv, GcsFinish
  PROVE  HonestInv'
<1>1. /\ gcs = "exchange" /\ gcs' = "finish" /\ UNCHANGED <<gsid, gaead, grx, f2g>>
      /\ FcIdle /\ g2f' = g2f \cup {FinishSent} /\ FinishSent.type = "FINISH"
  BY DEF GcsFinish, GFinish, GcsSends, FinishSent, FinishMsg
<1>2. \A n \in g2f : n.type # "HELLO"
  BY <1>1 DEF HonestInv, HelloFirst
<1>3. \A n \in g2f' : n \in g2f \/ n.type \in {"CT_ACK", "FINISH"}
  BY <1>1
<1> QED
  BY <1>1, <1>2, <1>3, StationIsHonest

LEMMA LoseIsHonest ==
  ASSUME HonestInv, Lose
  PROVE  HonestInv'
<1>1. FcIdle /\ UNCHANGED gcsVars /\ g2f' \subseteq g2f /\ f2g' \subseteq f2g
  BY DEF Lose
<1>2. Open => gcs \notin {"idle", "failed"}
  BY DEF HonestInv, OpenIsOurs
<1>3. gcs' = gcs /\ gsid' = gsid /\ gaead' = gaead /\ grx' = grx
  BY <1>1 DEF gcsVars
<1> QED
  BY <1>1, <1>2, <1>3, StationIsHonest

LEMMA FcReceiveIsHonest ==
  ASSUME AgreeInv, HonestInv, ~Duplicates, FcReceive
  PROVE  HonestInv'
<1>1. PICK m \in g2f : FcHandles(m) /\ g2f' = g2f \ {m} /\ FcSends
  BY DEF FcReceive, Take
<1>2. LaterStep /\ m \notin g2f'
  BY <1>1 DEF LaterStep, FcSends
<1>3. m.type = "CT_ACK" => m.kind \in Kind
  BY DEF AgreeInv, ToFcHonest
<1> QED
  BY <1>1, <1>2, <1>3, HelloIsHonest, PkChunkIsHonest, CtAckIsHonest, FinishIsHonest
  DEF FcHandles

LEMMA HonestStep == ~Duplicates /\ AgreeInv /\ HonestInv /\ [LinkNext]_allVars => HonestInv'
<1> SUFFICES ASSUME ~Duplicates, AgreeInv, HonestInv, [LinkNext]_allVars PROVE HonestInv'
  OBVIOUS
<1>1. CASE FcTick
  BY <1>1, TicksAreHonest DEF FcTick, FcSends, LaterStep
<1>2. CASE UNCHANGED allVars
  <2>1. FcIdle /\ gcs' = gcs /\ gsid' = gsid /\ gaead' = gaead /\ grx' = grx
        /\ f2g' = f2g /\ g2f' = g2f
    BY <1>2 DEF allVars, vars, linkVars, streamVars, envVars, gcsVars, FcIdle
  <2>2. Open => gcs \notin {"idle", "failed"}
    BY DEF HonestInv, OpenIsOurs
  <2> QED BY <2>1, <2>2, StationIsHonest
<1> QED
  BY <1>1, <1>2, FcReceiveIsHonest, GcsReceiveIsHonest, GcsStartIsHonest,
     GcsFinishIsHonest, LoseIsHonest DEF LinkNext

(* On a link that repeats nothing, an honest ground station's handshake is *)
(* never rejected: what is late for one session, or lost, leaves the other *)
(* end with the same secrets and the same transcript.                      *)
THEOREM HonestNotRejected == ~Duplicates => (LinkSpec => []NotRejected)
<1>1. LinkInit => AgreeInv /\ HonestInv
  BY AgreeInit, HonestInit
<1>2. ~Duplicates /\ AgreeInv /\ HonestInv /\ [LinkNext]_allVars => AgreeInv' /\ HonestInv'
  BY AgreeStep, HonestStep
<1>3. HonestInv => NotRejected
  BY DEF HonestInv
<1>4. CASE ~Duplicates
  <2>1. AgreeInv /\ HonestInv /\ [LinkNext]_allVars => AgreeInv' /\ HonestInv'
    BY <1>2, <1>4
  <2> QED
    BY <1>1, <1>3, <2>1, PTL DEF LinkSpec
<1> QED
  BY <1>4
=============================================================================
