--------------------------- MODULE HqcSessionProofs ---------------------------
(***************************************************************************)
(* Theorems about HqcSession, for every value of its constants.            *)
(***************************************************************************)
EXTENDS HqcSession, FiniteSetTheorems, TLAPS

-----------------------------------------------------------------------------
(* The bursts the handlers send.                                           *)

\* The chunks are a finite set of integers.
LEMMA ChunksFinite ==
    ASSUME NEW S \in SUBSET Chunks
    PROVE  IsFiniteSet(S) /\ Cardinality(S) \in Nat /\ S \subseteq Int
<1>1. CtChunks - 1 \in Int /\ 0 \in Int
  BY SizesAssumption
<1>2. IsFiniteSet(Chunks)
  BY <1>1, FS_Interval DEF Chunks
<1>3. IsFiniteSet(S)
  BY <1>2, FS_Subset
<1>4. S \subseteq Int
  BY <1>1 DEF Chunks
<1> QED
  BY <1>3, <1>4, FS_CardinalityType

\* The loops that walk the chunks in order and count what they send never send
\* more than their count allows.
LEMMA SmallestCardinality ==
    ASSUME NEW S \in SUBSET Chunks, NEW n \in Nat
    PROVE  Cardinality(Smallest(S, n)) <= n
<1> DEFINE T == Smallest(S, n)
           below(t) == {j \in S : j < t}
           f == [t \in T |-> Cardinality(below(t))]
<1>1. T \subseteq S
  BY DEF Smallest
<1>2. \A t \in T : Cardinality(below(t)) \in Nat /\ Cardinality(below(t)) < n
  BY <1>1, ChunksFinite DEF Smallest
<1>3. f \in [T -> 0 .. n - 1]
  BY <1>2
<1>4. ASSUME NEW t \in T, NEW u \in T, t < u
      PROVE  f[t] # f[u]
  <2>1. below(t) \subseteq below(u)
    BY <1>1, <1>4, ChunksFinite
  <2>2. t \in below(u) /\ t \notin below(t)
    BY <1>1, <1>4, ChunksFinite
  <2>3. IsFiniteSet(below(u))
    BY ChunksFinite
  <2>4. Cardinality(below(t)) # Cardinality(below(u))
    BY <2>1, <2>2, <2>3, FS_Subset
  <2> QED
    BY <2>4
<1>5. \A t, u \in T : f[t] = f[u] => t = u
  <2>1. \A t, u \in T : t = u \/ t < u \/ u < t
    BY <1>1, ChunksFinite
  <2> QED
    BY <2>1, <1>4
<1>6. f \in Injection(T, 0 .. n - 1)
  BY <1>3, <1>5 DEF Injection, IsInjective
<1>7. IsFiniteSet(0 .. n - 1) /\ Cardinality(0 .. n - 1) = n
  BY FS_Interval
<1> QED
  BY <1>6, <1>7, FS_Injection

-----------------------------------------------------------------------------
(* Type correctness.                                                       *)

\* The constants of the session and the values a step puts in its fields.
LEMMA ValueTypes ==
    /\ \A s \in SessionIds : s \in Nat /\ s # NoSid
    /\ NoSid \in Nat
    /\ NoBuf \in CtVal /\ Junk \in CtVal
    /\ \A n \in 1 .. MaxEncaps : n \in CtVal /\ n # NoBuf
    /\ NoKey \in KeyMaterial
    /\ Eph \in Kind /\ Sta \in Kind /\ Eph # Sta
    /\ \A k \in Kind : k = Eph \/ k = Sta
    /\ AeadOffers \subseteq 0..2
BY SessionIdsAssumption, AeadOffersAssumption, SizesAssumption
   DEF NoSid, NoBuf, CtVal, Junk, NoKey, KeyMaterial, Eph, Sta, Kind

\* The bursts are chunks.
LEMMA BurstsAreChunks ==
    /\ \A S, n : Smallest(S, n) \subseteq S
    /\ \A a, d, r : AckBurst(a, d, r) \subseteq Chunks
    /\ \A b, d : d \subseteq Chunks => SentAfter(b, d) \subseteq Chunks
    /\ FirstWindow \subseteq Chunks
    /\ \A k, due : sent[k] \subseteq Chunks => Stalled(k, due) \subseteq Chunks
    /\ \A k, due : sent[k] \subseteq Chunks => Pumped(k, due) \subseteq Chunks
    /\ \A k : Nudged(k) \subseteq Chunks
<1>1. \A S, n : Smallest(S, n) \subseteq S
  BY DEF Smallest
<1>2. \A k : InFlight(k) \subseteq sent[k]
  BY DEF InFlight
<1>3. \A a, d, r : AckBurst(a, d, r) \subseteq Chunks
  BY <1>1 DEF AckBurst
<1>4. \A k, due : sent[k] \subseteq Chunks => Stalled(k, due) \subseteq Chunks
  BY <1>1, <1>2 DEF Stalled
<1>5. \A k, due : sent[k] \subseteq Chunks => Pumped(k, due) \subseteq Chunks
  <2> SUFFICES ASSUME NEW k, NEW due, sent[k] \subseteq Chunks
               PROVE  Pumped(k, due) \subseteq Chunks
    OBVIOUS
  <2> DEFINE room == Window - Cardinality(InFlight(k)) - Cardinality(Stalled(k, due))
  <2>1. Smallest(Chunks \ sent[k], room) \subseteq Chunks
    BY <1>1
  <2>2. Pumped(k, due) \subseteq Stalled(k, due) \cup Smallest(Chunks \ sent[k], room)
    BY DEF Pumped
  <2> QED
    BY <2>1, <2>2, <1>4
<1>6. \A k : Nudged(k) \subseteq Chunks
  BY <1>1 DEF Nudged
<1> QED
  BY <1>1, <1>3, <1>4, <1>5, <1>6 DEF SentAfter, FirstWindow

\* The messages a handler sends.
LEMMA MessageTypes ==
    /\ \A s \in Nat, ok \in BOOLEAN, a \in 0..2 : HelloAck(s, ok, a) \in FcMessage
    /\ \A s \in Nat, have \in SUBSET Frags : PkAck(s, have) \in FcMessage
    /\ \A s \in Nat, k \in Kind, i \in Chunks, c \in CtVal : CtChunk(s, k, i, c) \in FcMessage
    /\ \A s \in Nat, code \in StatusCode : Status(s, code) \in FcMessage
    /\ \A s \in Nat : AbortMsg(s) \in FcMessage
    /\ \A s \in Nat, k \in Kind, c \in CtVal : FirstBurst(s, k, c) \subseteq FcMessage
<1>1. \A s \in Nat, k \in Kind, i \in Chunks, c \in CtVal : CtChunk(s, k, i, c) \in FcMessage
  BY DEF CtChunk, FcMessage
<1>2. \A s \in Nat, k \in Kind, c \in CtVal : FirstBurst(s, k, c) \subseteq FcMessage
  BY <1>1, BurstsAreChunks DEF FirstBurst
<1>3. \A s \in Nat, ok \in BOOLEAN, a \in 0..2 : HelloAck(s, ok, a) \in FcMessage
  BY DEF HelloAck, FcMessage
<1>4. \A s \in Nat, have \in SUBSET Frags : PkAck(s, have) \in FcMessage
  BY DEF PkAck, FcMessage
<1>5. \A s \in Nat, code \in StatusCode : Status(s, code) \in FcMessage
  BY DEF Status, FcMessage
<1>6. \A s \in Nat : AbortMsg(s) \in FcMessage
  BY DEF AbortMsg, FcMessage
<1> QED
  BY <1>1, <1>2, <1>3, <1>4, <1>5, <1>6

\* Transcript records, and the transcripts built from them.
LEMMA TranscriptTypes ==
    ASSUME NEW t \in Seq(ThRecord), NEW v \in Nat, NEW w \in Nat, NEW u \in Nat
    PROVE  /\ <<>> \in Seq(ThRecord)
           /\ <<Rec("HELLO", v)>> \in Seq(ThRecord)
           /\ <<Rec("HELLO", v), Rec("HELLO_NACK", w)>> \in Seq(ThRecord)
           /\ <<Rec("HELLO", v), Rec("CT_S", w), Rec("HELLO_ACK", u)>> \in Seq(ThRecord)
           /\ Append(t, Rec("PK", v)) \in Seq(ThRecord)
           /\ Append(t, Rec("FINISH", v)) \in Seq(ThRecord)
           /\ t \o <<Rec("PK", v), Rec("CT_E", w)>> \in Seq(ThRecord)
<1>1. \A tag \in {"HELLO", "HELLO_ACK", "HELLO_NACK", "CT_S", "PK", "CT_E", "FINISH"},
         n \in Nat : Rec(tag, n) \in ThRecord
  BY DEF Rec, ThRecord
<1>2. <<Rec("PK", v), Rec("CT_E", w)>> \in Seq(ThRecord)
  BY <1>1
<1> QED
  BY <1>1, <1>2

\* A session that is reset is well typed.
LEMMA ResetTypes ==
    ASSUME NEW st \in HqcState, NEW s \in Nat, Reset(st, s)
    PROVE  /\ state' \in HqcState
           /\ sid' \in Nat
           /\ pke' \in BOOLEAN
           /\ pkeAcked' \subseteq Frags
           /\ ct' \in [Kind -> CtVal]
           /\ ctLen' \in [Kind -> BOOLEAN]
           /\ acked' \in [Kind -> SUBSET Chunks]
           /\ sent' \in [Kind -> SUBSET Chunks]
           /\ retries' \in [Chunks -> 0 .. 255]
           /\ ss' \in [Kind -> CtVal]
           /\ keys' \in KeyMaterial
<1>1. state' \in HqcState /\ sid' \in Nat /\ pke' \in BOOLEAN /\ pkeAcked' \subseteq Frags
  BY DEF Reset
<1>2. ct' \in [Kind -> CtVal] /\ ss' \in [Kind -> CtVal] /\ keys' \in KeyMaterial
  BY ValueTypes DEF Reset
<1>3. /\ ctLen' \in [Kind -> BOOLEAN]
      /\ acked' \in [Kind -> SUBSET Chunks] /\ sent' \in [Kind -> SUBSET Chunks]
  BY DEF Reset
<1>4. retries' \in [Chunks -> 0 .. 255]
  BY DEF Reset
<1> QED
  BY <1>1, <1>2, <1>3, <1>4

LEMMA AbortTypes ==
    ASSUME TypeOK, NEW m \in SUBSET FcMessage, AbortSession(m)
    PROVE  TypeOK'
<1>1. "FAIL" \in HqcState
  BY DEF HqcState
<1>2. Reset("FAIL", NoSid) /\ NoSid \in Nat
  BY ValueTypes DEF AbortSession
<1>3. /\ aead' = 1 /\ th' = <<>> /\ out' = m
      /\ UNCHANGED <<signKey, armed, entropyFailed, encs>>
  BY DEF AbortSession, envVars
<1>4. <<>> \in Seq(ThRecord)
  OBVIOUS
<1>5. /\ state' \in HqcState /\ sid' \in Nat /\ pke' \in BOOLEAN /\ pkeAcked' \subseteq Frags
      /\ ct' \in [Kind -> CtVal] /\ ctLen' \in [Kind -> BOOLEAN]
      /\ acked' \in [Kind -> SUBSET Chunks] /\ sent' \in [Kind -> SUBSET Chunks]
      /\ retries' \in [Chunks -> 0 .. 255] /\ ss' \in [Kind -> CtVal]
      /\ keys' \in KeyMaterial
  BY <1>1, <1>2, ResetTypes
<1> QED
  BY <1>3, <1>4, <1>5 DEF TypeOK

LEMMA HelloTypes ==
    ASSUME TypeOK, NEW s \in SessionIds, NEW a \in AeadOffers, Hello(s, a)
    PROVE  TypeOK'
<1>1. s \in Nat /\ a \in 0..2 /\ a \in Nat
  BY ValueTypes
<1>2. CASE HelloAccept(s, a)
  <2>1. encs' \in 1 .. MaxEncaps /\ encs' \in Nat /\ encs' \in CtVal
    BY <1>2, SizesAssumption, ValueTypes DEF HelloAccept, TypeOK
  <2>2. th' \in Seq(ThRecord)
    BY <1>1, <1>2, <2>1, TranscriptTypes DEF HelloAccept, TypeOK
  <2>3. out' \subseteq FcMessage
    <3>1. HelloAck(s, TRUE, a) \in FcMessage
      BY <1>1, MessageTypes
    <3>2. FirstBurst(s, Sta, encs') \subseteq FcMessage
      BY <1>1, <2>1, MessageTypes, ValueTypes
    <3> QED
      BY <1>2, <3>1, <3>2 DEF HelloAccept
  <2>4. FirstWindow \subseteq Chunks
    BY BurstsAreChunks
  <2>5. /\ ct' \in [Kind -> CtVal]
        /\ ctLen' \in [Kind -> BOOLEAN]
        /\ acked' \in [Kind -> SUBSET Chunks]
        /\ sent' \in [Kind -> SUBSET Chunks]
        /\ retries' \in [Chunks -> 0 .. 255]
        /\ ss' \in [Kind -> CtVal]
    BY <1>2, <2>1, <2>4, ValueTypes DEF HelloAccept
  <2>6. /\ state' \in HqcState /\ sid' \in Nat /\ aead' \in 0..2 /\ pke' \in BOOLEAN
        /\ pkeAcked' \subseteq Frags /\ keys' \in KeyMaterial
    BY <1>1, <1>2, ValueTypes DEF HelloAccept, HqcState
  <2>7. signKey' \in KeyMaterial /\ armed' \in BOOLEAN /\ entropyFailed' \in BOOLEAN
    BY <1>2 DEF HelloAccept, TypeOK
  <2> QED
    BY <2>1, <2>2, <2>3, <2>5, <2>6, <2>7 DEF TypeOK
<1>3. CASE HelloRefuse(s, a)
  <2>1. "IDLE" \in HqcState /\ Reset("IDLE", s)
    BY <1>3 DEF HelloRefuse, HqcState
  <2>2. th' \in Seq(ThRecord)
    BY <1>1, <1>3, TranscriptTypes DEF HelloRefuse, TypeOK
  <2>3. out' \subseteq FcMessage
    <3>1. HelloAck(s, FALSE, a) \in FcMessage
      BY <1>1, MessageTypes
    <3>2. Status(s, "INTERNAL") \in FcMessage
      BY <1>1, MessageTypes DEF StatusCode
    <3> QED
      BY <1>3, <3>1, <3>2 DEF HelloRefuse
  <2>4. /\ aead' \in 0..2 /\ signKey' \in KeyMaterial
        /\ armed' \in BOOLEAN /\ entropyFailed' \in BOOLEAN /\ encs' \in 0 .. MaxEncaps
    BY <1>1, <1>3 DEF HelloRefuse, TypeOK
  <2> QED
    BY <1>1, <2>1, <2>2, <2>3, <2>4, ResetTypes DEF TypeOK
<1> QED
  BY <1>2, <1>3 DEF Hello

LEMMA PkChunkTypes ==
    ASSUME TypeOK, NEW s \in SessionIds, NEW i \in Frags, PkChunk(s, i)
    PROVE  TypeOK'
<1>1. CASE PkChunkRefused(s)
  <2>1. out' \subseteq FcMessage
    BY <1>1, MessageTypes DEF PkChunkRefused, StatusCode, TypeOK
  <2> QED
    BY <1>1, <2>1 DEF PkChunkRefused, TypeOK, streamVars, envVars
<1>2. CASE PkChunkStored(s, i)
  <2>1. pkeAcked' \in SUBSET Frags
    BY <1>2 DEF PkChunkStored, TypeOK
  <2>2. out' \subseteq FcMessage
    BY <1>2, <2>1, MessageTypes DEF PkChunkStored, TypeOK
  <2> QED
    BY <1>2, <2>1, <2>2 DEF PkChunkStored, TypeOK, streamVars, envVars
<1>3. CASE PkChunkComplete(s, i)
  <2>1. encs' \in 1 .. MaxEncaps /\ encs' \in Nat /\ encs' \in CtVal
    BY <1>3, SizesAssumption, ValueTypes DEF PkChunkComplete, TypeOK
  <2>2. pkeAcked' \in SUBSET Frags /\ PkAck(sid, pkeAcked') \in FcMessage
    BY <1>3, MessageTypes DEF PkChunkComplete, TypeOK
  <2>3. /\ sid' \in Nat /\ aead' \in 0..2 /\ pke' \in BOOLEAN
        /\ retries' \in [Chunks -> 0 .. 255] /\ keys' \in KeyMaterial
        /\ signKey' \in KeyMaterial /\ armed' \in BOOLEAN
    BY <1>3 DEF PkChunkComplete, TypeOK
  <2>4. CASE EncapsulateOk
    <3>1. th' \in Seq(ThRecord)
      BY <2>1, <2>4, TranscriptTypes DEF EncapsulateOk, ThAddPkAndCt, TypeOK
    <3>2. out' \subseteq FcMessage
      <4>1. FirstBurst(sid, Eph, encs') \subseteq FcMessage
        BY <2>1, MessageTypes, ValueTypes DEF TypeOK
      <4> QED
        BY <2>2, <2>4, <4>1 DEF EncapsulateOk
    <3>3. /\ ct' \in [Kind -> CtVal]
          /\ ctLen' \in [Kind -> BOOLEAN]
          /\ acked' \in [Kind -> SUBSET Chunks]
          /\ sent' \in [Kind -> SUBSET Chunks]
          /\ ss' \in [Kind -> CtVal]
      BY <2>1, <2>4, ValueTypes, BurstsAreChunks DEF EncapsulateOk, TypeOK
    <3>4. state' \in HqcState /\ entropyFailed' \in BOOLEAN
      BY <2>4 DEF EncapsulateOk, HqcState, TypeOK
    <3> QED
      BY <2>1, <2>2, <2>3, <3>1, <3>2, <3>3, <3>4 DEF TypeOK
  <2>5. CASE EncapsulateFail
    <3>1. th' \in Seq(ThRecord)
      BY <2>5, TranscriptTypes DEF EncapsulateFail, TypeOK
    <3>2. out' \subseteq FcMessage
      BY <2>2, <2>5 DEF EncapsulateFail
    <3>3. ct' \in [Kind -> CtVal]
      <4>1. ct \in [Kind -> CtVal] /\ ct[Eph] \in CtVal /\ Junk \in CtVal
        BY ValueTypes DEF TypeOK
      <4>2. PICK c \in CtVal : ct' = ct \/ ct' = [ct EXCEPT ![Eph] = c]
        BY <2>5, <4>1 DEF EncapsulateFail
      <4> QED
        BY <4>1, <4>2
    <3>4. state' \in HqcState /\ entropyFailed' \in BOOLEAN
      BY <2>5 DEF EncapsulateFail, HqcState, TypeOK
    <3>5. UNCHANGED <<ctLen, acked, sent, ss>>
      BY <2>5 DEF EncapsulateFail
    <3> QED
      BY <2>1, <2>2, <2>3, <3>1, <3>2, <3>3, <3>4, <3>5 DEF TypeOK
  <2> QED
    BY <1>3, <2>4, <2>5 DEF PkChunkComplete
<1> QED
  BY <1>1, <1>2, <1>3 DEF PkChunk

\* Steps that only answer leave the typed fields alone.
LEMMA AnswerTypes ==
    ASSUME TypeOK, out' \subseteq FcMessage,
           UNCHANGED <<state, sid, aead, th, pke, pkeAcked, streamVars, ss, keys,
                       signKey, envVars>>
    PROVE  TypeOK'
BY DEF TypeOK, streamVars, envVars

LEMMA BumpType ==
    ASSUME NEW r \in 0 .. 255
    PROVE  Bump(r) \in 0 .. 255
BY DEF Bump

LEMMA CtAckTypes ==
    ASSUME TypeOK, NEW s \in SessionIds, NEW k \in Kind, NEW got \in SUBSET Chunks,
           CtAck(s, k, got)
    PROVE  TypeOK'
<1> DEFINE a       == acked[k] \cup got
           cleared == [i \in Chunks |-> IF i \in a THEN 0 ELSE retries[i]]
           burst   == AckBurst(a, sent[k], cleared)
<1>1. a \in SUBSET Chunks /\ burst \in SUBSET Chunks /\ SentAfter(burst, sent[k]) \in SUBSET Chunks
  BY BurstsAreChunks DEF TypeOK
<1>2. acked' \in [Kind -> SUBSET Chunks]
  <2>1. acked' = [acked EXCEPT ![k] = a]
    BY DEF CtAck
  <2> QED
    BY <1>1, <2>1 DEF TypeOK
<1>3. sent' \in [Kind -> SUBSET Chunks]
  <2>1. sent' = [sent EXCEPT ![k] = SentAfter(burst, sent[k])]
    BY DEF CtAck, TypeOK
  <2> QED
    BY <1>1, <2>1 DEF TypeOK
<1>4. retries' \in [Chunks -> 0 .. 255]
  <2>1. cleared \in [Chunks -> 0 .. 255]
    BY DEF TypeOK
  <2>2. \A i \in Chunks : Bump(cleared[i]) \in 0 .. 255
    BY <2>1, BumpType
  <2>3. \/ retries' = [i \in Chunks |-> 0]
        \/ retries' = [i \in Chunks |-> IF i \in burst THEN Bump(cleared[i]) ELSE cleared[i]]
    BY DEF CtAck
  <2>4. CASE retries' = [i \in Chunks |-> 0]
    BY <2>4
  <2>5. CASE retries' = [i \in Chunks |-> IF i \in burst THEN Bump(cleared[i]) ELSE cleared[i]]
    BY <2>1, <2>2, <2>5
  <2> QED
    BY <2>3, <2>4, <2>5
<1>5. out' \subseteq FcMessage
  <2>1. out' = {CtChunk(sid, k, i, ct[k]) : i \in burst}
    BY DEF CtAck
  <2>2. \A i \in burst : CtChunk(sid, k, i, ct[k]) \in FcMessage
    BY <1>1, MessageTypes DEF TypeOK
  <2> QED
    BY <2>1, <2>2
<1>6. state' \in HqcState
  BY DEF CtAck, TypeOK, HqcState
<1>7. UNCHANGED <<sid, aead, th, pke, pkeAcked, ct, ctLen, ss, keys, signKey, envVars>>
  BY DEF CtAck
<1> QED
  BY <1>2, <1>3, <1>4, <1>5, <1>6, <1>7 DEF TypeOK, envVars

LEMMA FinishTypes ==
    ASSUME TypeOK, NEW s \in SessionIds, NEW tag, Finish(s, tag)
    PROVE  TypeOK'
<1>1. \A code \in StatusCode : {Status(sid, code)} \subseteq FcMessage
  BY MessageTypes DEF TypeOK
<1>2. CASE FinishRefused(s)
  <2>1. out' \subseteq FcMessage
    BY <1>1, <1>2 DEF FinishRefused, StatusCode
  <2> QED
    BY <1>2, <2>1, AnswerTypes DEF FinishRefused
<1>3. CASE FinishRejected(s, tag)
  <2>1. {Status(sid, "REJECTED")} \in SUBSET FcMessage
    BY <1>1 DEF StatusCode
  <2> QED
    BY <1>3, <2>1, AbortTypes DEF FinishRejected
<1>4. CASE FinishAccepted(s, tag)
  <2>1. [e |-> ss[Eph], s |-> ss[Sta]] \in KeyMaterial
    BY ValueTypes DEF TypeOK, KeyMaterial
  <2>2. keys' \in KeyMaterial /\ signKey' \in KeyMaterial
    BY <1>4, <2>1 DEF FinishAccepted, EnableSigningWithKey, TypeOK
  <2>3. th' \in Seq(ThRecord)
    BY <1>4, TranscriptTypes DEF FinishAccepted, TypeOK
  <2>4. out' \subseteq FcMessage
    BY <1>1, <1>4 DEF FinishAccepted, StatusCode
  <2>5. ct' \in [Kind -> CtVal] /\ pke' \in BOOLEAN /\ state' \in HqcState
    BY <1>4, ValueTypes DEF FinishAccepted, HqcState
  <2>6. UNCHANGED <<sid, aead, pkeAcked, ctLen, acked, sent, retries, ss, envVars>>
    BY <1>4 DEF FinishAccepted
  <2> QED
    BY <2>2, <2>3, <2>4, <2>5, <2>6 DEF TypeOK, envVars
<1> QED
  BY <1>2, <1>3, <1>4 DEF Finish

LEMMA TickTypes ==
    ASSUME TypeOK, NEW due \in SUBSET Kind, NEW nudge \in BOOLEAN, Tick(due, nudge)
    PROVE  TypeOK'
<1> DEFINE pumped == [k \in Kind |->
                        IF k = Eph THEN Pumped(Eph, Eph \in due) ELSE Pumped(Sta, StaDue(due))]
           resent == Stalled(Eph, Eph \in due) \cup Stalled(Sta, StaDue(due))
           more(k) == pumped[k] \cup (IF nudge THEN Nudged(k) ELSE {})
<1>1. sent[Eph] \subseteq Chunks /\ sent[Sta] \subseteq Chunks
  BY ValueTypes DEF TypeOK
<1>2. Pumped(Eph, Eph \in due) \subseteq Chunks /\ Pumped(Sta, StaDue(due)) \subseteq Chunks
  BY <1>1, BurstsAreChunks
<1>3. \A k \in Kind : pumped[k] \subseteq Chunks
  BY <1>2
<1>4. sent' \in [Kind -> SUBSET Chunks]
  <2>1. sent' = [k \in Kind |-> SentAfter(pumped[k], sent[k])]
    BY DEF Tick
  <2>2. \A k \in Kind : SentAfter(pumped[k], sent[k]) \subseteq Chunks
    BY BurstsAreChunks DEF TypeOK
  <2> QED
    BY <2>1, <2>2
<1>5. retries' \in [Chunks -> 0 .. 255]
  <2>1. retries' = [i \in Chunks |-> IF i \in resent THEN Bump(retries[i]) ELSE retries[i]]
    BY DEF Tick
  <2>2. \A i \in Chunks : retries[i] \in 0 .. 255 /\ Bump(retries[i]) \in 0 .. 255
    BY BumpType DEF TypeOK
  <2> QED
    BY <2>1, <2>2
<1>6. out' \subseteq FcMessage
  <2>1. out' = UNION {{CtChunk(sid, k, i, ct[k]) : i \in more(k)} : k \in Kind}
    BY DEF Tick
  <2>2. \A k \in Kind : more(k) \subseteq Chunks
    BY <1>3, BurstsAreChunks
  <2>3. \A k \in Kind : \A i \in more(k) : CtChunk(sid, k, i, ct[k]) \in FcMessage
    BY <2>2, MessageTypes DEF TypeOK
  <2> HIDE DEF more
  <2> QED
    BY <2>1, <2>3
<1>7. state' \in HqcState
  BY DEF Tick, TypeOK, HqcState
<1>8. UNCHANGED <<sid, aead, th, pke, pkeAcked, ct, ctLen, acked, ss, keys, signKey, envVars>>
  BY DEF Tick
<1> QED
  BY <1>4, <1>5, <1>6, <1>7, <1>8 DEF TypeOK, envVars

LEMMA TypeStep ==
    ASSUME TypeOK, [Next]_vars
    PROVE  TypeOK'
<1>1. CASE \E s \in SessionIds, a \in AeadOffers : Hello(s, a)
  BY <1>1, HelloTypes
<1>2. CASE \E s \in SessionIds, i \in Frags : PkChunk(s, i)
  BY <1>2, PkChunkTypes
<1>3. CASE \E s \in SessionIds, k \in Kind : CtAckIgnored(s, k)
  BY <1>3, AnswerTypes DEF CtAckIgnored
<1>4. CASE \E s \in SessionIds, k \in Kind, got \in SUBSET Chunks : CtAck(s, k, got)
  BY <1>4, CtAckTypes
<1>5. CASE \E s \in SessionIds, tag \in {FinishTag(ss[Eph], ss[Sta], th), BadTag} : Finish(s, tag)
  BY <1>5, FinishTypes
<1>6. CASE \E s \in SessionIds : FinishMalformed(s)
  <2>1. {Status(sid, "BAD_SEQ")} \subseteq FcMessage /\ {Status(sid, "BAD_LEN")} \subseteq FcMessage
    BY MessageTypes DEF TypeOK, StatusCode
  <2>2. out' \subseteq FcMessage
    BY <1>6, <2>1 DEF FinishMalformed
  <2> QED
    BY <1>6, <2>2, AnswerTypes DEF FinishMalformed
<1>7. CASE Ticks
  <2>1. {AbortMsg(sid)} \in SUBSET FcMessage
    BY MessageTypes DEF TypeOK
  <2>2. CASE TickExpire
    BY <2>1, <2>2, AbortTypes DEF TickExpire
  <2>3. CASE \E due \in SUBSET Kind : TickGiveUp(due)
    BY <2>1, <2>3, AbortTypes DEF TickGiveUp
  <2>4. CASE \E due \in SUBSET Kind, nudge \in BOOLEAN : Tick(due, nudge)
    BY <2>4, TickTypes
  <2> QED
    BY <1>7, <2>2, <2>3, <2>4 DEF Ticks
<1>8. CASE Env
  BY <1>8 DEF Env, SetArmed, EntropyFails, TypeOK, streamVars
<1>9. CASE UNCHANGED vars
  BY <1>9 DEF vars, TypeOK, streamVars, envVars
<1> QED
  BY <1>1, <1>2, <1>3, <1>4, <1>5, <1>6, <1>7, <1>8, <1>9 DEF Next

LEMMA TypeInit == Init => TypeOK
<1>1. <<>> \in Seq(ThRecord)
  OBVIOUS
<1>2. 0 \in 0 .. MaxEncaps
  BY SizesAssumption
<1> SUFFICES ASSUME Init PROVE TypeOK
  OBVIOUS
<1>3. state \in HqcState /\ sid \in Nat /\ aead \in 0..2
  BY DEF Init, HqcState, NoSid
<1>4. ct \in [Kind -> CtVal] /\ ss \in [Kind -> CtVal]
  BY ValueTypes DEF Init
<1>5. /\ ctLen \in [Kind -> BOOLEAN]
      /\ acked \in [Kind -> SUBSET Chunks] /\ sent \in [Kind -> SUBSET Chunks]
  BY DEF Init
<1>6. retries \in [Chunks -> 0 .. 255]
  BY DEF Init
<1>7. /\ keys \in KeyMaterial /\ signKey \in KeyMaterial /\ armed \in BOOLEAN
      /\ entropyFailed \in BOOLEAN /\ encs \in 0 .. MaxEncaps /\ out \subseteq FcMessage
  BY <1>2, ValueTypes DEF Init
<1>8. th \in Seq(ThRecord)
  BY <1>1 DEF Init
<1>9. pke \in BOOLEAN /\ pkeAcked \subseteq Frags
  BY DEF Init
<1> QED
  BY <1>3, <1>4, <1>5, <1>6, <1>7, <1>8, <1>9 DEF TypeOK

\* Every field of the session always holds a value of its kind, whatever the peer
\* sends and in whatever order: the state handle_hqc_*() and tick() leave is one
\* the next of them can start from.
THEOREM TypeCorrect == Spec => []TypeOK
<1>1. TypeOK /\ [Next]_vars => TypeOK'
  BY TypeStep
<1> QED
  BY <1>1, TypeInit, PTL DEF Spec

-----------------------------------------------------------------------------
(* The window.                                                             *)

\* The chunks below the high-water mark of a stream are an initial segment.
SentIsPrefix ==
    \A k \in Kind : \A i \in sent[k], j \in Chunks : j <= i => j \in sent[k]

\* A burst leaves no gap below its last chunk.
LEMMA SmallestDownward ==
    ASSUME NEW S \in SUBSET Chunks, NEW n \in Int,
           NEW i \in Smallest(S, n), NEW j \in S, j <= i
    PROVE  j \in Smallest(S, n)
<1> DEFINE below(t) == {m \in S : m < t}
<1>1. i \in S /\ Cardinality(below(i)) < n
  BY DEF Smallest
<1>2. below(j) \subseteq below(i)
  BY <1>1, ChunksFinite
<1>3. Cardinality(below(j)) <= Cardinality(below(i))
  BY <1>2, ChunksFinite, FS_Subset
<1>4. Cardinality(below(j)) \in Nat /\ Cardinality(below(i)) \in Nat
  BY ChunksFinite
<1>5. Cardinality(below(j)) < n
  BY <1>1, <1>3, <1>4
<1> QED
  BY <1>5 DEF Smallest

\* A burst with no room is empty.
LEMMA NoRoom ==
    ASSUME NEW S \in SUBSET Chunks, NEW n \in Int, n <= 0
    PROVE  Smallest(S, n) = {}
<1>1. \A i \in S : Cardinality({j \in S : j < i}) \in Nat
  BY ChunksFinite
<1> QED
  BY <1>1 DEF Smallest

\* What is in flight after a burst that fits the room left.
LEMMA WindowKept ==
    ASSUME NEW F \in SUBSET Chunks, NEW B \in SUBSET Chunks, NEW G \in SUBSET Chunks,
           G \subseteq F \cup B,
           Cardinality(F) <= Window,
           Cardinality(B) <= Window - Cardinality(F)
    PROVE  Cardinality(G) <= Window
<1>1. IsFiniteSet(F) /\ IsFiniteSet(B) /\ IsFiniteSet(F \cup B) /\ IsFiniteSet(F \cap B)
  BY ChunksFinite
<1>2. /\ Cardinality(F) \in Nat /\ Cardinality(B) \in Nat /\ Cardinality(F \cup B) \in Nat
      /\ Cardinality(F \cap B) \in Nat /\ Cardinality(G) \in Nat
  BY ChunksFinite
<1>3. Cardinality(F \cup B) = Cardinality(F) + Cardinality(B) - Cardinality(F \cap B)
  BY <1>1, FS_Union
<1>4. Cardinality(G) <= Cardinality(F \cup B)
  BY <1>1, FS_Subset
<1>5. Window \in Nat
  BY SizesAssumption
<1> QED
  BY <1>2, <1>3, <1>4, <1>5

\* SentAfter() keeps an initial segment one.
LEMMA PrefixKept ==
    ASSUME NEW D \in SUBSET Chunks, NEW B \in SUBSET Chunks,
           \A i \in D, j \in Chunks : j <= i => j \in D
    PROVE  \A i \in SentAfter(B, D), j \in Chunks : j <= i => j \in SentAfter(B, D)
<1> SUFFICES ASSUME NEW i \in SentAfter(B, D), NEW j \in Chunks, j <= i
             PROVE  j \in SentAfter(B, D)
  OBVIOUS
<1>1. CASE i \in D
  BY <1>1 DEF SentAfter
<1>2. CASE i \in Chunks /\ \E m \in B : i <= m
  <2>1. PICK m \in B : i <= m
    BY <1>2
  <2>2. j <= m
    BY <1>2, <2>1, ChunksFinite
  <2> QED
    BY <2>1, <2>2 DEF SentAfter
<1> QED
  BY <1>1, <1>2 DEF SentAfter

\* The first window of a stream.
LEMMA FirstWindowFits ==
    /\ FirstWindow \in SUBSET Chunks
    /\ Cardinality(FirstWindow) <= Window
    /\ \A i \in FirstWindow, j \in Chunks : j <= i => j \in FirstWindow
<1>1. Window \in Nat /\ Window \in Int
  BY SizesAssumption
<1>2. Cardinality(FirstWindow) <= Window
  BY <1>1, SmallestCardinality DEF FirstWindow
<1>3. \A i \in FirstWindow, j \in Chunks : j <= i => j \in FirstWindow
  BY <1>1, SmallestDownward DEF FirstWindow
<1> QED
  BY <1>2, <1>3, BurstsAreChunks

\* An ACK: the burst fits the window that its acknowledgements leave.
LEMMA AckWindow ==
    ASSUME NEW a \in SUBSET Chunks, NEW d \in SUBSET Chunks, NEW r,
           Cardinality(d \ a) <= Window,
           \A i \in d, j \in Chunks : j <= i => j \in d
    PROVE  Cardinality(SentAfter(AckBurst(a, d, r), d) \ a) <= Window
<1> DEFINE F        == d \ a
           room     == Window - Cardinality(F)
           eligible == {i \in Chunks \ a : ~(i \in d /\ r[i] >= MaxRetries)}
           B        == Smallest(eligible, room)
           G        == SentAfter(B, d) \ a
<1>1. AckBurst(a, d, r) = B
  BY DEF AckBurst
<1>2. F \in SUBSET Chunks /\ B \in SUBSET Chunks /\ G \in SUBSET Chunks
      /\ eligible \in SUBSET Chunks
  BY BurstsAreChunks
<1>3. Cardinality(F) \in Nat /\ Window \in Nat /\ room \in Nat
  BY <1>2, ChunksFinite, SizesAssumption
<1>4. Cardinality(B) <= Window - Cardinality(F)
  BY <1>2, <1>3, SmallestCardinality
<1>5. G \subseteq F \cup B
  <2> SUFFICES ASSUME NEW j \in G, j \notin d
               PROVE  j \in B
    OBVIOUS
  <2>1. PICK i \in B : j <= i
    BY DEF SentAfter
  <2>2. j \in eligible
    BY <1>2
  <2>3. room \in Int
    BY <1>3
  <2> HIDE DEF eligible, room
  <2> QED
    BY <1>2, <2>1, <2>2, <2>3, SmallestDownward
<1> HIDE DEF F, G, B
<1>6. Cardinality(G) <= Window
  BY <1>2, <1>4, <1>5, WindowKept DEF F
<1> QED
  BY <1>1, <1>6 DEF G

\* pump_tx(): new chunks fit the window, and the chunk sent again was in flight.
LEMMA PumpWindow ==
    ASSUME TypeOK, NEW k \in Kind, NEW due,
           Cardinality(InFlight(k)) <= Window,
           \A i \in sent[k], j \in Chunks : j <= i => j \in sent[k]
    PROVE  Cardinality(SentAfter(Pumped(k, due), sent[k]) \ acked[k]) <= Window
<1> DEFINE F    == InFlight(k)
           room == Window - Cardinality(F) - Cardinality(Stalled(k, due))
           B    == Smallest(Chunks \ sent[k], room)
           G    == SentAfter(Pumped(k, due), sent[k]) \ acked[k]
<1>1. /\ F \in SUBSET Chunks /\ B \in SUBSET Chunks /\ G \in SUBSET Chunks
      /\ Stalled(k, due) \in SUBSET Chunks
  BY BurstsAreChunks DEF TypeOK, InFlight
<1>2. /\ Cardinality(F) \in Nat /\ Cardinality(Stalled(k, due)) \in Nat
      /\ Window \in Nat /\ room \in Int
  BY <1>1, ChunksFinite, SizesAssumption
<1>3. Cardinality(B) <= Window - Cardinality(F)
  <2>1. CASE room <= 0
    <3>1. B = {}
      BY <2>1, <1>2, NoRoom
    <3>2. Cardinality(B) = 0
      BY <3>1, FS_EmptySet
    <3> QED
      BY <3>2, <1>2
  <2>2. CASE room > 0
    <3>1. Cardinality(B) <= room
      BY <2>2, <1>2, SmallestCardinality
    <3>2. Cardinality(B) \in Nat
      BY <1>1, ChunksFinite
    <3> QED
      BY <3>1, <3>2, <1>2
  <2> QED
    BY <2>1, <2>2, <1>2
<1>4. G \subseteq F \cup B
  <2> SUFFICES ASSUME NEW j \in G, j \notin sent[k]
               PROVE  j \in B
    BY DEF InFlight
  <2>1. PICK i \in Pumped(k, due) : j <= i
    BY DEF SentAfter
  <2>2. j \in Chunks \ sent[k]
    BY <1>1
  <2>3. i \notin sent[k]
    BY <2>1, <2>2
  <2>4. Stalled(k, due) \subseteq sent[k]
    BY BurstsAreChunks DEF Stalled, InFlight
  <2>5. i \in B
    BY <2>3, <2>4 DEF Pumped
  <2> HIDE DEF room
  <2> QED
    BY <1>2, <2>1, <2>2, <2>5, SmallestDownward
<1> HIDE DEF F, G, B
<1>5. Cardinality(G) <= Window
  BY <1>1, <1>3, <1>4, WindowKept DEF F
<1> QED
  BY <1>5 DEF G

\* A reset, or an abort, leaves nothing in flight.
LEMMA ResetWindow ==
    ASSUME NEW st, NEW s, Reset(st, s)
    PROVE  WindowBound' /\ SentIsPrefix'
<1>1. \A k \in Kind : sent'[k] = {} /\ InFlight(k)' = {}
  BY DEF Reset, InFlight
<1>2. Window \in Nat /\ Cardinality({}) = 0
  BY SizesAssumption, FS_EmptySet
<1> QED
  BY <1>1, <1>2 DEF WindowBound, SentIsPrefix

LEMMA WindowStep ==
    ASSUME TypeOK, WindowBound, SentIsPrefix, [Next]_vars
    PROVE  WindowBound' /\ SentIsPrefix'
<1>1. \A k \in Kind : acked[k] \in SUBSET Chunks /\ sent[k] \in SUBSET Chunks
  BY DEF TypeOK
<1>2. Window \in Nat /\ Cardinality({}) = 0
  BY SizesAssumption, FS_EmptySet
<1>3. ASSUME NEW s \in SessionIds, NEW a \in AeadOffers, Hello(s, a)
      PROVE  WindowBound' /\ SentIsPrefix'
  <2>1. CASE HelloAccept(s, a)
    <3>1. \A k \in Kind : /\ acked'[k] = {}
                          /\ sent'[k] = FirstWindow \/ sent'[k] = {}
      BY <2>1 DEF HelloAccept
    <3>2. \A k \in Kind : InFlight(k)' = FirstWindow \/ InFlight(k)' = {}
      BY <3>1 DEF InFlight
    <3>3. WindowBound'
      BY <3>2, <1>2, FirstWindowFits DEF WindowBound
    <3>4. SentIsPrefix'
      BY <3>1, FirstWindowFits DEF SentIsPrefix
    <3> QED
      BY <3>3, <3>4
  <2>2. CASE HelloRefuse(s, a)
    BY <2>2, ResetWindow DEF HelloRefuse
  <2> QED
    BY <1>3, <2>1, <2>2 DEF Hello
<1>4. ASSUME NEW s \in SessionIds, NEW i \in Frags, PkChunk(s, i)
      PROVE  WindowBound' /\ SentIsPrefix'
  <2>1. CASE PkChunkRefused(s) \/ PkChunkStored(s, i) \/ EncapsulateFail
    <3>1. UNCHANGED <<acked, sent>>
      BY <2>1 DEF PkChunkRefused, PkChunkStored, EncapsulateFail, streamVars
    <3> QED
      BY <3>1 DEF WindowBound, SentIsPrefix, InFlight
  <2>2. CASE EncapsulateOk
    <3>1. /\ acked' = [acked EXCEPT ![Eph] = {}]
          /\ sent' = [sent EXCEPT ![Eph] = FirstWindow]
      BY <2>2 DEF EncapsulateOk
    <3>2. \A k \in Kind :
             IF k = Eph THEN acked'[k] = {} /\ sent'[k] = FirstWindow
             ELSE acked'[k] = acked[k] /\ sent'[k] = sent[k]
      BY <3>1 DEF TypeOK
    <3>3. \A k \in Kind : InFlight(k)' = FirstWindow \/ InFlight(k)' = InFlight(k)
      BY <3>2 DEF InFlight
    <3>4. WindowBound'
      BY <3>3, FirstWindowFits DEF WindowBound
    <3>5. SentIsPrefix'
      BY <3>2, FirstWindowFits DEF SentIsPrefix
    <3> QED
      BY <3>4, <3>5
  <2> QED
    BY <1>4, <2>1, <2>2 DEF PkChunk, PkChunkComplete
<1>5. ASSUME NEW s \in SessionIds, NEW k \in Kind, NEW got \in SUBSET Chunks, CtAck(s, k, got)
      PROVE  WindowBound' /\ SentIsPrefix'
  <2> DEFINE a       == acked[k] \cup got
             cleared == [i \in Chunks |-> IF i \in a THEN 0 ELSE retries[i]]
             burst   == AckBurst(a, sent[k], cleared)
  <2>1. /\ acked' = [acked EXCEPT ![k] = a]
        /\ sent' = [sent EXCEPT ![k] = SentAfter(burst, sent[k])]
    BY <1>5 DEF CtAck, TypeOK
  <2>2. a \in SUBSET Chunks /\ burst \in SUBSET Chunks
    BY <1>1, BurstsAreChunks
  <2>3. Cardinality(sent[k] \ a) <= Window
    <3>1. sent[k] \ a \subseteq InFlight(k)
      BY DEF InFlight
    <3>2. IsFiniteSet(InFlight(k)) /\ Cardinality(InFlight(k)) \in Nat
      BY <1>1, ChunksFinite DEF InFlight
    <3>3. Cardinality(sent[k] \ a) \in Nat
      BY <1>1, ChunksFinite
    <3>4. Cardinality(sent[k] \ a) <= Cardinality(InFlight(k))
      BY <3>1, <3>2, FS_Subset
    <3>5. Cardinality(InFlight(k)) <= Window
      BY DEF WindowBound
    <3> QED
      BY <3>2, <3>3, <3>4, <3>5, <1>2
  <2>4. \A i \in sent[k], j \in Chunks : j <= i => j \in sent[k]
    BY DEF SentIsPrefix
  <2>5. Cardinality(SentAfter(burst, sent[k]) \ a) <= Window
    BY <1>1, <2>2, <2>3, <2>4, AckWindow
  <2>6. \A i \in SentAfter(burst, sent[k]), j \in Chunks :
           j <= i => j \in SentAfter(burst, sent[k])
    BY <1>1, <2>2, <2>4, PrefixKept
  <2> HIDE DEF burst, a
  <2>7. \A m \in Kind : IF m = k THEN acked'[m] = a /\ sent'[m] = SentAfter(burst, sent[k])
                        ELSE acked'[m] = acked[m] /\ sent'[m] = sent[m]
    BY <2>1 DEF TypeOK
  <2>8. WindowBound'
    BY <2>5, <2>7 DEF WindowBound, InFlight
  <2>9. SentIsPrefix'
    BY <2>6, <2>7 DEF SentIsPrefix
  <2> QED
    BY <2>8, <2>9
<1>6. ASSUME NEW s \in SessionIds, NEW tag, Finish(s, tag)
      PROVE  WindowBound' /\ SentIsPrefix'
  <2>1. CASE FinishRefused(s) \/ FinishAccepted(s, tag)
    <3>1. UNCHANGED <<acked, sent>>
      BY <2>1 DEF FinishRefused, FinishAccepted, streamVars
    <3> QED
      BY <3>1 DEF WindowBound, SentIsPrefix, InFlight
  <2>2. CASE FinishRejected(s, tag)
    BY <2>2, ResetWindow DEF FinishRejected, AbortSession
  <2> QED
    BY <1>6, <2>1, <2>2 DEF Finish
<1>7. ASSUME NEW due \in SUBSET Kind, NEW nudge \in BOOLEAN, Tick(due, nudge)
      PROVE  WindowBound' /\ SentIsPrefix'
  <2> DEFINE d(k) == IF k = Eph THEN Eph \in due ELSE StaDue(due)
  <2>1. acked' = acked
    BY <1>7 DEF Tick
  <2>2. \A k \in Kind : sent'[k] = SentAfter(Pumped(k, d(k)), sent[k])
    BY <1>7, ValueTypes DEF Tick
  <2> HIDE DEF d
  <2>3. \A k \in Kind : Cardinality(SentAfter(Pumped(k, d(k)), sent[k]) \ acked[k]) <= Window
    BY PumpWindow DEF WindowBound, SentIsPrefix
  <2>4. WindowBound'
    BY <2>1, <2>2, <2>3 DEF WindowBound, InFlight
  <2>5. \A k \in Kind : Pumped(k, d(k)) \in SUBSET Chunks
    BY <1>1, BurstsAreChunks
  <2>6. \A k \in Kind : \A i \in SentAfter(Pumped(k, d(k)), sent[k]), j \in Chunks :
           j <= i => j \in SentAfter(Pumped(k, d(k)), sent[k])
    BY <1>1, <2>5, PrefixKept DEF SentIsPrefix
  <2>7. SentIsPrefix'
    BY <2>2, <2>6 DEF SentIsPrefix
  <2> QED
    BY <2>4, <2>7
<1>8. ASSUME \/ TickExpire
             \/ \E due \in SUBSET Kind : TickGiveUp(due)
      PROVE  WindowBound' /\ SentIsPrefix'
  BY <1>8, ResetWindow DEF TickExpire, TickGiveUp, AbortSession
<1>9. ASSUME \/ \E s \in SessionIds, k \in Kind : CtAckIgnored(s, k)
             \/ \E s \in SessionIds : FinishMalformed(s)
             \/ Env
             \/ UNCHANGED vars
      PROVE  WindowBound' /\ SentIsPrefix'
  <2>1. UNCHANGED <<acked, sent>>
    BY <1>9 DEF CtAckIgnored, FinishMalformed, Env, SetArmed, EntropyFails, vars, streamVars
  <2> QED
    BY <2>1 DEF WindowBound, SentIsPrefix, InFlight
<1> QED
  BY <1>3, <1>4, <1>5, <1>6, <1>7, <1>8, <1>9 DEF Next, Ticks

\* Never more than Window chunks of a stream are unacknowledged below its
\* high-water mark, for every size of the window and of a ciphertext, and however
\* ACKs, time-outs and encapsulations interleave: the counts of what is in flight
\* that handle_hqc_ct_ack(), pump_tx() and the handlers that open a stream each
\* keep agree.  The invariant holds because the high-water mark leaves no gaps:
\* a burst can then only add to what is in flight the chunks it counted.
THEOREM WindowInvariant == Spec => []WindowBound
<1>1. Init => WindowBound /\ SentIsPrefix
  <2>1. Window \in Nat /\ Cardinality({}) = 0
    BY SizesAssumption, FS_EmptySet
  <2> QED
    BY <2>1 DEF Init, WindowBound, SentIsPrefix, InFlight
<1>2. TypeOK /\ WindowBound /\ SentIsPrefix /\ [Next]_vars => (WindowBound /\ SentIsPrefix)'
  BY WindowStep
<1> QED
  BY <1>1, <1>2, TypeCorrect, PTL DEF Spec

-----------------------------------------------------------------------------
(* The session.                                                            *)

\* Between two handlers the state is one of these: the others are passed
\* through inside a handler.
RestingState == state \in {"IDLE", "CT_TX", "WAIT_CF", "ACTIVE", "FAIL"}

\* A closed session holds nothing, and a session in progress has an id.
ClosedHoldsNothing ==
    /\ state = "IDLE" \/ sid = NoSid =>
           /\ ~pke
           /\ \A k \in Kind : ct[k] = NoBuf /\ ~ctLen[k] /\ ss[k] = NoBuf
    /\ state \in {"CT_TX", "WAIT_CF", "ACTIVE"} => sid # NoSid

\* A ciphertext with a length has its secret, and its buffer until FINISH.
LengthHasSecret ==
    /\ \A k \in Kind : ctLen[k] => ss[k] # NoBuf
    /\ \A k \in Kind : ctLen[k] /\ state # "ACTIVE" => ct[k] # NoBuf
    /\ state = "ACTIVE" => ~pke /\ \A k \in Kind : ct[k] = NoBuf

\* What the transcript holds while the session is open.
TranscriptSoFar ==
    ~entropyFailed /\ state \in {"CT_TX", "WAIT_CF", "FAIL"} /\ sid # NoSid =>
        /\ Len(th) >= 3
        /\ th[1] = Rec("HELLO", sid)
        /\ th[2] = Rec("CT_S", ss[Sta])
        /\ th[3] = Rec("HELLO_ACK", aead)
        /\ ctLen[Eph] => th[Len(th)] = Rec("CT_E", ss[Eph])

\* Secrets not keyed yet are newer than those the signing key came from.
SecretsNewer ==
    /\ signKey.e <= encs /\ signKey.s <= encs
    /\ \A k \in Kind : ss[k] <= encs
    /\ state # "ACTIVE" =>
           \A k \in Kind : ss[k] # NoBuf => ss[k] > signKey.e /\ ss[k] > signKey.s

SessionInv ==
    /\ RestingState
    /\ AckedBeforeFinish
    /\ KeysOnlyWhenActive
    /\ ClosedHoldsNothing
    /\ LengthHasSecret
    /\ TranscriptSoFar
    /\ SecretsNewer

LEMMA SessionInit == Init => SessionInv
<1> SUFFICES ASSUME Init PROVE SessionInv
  OBVIOUS
<1>1. state = "IDLE" /\ keys = NoKey /\ signKey = NoKey /\ ~pke /\ encs = 0
  BY DEF Init
<1>2. \A k \in Kind : ct[k] = NoBuf /\ ~ctLen[k] /\ ss[k] = NoBuf
  BY DEF Init
<1>3. RestingState /\ AckedBeforeFinish /\ KeysOnlyWhenActive
  BY <1>1 DEF RestingState, AckedBeforeFinish, KeysOnlyWhenActive
<1>4. ClosedHoldsNothing /\ LengthHasSecret /\ TranscriptSoFar
  BY <1>1, <1>2 DEF ClosedHoldsNothing, LengthHasSecret, TranscriptSoFar
<1>5. SecretsNewer
  BY <1>1, <1>2 DEF SecretsNewer, NoKey, NoBuf
<1> QED
  BY <1>3, <1>4, <1>5 DEF SessionInv

\* A session that is reset and left closed.
LEMMA ResetSession ==
    ASSUME TypeOK, SessionInv,
           NEW s, Reset("IDLE", s) \/ Reset("FAIL", NoSid),
           UNCHANGED <<signKey, encs>>
    PROVE  SessionInv'
<1>1. /\ state' = "IDLE" \/ (state' = "FAIL" /\ sid' = NoSid)
      /\ keys' = NoKey /\ ~pke' /\ signKey' = signKey /\ encs' = encs
  BY DEF Reset
<1>2. \A k \in Kind : ct'[k] = NoBuf /\ ~ctLen'[k] /\ ss'[k] = NoBuf
  BY DEF Reset
<1>3. RestingState' /\ AckedBeforeFinish' /\ KeysOnlyWhenActive'
  BY <1>1 DEF RestingState, AckedBeforeFinish, KeysOnlyWhenActive
<1>4. ClosedHoldsNothing' /\ LengthHasSecret' /\ TranscriptSoFar'
  BY <1>1, <1>2 DEF ClosedHoldsNothing, LengthHasSecret, TranscriptSoFar
<1>5. SecretsNewer'
  BY <1>1, <1>2, SizesAssumption DEF SessionInv, SecretsNewer, NoBuf, TypeOK
<1> QED
  BY <1>3, <1>4, <1>5 DEF SessionInv

\* A HELLO that is accepted.
LEMMA AcceptSession ==
    ASSUME TypeOK, SessionInv,
           NEW s \in SessionIds, NEW a \in AeadOffers, HelloAccept(s, a)
    PROVE  SessionInv'
<1>1. /\ state' = "CT_TX" /\ sid' = s /\ aead' = a /\ keys' = NoKey
      /\ signKey' = signKey /\ encs' = encs + 1
      /\ th' = <<Rec("HELLO", s), Rec("CT_S", encs'), Rec("HELLO_ACK", a)>>
  BY DEF HelloAccept
<1>2. \A k \in Kind : /\ ct'[k] = IF k = Sta THEN encs' ELSE NoBuf
                      /\ ctLen'[k] = (k = Sta)
                      /\ ss'[k] = IF k = Sta THEN encs' ELSE NoBuf
  BY DEF HelloAccept
<1>3. encs \in Nat /\ encs' # NoBuf /\ s # NoSid
  BY <1>1, SizesAssumption, ValueTypes DEF TypeOK, NoBuf
<1>4. RestingState' /\ AckedBeforeFinish' /\ KeysOnlyWhenActive'
  BY <1>1 DEF RestingState, AckedBeforeFinish, KeysOnlyWhenActive
<1>5. ClosedHoldsNothing' /\ LengthHasSecret'
  BY <1>1, <1>2, <1>3 DEF ClosedHoldsNothing, LengthHasSecret
<1>6. TranscriptSoFar'
  <2>1. /\ Len(th') >= 3
        /\ th'[1] = Rec("HELLO", s)
        /\ th'[2] = Rec("CT_S", encs')
        /\ th'[3] = Rec("HELLO_ACK", a)
    BY <1>1
  <2>2. ss'[Sta] = encs' /\ ~ctLen'[Eph]
    BY <1>2, ValueTypes
  <2> QED
    BY <1>1, <2>1, <2>2 DEF TranscriptSoFar
<1>7. SecretsNewer'
  <2>1. signKey.e \in Nat /\ signKey.s \in Nat /\ signKey.e <= encs /\ signKey.s <= encs
    BY SizesAssumption DEF TypeOK, KeyMaterial, CtVal, SessionInv, SecretsNewer
  <2>2. \A k \in Kind : ss'[k] = encs + 1 \/ ss'[k] = NoBuf
    BY <1>1, <1>2
  <2> QED
    BY <1>1, <1>3, <2>1, <2>2 DEF SecretsNewer, NoBuf
<1> QED
  BY <1>4, <1>5, <1>6, <1>7 DEF SessionInv

\* A step that leaves the session alone, except that the entropy source may fail.
LEMMA QuietSession ==
    ASSUME SessionInv,
           UNCHANGED <<state, sid, aead, th, pke, ct, ctLen, acked, ss, keys,
                       signKey, encs>>,
           entropyFailed => entropyFailed'
    PROVE  SessionInv'
<1>1. RestingState' /\ AckedBeforeFinish' /\ KeysOnlyWhenActive'
  BY DEF SessionInv, RestingState, AckedBeforeFinish, KeysOnlyWhenActive, BothAcked, AllAcked
<1>2. ClosedHoldsNothing' /\ LengthHasSecret' /\ SecretsNewer'
  BY DEF SessionInv, ClosedHoldsNothing, LengthHasSecret, SecretsNewer
<1>3. TranscriptSoFar'
  BY DEF SessionInv, TranscriptSoFar
<1> QED
  BY <1>1, <1>2, <1>3 DEF SessionInv

\* A session in progress that moves to WAIT_CF, or stays, as its streams are
\* acknowledged.
LEMMA StreamSession ==
    ASSUME SessionInv,
           UNCHANGED <<sid, aead, th, pke, ct, ctLen, ss, keys, signKey, encs,
                       entropyFailed>>,
           sid # NoSid,
           state \notin {"IDLE", "ACTIVE"},
           \/ state' = "WAIT_CF" /\ BothAcked'
           \/ state' = state /\ (BothAcked => BothAcked')
    PROVE  SessionInv'
<1>1. state' \in {"CT_TX", "WAIT_CF", "FAIL"} /\ state \in {"CT_TX", "WAIT_CF", "FAIL"}
  BY DEF SessionInv, RestingState
<1>2. RestingState' /\ KeysOnlyWhenActive'
  BY <1>1 DEF SessionInv, RestingState, KeysOnlyWhenActive
<1>3. AckedBeforeFinish'
  BY <1>1 DEF SessionInv, AckedBeforeFinish
<1>4. ClosedHoldsNothing' /\ LengthHasSecret'
  BY <1>1 DEF SessionInv, ClosedHoldsNothing, LengthHasSecret
<1>5. TranscriptSoFar'
  BY <1>1 DEF SessionInv, TranscriptSoFar
<1>6. SecretsNewer'
  BY <1>1 DEF SessionInv, SecretsNewer
<1> QED
  BY <1>2, <1>3, <1>4, <1>5, <1>6 DEF SessionInv


\* The fragment that completes pk_e, or repeats one of it.
LEMMA EncapsulateSession ==
    ASSUME TypeOK, SessionInv,
           NEW s \in SessionIds, NEW i \in Frags, PkChunkComplete(s, i)
    PROVE  SessionInv'
<1>1. /\ sid # NoSid /\ pke /\ encs' = encs + 1
      /\ UNCHANGED <<sid, aead, pke, keys, signKey>>
  BY ValueTypes DEF PkChunkComplete
<1>2. state \in {"CT_TX", "WAIT_CF", "FAIL"}
  BY <1>1 DEF SessionInv, RestingState, ClosedHoldsNothing, LengthHasSecret
<1>3. keys = NoKey
  BY <1>2 DEF SessionInv, KeysOnlyWhenActive
<1>4. encs \in Nat /\ encs' # NoBuf /\ Junk # NoBuf
  BY <1>1, SizesAssumption DEF TypeOK, NoBuf, Junk
<1>5. /\ signKey.e \in Nat /\ signKey.s \in Nat
      /\ signKey.e <= encs /\ signKey.s <= encs
  BY SizesAssumption DEF TypeOK, KeyMaterial, CtVal, SessionInv, SecretsNewer
<1>6. \A k \in Kind : /\ ss[k] \in Nat /\ ss[k] <= encs
                      /\ ss[k] # NoBuf => ss[k] > signKey.e /\ ss[k] > signKey.s
  BY <1>2, SizesAssumption DEF TypeOK, CtVal, SessionInv, SecretsNewer
<1>7. CASE EncapsulateOk
  <2>1. /\ state' = "CT_TX" /\ entropyFailed' = entropyFailed
        /\ th' = th \o <<Rec("PK", sid), Rec("CT_E", encs')>>
    BY <1>7 DEF EncapsulateOk, ThAddPkAndCt
  <2>2. \A k \in Kind : /\ ct'[k] = IF k = Eph THEN encs' ELSE ct[k]
                        /\ ctLen'[k] = (k = Eph \/ ctLen[k])
                        /\ ss'[k] = IF k = Eph THEN encs' ELSE ss[k]
    BY <1>7 DEF EncapsulateOk, TypeOK
  <2>3. RestingState' /\ AckedBeforeFinish' /\ KeysOnlyWhenActive'
    BY <1>1, <1>3, <2>1 DEF RestingState, AckedBeforeFinish, KeysOnlyWhenActive
  <2>4. ClosedHoldsNothing'
    BY <1>1, <2>1 DEF ClosedHoldsNothing
  <2>5. LengthHasSecret'
    <3>1. \A k \in Kind : ctLen[k] => ss[k] # NoBuf /\ ct[k] # NoBuf
      BY <1>2 DEF SessionInv, LengthHasSecret
    <3> QED
      BY <1>4, <2>1, <2>2, <3>1 DEF LengthHasSecret
  <2>6. TranscriptSoFar'
    <3> SUFFICES ASSUME ~entropyFailed
                 PROVE  /\ Len(th') >= 3
                        /\ th'[1] = Rec("HELLO", sid)
                        /\ th'[2] = Rec("CT_S", ss'[Sta])
                        /\ th'[3] = Rec("HELLO_ACK", aead)
                        /\ th'[Len(th')] = Rec("CT_E", ss'[Eph])
      BY <1>1, <2>1 DEF TranscriptSoFar
    <3>1. /\ Len(th) >= 3
          /\ th[1] = Rec("HELLO", sid)
          /\ th[2] = Rec("CT_S", ss[Sta])
          /\ th[3] = Rec("HELLO_ACK", aead)
      BY <1>1, <1>2 DEF SessionInv, TranscriptSoFar
    <3>2. th \in Seq(ThRecord)
      BY DEF TypeOK
    <3>3. ss'[Sta] = ss[Sta] /\ ss'[Eph] = encs'
      BY <2>2, ValueTypes
    <3>4. /\ Len(th') = Len(th) + 2
          /\ th'[Len(th')] = Rec("CT_E", encs')
          /\ th'[1] = th[1] /\ th'[2] = th[2] /\ th'[3] = th[3]
      BY <2>1, <3>1, <3>2
    <3> QED
      BY <3>1, <3>2, <3>3, <3>4
  <2>7. SecretsNewer'
    BY <1>1, <1>4, <1>5, <1>6, <2>2 DEF SecretsNewer
  <2> QED
    BY <2>3, <2>4, <2>5, <2>6, <2>7 DEF SessionInv
<1>8. CASE EncapsulateFail
  <2>1. /\ state' = "FAIL" /\ th' = Append(th, Rec("PK", sid))
        /\ UNCHANGED <<ctLen, ss>>
    BY <1>8 DEF EncapsulateFail
  <2>2. \A k \in Kind : ct[k] # NoBuf => ct'[k] # NoBuf
    BY <1>4, <1>8 DEF EncapsulateFail, TypeOK
  <2>3. RestingState' /\ AckedBeforeFinish' /\ KeysOnlyWhenActive'
    BY <1>1, <1>3, <2>1 DEF RestingState, AckedBeforeFinish, KeysOnlyWhenActive
  <2>4. ClosedHoldsNothing'
    BY <1>1, <2>1 DEF ClosedHoldsNothing
  <2>5. LengthHasSecret'
    BY <1>2, <2>1, <2>2 DEF SessionInv, LengthHasSecret
  <2>6. TranscriptSoFar'
    <3> SUFFICES ASSUME ~entropyFailed'
                 PROVE  /\ Len(th') >= 3
                        /\ th'[1] = Rec("HELLO", sid)
                        /\ th'[2] = Rec("CT_S", ss[Sta])
                        /\ th'[3] = Rec("HELLO_ACK", aead)
                        /\ ~ctLen[Eph]
      BY <1>1, <2>1 DEF TranscriptSoFar
    <3>1. ct[Eph] = NoBuf /\ ~entropyFailed
      BY <1>8 DEF EncapsulateFail
    <3>2. ~ctLen[Eph]
      BY <1>2, <3>1, ValueTypes DEF SessionInv, LengthHasSecret
    <3>3. /\ Len(th) >= 3
          /\ th[1] = Rec("HELLO", sid)
          /\ th[2] = Rec("CT_S", ss[Sta])
          /\ th[3] = Rec("HELLO_ACK", aead)
      BY <1>1, <1>2, <3>1 DEF SessionInv, TranscriptSoFar
    <3>4. th \in Seq(ThRecord)
      BY DEF TypeOK
    <3>5. /\ Len(th') = Len(th) + 1
          /\ th'[1] = th[1] /\ th'[2] = th[2] /\ th'[3] = th[3]
      BY <2>1, <3>3, <3>4
    <3> QED
      BY <3>2, <3>3, <3>4, <3>5
  <2>7. SecretsNewer'
    BY <1>1, <1>4, <1>5, <1>6, <2>1 DEF SecretsNewer
  <2> QED
    BY <2>3, <2>4, <2>5, <2>6, <2>7 DEF SessionInv
<1> QED
  BY <1>7, <1>8 DEF PkChunkComplete

\* The FINISH that keys the session.
LEMMA AcceptedSession ==
    ASSUME TypeOK, SessionInv, NEW s \in SessionIds, NEW tag, FinishAccepted(s, tag)
    PROVE  SessionInv'
<1>1. /\ state = "WAIT_CF" /\ state' = "ACTIVE" /\ BothAcked /\ sid # NoSid /\ ~pke'
      /\ keys' = [e |-> ss[Eph], s |-> ss[Sta]]
      /\ UNCHANGED <<sid, aead, ctLen, acked, ss, encs>>
  BY ValueTypes DEF FinishAccepted, envVars
<1>2. \A k \in Kind : ct'[k] = NoBuf
  BY DEF FinishAccepted
<1>3. signKey' = signKey \/ signKey' = [e |-> ss[Eph], s |-> ss[Sta]]
  BY DEF FinishAccepted, EnableSigningWithKey
<1>4. RestingState' /\ AckedBeforeFinish' /\ KeysOnlyWhenActive'
  BY <1>1 DEF RestingState, AckedBeforeFinish, KeysOnlyWhenActive, BothAcked, AllAcked
<1>5. ClosedHoldsNothing' /\ LengthHasSecret' /\ TranscriptSoFar'
  BY <1>1, <1>2 DEF SessionInv, ClosedHoldsNothing, LengthHasSecret, TranscriptSoFar
<1>6. SecretsNewer'
  BY <1>1, <1>3, ValueTypes DEF SessionInv, SecretsNewer
<1> QED
  BY <1>4, <1>5, <1>6 DEF SessionInv


LEMMA CtAckSession ==
    ASSUME TypeOK, SessionInv,
           NEW s \in SessionIds, NEW k \in Kind, NEW got \in SUBSET Chunks, CtAck(s, k, got)
    PROVE  SessionInv'
<1>1. /\ ct[k] # NoBuf /\ ctLen[k] /\ sid # NoSid
      /\ UNCHANGED <<sid, aead, th, pke, ct, ctLen, ss, keys, signKey, encs, entropyFailed>>
      /\ acked' = [acked EXCEPT ![k] = acked[k] \cup got]
      /\ IF BothAcked' THEN state' = "WAIT_CF" ELSE state' = state
  BY ValueTypes DEF CtAck, Live, envVars
<1>2. state \notin {"IDLE", "ACTIVE"}
  BY <1>1 DEF SessionInv, ClosedHoldsNothing, LengthHasSecret
<1>3. \A m \in Kind : acked[m] \subseteq acked'[m] /\ acked'[m] \subseteq Chunks
  BY <1>1 DEF TypeOK
<1>4. BothAcked => BothAcked'
  BY <1>1, <1>3, ValueTypes DEF BothAcked, AllAcked
<1> QED
  BY <1>1, <1>2, <1>4, StreamSession

LEMMA TickSession ==
    ASSUME TypeOK, SessionInv, NEW due \in SUBSET Kind, NEW nudge \in BOOLEAN, Tick(due, nudge)
    PROVE  SessionInv'
<1>1. /\ state \notin {"IDLE", "FAIL", "ACTIVE"}
      /\ UNCHANGED <<sid, aead, th, pke, ct, ctLen, acked, ss, keys, signKey, encs,
                     entropyFailed>>
      /\ state' = IF BothAcked /\ state = "CT_TX" THEN "WAIT_CF" ELSE state
  BY DEF Tick, Handshaking, envVars
<1>2. BothAcked' = BothAcked
  BY <1>1 DEF BothAcked, AllAcked
<1>3. sid # NoSid
  BY <1>1 DEF SessionInv, RestingState, ClosedHoldsNothing
<1> QED
  BY <1>1, <1>2, <1>3, StreamSession

LEMMA SessionStep ==
    ASSUME TypeOK, SessionInv, [Next]_vars
    PROVE  SessionInv'
<1>1. ASSUME NEW s \in SessionIds, NEW a \in AeadOffers, Hello(s, a)
      PROVE  SessionInv'
  <2>1. CASE HelloAccept(s, a)
    BY <2>1, AcceptSession
  <2>2. CASE HelloRefuse(s, a)
    BY <2>2, ResetSession DEF HelloRefuse
  <2> QED
    BY <1>1, <2>1, <2>2 DEF Hello
<1>2. ASSUME NEW s \in SessionIds, NEW i \in Frags, PkChunk(s, i)
      PROVE  SessionInv'
  <2>1. CASE PkChunkRefused(s) \/ PkChunkStored(s, i)
    BY <2>1, QuietSession DEF PkChunkRefused, PkChunkStored, streamVars, envVars
  <2>2. CASE PkChunkComplete(s, i)
    BY <2>2, EncapsulateSession
  <2> QED
    BY <1>2, <2>1, <2>2 DEF PkChunk
<1>3. ASSUME NEW s \in SessionIds, NEW tag, Finish(s, tag)
      PROVE  SessionInv'
  <2>1. CASE FinishRefused(s)
    BY <2>1, QuietSession DEF FinishRefused, streamVars, envVars
  <2>2. CASE FinishRejected(s, tag)
    BY <2>2, ResetSession DEF FinishRejected, AbortSession, envVars
  <2>3. CASE FinishAccepted(s, tag)
    BY <2>3, AcceptedSession
  <2> QED
    BY <1>3, <2>1, <2>2, <2>3 DEF Finish
<1>4. ASSUME \/ TickExpire
             \/ \E due \in SUBSET Kind : TickGiveUp(due)
      PROVE  SessionInv'
  BY <1>4, ResetSession DEF TickExpire, TickGiveUp, AbortSession, envVars
<1>5. ASSUME \/ \E s \in SessionIds, k \in Kind : CtAckIgnored(s, k)
             \/ \E s \in SessionIds : FinishMalformed(s)
             \/ Env
             \/ UNCHANGED vars
      PROVE  SessionInv'
  BY <1>5, QuietSession
     DEF CtAckIgnored, FinishMalformed, Env, SetArmed, EntropyFails, vars, streamVars, envVars
<1> QED
  BY <1>1, <1>2, <1>3, <1>4, <1>5, CtAckSession, TickSession DEF Next, Ticks

\* The session invariant is inductive, given that the fields are well typed.
THEOREM SessionInvariant == Spec => []SessionInv
<1>1. TypeOK /\ SessionInv /\ [Next]_vars => SessionInv'
  BY SessionStep
<1> QED
  BY <1>1, SessionInit, TypeCorrect, PTL DEF Spec

\* The controller waits for FINISH, and is active, only with both ciphertexts
\* acknowledged in full, however many chunks they have and however PK_CHUNK,
\* CT_ACK, tick() and aborts interleave.
THEOREM AckedInvariant == Spec => []AckedBeforeFinish
<1>1. SessionInv => AckedBeforeFinish
  BY DEF SessionInv
<1> QED
  BY <1>1, SessionInvariant, PTL

\* Session keys exist exactly while the session is active, and are the keys of
\* the two secrets it holds.
THEOREM KeysInvariant == Spec => []KeysOnlyWhenActive
<1>1. SessionInv => KeysOnlyWhenActive
  BY DEF SessionInv
<1> QED
  BY <1>1, SessionInvariant, PTL

\* Whatever was repeated or lost before, the transcript a FINISH is checked with
\* covers this session's HELLO and the two ciphertexts whose secrets are used.
THEOREM TranscriptInvariant == Spec => []TranscriptBindsSecrets
<1>1. SessionInv => TranscriptBindsSecrets
  <2> SUFFICES ASSUME SessionInv, state = "WAIT_CF", ~entropyFailed
               PROVE  TranscriptBindsSecrets
    BY DEF TranscriptBindsSecrets
  <2>1. sid # NoSid /\ ctLen[Eph]
    BY DEF SessionInv, ClosedHoldsNothing, AckedBeforeFinish, BothAcked, AllAcked
  <2> QED
    BY <2>1 DEF SessionInv, TranscriptSoFar, TranscriptBindsSecrets
<1> QED
  BY <1>1, SessionInvariant, PTL


-----------------------------------------------------------------------------
(* What a step may do to the keys.                                         *)

\* Only an accepted FINISH makes the session active.
LEMMA OnlyFinishActivates ==
    ASSUME TypeOK, SessionInv, [Next]_vars, state # "ACTIVE", state' = "ACTIVE"
    PROVE  \E s \in SessionIds : \E tag : FinishAccepted(s, tag)
<1>1. CASE \E s \in SessionIds, a \in AeadOffers : Hello(s, a)
  BY <1>1 DEF Hello, HelloAccept, HelloRefuse, Reset
<1>2. CASE \E s \in SessionIds, i \in Frags : PkChunk(s, i)
  BY <1>2 DEF PkChunk, PkChunkRefused, PkChunkStored, PkChunkComplete, EncapsulateOk,
              EncapsulateFail
<1>3. CASE \E s \in SessionIds, k \in Kind, got \in SUBSET Chunks : CtAck(s, k, got)
  BY <1>3 DEF CtAck
<1>4. CASE \E s \in SessionIds, tag \in {FinishTag(ss[Eph], ss[Sta], th), BadTag} : Finish(s, tag)
  BY <1>4 DEF Finish, FinishRefused, FinishRejected, AbortSession, Reset
<1>5. CASE Ticks
  BY <1>5 DEF Ticks, TickExpire, TickGiveUp, Tick, AbortSession, Reset
<1>6. CASE \/ \E s \in SessionIds, k \in Kind : CtAckIgnored(s, k)
           \/ \E s \in SessionIds : FinishMalformed(s)
           \/ Env
           \/ UNCHANGED vars
  BY <1>6 DEF CtAckIgnored, FinishMalformed, Env, SetArmed, EntropyFails, vars
<1> QED
  BY <1>1, <1>2, <1>3, <1>4, <1>5, <1>6 DEF Next

\* The secrets an accepted FINISH uses exist and are newer than the signing key's.
LEMMA FinishSecrets ==
    ASSUME TypeOK, SessionInv, NEW s, NEW tag, FinishAccepted(s, tag)
    PROVE  /\ \A k \in Kind : ss[k] # NoBuf
           /\ \A k \in Kind : ss[k] # signKey.e /\ ss[k] # signKey.s
<1>1. state = "WAIT_CF" /\ ctLen[Eph] /\ ctLen[Sta]
  BY DEF FinishAccepted, BothAcked, AllAcked
<1>2. \A k \in Kind : ss[k] # NoBuf
  BY <1>1, ValueTypes DEF SessionInv, LengthHasSecret
<1>3. \A k \in Kind : ss[k] > signKey.e /\ ss[k] > signKey.s
  BY <1>1, <1>2 DEF SessionInv, SecretsNewer
<1>4. \A k \in Kind : ss[k] \in Nat
  BY SizesAssumption DEF TypeOK, CtVal
<1>5. signKey.e \in Nat /\ signKey.s \in Nat
  BY SizesAssumption DEF TypeOK, KeyMaterial, CtVal
<1> QED
  BY <1>2, <1>3, <1>4, <1>5

\* Whenever a session becomes active its two secrets are not those of the session
\* that last set the signing key, however many HELLOs, FINISHes and resets were
\* repeated in between.
THEOREM KeysAreFresh == Spec => FreshKeys
<1>1. ASSUME TypeOK, SessionInv, [Next]_vars, state # "ACTIVE", state' = "ACTIVE"
      PROVE  keys'.e # signKey.e /\ keys'.s # signKey.s
  <2>1. PICK s \in SessionIds : \E tag : FinishAccepted(s, tag)
    BY <1>1, OnlyFinishActivates
  <2>2. PICK tag : FinishAccepted(s, tag)
    BY <2>1
  <2>3. keys' = [e |-> ss[Eph], s |-> ss[Sta]]
    BY <2>2 DEF FinishAccepted
  <2> QED
    BY <1>1, <2>2, <2>3, FinishSecrets, ValueTypes
<1>2. TypeOK /\ SessionInv /\ [Next]_vars =>
        [state # "ACTIVE" /\ state' = "ACTIVE" =>
           keys'.e # signKey.e /\ keys'.s # signKey.s]_vars
  BY <1>1
<1> QED
  BY <1>2, TypeCorrect, SessionInvariant, PTL DEF Spec, FreshKeys

\* The keys of an active session are undisturbed by whatever arrives late or
\* again, and by the timers: only a HELLO takes them away, and nothing replaces
\* them.
THEOREM ActiveIsUndisturbed == Spec => ActiveUndisturbed
<1> DEFINE Undisturbed == \/ state' = "ACTIVE" /\ keys' = keys /\ ss' = ss
                          \/ keys' = NoKey /\ HelloHandled
<1>1. ASSUME TypeOK, SessionInv, [Next]_vars, state = "ACTIVE"
      PROVE  Undisturbed
  <2>1. ~pke /\ \A k \in Kind : ct[k] = NoBuf
    BY <1>1 DEF SessionInv, LengthHasSecret
  <2>2. ASSUME NEW s \in SessionIds, NEW a \in AeadOffers, Hello(s, a)
        PROVE  Undisturbed
    <3>1. keys' = NoKey /\ state' \in {"IDLE", "CT_TX"}
      BY <2>2 DEF Hello, HelloAccept, HelloRefuse, Reset
    <3>2. \/ th' = <<Rec("HELLO", s)>>
          \/ th' = <<Rec("HELLO", s), Rec("HELLO_NACK", a)>>
          \/ th' = <<Rec("HELLO", s), Rec("CT_S", encs'), Rec("HELLO_ACK", a)>>
      BY <2>2 DEF Hello, HelloAccept, HelloRefuse
    <3>3. Len(th') \in 1 .. 3 /\ th'[1] = Rec("HELLO", s)
      BY <3>2
    <3> QED
      BY <3>1, <3>3 DEF HelloHandled, Rec
  <2>3. CASE \E s \in SessionIds, i \in Frags : PkChunk(s, i)
    BY <1>1, <2>1, <2>3 DEF PkChunk, PkChunkRefused, PkChunkStored, PkChunkComplete
  <2>4. CASE \E s \in SessionIds, k \in Kind, got \in SUBSET Chunks : CtAck(s, k, got)
    BY <2>1, <2>4 DEF CtAck, Live
  <2>5. CASE \E s \in SessionIds, tag \in {FinishTag(ss[Eph], ss[Sta], th), BadTag} : Finish(s, tag)
    BY <1>1, <2>5 DEF Finish, FinishRefused, FinishRejected, FinishAccepted
  <2>6. CASE Ticks
    BY <1>1, <2>6 DEF Ticks, TickExpire, TickGiveUp, Tick, Handshaking
  <2>7. CASE \/ \E s \in SessionIds, k \in Kind : CtAckIgnored(s, k)
             \/ \E s \in SessionIds : FinishMalformed(s)
             \/ Env
             \/ UNCHANGED vars
    BY <1>1, <2>7 DEF CtAckIgnored, FinishMalformed, Env, SetArmed, EntropyFails, vars
  <2> QED
    BY <1>1, <2>2, <2>3, <2>4, <2>5, <2>6, <2>7 DEF Next
<1>2. TypeOK /\ SessionInv /\ [Next]_vars => [state = "ACTIVE" => Undisturbed]_vars
  BY <1>1
<1> QED
  BY <1>2, TypeCorrect, SessionInvariant, PTL DEF Spec, ActiveUndisturbed


-----------------------------------------------------------------------------
(* The session implements KeyEstablishment.                                *)

\* what KeyEstablishment sees of the session
Secrets == [e |-> ss[Eph], s |-> ss[Sta]]

\* A session that holds pk_e's buffer, or has a ciphertext in it, is open.
LEMMA OpenPhase ==
    ASSUME SessionInv, state \in {"CT_TX", "WAIT_CF", "FAIL"}, sid # NoSid
    PROVE  SessionPhase = "open" /\ keys = NoKey
BY DEF SessionInv, SessionPhase, KeysOnlyWhenActive

\* Steps that leave keys, secrets and phase alone.
LEMMA PhaseStutters ==
    ASSUME UNCHANGED <<ss, keys, encs>>, SessionPhase' = SessionPhase
    PROVE  UNCHANGED KE!vars
BY DEF KE!vars

\* A session that is reset is closed.
LEMMA ResetCloses ==
    ASSUME NEW s, Reset("IDLE", s) \/ Reset("FAIL", NoSid), encs' = encs
    PROVE  KE!Close
<1>1. SessionPhase' = "closed"
  BY DEF Reset, SessionPhase
<1>2. ss'[Eph] = 0 /\ ss'[Sta] = 0 /\ keys' = [e |-> 0, s |-> 0]
  BY ValueTypes DEF Reset, NoKey, NoBuf
<1> QED
  BY <1>1, <1>2 DEF KE!Close, KE!None

LEMMA HelloRefines ==
    ASSUME NEW s \in SessionIds, NEW a \in AeadOffers, Hello(s, a)
    PROVE  KE!Next
<1>1. CASE HelloAccept(s, a)
  <2>1. SessionPhase' = "open"
    BY <1>1, ValueTypes DEF HelloAccept, SessionPhase
  <2>2. ss'[Eph] = 0 /\ ss'[Sta] = encs' /\ keys' = [e |-> 0, s |-> 0] /\ encs' = encs + 1
    BY <1>1, ValueTypes DEF HelloAccept, NoKey, NoBuf
  <2> QED
    BY <2>1, <2>2 DEF KE!Next, KE!Open, KE!None
<1>2. CASE HelloRefuse(s, a)
  BY <1>2, ResetCloses DEF HelloRefuse, KE!Next
<1> QED
  BY <1>1, <1>2 DEF Hello

LEMMA EncapsulateRefines ==
    ASSUME TypeOK, SessionInv,
           NEW s \in SessionIds, NEW i \in Frags, PkChunkComplete(s, i)
    PROVE  KE!Next
<1>1. /\ sid # NoSid /\ pke /\ encs' = encs + 1 /\ UNCHANGED <<sid, keys>>
  BY ValueTypes DEF PkChunkComplete
<1>2. state \in {"CT_TX", "WAIT_CF", "FAIL"}
  BY <1>1 DEF SessionInv, RestingState, ClosedHoldsNothing, LengthHasSecret
<1>3. SessionPhase = "open"
  BY <1>1, <1>2, OpenPhase
<1>4. state' \in {"CT_TX", "FAIL"}
  BY DEF PkChunkComplete, EncapsulateOk, EncapsulateFail
<1>5. SessionPhase' = "open"
  BY <1>1, <1>4 DEF SessionPhase
<1>6. CASE EncapsulateOk
  <2>1. ss'[Eph] = encs' /\ ss'[Sta] = ss[Sta]
    BY <1>6, ValueTypes DEF EncapsulateOk, TypeOK
  <2>2. Secrets' = [Secrets EXCEPT !.e = encs']
    BY <2>1 DEF Secrets
  <2> QED
    BY <1>1, <1>3, <1>5, <2>2 DEF KE!Next, KE!Renew, Secrets
<1>7. CASE EncapsulateFail
  <2>1. ss' = ss
    BY <1>7 DEF EncapsulateFail
  <2> QED
    BY <1>1, <1>3, <1>5, <2>1 DEF KE!Next, KE!Waste
<1> QED
  BY <1>6, <1>7 DEF PkChunkComplete

LEMMA AcceptedRefines ==
    ASSUME TypeOK, SessionInv, NEW s \in SessionIds, NEW tag, FinishAccepted(s, tag)
    PROVE  KE!Next
<1>1. /\ state = "WAIT_CF" /\ state' = "ACTIVE" /\ sid # NoSid
      /\ keys' = Secrets
      /\ UNCHANGED <<sid, ss, encs>>
  BY ValueTypes DEF FinishAccepted, envVars, Secrets
<1>2. SessionPhase = "open" /\ SessionPhase' = "established"
  <2>1. SessionPhase = "open"
    BY <1>1, OpenPhase
  <2>2. SessionPhase' = "established"
    BY <1>1 DEF SessionPhase
  <2> QED
    BY <2>1, <2>2
<1>3. Secrets.e # 0 /\ Secrets.s # 0
  BY FinishSecrets, ValueTypes DEF Secrets, NoBuf
<1> QED
  BY <1>1, <1>2, <1>3 DEF KE!Next, KE!Establish, Secrets

\* CT_ACK and tick() may move an open session to WAIT_CF, which is open too.
LEMMA StreamsStutter ==
    ASSUME UNCHANGED <<sid, ss, keys, encs>>, sid # NoSid,
           state \notin {"IDLE", "ACTIVE"}, state' = state \/ state' = "WAIT_CF"
    PROVE  UNCHANGED KE!vars
<1>1. SessionPhase' = SessionPhase
  BY DEF SessionPhase
<1> QED
  BY <1>1, PhaseStutters

LEMMA StepRefines ==
    ASSUME TypeOK, SessionInv, [Next]_vars
    PROVE  [KE!Next]_(KE!vars)
<1>1. CASE \E s \in SessionIds, a \in AeadOffers : Hello(s, a)
  BY <1>1, HelloRefines
<1>2. ASSUME NEW s \in SessionIds, NEW i \in Frags, PkChunk(s, i)
      PROVE  [KE!Next]_(KE!vars)
  <2>1. CASE PkChunkRefused(s) \/ PkChunkStored(s, i)
    BY <2>1, PhaseStutters DEF PkChunkRefused, PkChunkStored, SessionPhase, envVars
  <2>2. CASE PkChunkComplete(s, i)
    BY <2>2, EncapsulateRefines
  <2> QED
    BY <1>2, <2>1, <2>2 DEF PkChunk
<1>3. ASSUME NEW s \in SessionIds, NEW k \in Kind, NEW got \in SUBSET Chunks, CtAck(s, k, got)
      PROVE  [KE!Next]_(KE!vars)
  <2>1. /\ ct[k] # NoBuf /\ ctLen[k] /\ sid # NoSid
        /\ UNCHANGED <<sid, ss, keys, encs>>
        /\ state' = state \/ state' = "WAIT_CF"
    BY <1>3, ValueTypes DEF CtAck, Live, envVars
  <2>2. state \notin {"IDLE", "ACTIVE"}
    BY <2>1 DEF SessionInv, ClosedHoldsNothing, LengthHasSecret
  <2> QED
    BY <2>1, <2>2, StreamsStutter
<1>4. ASSUME NEW s \in SessionIds, NEW tag, Finish(s, tag)
      PROVE  [KE!Next]_(KE!vars)
  <2>1. CASE FinishRefused(s)
    BY <2>1, PhaseStutters DEF FinishRefused, SessionPhase, envVars
  <2>2. CASE FinishRejected(s, tag)
    BY <2>2, ResetCloses DEF FinishRejected, AbortSession, envVars, KE!Next
  <2>3. CASE FinishAccepted(s, tag)
    BY <2>3, AcceptedRefines
  <2> QED
    BY <1>4, <2>1, <2>2, <2>3 DEF Finish
<1>5. CASE TickExpire \/ \E due \in SUBSET Kind : TickGiveUp(due)
  BY <1>5, ResetCloses DEF TickExpire, TickGiveUp, AbortSession, envVars, KE!Next
<1>6. ASSUME NEW due \in SUBSET Kind, NEW nudge \in BOOLEAN, Tick(due, nudge)
      PROVE  [KE!Next]_(KE!vars)
  <2>1. /\ state \notin {"IDLE", "FAIL", "ACTIVE"}
        /\ UNCHANGED <<sid, ss, keys, encs>>
        /\ state' = state \/ state' = "WAIT_CF"
    BY <1>6 DEF Tick, Handshaking, envVars
  <2>2. sid # NoSid
    BY <2>1 DEF SessionInv, RestingState, ClosedHoldsNothing
  <2> QED
    BY <2>1, <2>2, StreamsStutter
<1>7. CASE \/ \E s \in SessionIds, k \in Kind : CtAckIgnored(s, k)
           \/ \E s \in SessionIds : FinishMalformed(s)
           \/ Env
           \/ UNCHANGED vars
  BY <1>7, PhaseStutters
     DEF CtAckIgnored, FinishMalformed, Env, SetArmed, EntropyFails, vars, envVars, SessionPhase
<1> QED
  BY <1>1, <1>2, <1>3, <1>4, <1>5, <1>6, <1>7 DEF Next, Ticks

LEMMA InitRefines == Init => KE!Init
<1> SUFFICES ASSUME Init PROVE KE!Init
  OBVIOUS
<1>1. SessionPhase = "closed" /\ encs = 0 /\ keys = [e |-> 0, s |-> 0]
  BY DEF Init, SessionPhase, NoKey, NoBuf
<1>2. ss[Eph] = 0 /\ ss[Sta] = 0
  BY ValueTypes DEF Init, NoBuf
<1> QED
  BY <1>1, <1>2 DEF KE!Init, KE!None

\* The handlers and tick() keep what KeyEstablishment promises, for every number
\* of sessions, fragments, chunks and encapsulations: no interleaving makes the
\* session reuse a secret, key itself from one only, or keep secrets or keys
\* after it is closed.
THEOREM Implementation == Spec => KeysEstablished
<1>1. TypeOK /\ SessionInv /\ [Next]_vars => [KE!Next]_(KE!vars)
  BY StepRefines
<1> QED
  BY <1>1, InitRefines, TypeCorrect, SessionInvariant, PTL DEF Spec, KeysEstablished, KE!Spec

=============================================================================
