------------------------------ MODULE HqcSession ------------------------------
(***************************************************************************)
(* The flight controller's side of the HQC / KEMTLS-PDK handshake on one   *)
(* MAVLink link: GCS_MAVLINK::HqcSession and its message handlers in       *)
(* libraries/GCS_MAVLink/GCS_KEMTLS.cpp.                                   *)
(*                                                                         *)
(* The autopilot runs the handlers and tick() on one thread, so a handler  *)
(* is one step.  The peer is open: any HELLO, PK_CHUNK, CT_ACK and FINISH  *)
(* may arrive at any time (HqcLink closes the system with a ground         *)
(* station and a network).                                                 *)
(*                                                                         *)
(* Abstractions.                                                           *)
(*  - Time: tick() may find a timer elapsed whenever it runs; HqcTimers    *)
(*    has the clock.                                                       *)
(*  - Cryptography is symbolic: a ciphertext and the secret it carries are *)
(*    the number of the encapsulation that made them, and the transcript   *)
(*    hash th is the sequence of records hashed into it.                   *)
(*  - Offsets are counted in chunks of rx.mtu bytes; an ACK (base + 32-bit *)
(*    SACK mask) is the set of chunks it acknowledges, for 11 PK fragments *)
(*    and 21 CT chunks fit in one mask.                                    *)
(***************************************************************************)
EXTENDS Integers, FiniteSets, Sequences

CONSTANTS
    SessionIds,     \* session ids a HELLO may carry
    AeadOffers,     \* AEAD offers a HELLO may carry (0 none, 1 ChaCha20, 2 AES-CTR)
    PkFrags,        \* fragments of the ephemeral public key  (11 for HQC-128)
    CtChunks,       \* chunks of one ciphertext               (21 for HQC-128)
    Window,         \* rx.window                              (8)
    MaxRetries,     \* rx.max_retries                         (3)
    MaxEncaps       \* bound: encapsulations attempted in a behaviour

ASSUME SessionIdsAssumption == SessionIds \subseteq Nat \ {0}
ASSUME AeadOffersAssumption == AeadOffers \subseteq 0..2
ASSUME SizesAssumption ==
    /\ PkFrags \in Nat \ {0}
    /\ CtChunks \in Nat \ {0}
    /\ Window \in Nat \ {0}
    /\ MaxRetries \in Nat
    /\ MaxEncaps \in Nat

VARIABLES
    state,          \* hqc_.state
    sid,            \* rx.session_id
    aead,           \* hqc_.aead_alg
    th,             \* hqc_.th: the records hashed into the transcript
    pke,            \* is the buffer rx.pke allocated?
    pkeAcked,       \* rx.pke_acked: fragments of pk_e received
    ct,             \* rx.cte, rx.cts: the ciphertext in each buffer
    ctLen,          \* rx.cte_len # 0, rx.cts_len # 0
    acked,          \* rx.cte_acked, rx.cts_acked: chunks acknowledged
    sent,           \* the chunks below rx.cte_sent, rx.cts_sent
    retries,        \* rx.retries: one map, by offset, for both streams
    ss,             \* rx.ss_e, rx.ss_s
    keys,           \* session keys: ms, k_*, iv_*, k_chacha_*
    signKey,        \* signing.secret_key of the links, set at run time
    armed,          \* hal.util->get_soft_armed()
    entropyFailed,  \* ap_kem_entropy_failed(): sticky until reboot
    encs,           \* encapsulations attempted so far
    out             \* messages the last step sent

streamVars == <<ct, ctLen, acked, sent, retries>>
envVars    == <<armed, entropyFailed, encs>>
vars == <<state, sid, aead, th, pke, pkeAcked, streamVars, ss, keys, signKey,
          envVars, out>>

-----------------------------------------------------------------------------
HqcState == {"IDLE", "HELLO_RCVD", "PK_RX", "ENCAP_READY", "ENCAP_DONE",
             "CT_TX", "WAIT_CF", "ACTIVE", "FAIL"}

Eph == 0                            \* ct_kind: ciphertext to pk_e
Sta == 1                            \* ct_kind: ciphertext to the PDK key pk_s
Kind == {Eph, Sta}

Frags  == 0 .. PkFrags - 1
Chunks == 0 .. CtChunks - 1

NoSid == 0                          \* rx.session_id after reset()
NoBuf == 0                          \* a null buffer, a zeroed secret
Junk  == MaxEncaps + 1              \* a buffer no encapsulation filled properly
CtVal == 0 .. MaxEncaps + 1

KeyMaterial == [e : CtVal, s : CtVal]       \* HKDF over ss_e || ss_s
NoKey == [e |-> NoBuf, s |-> NoBuf]

Rec(tag, val) == [tag |-> tag, val |-> val]
ThRecord == [tag : {"HELLO", "HELLO_ACK", "HELLO_NACK", "CT_S", "PK", "CT_E",
                    "FINISH"},
             val : Nat]

\* HMAC(HKDF(ss_e || ss_s, "finished"), th), the tag of a FINISH
FinishTag(e, s, t) == [e |-> e, s |-> s, th |-> t]
BadTag == FinishTag(NoBuf, NoBuf, <<>>)

HelloAck(s, ok, a)     == [type |-> "HELLO_ACK", sid |-> s, ok |-> ok, aead |-> a]
PkAck(s, have)         == [type |-> "PK_ACK", sid |-> s, have |-> have]
CtChunk(s, k, i, c)    == [type |-> "CT_CHUNK", sid |-> s, kind |-> k, idx |-> i, ct |-> c]
Status(s, code)        == [type |-> "STATUS", sid |-> s, code |-> code]
AbortMsg(s)            == [type |-> "ABORT", sid |-> s]

StatusCode == {"OK", "BAD_SEQ", "BAD_LEN", "INTERNAL", "IN_PROGRESS", "REJECTED"}

FcMessage ==
         [type : {"HELLO_ACK"}, sid : Nat, ok : BOOLEAN, aead : 0..2]
    \cup [type : {"PK_ACK"}, sid : Nat, have : SUBSET Frags]
    \cup [type : {"CT_CHUNK"}, sid : Nat, kind : Kind, idx : Chunks, ct : CtVal]
    \cup [type : {"STATUS"}, sid : Nat, code : StatusCode]
    \cup [type : {"ABORT"}, sid : Nat]

-----------------------------------------------------------------------------
AllAcked(k) == ctLen[k] /\ acked[k] = Chunks
BothAcked   == AllAcked(Eph) /\ AllAcked(Sta)

\* chunks of a stream that count as in flight
InFlight(k) == sent[k] \ acked[k]

Live(k) == ct[k] # NoBuf /\ ctLen[k]        \* "if (!ct || len == 0) return"

\* The n smallest elements of S: what a loop that walks the chunks in order
\* visits of S before its count reaches n
Smallest(S, n) == {i \in S : Cardinality({j \in S : j < i}) < n}

\* sent_bytes = max(sent_bytes, off + n), for every chunk of a burst
SentAfter(burst, done) == done \cup {j \in Chunks : \E i \in burst : j <= i}

\* the first window of a fresh ciphertext
FirstWindow == Smallest(Chunks, Window)
FirstBurst(s, k, c) == {CtChunk(s, k, i, c) : i \in FirstWindow}

Bump(r) == (r + 1) % 256                    \* uint8_t

Init ==
    /\ state = "IDLE"
    /\ sid = NoSid
    /\ aead = 1
    /\ th = <<>>
    /\ pke = FALSE
    /\ pkeAcked = {}
    /\ ct = [k \in Kind |-> NoBuf]
    /\ ctLen = [k \in Kind |-> FALSE]
    /\ acked = [k \in Kind |-> {}]
    /\ sent = [k \in Kind |-> {}]
    /\ retries = [i \in Chunks |-> 0]
    /\ ss = [k \in Kind |-> NoBuf]
    /\ keys = NoKey
    /\ signKey = NoKey
    /\ armed = FALSE
    /\ entropyFailed = FALSE
    /\ encs = 0
    /\ out = {}

\* mutant: the secrets and the keys are not zeroed
ResetKeepsSecrets(st, s) ==
    /\ state' = st
    /\ sid' = s
    /\ pke' = FALSE
    /\ pkeAcked' = {}
    /\ ct' = [k \in Kind |-> NoBuf]
    /\ ctLen' = [k \in Kind |-> FALSE]
    /\ acked' = [k \in Kind |-> {}]
    /\ sent' = [k \in Kind |-> {}]
    /\ retries' = [i \in Chunks |-> 0]
    /\ UNCHANGED <<ss, keys>>

\* HqcSession::reset(), up to the fields each caller sets after it
Reset(st, s) ==
    /\ state' = st
    /\ sid' = s
    /\ pke' = FALSE
    /\ pkeAcked' = {}
    /\ ct' = [k \in Kind |-> NoBuf]
    /\ ctLen' = [k \in Kind |-> FALSE]
    /\ acked' = [k \in Kind |-> {}]
    /\ sent' = [k \in Kind |-> {}]
    /\ retries' = [i \in Chunks |-> 0]
    /\ ss' = [k \in Kind |-> NoBuf]
    /\ keys' = NoKey

\* mutant: the state is left as it was
AbortKeepsState(msgs) ==
    /\ Reset(state, NoSid)
    /\ aead' = 1
    /\ th' = <<>>
    /\ out' = msgs
    /\ UNCHANGED <<signKey, envVars>>

\* th_add_abort() and then reset(): the transcript is zeroed with the rest
AbortSession(msgs) ==
    /\ Reset("FAIL", NoSid)
    /\ aead' = 1
    /\ th' = <<>>
    /\ out' = msgs
    /\ UNCHANGED <<signKey, envVars>>

-----------------------------------------------------------------------------
(* HELLO.  Every HELLO first resets the session, in whatever state it is.  *)

HelloAccept(s, a) ==
    /\ encs < MaxEncaps
    /\ ~entropyFailed                       \* ap_kem_enc() succeeds
    /\ encs' = encs + 1
    /\ state' = "CT_TX"
    /\ sid' = s
    /\ aead' = a
    /\ th' = <<Rec("HELLO", s), Rec("CT_S", encs'), Rec("HELLO_ACK", a)>>
    /\ pke' = TRUE
    /\ pkeAcked' = {}
    /\ ct' = [k \in Kind |-> IF k = Sta THEN encs' ELSE NoBuf]
    /\ ctLen' = [k \in Kind |-> k = Sta]
    /\ acked' = [k \in Kind |-> {}]
    /\ sent' = [k \in Kind |-> IF k = Sta THEN FirstWindow ELSE {}]
    /\ retries' = [i \in Chunks |-> 0]
    /\ ss' = [k \in Kind |-> IF k = Sta THEN encs' ELSE NoBuf]
    /\ keys' = NoKey
    /\ out' = {HelloAck(s, TRUE, a)} \cup FirstBurst(s, Sta, encs')
    /\ UNCHANGED <<signKey, armed, entropyFailed>>

\* A HELLO the checks on its fields, the PDK file, malloc() or ap_kem_enc()
\* refuse: everything allocated on the way is freed, the state stays IDLE.
HelloRefuse(s, a) ==
    /\ Reset("IDLE", s)
    /\ aead' = a
    /\ \/ /\ th' = <<Rec("HELLO", s), Rec("HELLO_NACK", a)>>
          /\ out' = {HelloAck(s, FALSE, a)}
          /\ entropyFailed' \in {entropyFailed, TRUE}
       \/ /\ th' = <<Rec("HELLO", s)>>      \* reading the PDK failed half-way
          /\ out' = {Status(s, "INTERNAL")}
          /\ UNCHANGED entropyFailed
    /\ UNCHANGED <<signKey, armed, encs>>

Hello(s, a) == HelloAccept(s, a) \/ HelloRefuse(s, a)

-----------------------------------------------------------------------------
(* PK_CHUNK.  No check on the state: only on the session and the buffer.   *)

PkChunkRefused(s) ==
    /\ s # sid \/ ~pke
    /\ out' = {Status(sid, IF s # sid THEN "BAD_SEQ" ELSE "INTERNAL")}
    /\ UNCHANGED <<state, sid, aead, th, pke, pkeAcked, streamVars, ss, keys,
                   signKey, envVars>>

PkChunkStored(s, i) ==
    /\ s = sid
    /\ pke
    /\ pkeAcked \cup {i} # Frags
    /\ pkeAcked' = pkeAcked \cup {i}
    /\ out' = {PkAck(sid, pkeAcked')}
    /\ UNCHANGED <<state, sid, aead, th, pke, streamVars, ss, keys, signKey,
                   envVars>>

\* mutant: hashes pk_e and its ciphertext only once, though the secret is replaced
ThAddOnce(t, c) ==
    IF \E n \in DOMAIN t : t[n].tag = "CT_E"
    THEN t ELSE t \o <<Rec("PK", sid), Rec("CT_E", c)>>

\* th_add_pk_summary() and th_add_ct_summary(), both again for a repeated fragment
ThAddPkAndCt(t, c) == t \o <<Rec("PK", sid), Rec("CT_E", c)>>

\* start_encap() succeeds, and the first window of the new ciphertext is sent
EncapsulateOk ==
    /\ ~entropyFailed
    /\ state' = "CT_TX"
    /\ th' = ThAddPkAndCt(th, encs')
    /\ ct' = [ct EXCEPT ![Eph] = encs']
    /\ ctLen' = [ctLen EXCEPT ![Eph] = TRUE]
    /\ acked' = [acked EXCEPT ![Eph] = {}]
    /\ sent' = [sent EXCEPT ![Eph] = FirstWindow]
    /\ ss' = [ss EXCEPT ![Eph] = encs']
    /\ out' = {PkAck(sid, pkeAcked')} \cup FirstBurst(sid, Eph, encs')
    /\ UNCHANGED entropyFailed

\* start_encap() fails: malloc() of rx.cte, or ap_kem_enc(), which leaves the
\* buffer alone if the entropy source had failed before and fills it with what
\* cannot be trusted if it fails meanwhile
EncapsulateFail ==
    /\ state' = "FAIL"
    /\ th' = Append(th, Rec("PK", sid))
    /\ \/ ct[Eph] = NoBuf /\ UNCHANGED <<ct, entropyFailed>>
       \/ /\ entropyFailed
          /\ ct' = [ct EXCEPT ![Eph] = IF @ = NoBuf THEN Junk ELSE @]
          /\ UNCHANGED entropyFailed
       \/ /\ ~entropyFailed
          /\ ct' = [ct EXCEPT ![Eph] = Junk]
          /\ entropyFailed' = TRUE
    /\ out' = {PkAck(sid, pkeAcked')}
    /\ UNCHANGED <<ctLen, acked, sent, ss>>

\* The fragment completes pk_e, or repeats one of a complete pk_e: both redo
\* the encapsulation.
PkChunkComplete(s, i) ==
    /\ s = sid
    /\ pke
    /\ pkeAcked \cup {i} = Frags
    /\ encs < MaxEncaps
    /\ encs' = encs + 1
    /\ pkeAcked' = Frags
    /\ EncapsulateOk \/ EncapsulateFail
    /\ UNCHANGED <<sid, aead, pke, retries, keys, signKey, armed>>

PkChunk(s, i) ==
    PkChunkRefused(s) \/ PkChunkStored(s, i) \/ PkChunkComplete(s, i)

-----------------------------------------------------------------------------
(* CT_ACK.  No check on the state either.                                  *)

CtAckIgnored(s, k) ==
    /\ s # sid \/ ~Live(k)
    /\ out' = {}
    /\ UNCHANGED <<state, sid, aead, th, pke, pkeAcked, streamVars, ss, keys,
                   signKey, envVars>>

\* mutant: counts every chunk of the burst, in flight before or not, up to Window
AckBurstFullWindow(a, done, r) ==
    Smallest({i \in Chunks \ a : ~(i \in done /\ r[i] >= MaxRetries)}, Window)

\* chunks an ACK makes the handler send: in order from the first chunk not
\* acknowledged, those in flight included unless their retries are used up,
\* while the window has room
AckBurst(a, done, r) ==
    LET room     == Window - Cardinality(done \ a)
        eligible == {i \in Chunks \ a : ~(i \in done /\ r[i] >= MaxRetries)}
    IN  Smallest(eligible, room)

CtAck(s, k, got) ==
    LET a       == acked[k] \cup got
        cleared == [i \in Chunks |-> IF i \in a THEN 0 ELSE retries[i]]
        burst   == AckBurst(a, sent[k], cleared)
    IN  /\ s = sid
        /\ Live(k)
        /\ acked' = [acked EXCEPT ![k] = a]
        /\ sent' = [sent EXCEPT ![k] = SentAfter(burst, @)]
        /\ out' = {CtChunk(sid, k, i, ct[k]) : i \in burst}
        /\ UNCHANGED <<sid, aead, th, pke, pkeAcked, ct, ctLen, ss, keys, signKey,
                       envVars>>
        /\ IF BothAcked'
           THEN /\ state' = "WAIT_CF"
                /\ retries' = [i \in Chunks |-> 0]
           ELSE /\ state' = state
                /\ retries' = [i \in Chunks |->
                                 IF i \in burst THEN Bump(cleared[i]) ELSE cleared[i]]

-----------------------------------------------------------------------------
(* FINISH.                                                                 *)

\* mutant: a FINISH that comes before the last ACKs is answered as a repeated one
FinishRefusedOk(s) ==
    /\ s # sid \/ state # "WAIT_CF" \/ ~BothAcked
    /\ out' = {Status(sid, IF s # sid THEN "BAD_SEQ" ELSE "OK")}
    /\ UNCHANGED <<state, sid, aead, th, pke, pkeAcked, streamVars, ss, keys,
                   signKey, envVars>>

FinishRefused(s) ==
    /\ s # sid \/ state # "WAIT_CF" \/ ~BothAcked
    /\ out' = {Status(sid, IF s # sid THEN "BAD_SEQ" ELSE "IN_PROGRESS")}
    /\ UNCHANGED <<state, sid, aead, th, pke, pkeAcked, streamVars, ss, keys,
                   signKey, envVars>>

\* a role or a tag length that is not the initiator's
FinishMalformed(s) ==
    /\ s = sid
    /\ state = "WAIT_CF"
    /\ out' \in {{Status(sid, "BAD_SEQ")}, {Status(sid, "BAD_LEN")}}
    /\ UNCHANGED <<state, sid, aead, th, pke, pkeAcked, streamVars, ss, keys,
                   signKey, envVars>>

\* mutants: the tag does not cover the transcript; the secrets in the wrong order
TagOfSecretsOnly(tag) == tag.e = ss[Eph] /\ tag.s = ss[Sta]
TagSwapped(tag) == tag = FinishTag(ss[Sta], ss[Eph], th)

\* verify_finish_and_derive()
TagVerifies(tag) == tag = FinishTag(ss[Eph], ss[Sta], th)

FinishRejected(s, tag) ==
    /\ s = sid
    /\ state = "WAIT_CF"
    /\ BothAcked
    /\ ~TagVerifies(tag)
    /\ AbortSession({Status(sid, "REJECTED")})

\* enable_signing_with_key(k_sign, 0, FALSE): refuses while armed, and its
\* result is not looked at
EnableSigningWithKey(key) == signKey' = IF armed THEN signKey ELSE key

\* mutant: pk_e and the ciphertexts stay allocated
AcceptedKeepsBuffers(s, tag) ==
    /\ s = sid
    /\ state = "WAIT_CF"
    /\ BothAcked
    /\ TagVerifies(tag)
    /\ state' = "ACTIVE"
    /\ keys' = [e |-> ss[Eph], s |-> ss[Sta]]
    /\ EnableSigningWithKey([e |-> ss[Eph], s |-> ss[Sta]])
    /\ th' = Append(th, Rec("FINISH", sid))
    /\ out' = {Status(sid, "OK")}
    /\ UNCHANGED <<sid, aead, pke, pkeAcked, streamVars, ss, envVars>>

FinishAccepted(s, tag) ==
    /\ s = sid
    /\ state = "WAIT_CF"
    /\ BothAcked
    /\ TagVerifies(tag)
    /\ state' = "ACTIVE"
    /\ keys' = [e |-> ss[Eph], s |-> ss[Sta]]
    /\ EnableSigningWithKey([e |-> ss[Eph], s |-> ss[Sta]])
    /\ th' = Append(th, Rec("FINISH", sid))
    /\ pke' = FALSE
    /\ ct' = [k \in Kind |-> NoBuf]
    /\ out' = {Status(sid, "OK")}
    /\ UNCHANGED <<sid, aead, pkeAcked, ctLen, acked, sent, retries, ss, envVars>>

Finish(s, tag) ==
    FinishRefused(s) \/ FinishRejected(s, tag) \/ FinishAccepted(s, tag)

-----------------------------------------------------------------------------
(* tick(), called by update_send().                                        *)

\* mutant: tick() has nothing to do once the ciphertexts are out
HandshakingNotInCtTx == state \notin {"IDLE", "CT_TX", "FAIL", "ACTIVE"}

Handshaking == state \notin {"IDLE", "FAIL", "ACTIVE"}

\* 20 s since the HELLO
TickExpire ==
    /\ Handshaking
    /\ AbortSession({AbortMsg(sid)})

\* pump_stream(): stream k's oldest chunk in flight, if its RTO has elapsed
Stalled(k, due) == IF Live(k) /\ due THEN Smallest(InFlight(k), 1) ELSE {}
Exhausted(k, due) == \E i \in Stalled(k, due) : retries[i] >= MaxRetries

\* what pump_tx() sends of stream k: that chunk, and new ones while the window
\* has room (the chunk sent again counts twice)
Pumped(k, due) ==
    LET room == Window - Cardinality(InFlight(k)) - Cardinality(Stalled(k, due))
    IN  IF Live(k) THEN Stalled(k, due) \cup Smallest(Chunks \ sent[k], room) ELSE {}

\* both streams share t_last_tx: whatever the first sends postpones the second
StaDue(due) == Sta \in due /\ Pumped(Eph, Eph \in due) = {}

\* pump_tx() gives up: the oldest chunk of a stream has used up its retries
TickGiveUp(due) ==
    /\ Handshaking
    /\ Exhausted(Eph, Eph \in due) \/ Exhausted(Sta, StaDue(due))
    /\ AbortSession({AbortMsg(sid)})

\* mutant: the end of the stream is not looked at
NudgedPastEnd(k) == IF Live(k) THEN Smallest((0 .. CtChunks) \ acked[k], 1) ELSE {}

\* kick_acks(): the first chunk of stream k not acknowledged, sent or not
Nudged(k) == IF Live(k) THEN Smallest(Chunks \ acked[k], 1) ELSE {}

Tick(due, nudge) ==
    LET pumped == [k \in Kind |->
                     IF k = Eph THEN Pumped(Eph, Eph \in due) ELSE Pumped(Sta, StaDue(due))]
        resent == Stalled(Eph, Eph \in due) \cup Stalled(Sta, StaDue(due))
    IN  /\ Handshaking
        /\ ~Exhausted(Eph, Eph \in due)
        /\ ~Exhausted(Sta, StaDue(due))
        /\ sent' = [k \in Kind |-> SentAfter(pumped[k], sent[k])]
        /\ retries' = [i \in Chunks |->
                         IF i \in resent THEN Bump(retries[i]) ELSE retries[i]]
        /\ state' = IF BothAcked /\ state = "CT_TX" THEN "WAIT_CF" ELSE state
        /\ out' = UNION {{CtChunk(sid, k, i, ct[k]) :
                            i \in pumped[k] \cup (IF nudge THEN Nudged(k) ELSE {})} :
                         k \in Kind}
        /\ UNCHANGED <<sid, aead, th, pke, pkeAcked, ct, ctLen, acked, ss, keys,
                       signKey, envVars>>

-----------------------------------------------------------------------------
(* The vehicle is armed and disarmed; the entropy source fails outside the *)
(* handshake.                                                              *)

SetArmed ==
    /\ armed' = ~armed
    /\ out' = {}
    /\ UNCHANGED <<state, sid, aead, th, pke, pkeAcked, streamVars, ss, keys,
                   signKey, entropyFailed, encs>>

EntropyFails ==
    /\ ~entropyFailed
    /\ entropyFailed' = TRUE
    /\ out' = {}
    /\ UNCHANGED <<state, sid, aead, th, pke, pkeAcked, streamVars, ss, keys,
                   signKey, armed, encs>>

Ticks == \/ TickExpire
         \/ \E due \in SUBSET Kind : TickGiveUp(due)
         \/ \E due \in SUBSET Kind, nudge \in BOOLEAN : Tick(due, nudge)

Env == SetArmed \/ EntropyFails

Next ==
    \/ \E s \in SessionIds, a \in AeadOffers : Hello(s, a)
    \/ \E s \in SessionIds, i \in Frags : PkChunk(s, i)
    \/ \E s \in SessionIds, k \in Kind : CtAckIgnored(s, k)
    \/ \E s \in SessionIds, k \in Kind, got \in SUBSET Chunks : CtAck(s, k, got)
    \/ \E s \in SessionIds, tag \in {FinishTag(ss[Eph], ss[Sta], th), BadTag} : Finish(s, tag)
    \/ \E s \in SessionIds : FinishMalformed(s)
    \/ Ticks
    \/ Env

Spec == Init /\ [][Next]_vars

-----------------------------------------------------------------------------
(* Properties.                                                             *)

\* Every field holds a value of its kind.
TypeOK ==
    /\ state \in HqcState
    /\ sid \in Nat
    /\ aead \in 0..2
    /\ th \in Seq(ThRecord)
    /\ pke \in BOOLEAN
    /\ pkeAcked \subseteq Frags
    /\ ct \in [Kind -> CtVal]
    /\ ctLen \in [Kind -> BOOLEAN]
    /\ acked \in [Kind -> SUBSET Chunks]
    /\ sent \in [Kind -> SUBSET Chunks]
    /\ retries \in [Chunks -> 0 .. 255]
    /\ ss \in [Kind -> CtVal]
    /\ keys \in KeyMaterial
    /\ signKey \in KeyMaterial
    /\ armed \in BOOLEAN
    /\ entropyFailed \in BOOLEAN
    /\ encs \in 0 .. MaxEncaps
    /\ out \subseteq FcMessage

\* The controller waits for FINISH, and is active, only when the peer has
\* acknowledged every chunk of both ciphertexts.  handle_hqc_ct_ack() and
\* pump_tx() set WAIT_CF; handlers that touch the ACK vectors without a check
\* on the state (a late PK_CHUNK, a late CT_ACK) must not undo it silently.
AckedBeforeFinish == state \in {"WAIT_CF", "ACTIVE"} => BothAcked

\* At most Window chunks of a stream are unacknowledged below its high-water
\* mark, however ACKs, time-outs and encapsulations interleave: the reason
\* handle_hqc_ct_ack(), pump_tx() and the handlers that open a stream each keep
\* their own count of what is in flight.
WindowBound == \A k \in Kind : Cardinality(InFlight(k)) <= Window

\* When FINISH can be checked, the transcript it is checked against starts with
\* this session's HELLO and the summary of the static ciphertext whose secret
\* rx.ss_s holds, and ends with the summary of the ephemeral one whose secret
\* rx.ss_e holds.  (Once the entropy source has failed, CT_ACK may bring a
\* failed session here without it: see FailNotResumed.)
TranscriptBindsSecrets ==
    state = "WAIT_CF" /\ ~entropyFailed =>
        /\ th[1] = Rec("HELLO", sid)
        /\ th[2] = Rec("CT_S", ss[Sta])
        /\ th[3] = Rec("HELLO_ACK", aead)
        /\ th[Len(th)] = Rec("CT_E", ss[Eph])

\* Session keys exist exactly while the session is active, and are those of the
\* two secrets it holds: an abort, a refused HELLO or a rejected FINISH leaves
\* none behind for mavlink_get_crypt_config() to hand out.
KeysOnlyWhenActive ==
    keys = IF state = "ACTIVE" THEN [e |-> ss[Eph], s |-> ss[Sta]] ELSE NoKey

\* a step that handled a HELLO: the transcript starts again with it
HelloHandled ==
    /\ state' \in {"IDLE", "CT_TX"}
    /\ Len(th') \in 1 .. 3
    /\ th'[1].tag = "HELLO"

\* Only a HELLO takes the keys of an active session away, and nothing replaces
\* them: late or repeated PK_CHUNK, CT_ACK and FINISH messages of the handshake
\* that made them, or the timers of tick(), do not disturb it.
ActiveUndisturbed ==
    [][state = "ACTIVE" =>
         \/ state' = "ACTIVE" /\ keys' = keys /\ ss' = ss
         \/ keys' = NoKey /\ HelloHandled]_vars

\* A session that becomes active has keys that neither secret of the session
\* that last set the signing key went into: a HELLO and a FINISH received again,
\* or secrets a reset left behind, do not bring old keys (and the counters that
\* start again with them) back.
FreshKeys ==
    [][state # "ACTIVE" /\ state' = "ACTIVE" =>
         keys'.e # signKey.e /\ keys'.s # signKey.s]_vars

\* The session as KeyEstablishment sees it: open while it holds what a FINISH
\* could still be checked with.  A failed start_encap() leaves it so, every other
\* way into FAIL resets it.
SessionPhase ==
    CASE state = "ACTIVE" -> "established"
      [] state = "IDLE" \/ (state # "ACTIVE" /\ sid = NoSid) -> "closed"
      [] OTHER -> "open"

KE == INSTANCE KeyEstablishment WITH
        phase <- SessionPhase, secrets <- [e |-> ss[Eph], s |-> ss[Sta]],
        key <- keys, made <- encs

\* The handlers and tick() keep that promise: no interleaving of messages, time-outs,
\* failures and resets makes the session reuse a secret, key itself from one
\* only, or keep secrets or keys after it is closed.
KeysEstablished == KE!Spec

-----------------------------------------------------------------------------
(* Statements of the code's comments that the code does not keep.          *)

\* "TH += PK_E digest (bind the exact public key content)" (GCS_KEMTLS.cpp:777):
\* the transcript summarises the reassembled key once.
OnePkSummary == Cardinality({n \in DOMAIN th : th[n].tag = "PK"}) <= 1

\* ap_kem.cpp:4-9: when the entropy source fails, the operation returns false
\* and the session goes to FAIL "en vez de seguir adelante": it does not go back
\* to waiting for the FINISH.
FailNotResumed == [][state = "FAIL" => state' # "WAIT_CF"]_vars

\* "Success: bind FINISH and enable MAVLink signing" (GCS_KEMTLS.cpp:926): an
\* active session signs with its own key.
ActiveSigns == state = "ACTIVE" => signKey = keys

=============================================================================
