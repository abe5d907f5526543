------------------------------ MODULE PkBuffer ------------------------------
(***************************************************************************)
(* The arithmetic under HqcSession's fragments: rx.pke as bytes, the       *)
(* offsets and counts of HQC_PK_CHUNK, the base and the mask of HQC_PK_ACK *)
(* (handle_hqc_pk_chunk(), GCS_KEMTLS.cpp).  The ground station sends      *)
(* fragments of the MTU it proposed, the last one shorter, in any order    *)
(* and any number of times.                                                *)
(***************************************************************************)
EXTENDS Integers, FiniteSets

CONSTANTS PkLens, Mtus,   \* bounds: lengths of the key and MTUs agreed on
          MaskBits        \* chunks the mask tells of: 32

VARIABLES pkLen, mtu,
          pke,         \* the bytes of the key at hand, by their place
          pkeAcked,    \* rx.pke_acked
          pkeRcvd,     \* rx.pke_rcvd
          pkAck,       \* the latest HQC_PK_ACK: its base and mask, or none
          encapsulated \* start_encap() was called

pkVars == <<pkLen, mtu, pke, pkeAcked, pkeRcvd, pkAck, encapsulated>>

ASSUME PkAssumption ==
    PkLens \subseteq Nat \ {0} /\ Mtus \subseteq Nat \ {0} /\ MaskBits \in Nat

PkInit ==
    /\ pkLen \in PkLens /\ mtu \in Mtus
    /\ pke = {} /\ pkeAcked = {} /\ pkeRcvd = 0
    /\ pkAck = [base |-> 0, mask |-> {}]
    /\ encapsulated = FALSE

PkChunks == (pkLen + mtu - 1) \div mtu

\* A fragment as a ground station cuts it.
Fragment(k) == [offset |-> k * mtu,
                count |-> IF (k + 1) * mtu <= pkLen THEN mtu ELSE pkLen - k * mtu]

Fragments == {Fragment(k) : k \in {j \in 0..(pkLen - 1) : j * mtu < pkLen}}

Fits(m) ==
    /\ m.count # 0 /\ m.count <= mtu
    /\ m.offset + m.count <= pkLen
    /\ m.offset % mtu = 0 \/ m.offset + m.count = pkLen
    /\ m.offset \div mtu < PkChunks

\* The base: the first fragment missing, as the loop finds it.
BaseCounted(acked) == Cardinality(acked)
BaseFrom(acked) ==
    CHOOSE b \in (pkeRcvd \div mtu)..PkChunks :
        /\ \A k \in (pkeRcvd \div mtu)..(b - 1) : k \in acked
        /\ b = PkChunks \/ b \notin acked

HandleChunk(m) ==
    /\ Fits(m)
    /\ LET k == m.offset \div mtu
           base == BaseFrom(pkeAcked')
           bytes == IF base * mtu > pkLen THEN pkLen ELSE base * mtu
       IN
       /\ pkeAcked' = pkeAcked \cup {k}
       /\ pke' = IF k \in pkeAcked THEN pke ELSE pke \cup m.offset..(m.offset + m.count - 1)
       /\ pkeRcvd' = bytes
       /\ pkAck' = [base |-> bytes,
                    mask |-> {i \in 0..(MaskBits - 1) :
                                base + i < PkChunks /\ base + i \in pkeAcked'}]
       /\ encapsulated' = (bytes >= pkLen)
    /\ UNCHANGED <<pkLen, mtu>>

PkNext == \E m \in Fragments : HandleChunk(m)

PkSpec == PkInit /\ [][PkNext]_pkVars

PkTypeOK ==
    /\ pke \subseteq 0..(pkLen - 1)
    /\ pkeAcked \subseteq 0..(PkChunks - 1)
    /\ pkeRcvd \in 0..pkLen

(* Whether or not the length of the key is a multiple of the MTU, in       *)
(* whatever order the fragments come and however often: no fragment is     *)
(* refused, the key is encapsulated to exactly when every byte of it has   *)
(* arrived, and an acknowledgement tells of bytes that have: all of those  *)
(* before its base, and the chunks in its mask, and of the first gap.      *)
PkWhole ==
    /\ \A m \in Fragments : Fits(m)
    /\ encapsulated <=> pke = 0..(pkLen - 1)
    /\ 0..(pkAck.base - 1) \subseteq pke
    /\ pkAck.base < pkLen => pkAck.base \notin pke
    /\ \A i \in pkAck.mask :
          LET f == Fragment(pkAck.base \div mtu + i)
          IN f.offset..(f.offset + f.count - 1) \subseteq pke
=============================================================================
