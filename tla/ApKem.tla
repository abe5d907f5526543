------------------------------- MODULE ApKem -------------------------------
(***************************************************************************)
(* The wrapper of the KEM (ap_kem.cpp) and its source of randomness        *)
(* (randombytes_linux.c): getrandom(), then /dev/urandom, either of which  *)
(* may deliver a part, be interrupted or fail; then zeroes and a flag that *)
(* stays set until the next start.  The KEM itself is external: an         *)
(* operation that draws random bytes a fixed number of times.              *)
(***************************************************************************)
EXTENDS Integers

CONSTANTS Bytes   \* how many parts a request for random bytes has

VARIABLES buffer,   \* what the caller's buffer holds
          source,   \* where randombytes() is
          failed,   \* s_entropy_failed
          op,       \* the KEM operation under way, and its draws to come
          result,   \* what the last operation returned
          weak      \* history: some draw since the start was not random

ASSUME BytesAssumption == Bytes \in Nat \ {0}

kemVars == <<buffer, source, failed, op, result, weak>>

Part == 1..Bytes
Stale == [i \in Part |-> "stale"]
Drawn == {i \in Part : buffer[i] = "random"}

(* Random bytes drawn by the PQClean operations (external): a decapsulation *)
(* draws none.                                                             *)
Draws == [keypair |-> 3, enc |-> 2, dec |-> 0]
NoOp == [name |-> "none", draws |-> 0]

KemInit ==
    /\ buffer = Stale /\ source = "idle" /\ failed = FALSE
    /\ op = NoOp /\ result = "none" /\ weak = FALSE

----------------------------------------------------------------------------
(* ap_kem_keypair(), ap_kem_enc(), ap_kem_dec(): refused once entropy has  *)
(* failed.                                                                 *)
KemCall(name) ==
    /\ op = NoOp
    /\ IF failed THEN result' = "false" /\ UNCHANGED op
                 ELSE op' = [name |-> name, draws |-> Draws[name]] /\ result' = "none"
    /\ UNCHANGED <<buffer, source, failed, weak>>

(* PQClean asks for random bytes.                                          *)
KemDraw ==
    /\ op.draws > 0 /\ source = "idle"
    /\ buffer' = Stale /\ source' = "getrandom"
    /\ op' = [op EXCEPT !.draws = @ - 1]
    /\ UNCHANGED <<failed, result, weak>>

(* getrandom() or read() returns some of the bytes; EINTR changes nothing. *)
KemGets ==
    /\ source \in {"getrandom", "urandom"}
    /\ \E n \in Part \ Drawn :
         /\ buffer' = [i \in Part |-> IF i <= n THEN "random" ELSE buffer[i]]
         /\ source' = IF n = Bytes THEN "idle" ELSE source
    /\ UNCHANGED <<failed, op, result, weak>>

(* It fails, or makes no progress: the next source goes on with the rest.  *)
KemFallsBack ==
    /\ source = "getrandom"
    /\ source' = "urandom"
    /\ UNCHANGED <<buffer, failed, op, result, weak>>

KemFailsRestZeroed ==
    /\ source = "urandom" /\ source' = "idle"
    /\ buffer' = [i \in Part |-> IF i \in Drawn THEN "random" ELSE "zero"]
    /\ failed' = TRUE /\ weak' = TRUE
    /\ UNCHANGED <<op, result>>

(* Both have failed: the whole buffer is zeroed and the flag is set.       *)
KemFails ==
    /\ source = "urandom" /\ source' = "idle"
    /\ buffer' = [i \in Part |-> "zero"]
    /\ failed' = TRUE /\ weak' = TRUE
    /\ UNCHANGED <<op, result>>

KemReturnsUnchecked ==
    /\ op.name # "none" /\ op.draws = 0 /\ source = "idle"
    /\ op' = NoOp
    /\ result' \in {"true", "false"}
    /\ UNCHANGED <<buffer, source, failed, weak>>

(* The PQClean operation may fail; otherwise the flag decides.             *)
KemReturns ==
    /\ op.name # "none" /\ op.draws = 0 /\ source = "idle"
    /\ op' = NoOp
    /\ result' \in IF failed THEN {"false"} ELSE {"true", "false"}
    /\ UNCHANGED <<buffer, source, failed, weak>>

KemNext ==
    \/ \E name \in {"keypair", "enc", "dec"} : KemCall(name)
    \/ KemDraw \/ KemGets \/ KemFallsBack \/ KemFails \/ KemReturns

KemSpec == KemInit /\ [][KemNext]_kemVars

----------------------------------------------------------------------------
KemTypeOK ==
    /\ buffer \in [Part -> {"stale", "random", "zero"}]
    /\ source \in {"idle", "getrandom", "urandom"}
    /\ failed \in BOOLEAN /\ weak \in BOOLEAN
    /\ op.draws \in 0..3
    /\ result \in {"none", "true", "false"}

(* What randombytes() hands out is random throughout, or zero throughout   *)
(* and flagged: never a mixture of random bytes and what was in memory     *)
(* (randombytes_linux.c:106, "nada de memoria residual").                  *)
RandomOrZero ==
    source = "idle" /\ buffer # Stale =>
        \/ Drawn = Part
        \/ buffer = [i \in Part |-> "zero"] /\ failed

(* No KEM operation returns true once a draw of this start was not random, *)
(* be it its own last draw or one long before (ap_kem.cpp:14, :26).        *)
ResultJustified == result = "true" => ~weak
=============================================================================
