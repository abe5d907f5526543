------------------------------ MODULE MC_Keys ------------------------------
(***************************************************************************)
(* The parts that keep keys safe over time, for TLC: the signing key in    *)
(* FRAM, the key file, the KEM's randomness and the replay window.  They   *)
(* share nothing, so a behaviour is one of one of them, the others at      *)
(* rest: `part` says which.                                                *)
(***************************************************************************)
EXTENDS Signing, PdkFile, ApKem, ReplayWindow

CONSTANTS Parts   \* the parts a run looks at

VARIABLES part

vars == <<part, signingVars, pdkVars, kemVars, replayVars>>

Init ==
    /\ part \in Parts
    /\ SigningInit /\ PdkInit /\ KemInit /\ ReplayInit

Next ==
    /\ UNCHANGED part
    /\ \/ /\ part = "signing"
          /\ SigningNext
          /\ UNCHANGED <<pdkVars, kemVars, replayVars>>
       \/ /\ part = "pdk"
          /\ PdkNext
          /\ UNCHANGED <<signingVars, kemVars, replayVars>>
       \/ /\ part = "kem"
          /\ KemNext
          /\ UNCHANGED <<signingVars, pdkVars, replayVars>>
       \/ /\ part = "replay"
          /\ ReplayNext
          /\ UNCHANGED <<signingVars, pdkVars, kemVars>>

Spec == Init /\ [][Next]_vars

(* Every variable of the four parts holds a value of its kind, and the     *)
(* nonce counter never passes its last value.                              *)
KeysTypeOK == SigningTypeOK /\ PdkTypeOK /\ KemTypeOK /\ WindowTypeOK
=============================================================================
