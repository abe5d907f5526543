--------------------------- MODULE KeyEstablishment ---------------------------
(***************************************************************************)
(* What the controller's end of the handshake promises about keys, without *)
(* messages: a session is open, established or closed; it keys itself from *)
(* two secrets (the one for the static key pk_s and the one for the        *)
(* ephemeral key pk_e); a secret is never used again once it was replaced  *)
(* or the session closed; keys exist only while the session is             *)
(* established, and they are those of its two secrets.                     *)
(*                                                                         *)
(* A secret is the number of its encapsulation; 0 is no secret.            *)
(***************************************************************************)
EXTENDS Naturals

VARIABLES
    phase,      \* closed, open, established
    secrets,    \* the secrets the session holds: [e, s]
    key,        \* the secrets its keys were derived from
    made        \* encapsulations made so far

vars == <<phase, secrets, key, made>>

None == [e |-> 0, s |-> 0]

Init == phase = "closed" /\ secrets = None /\ key = None /\ made = 0

\* A new session, whatever the one before was doing, starts with a new static
\* secret and no ephemeral one.
Open ==
    /\ made' = made + 1
    /\ phase' = "open"
    /\ secrets' = [e |-> 0, s |-> made']
    /\ key' = None

\* A new ephemeral secret.
Renew ==
    /\ phase = "open"
    /\ made' = made + 1
    /\ secrets' = [secrets EXCEPT !.e = made']
    /\ UNCHANGED <<phase, key>>

\* An encapsulation that failed.
Waste ==
    /\ phase = "open"
    /\ made' = made + 1
    /\ UNCHANGED <<phase, secrets, key>>

Establish ==
    /\ phase = "open"
    /\ secrets.e # 0
    /\ secrets.s # 0
    /\ phase' = "established"
    /\ key' = secrets
    /\ UNCHANGED <<secrets, made>>

Close ==
    /\ phase' = "closed"
    /\ secrets' = None
    /\ key' = None
    /\ UNCHANGED made

Next == Open \/ Renew \/ Waste \/ Establish \/ Close

Spec == Init /\ [][Next]_vars

=============================================================================
