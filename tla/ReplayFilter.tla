---------------------------- MODULE ReplayFilter ----------------------------
(***************************************************************************)
(* What an anti-replay window promises: of the counters presented under    *)
(* one key, each is let through at most once, and it is let through        *)
(* whenever it is new and not Width or more below the largest so far.      *)
(***************************************************************************)
EXTENDS Integers

CONSTANTS Width, MaxCounter

VARIABLES accepted,   \* the counters let through since the last new key
          verdict     \* the answer to the last counter presented

filterVars == <<accepted, verdict>>

Recent(c) == \A a \in accepted : a - c < Width

FilterInit == accepted = {} /\ verdict = FALSE

Present(c) ==
    /\ verdict' = (c \notin accepted /\ Recent(c))
    /\ accepted' = IF verdict' THEN accepted \cup {c} ELSE accepted

NewKey == accepted' = {} /\ verdict' = FALSE

FilterNext == NewKey \/ \E c \in 0..MaxCounter : Present(c)

FilterSpec == FilterInit /\ [][FilterNext]_filterVars
=============================================================================
