------------------------------ MODULE Signing -------------------------------
(***************************************************************************)
(* MAVLink signing state of GCS_Signing.cpp: one key and timestamp per     *)
(* link in memory, one key and timestamp in FRAM, and what a restart, a    *)
(* SETUP_SIGNING, a finished handshake, the GPS and the periodic save do   *)
(* to them.                                                                *)
(*                                                                         *)
(* Time is counted in ticks of one unit of the timestamp.  The MAVLink     *)
(* library (external) advances a link's timestamp for every message signed,*)
(* at most one tick per tick, and takes over the timestamp of a peer that  *)
(* is ahead, however far.  A FRAM write is atomic.                         *)
(***************************************************************************)
EXTENDS Integers

CONSTANTS Links,
          SigningDisabled,   \* links with option MAVLINK2_SIGNING_DISABLED
          SetupKeys,         \* keys a ground station may set up
          SessionKeys,       \* keys handshakes end with, all different
          ZeroKey, NoKeyYet,
          SavePeriod,        \* 30 s
          HeartbeatPeriod,   \* 1 s: how late the periodic save may be
          GpsStart,          \* GPS time at tick 0, as a signing timestamp
          Leads,             \* by how much a peer's timestamp may be ahead
          MaxTicks, MaxBoots, MaxTimestamp \* bounds

VARIABLES fram,      \* struct SigningKey in FRAM
          signer,    \* per link: signing, and whether _channel_status points to it
          armed,
          sinceSave, \* now - last_signing_save_ms
          ticks, boots,
          taken,     \* history: by how much peers moved a link on since the save
          used,      \* history: the last timestamp signed with, per key and link
          saved,     \* history: FRAM has a timestamp this boot used with its key
          forgotten  \* history: the FRAM's key left memory further than a minute
                     \* past what was saved of it

signingVars == <<fram, signer, armed, sinceSave, ticks, boots, taken, used,
                 saved, forgotten>>

\* The "1 minute past the last recorded timestamp".
Margin == 2 * SavePeriod

Keys == SetupKeys \cup SessionKeys \cup {ZeroKey, NoKeyYet}

Off == [on |-> FALSE, key |-> NoKeyYet, ts |-> 0]

ASSUME SigningAssumption ==
    /\ SavePeriod \in Nat /\ HeartbeatPeriod \in Nat
    /\ SavePeriod > HeartbeatPeriod
    /\ SigningDisabled \subseteq Links
    /\ {ZeroKey, NoKeyYet} \cap (SetupKeys \cup SessionKeys) = {}
    /\ ZeroKey # NoKeyYet
    /\ GpsStart \in Nat /\ MaxTicks \in Nat /\ MaxBoots \in Nat
    /\ Leads \subseteq Nat /\ MaxTimestamp \in Nat
    /\ SetupKeys \cap SessionKeys = {}

NoneTaken == [l \in Links |-> 0]

SigningInit ==
    /\ fram = [magic |-> FALSE, key |-> NoKeyYet, ts |-> 0]
    /\ signer = [l \in Links |-> Off]
    /\ armed = FALSE
    /\ sinceSave = 0 /\ ticks = 0 /\ boots = 0
    /\ taken = NoneTaken
    /\ used = [k \in Keys |-> [l \in Links |-> -1]]
    /\ saved = FALSE /\ forgotten = FALSE

(* load_signing_key() of link l with the FRAM contents f.                  *)
LoadedWithoutMargin(l, f) ==
    IF l \in SigningDisabled \/ ~f.magic THEN signer[l]
    ELSE [on |-> ~(f.key = ZeroKey /\ f.ts = 0), key |-> f.key, ts |-> f.ts + 1]

Loaded(l, f) ==
    IF l \in SigningDisabled \/ ~f.magic THEN signer[l]
    ELSE [on |-> ~(f.key = ZeroKey /\ f.ts = 0), key |-> f.key, ts |-> f.ts + Margin]

(* The FRAM's key is signing on some link.                                 *)
FramKeyInUse == \E l \in Links : signer[l].on /\ signer[l].key = fram.key

(* Peers have moved the FRAM's key on by more than the margin leaves room  *)
(* for since the last save.                                                *)
Overtaken == \E l \in Links : /\ signer[l].on /\ signer[l].key = fram.key
                              /\ taken[l] + sinceSave > Margin

(* Memory loses what it knows of the FRAM's key.                           *)
Forget ==
    /\ forgotten' = (forgotten \/ (fram.magic /\ FramKeyInUse /\ (~saved \/ Overtaken)))
    /\ saved' = FALSE
    /\ taken' = NoneTaken

----------------------------------------------------------------------------
(* A tick passes in which messages are signed on the links of `busy`:      *)
(* mavlink_sign_packet(), external.                                        *)
Tick(busy) ==
    /\ ticks < MaxTicks
    /\ sinceSave < SavePeriod + HeartbeatPeriod
    /\ \A l \in busy : signer[l].on
    /\ used' = [k \in Keys |-> [l \in Links |->
                  IF l \in busy /\ signer[l].key = k /\ signer[l].ts > used[k][l]
                  THEN signer[l].ts ELSE used[k][l]]]
    /\ signer' = [l \in Links |->
                    IF l \in busy THEN [signer[l] EXCEPT !.ts = @ + 1] ELSE signer[l]]
    /\ ticks' = ticks + 1 /\ sinceSave' = sinceSave + 1
    /\ UNCHANGED <<fram, armed, boots, taken, saved, forgotten>>

(* A message of a peer that is ahead is accepted, and its timestamp taken  *)
(* over: mavlink_signature_check(), external.                              *)
TakeOver(l, lead) ==
    /\ signer[l].on
    /\ signer[l].ts + lead <= MaxTimestamp
    /\ signer' = [signer EXCEPT ![l].ts = @ + lead]
    /\ taken' = [taken EXCEPT ![l] = @ + lead]
    /\ UNCHANGED <<fram, armed, sinceSave, ticks, boots, used, saved, forgotten>>

(* handle_setup_signing(): a key (new, or the old one to start over) and   *)
(* its first timestamp.  The ground station answers for earlier uses.      *)
SetupSigning(k, t) ==
    /\ ~armed
    /\ fram' = [magic |-> TRUE, key |-> k, ts |-> t]
    /\ signer' = [l \in Links |-> Loaded(l, fram')]
    /\ used' = [used EXCEPT ![k] = [l \in Links |-> -1]]
    /\ taken' = NoneTaken
    /\ saved' = FALSE /\ forgotten' = FALSE
    /\ UNCHANGED <<armed, sinceSave, ticks, boots>>

(* enable_signing_with_key() as the FINISH handler calls it: no FRAM       *)
(* write, timestamp 0, every link.                                         *)
EnableSigningWithKey(k) ==
    /\ ~armed
    /\ \A l \in Links : used[k][l] = -1 /\ signer[l].key # k
    /\ Forget
    /\ signer' = [l \in Links |-> [on |-> TRUE, key |-> k, ts |-> Margin]]
    /\ UNCHANGED <<fram, armed, sinceSave, ticks, boots, used>>

(* save_signing_timestamp(): the largest timestamp of any link goes to     *)
(* FRAM, if there is a key.                                                *)
Timestamps(s) == {s[l].ts : l \in {m \in Links : s[m].on}} \cup {fram.ts}

Newest(s) == {t \in Timestamps(s) : \A u \in Timestamps(s) : u <= t}

SaveTimestampOnce(s) ==
    /\ sinceSave' = 0 /\ taken' = NoneTaken
    /\ \E t \in Newest(s) :
         fram' = IF fram.magic /\ ~saved THEN [fram EXCEPT !.ts = t] ELSE fram
    /\ saved' = (saved \/ (fram.magic /\ FramKeyInUse))

SaveTimestamp(s) ==
    /\ sinceSave' = 0 /\ taken' = NoneTaken
    /\ \E t \in Newest(s) : fram' = IF fram.magic THEN [fram EXCEPT !.ts = t] ELSE fram
    /\ saved' = (saved \/ (fram.magic /\ FramKeyInUse))

(* send_message(MSG_HEARTBEAT) calls it; it saves every 30 s.              *)
HeartbeatSave ==
    /\ sinceSave >= SavePeriod
    /\ SaveTimestamp(signer)
    /\ UNCHANGED <<signer, armed, ticks, boots, used, forgotten>>

(* update_signing_timestamp(): GPS time raises every signing link, and the *)
(* result is saved at once.                                                *)
GpsTime(t) ==
    /\ signer' = [l \in Links |->
         IF signer[l].on /\ signer[l].ts < t
         THEN [signer[l] EXCEPT !.ts = t] ELSE signer[l]]
    /\ SaveTimestamp(signer')
    /\ UNCHANGED <<armed, ticks, boots, used, forgotten>>

(* Power is lost and comes back: init() of every link loads the key.       *)
Restart ==
    /\ boots < MaxBoots
    /\ Forget
    /\ signer' = [l \in Links |->
         IF l \in SigningDisabled \/ ~fram.magic THEN Off ELSE Loaded(l, fram)]
    /\ boots' = boots + 1
    /\ armed' = FALSE /\ sinceSave' = 0
    /\ UNCHANGED <<fram, ticks, used>>

SetArmed ==
    /\ armed' = ~armed
    /\ UNCHANGED <<fram, signer, sinceSave, ticks, boots, taken, used, saved, forgotten>>

SigningNext ==
    \/ \E busy \in SUBSET Links : Tick(busy)
    \/ \E l \in Links, lead \in Leads : TakeOver(l, lead)
    \/ \E k \in SetupKeys \cup {ZeroKey}, t \in {0} : SetupSigning(k, t)
    \/ \E k \in SessionKeys : EnableSigningWithKey(k)
    \/ HeartbeatSave
    \/ GpsTime(GpsStart + ticks)
    \/ Restart
    \/ SetArmed

SigningSpec == SigningInit /\ [][SigningNext]_signingVars

----------------------------------------------------------------------------
SigningTypeOK ==
    /\ fram \in [magic : BOOLEAN, key : Keys, ts : Nat]
    /\ signer \in [Links -> [on : BOOLEAN, key : Keys, ts : Nat]]
    /\ armed \in BOOLEAN
    /\ sinceSave \in 0..(SavePeriod + HeartbeatPeriod)
    /\ ticks \in 0..MaxTicks /\ boots \in 0..MaxBoots
    /\ taken \in [Links -> Nat]
    /\ used \in [Keys -> [Links -> Nat \cup {-1}]]
    /\ saved \in BOOLEAN /\ forgotten \in BOOLEAN

TimestampIsNew ==
    \A l \in Links : signer[l].on => signer[l].ts > used[signer[l].key][l]

(* "use a timestamp 1 minute past the last recorded timestamp.  Combined   *)
(* with saving the key once every 30s this prevents a window for replay    *)
(* attacks" (GCS_Signing.cpp:143): no timestamp is signed with twice under *)
(* one key, whatever restarts, handshakes and GPS updates come between.    *)
ReplayClosed == TimestampIsNew

(* What the code does keep: the same, as long as the key in FRAM never     *)
(* leaves memory (by a restart or a handshake) before the first save of a  *)
(* boot that signed with it, nor when peers have moved it on, since the    *)
(* last save, by more than the minute leaves after the time gone by.       *)
NoTimestampTwice == ~forgotten => TimestampIsNew
=============================================================================
