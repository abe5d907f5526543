---------------------------- MODULE ReplayWindow ----------------------------
(***************************************************************************)
(* The explicit message counter and the sliding replay window of           *)
(* experiments/nonce_correction/nonce_ctr.c, with a sender, a receiver and *)
(* a network that may repeat, reorder and lose packets.                    *)
(*                                                                         *)
(* The 64-bit bitmap is the set of its one bits: bit i says that           *)
(* highest - i was seen.  Width is 64 and MaxCounter UINT64_MAX in the     *)
(* code.  A packet of another epoch is under another key and does not      *)
(* authenticate, so it never reaches the window (the caller, external).    *)
(***************************************************************************)
EXTENDS Integers, FiniteSets

CONSTANTS Width,        \* bits of seen_bitmap
          MaxCounter,   \* UINT64_MAX
          MaxEpoch      \* bound: new keys

ASSUME ReplaySizesAssumption ==
    /\ Width \in Nat \ {0}
    /\ MaxCounter \in Nat
    /\ MaxEpoch \in Nat

VARIABLES sender,     \* sender_ctx_t
          window,     \* replay_window_t
          wire,       \* every packet ever sent: the network may deliver any, again
          sends,      \* history: successful calls of sender_ctx_next()
          accepted,   \* history: counters the window let through in its epoch
          verdict     \* what the last check_and_update() returned

senderVars == <<sender, wire, sends>>
windowVars == <<window, accepted, verdict>>
replayVars == <<sender, window, wire, sends, accepted, verdict>>

Counters == 0..MaxCounter
Epochs   == 0..MaxEpoch
Bits     == 0..(Width - 1)
Packet   == [epoch : Epochs, counter : Counters]

SenderCtx(epoch)  == [epoch |-> epoch, next |-> 0, exhausted |-> FALSE]
EmptyWindow(epoch) ==
    [epoch |-> epoch, highest |-> 0, seen |-> {}, initialized |-> FALSE]

ReplayInit ==
    /\ sender = SenderCtx(0)
    /\ window = EmptyWindow(0)
    /\ wire = {} /\ sends = 0
    /\ accepted = {} /\ verdict = FALSE

(* seen_bitmap << shift: the bits pushed past the end are lost.            *)
ShiftLeft(bits, shift) == {b + shift : b \in bits} \cap Bits

----------------------------------------------------------------------------
(* sender_ctx_next(): the last counter is handed out and closes the        *)
(* context.                                                                *)
NextWraps ==
    [sender EXCEPT !.next = IF @ = MaxCounter THEN 0 ELSE @ + 1]

NextUnchecked == [sender EXCEPT !.next = @ + 1]

AfterNext ==
    IF sender.next = MaxCounter
    THEN [sender EXCEPT !.exhausted = TRUE]
    ELSE [sender EXCEPT !.next = @ + 1]

SenderNext ==
    /\ ~sender.exhausted
    /\ wire' = wire \cup {[epoch |-> sender.epoch, counter |-> sender.next]}
    /\ sends' = sends + 1
    /\ sender' = AfterNext
    /\ UNCHANGED windowVars

(* sender_ctx_init() with the next epoch, the only way on for an exhausted *)
(* sender.                                                                 *)
SenderRekey ==
    /\ sender.epoch < MaxEpoch
    /\ sender' = SenderCtx(sender.epoch + 1)
    /\ UNCHANGED <<wire, sends, windowVars>>

(* replay_window_init(): the receiver follows to an epoch of the sender.   *)
WindowRekey ==
    /\ window.epoch < sender.epoch
    /\ window' = EmptyWindow(window.epoch + 1)
    /\ accepted' = {} /\ verdict' = FALSE
    /\ UNCHANGED senderVars

----------------------------------------------------------------------------
(* replay_window_check_and_update(): the four ways out.                    *)
FirstSeen(c) ==
    /\ ~window.initialized
    /\ window' = [window EXCEPT !.initialized = TRUE, !.highest = c, !.seen = {0}]
    /\ verdict' = TRUE

ShiftKeepsOld(c) ==
    /\ window.initialized /\ c > window.highest
    /\ window' = [window EXCEPT !.seen = @ \cup {0}, !.highest = c]
    /\ verdict' = TRUE

Ahead(c) ==
    /\ window.initialized /\ c > window.highest
    /\ LET shift == c - window.highest IN
       window' = [window EXCEPT
         !.seen = (IF shift >= Width THEN {} ELSE ShiftLeft(@, shift)) \cup {0},
         !.highest = c]
    /\ verdict' = TRUE

TooOldLate(diff) == diff > Width

TooOld(diff) == diff >= Width

Refused(c) ==
    /\ window.initialized /\ c <= window.highest
    /\ LET diff == window.highest - c IN TooOld(diff) \/ diff \in window.seen
    /\ verdict' = FALSE
    /\ UNCHANGED window

Reordered(c) ==
    /\ window.initialized /\ c <= window.highest
    /\ LET diff == window.highest - c IN
       /\ ~TooOld(diff) /\ diff \notin window.seen
       /\ window' = [window EXCEPT !.seen = @ \cup {diff}]
    /\ verdict' = TRUE

Check(c) ==
    /\ FirstSeen(c) \/ Ahead(c) \/ Refused(c) \/ Reordered(c)
    /\ accepted' = IF verdict' THEN accepted \cup {c} ELSE accepted
    /\ UNCHANGED senderVars

Receive == \E p \in wire : p.epoch = window.epoch /\ Check(p.counter)

ReplayNext == SenderNext \/ SenderRekey \/ WindowRekey \/ Receive

ReplaySpec == ReplayInit /\ [][ReplayNext]_replayVars

----------------------------------------------------------------------------
WindowTypeOK ==
    /\ sender \in [epoch : Epochs, next : Counters, exhausted : BOOLEAN]
    /\ window \in [epoch : Epochs, highest : Counters, seen : SUBSET Bits,
                   initialized : BOOLEAN]
    /\ wire \subseteq Packet
    /\ sends \in Nat
    /\ accepted \subseteq Counters
    /\ verdict \in BOOLEAN

(* A (direction, epoch, counter) is never handed out twice, also at the    *)
(* end of the counter and after a new key: assemble_nonce() makes a nonce  *)
(* of it, and a nonce used twice under one key gives the keystream away.   *)
NoncesUnique == Cardinality(wire) = sends

(* The bitmap is exactly what it stands for, at every offset: which of the *)
(* counters near the highest were let through.  The strengthening that the *)
(* refinement below rests on.                                              *)
BitmapExact ==
    /\ window.initialized <=> accepted # {}
    /\ window.initialized =>
         /\ window.highest \in accepted
         /\ \A a \in accepted : a <= window.highest
         /\ \A b \in Bits : b \in window.seen <=> window.highest - b \in accepted

(* The window is the ideal filter: no counter passes twice, also by way of *)
(* a jump of Width or more or at the edge of the window, and no new        *)
(* counter inside the window is refused.                                   *)
Filter == INSTANCE ReplayFilter
WindowIsFilter == Filter!FilterSpec
=============================================================================
