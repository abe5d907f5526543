------------------------------ MODULE Streams ------------------------------
(***************************************************************************)
(* What a link sends by itself (GCS_Common.cpp): the specially handled     *)
(* messages with clocks of their own, the messages pushed once, and the    *)
(* streamed ones, gathered in a few buckets of about the same interval.    *)
(* update_send()'s loop is an action per message sent.  The intervals come *)
(* from the streams' rates, from files read at the start, and from         *)
(* commands.                                                               *)
(*                                                                         *)
(* A clock last_sent_ms is modelled by the time since it, modulo Wrap as   *)
(* the code computes it in 16 bits; a free bucket's is not read.           *)
(***************************************************************************)
EXTENDS Integers, Sequences, FiniteSets

CONSTANTS Streamed,     \* all_stream_entries[], each a sequence of messages
          Special,      \* deferred_message[], in its order
          Forced,       \* MSG_NEXT_PARAM: always sent
          Heartbeat, HeartbeatInterval,   \* MSG_HEARTBEAT, 1 s
          StreamRate,   \* every stream's interval at the start
          FileLines,    \* the lines of the two files: message, interval
          MaxLines,     \* messages kept of them, 128
          NBuckets,     \* 10
          Intervals,    \* the intervals asked for; 0 stops a message
          MaxInterval,  \* 60 s
          ForcedMax,    \* 1 s
          Penalty,      \* what slows the buckets down when it does
          Wrap,         \* 2^16 ms
          MaxLate,      \* ticks in a row a link that keeps up may leave something due
          MaxChanges    \* bound: intervals asked for, slow-downs, pushed messages

VARIABLES initialised,  \* deferred_messages_initialised
          rates,     \* streamRates[], per stream, as intervals
          buckets,   \* ids, interval and time since the last round
          sending, toSend,  \* sending_bucket_id, bucket_message_ids_to_send
          special,   \* per special message: its interval and time since
          cache,     \* next_deferred_message_to_send_cache, or 0
          pushed,    \* pushed_ap_message_ids
          slow,      \* a parameter list, mission upload or full radio slows down
          last,      \* history: the message the latest step sent, or Skipped
          late,      \* history: ticks in a row with something due, to MaxLate + 1
          changes

streamVars == <<initialised, rates, buckets, sending, toSend, special, cache, pushed, slow, last,
                late, changes>>

StreamNumbers == 1..Len(Streamed)
StreamIds == UNION {{Streamed[s][j] : j \in 1..Len(Streamed[s])} : s \in StreamNumbers}
Specials == {Special[i] : i \in 1..Len(Special)}
Buckets == 1..NBuckets
NoBucket == 0
Unused == [ids |-> {}, interval |-> 0, since |-> 0]
NoMessage == "none"
Skipped == "skipped"

ASSUME StreamAssumption ==
    /\ NBuckets \in Nat \ {0} /\ MaxInterval \in Nat \ {0} /\ Penalty \in Nat
    /\ Intervals \subseteq 0..MaxInterval /\ ForcedMax \in 1..MaxInterval
    /\ Wrap \in Nat /\ MaxInterval < Wrap
    /\ Streamed \in Seq(Seq(StreamIds)) /\ Special \in Seq(Specials)
    /\ {StreamRate, HeartbeatInterval} \subseteq 1..MaxInterval
    /\ MaxLines \in Nat /\ MaxLate \in Nat
    /\ FileLines \in Seq([id : StreamIds \cup Specials, interval : 0..MaxInterval])
    /\ {Forced, Heartbeat} \subseteq Specials
    /\ Specials \cap StreamIds = {} /\ {NoMessage, Skipped} \cap (StreamIds \cup Specials) = {}

StreamInit ==
    /\ initialised = FALSE
    /\ rates = [s \in StreamNumbers |-> StreamRate]
    /\ buckets = [i \in Buckets |-> Unused]
    /\ sending = NoBucket /\ toSend = {}
    /\ special = [i \in 1..Len(Special) |-> [interval |-> 0, since |-> 0]]
    /\ cache = 0 /\ pushed = {} /\ slow = FALSE /\ last = NoMessage
    /\ late = 0 /\ changes = 0

\* What is scheduled and what is being sent, as one value.
Now == [b |-> buckets, sending |-> sending, toSend |-> toSend, special |-> special]
Becomes(q) ==
    \E n \in {q} : /\ buckets' = n.b /\ special' = n.special
                   /\ sending' = n.sending /\ toSend' = n.toSend

----------------------------------------------------------------------------
\* get_reschedule_interval_ms()
Reschedule(bucket) ==
    LET ms == bucket.interval + IF slow THEN Penalty ELSE 0
    IN IF ms > MaxInterval THEN MaxInterval ELSE ms

\* ms_before_send_this_bucket, _message
Before(interval, since) == IF since > interval THEN 0 ELSE interval - since

\* The first of the candidates in S that is due soonest.
Soonest(S, before) ==
    CHOOSE i \in S : \A j \in S : before[i] < before[j] \/ (before[i] = before[j] /\ i <= j)

NonEmpty(q) == {i \in Buckets : q.b[i].ids # {}}

\* find_next_bucket_to_send()
FirstBucket(q) ==
    IF NonEmpty(q) = {} THEN [q EXCEPT !.sending = NoBucket, !.toSend = {}]
    ELSE LET i == CHOOSE k \in NonEmpty(q) : \A j \in NonEmpty(q) : k <= j
         IN [q EXCEPT !.sending = i, !.toSend = q.b[i].ids]

FindNextBucket(q) ==
    IF NonEmpty(q) = {} THEN [q EXCEPT !.sending = NoBucket, !.toSend = {}]
    ELSE LET before == [i \in NonEmpty(q) |-> Before(Reschedule(q.b[i]), q.b[i].since)]
             i == Soonest(NonEmpty(q), before)
         IN [q EXCEPT !.sending = i, !.toSend = q.b[i].ids]

\* remove_message_from_bucket()
RemovedOnly(q, i, id) ==
    LET ids == q.b[i].ids \ {id}
    IN [q EXCEPT !.b[i] = IF ids = {} THEN Unused ELSE [@ EXCEPT !.ids = ids],
                 !.toSend = IF i = q.sending THEN @ \ {id} ELSE @]

Removed(q, i, id) ==
    LET r == RemovedOnly(q, i, id)
    IN IF i = q.sending /\ r.toSend = {} THEN FindNextBucket(r) ELSE r

Distance(a, b) == IF a < b THEN b - a ELSE a - b

\* The bucket a message asked for every `interval` is put in: the closest of
\* `old`, from before the message left its own, or a free one of `now`.
Chosen(old, now, interval) ==
    LET used == {i \in Buckets : old[i].interval # 0}
        free == {i \in Buckets : now[i].interval = 0}
        was == free \ used
        off == [i \in used |-> Distance(old[i].interval, interval)]
        fresh == IF was # {} THEN was ELSE free
    IN IF used # {} /\ (free = {} \/ \E i \in used : off[i] = 0) THEN Soonest(used, off)
       ELSE CHOOSE i \in fresh : \A j \in fresh : i <= j

\* set_ap_message_interval() of a streamed message.
Scheduled(q, id, interval) ==
    LET in == {i \in Buckets : id \in q.b[i].ids}
        stays == \E i \in in : q.b[i].interval = interval /\ Chosen(q.b, q.b, interval) = i
        r == IF in = {} THEN q ELSE Removed(q, CHOOSE i \in in : TRUE, id)
        c == Chosen(q.b, r.b, interval)
        s == [r EXCEPT !.b[c] = [ids |-> @.ids \cup {id},
                                 interval |-> IF @.interval = 0 THEN interval ELSE @.interval,
                                 since |-> IF @.interval = 0 THEN 0 ELSE @.since]]
    IN IF interval = 0 THEN r
       ELSE IF stays THEN q
       ELSE IF s.sending = NoBucket THEN [s EXCEPT !.sending = c, !.toSend = s.b[c].ids]
       ELSE s

\* set_ap_message_interval() of a special message; the cached choice stays.
SpecialScheduled(q, id, interval) ==
    LET ms == IF id # Forced THEN interval
              ELSE IF interval = 0 THEN 1
              ELSE IF interval > ForcedMax THEN ForcedMax ELSE interval
        i == CHOOSE k \in 1..Len(Special) : Special[k] = id
    IN [q EXCEPT !.special[i] = [interval |-> ms, since |-> 0]]

\* set_ap_message_interval() (TLC evaluates q once), for several messages in
\* turn, for those of a stream, and for every stream.
WithInterval(q, id, interval) ==
    CHOOSE r \in {IF id \in Specials THEN SpecialScheduled(p, id, interval)
                  ELSE Scheduled(p, id, interval) : p \in {q}} : TRUE

WithIntervals(q, lines) ==
    LET after[n \in 0..Len(lines)] ==
            IF n = 0 THEN q ELSE WithInterval(after[n - 1], lines[n].id, lines[n].interval)
    IN after[Len(lines)]

Lines(s, interval) ==
    [j \in 1..Len(Streamed[s]) |-> [id |-> Streamed[s][j], interval |-> interval]]
WithStream(q, s, interval) == WithIntervals(q, Lines(s, interval))

WithStreams(q) ==
    LET after[s \in 0..Len(Streamed)] ==
            IF s = 0 THEN q ELSE WithStream(after[s - 1], s, rates[s])
    IN after[Len(Streamed)]

\* get_ap_message_interval()
IntervalOf(id) ==
    IF id \in Specials THEN special[CHOOSE k \in 1..Len(Special) : Special[k] = id].interval
    ELSE IF \E i \in Buckets : id \in buckets[i].ids
    THEN buckets[CHOOSE i \in Buckets : id \in buckets[i].ids].interval
    ELSE 0

\* DefaultIntervalsFromFiles: a message once, the last line about it wins.
AddLine(t, line) ==
    LET known == {k \in 1..Len(t) : t[k].id = line.id}
    IN IF known # {} THEN [k \in 1..Len(t) |-> IF k \in known THEN line ELSE t[k]]
       ELSE IF Len(t) = MaxLines THEN t ELSE Append(t, line)

FromFiles ==
    LET read[n \in 0..Len(FileLines)] ==
            IF n = 0 THEN <<>> ELSE AddLine(read[n - 1], FileLines[n])
    IN read[Len(FileLines)]

\* get_default_interval_for_ap_message()
DefaultInterval(id) ==
    IF id = Heartbeat THEN HeartbeatInterval
    ELSE IF initialised /\ \E k \in 1..Len(FromFiles) : FromFiles[k].id = id
    THEN FromFiles[CHOOSE k \in 1..Len(FromFiles) : FromFiles[k].id = id].interval
    ELSE IF id \in StreamIds
    THEN rates[CHOOSE s \in StreamNumbers :
                  \E j \in 1..Len(Streamed[s]) : Streamed[s][j] = id]
    ELSE 0

\* The first update_send(): the streams' rates, the heartbeat, the files.
Initialise ==
    /\ ~initialised
    /\ initialised' = TRUE
    /\ LET beating == WithInterval(WithStreams(Now), Heartbeat, HeartbeatInterval)
       IN Becomes(WithIntervals(beating, FromFiles))
    /\ last' = NoMessage
    /\ UNCHANGED <<rates, cache, pushed, slow, late, changes>>

\* handle_command_set_message_interval(): an interval, or the default one.
SetInterval(id, interval) ==
    /\ changes < MaxChanges
    /\ Becomes(WithInterval(Now, id, interval))
    /\ changes' = changes + 1
    /\ last' = NoMessage
    /\ UNCHANGED <<initialised, rates, cache, pushed, slow, late>>

\* handle_request_data_stream()
RequestDataStream(s, interval) ==
    /\ changes < MaxChanges
    /\ rates' = [rates EXCEPT ![s] = interval]
    /\ Becomes(WithStream(Now, s, interval))
    /\ changes' = changes + 1
    /\ last' = NoMessage
    /\ UNCHANGED <<initialised, cache, pushed, slow, late>>

\* send_message(), as for REQUEST_MESSAGE
SendMessage(id) ==
    /\ changes < MaxChanges
    /\ pushed' = pushed \cup {id}
    /\ changes' = changes + 1
    /\ last' = NoMessage
    /\ UNCHANGED <<initialised, rates, buckets, sending, toSend, special, cache, slow, late>>

SlowDown(b) ==
    /\ changes < MaxChanges
    /\ slow' = b
    /\ changes' = changes + 1
    /\ last' = NoMessage
    /\ UNCHANGED <<initialised, rates, buckets, sending, toSend, special, cache, pushed, late>>

----------------------------------------------------------------------------
\* deferred_message_to_send_index(): the choice is kept until it is sent.
Wanted == {i \in 1..Len(Special) : special[i].interval # 0}
Cached ==
    IF cache # 0 \/ Wanted = {} THEN cache
    ELSE LET before == [i \in Wanted |-> Before(special[i].interval, special[i].since)]
         IN Soonest(Wanted, before)

SpecialDue == Cached # 0 /\ special[Cached].since >= special[Cached].interval

\* next_deferred_bucket_message_to_send()
BucketDue == sending # NoBucket /\ buckets[sending].since >= Reschedule(buckets[sending])

Due == SpecialDue \/ pushed # {} \/ BucketDue

\* The regular clock, which does not try to catch up too much.
Regular(since, interval) ==
    LET on == (since - interval) % Wrap IN IF on > interval THEN 0 ELSE on

SendSpecial ==
    /\ initialised /\ SpecialDue
    /\ last' = Special[Cached]
    /\ special' = [special EXCEPT ![Cached].since =
                     IF special[Cached].interval = 0 THEN 0
                     ELSE Regular(@, special[Cached].interval)]
    /\ cache' = 0
    /\ UNCHANGED <<initialised, rates, buckets, sending, toSend, pushed, slow, late, changes>>

\* do_try_send_message() says it sent a message; in a delay callback it may
\* only say so.
SendPushed(really) ==
    /\ initialised /\ ~SpecialDue /\ pushed # {}
    /\ cache' = Cached
    /\ \E id \in pushed : pushed' = pushed \ {id} /\ last' = IF really THEN id ELSE Skipped
    /\ UNCHANGED <<initialised, rates, buckets, sending, toSend, special, slow, late, changes>>

\* The bucket that has been sent, and the next one.
Finished(q) ==
    FindNextBucket([q EXCEPT !.b[q.sending].since = Regular(@, Reschedule(q.b[q.sending]))])

SendStreamed(really) ==
    /\ initialised /\ ~SpecialDue /\ pushed = {} /\ BucketDue
    /\ cache' = Cached
    /\ \E id \in toSend :
          LET q == [Now EXCEPT !.toSend = @ \ {id}] IN
          /\ last' = IF really THEN id ELSE Skipped
          /\ Becomes(IF q.toSend = {} THEN Finished(q) ELSE q)
    /\ UNCHANGED <<initialised, rates, pushed, slow, late, changes>>

SendOne == Initialise \/ SendSpecial \/ SendPushed(TRUE) \/ SendStreamed(TRUE)
SkipOne == SendPushed(FALSE) \/ SendStreamed(FALSE)

(* Time passes; also while messages are due, whenever the link has no room *)
(* or the loop no time for them (update_send() leaves its loop).           *)
StreamTick ==
    /\ late' = IF ~Due /\ initialised THEN 0 ELSE IF late > MaxLate THEN late ELSE late + 1
    /\ cache' = Cached
    /\ buckets' = [i \in Buckets |-> IF buckets[i].ids = {} THEN Unused
                     ELSE [buckets[i] EXCEPT !.since = (@ + 1) % Wrap]]
    /\ special' = [i \in 1..Len(Special) |-> IF special[i].interval = 0 THEN special[i]
                     ELSE [special[i] EXCEPT !.since = (@ + 1) % Wrap]]
    /\ last' = NoMessage
    /\ UNCHANGED <<initialised, rates, sending, toSend, pushed, slow, changes>>

StreamNext ==
    \/ \E id \in StreamIds \cup Specials :
         \E interval \in Intervals \cup {DefaultInterval(id)} : SetInterval(id, interval)
    \/ \E s \in StreamNumbers, interval \in Intervals : RequestDataStream(s, interval)
    \/ \E id \in StreamIds \cup Specials : SendMessage(id)
    \/ \E b \in BOOLEAN : SlowDown(b)
    \/ SendOne \/ SkipOne \/ StreamTick

StreamSpec == StreamInit /\ [][StreamNext]_streamVars

(* update_send() is called again and again, the link has room for another  *)
(* message at last, and time passes.                                       *)
StreamFairness == WF_streamVars(SendOne) /\ WF_streamVars(StreamTick)

----------------------------------------------------------------------------
StreamTypeOK ==
    /\ initialised \in BOOLEAN /\ rates \in [StreamNumbers -> 0..MaxInterval]
    /\ \A i \in Buckets : /\ buckets[i].ids \subseteq StreamIds
                          /\ buckets[i].interval \in 0..MaxInterval
                          /\ buckets[i].since \in 0..(Wrap - 1)
    /\ sending \in Buckets \cup {NoBucket}
    /\ cache \in 0..Len(Special)
    /\ pushed \subseteq StreamIds \cup Specials

(* However intervals are asked for while a bucket is half sent: a message  *)
(* is in one bucket at most, a bucket without messages is free and the     *)
(* other way round, what is still to be sent is of the bucket being sent,  *)
(* and there is always some unless nothing is streamed: the states where   *)
(* the code panics or reports an internal error (GCS_Common.cpp:1340,      *)
(* 1714, 1766).                                                            *)
BucketsConsistent ==
    /\ \A i, j \in Buckets : i # j => buckets[i].ids \cap buckets[j].ids = {}
    /\ \A i \in Buckets : buckets[i].ids = {} <=> buckets[i].interval = 0
    /\ IF sending = NoBucket THEN toSend = {} /\ \A i \in Buckets : buckets[i].ids = {}
       ELSE toSend # {} /\ toSend \subseteq buckets[sending].ids

(* On a link that keeps up - again and again, after at most MaxLate ticks  *)
(* in a row with something due, it has sent all that was - and once delay  *)
(* callbacks drop no more messages, every message that stays scheduled is  *)
(* sent again and again, in whichever bucket it ends up and whatever was   *)
(* late with it (find_next_bucket_to_send(),                               *)
(* deferred_message_to_send_index()).  A link that is behind for good is   *)
(* promised nothing: all overdue buckets count alike and the first of them *)
(* is taken, so two can keep a third out for ever.                         *)
NothingStarves ==
    <>[](late <= MaxLate) /\ <>[](last # Skipped) =>
    \A id \in StreamIds \cup Specials : <>[](IntervalOf(id) # 0) => []<>(last = id)
=============================================================================
