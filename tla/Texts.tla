------------------------------- MODULE Texts -------------------------------
(***************************************************************************)
(* STATUSTEXTs: one queue for all links (GCS::send_textv()), served link   *)
(* by link as they have room, oldest dropped when it is full, and pruned.  *)
(* Long texts are queued in chunks.                                        *)
(***************************************************************************)
EXTENDS Integers, Sequences, FiniteSets

CONSTANTS TextLinks,
          QuietLinks,   \* private ones
          Capacity,     \* _status_capacity
          MaxAge,       \* 5 s
          MaxMade, MaxChunks   \* bounds: chunks of all texts, of one

VARIABLES queue,       \* statustext_t: text, chunk, links still to serve, age
          reachable,   \* the links active or streaming
          updated,     \* update_send_has_been_called
          texts,       \* texts so far
          made,        \* history: per link, the chunks meant for it
          shown,       \* history: per link, the chunks it was sent, in order
          lost         \* history: per link, those overwritten or too old

textVars == <<queue, reachable, updated, texts, made, shown, lost>>

ASSUME TextAssumption ==
    /\ QuietLinks \subseteq TextLinks /\ Capacity \in Nat \ {0}
    /\ MaxAge \in Nat /\ MaxMade \in Nat /\ MaxChunks \in Nat \ {0}

TextsInit ==
    /\ queue = <<>> /\ reachable = {} /\ updated = FALSE /\ texts = 0
    /\ made = [l \in TextLinks |-> {}] /\ shown = [l \in TextLinks |-> <<>>]
    /\ lost = [l \in TextLinks |-> {}]

\* The chunks at the places in s of es that link l still waits for.
WaitedFor(l, es, s) == {<<es[i].text, es[i].chunk>> : i \in {j \in s : l \in es[j].to}}

Last(es, n) == SubSeq(es, IF Len(es) > n THEN Len(es) - n + 1 ELSE 1, Len(es))

\* The elements of es at the places in s, in order.
Picked(es, s) ==
    [m \in 1..Cardinality(s) |->
        es[CHOOSE i \in s : Cardinality({j \in s : j < i}) = m - 1]]

(* send_textv(): n chunks for the links of dest that can be reached, or    *)
(* for any link before the first update; each push_force() overwrites the  *)
(* oldest entry of a full queue.                                           *)
SendText(dest, n) ==
    LET to == dest \cap IF updated THEN reachable \ QuietLinks ELSE TextLinks
        all == queue \o [c \in 1..n |-> [text |-> texts + 1, chunk |-> c, to |-> to, age |-> 0]]
    IN
    /\ Cardinality(UNION {made[l] : l \in TextLinks}) + n <= MaxMade
    /\ to # {}
    /\ texts' = texts + 1
    /\ queue' = Last(all, Capacity)
    /\ made' = [l \in TextLinks |-> made[l] \cup
                  {<<texts + 1, c>> : c \in IF l \in to THEN 1..n ELSE {}}]
    /\ lost' = [l \in TextLinks |-> lost[l] \cup WaitedFor(l, all, 1..(Len(all) - Capacity))]
    /\ UNCHANGED <<reachable, updated, shown>>

Reach(l) ==
    /\ l \notin reachable
    /\ reachable' = reachable \cup {l}
    /\ UNCHANGED <<queue, updated, texts, made, shown, lost>>

\* GCS::update_send(), the first time.
UpdateSend ==
    /\ ~updated
    /\ updated' = TRUE
    /\ UNCHANGED <<queue, reachable, texts, made, shown, lost>>

\* The entries link l is served when there is room for k.
Served(l, k) ==
    {i \in 1..Len(queue) : /\ l \in queue[i].to
                           /\ Cardinality({j \in 1..i : l \in queue[j].to}) <= k}

\* An entry stays in the queue until it has been sent wherever it should.
StaysUnlessSent(before, after) == before.to = after.to
Stays(before, after) == after.to # {}

\* prune(): from the head, until one is young enough.
Pruned(es) ==
    LET old(n) == \A i \in 1..n : es[i].age > MaxAge
        n == CHOOSE k \in 0..Len(es) : old(k) /\ (k = Len(es) \/ ~old(k + 1))
    IN SubSeq(es, n + 1, Len(es))

(* service_statustext() on link l, with room for k.  GCS's serves every    *)
(* link so, a step each, under the queue's lock, whenever there is         *)
(* something to serve: from the main loop and, until the vehicle is        *)
(* initialised, from send_textv() itself.                                  *)
ServiceStatustext(l, k) ==
    LET s == Served(l, k)
        after == [i \in 1..Len(queue) |->
                    IF i \in s THEN [queue[i] EXCEPT !.to = @ \ {l}] ELSE queue[i]]
    IN
    /\ s # {}
    /\ shown' = [shown EXCEPT ![l] = @ \o Picked([i \in 1..Len(queue) |->
                                     <<queue[i].text, queue[i].chunk>>], s)]
    /\ queue' = Picked(after, {i \in 1..Len(queue) : Stays(queue[i], after[i])})
    /\ UNCHANGED <<reachable, updated, texts, made, lost>>

Prune ==
    /\ queue # Pruned(queue)
    /\ queue' = Pruned(queue)
    /\ lost' = [l \in TextLinks |-> lost[l] \cup
                  WaitedFor(l, queue, {i \in 1..Len(queue) : queue[i].age > MaxAge})]
    /\ UNCHANGED <<reachable, updated, texts, made, shown>>

TextTick ==
    /\ \E i \in 1..Len(queue) : queue[i].age <= MaxAge
    /\ queue' = [i \in 1..Len(queue) |->
         IF queue[i].age <= MaxAge THEN [queue[i] EXCEPT !.age = @ + 1] ELSE queue[i]]
    /\ UNCHANGED <<reachable, updated, texts, made, shown, lost>>

TextsNext ==
    \/ \E dest \in SUBSET TextLinks, n \in 1..MaxChunks : SendText(dest, n)
    \/ \E l \in TextLinks : Reach(l)
    \/ UpdateSend
    \/ \E l \in TextLinks, k \in 1..Capacity : ServiceStatustext(l, k)
    \/ Prune
    \/ TextTick

TextsSpec == TextsInit /\ [][TextsNext]_textVars

TextsTypeOK ==
    /\ Len(queue) <= Capacity
    /\ \A i \in 1..Len(queue) : /\ queue[i].to \in (SUBSET TextLinks) \ {{}}
                                /\ queue[i].age \in 0..(MaxAge + 1)
    /\ reachable \subseteq TextLinks /\ updated \in BOOLEAN

Earlier(x, y) == x[1] < y[1] \/ (x[1] = y[1] /\ x[2] < y[2])

(* Every link is sent its texts in the order they were made, each chunk    *)
(* once and none that was meant for others, although links are served at   *)
(* their own pace from one queue whose entries move up as others leave;    *)
(* and it has been sent every chunk made for it before one it got, a whole *)
(* text or the end of one no less than the start, unless that was          *)
(* overwritten by the newest Capacity ones or older than 5 s               *)
(* (send_textv(), service_statustext(), prune()).                          *)
TextsInOrder ==
    \A l \in TextLinks : \A j \in 1..Len(shown[l]) :
        /\ shown[l][j] \in made[l]
        /\ \A i \in 1..(j - 1) : Earlier(shown[l][i], shown[l][j])
        /\ \A key \in made[l] : Earlier(key, shown[l][j]) =>
              key \in lost[l] \/ \E i \in 1..(j - 1) : shown[l][i] = key
=============================================================================
