----------------------------- MODULE ParamQueue -----------------------------
(***************************************************************************)
(* Parameters over MAVLink, GCS_Param.cpp: the list each link streams from *)
(* a cursor of its own, and the reads that go through one request queue    *)
(* and one reply queue of all links, between the main thread and the IO    *)
(* thread.  A parameter is its place in the order AP_Param walks them; one *)
(* of them enables a group that is hidden while it is FALSE.  The          *)
(* PARAM_VALUEs with index -1 that echo or announce a set change no state. *)
(***************************************************************************)
EXTENDS Integers, Sequences, FiniteSets

CONSTANTS Links,
          NParams,      \* parameters, in AP_Param's order
          Enable,       \* the parameter with AP_PARAM_FLAG_ENABLE
          Group,        \* the parameters it enables
          ReadOnly,     \* parameters a PARAM_SET may not write
          RequestLength, ReplyLength,  \* of the two queues: 20 and 5
          Burst,        \* messages in one call: 5
          MaxReads,     \* bound: PARAM_REQUEST_READs
          MaxCommands   \* bound: lists asked for and PARAM_SETs

VARIABLES value,     \* the parameters
          paramRequests, paramReplies,
          inHand,    \* what param_io_timer() has read and not yet pushed
          list,      \* per link: the queued parameter, its index, the count
          asks,      \* history: the reads asked for, what each may be told
          answers,   \* history: what each was told
          listed,    \* history: per link, what its latest list has sent
          flipped,   \* history: per link, the group changed during that list
          commands   \* lists asked for and PARAM_SETs

paramVars == <<value, paramRequests, paramReplies, inHand, list, asks, answers, listed,
               flipped, commands>>

Params == 1..NParams
Done == NParams + 1   \* _queued_parameter = nullptr

ASSUME ParamAssumption ==
    /\ NParams \in Nat /\ Enable \in Params \ Group /\ Group \subseteq Params
    /\ ReadOnly \subseteq Params
    /\ RequestLength \in Nat \ {0} /\ ReplyLength \in Nat \ {0} /\ Burst \in Nat \ {0}

Visible(v) == {p \in Params : p \in Group => v[Enable]}

\* AP_Param::next_scalar() after p, first() after 0; count_parameters().
NextScalar(v, p) ==
    CHOOSE q \in (p + 1)..Done :
        /\ q = Done \/ q \in Visible(v)
        /\ \A o \in (p + 1)..(q - 1) : o \notin Visible(v)

IndexOf(v, p) == Cardinality({q \in Visible(v) : q < p})

\* find_by_index() for a number, find() for a name: the parameter, if any.
Named(v, key) ==
    {p \in Params : IF key.by = "name" THEN p = key.n
                    ELSE p \in Visible(v) /\ IndexOf(v, p) = key.n}

Keys == [by : {"name"}, n : Params] \cup [by : {"index"}, n : 0..(NParams - 1)]

Nothing == [ask |-> 0, param |-> 0, value |-> FALSE]

ParamInit ==
    /\ value \in [Params -> BOOLEAN]
    /\ paramRequests = <<>> /\ paramReplies = <<>> /\ inHand = Nothing
    /\ list = [l \in Links |-> [at |-> Done, index |-> 0, count |-> 0]]
    /\ asks = <<>> /\ answers = <<>>
    /\ listed = [l \in Links |-> <<>>]
    /\ flipped = [l \in Links |-> TRUE]
    /\ commands = 0

----------------------------------------------------------------------------
(* The main thread's handlers.                                             *)

\* handle_param_request_list(): from the first parameter, whatever was left.
StartKeepsIndex(l) == [at |-> NextScalar(value, 0), index |-> list[l].index,
                       count |-> Cardinality(Visible(value))]
Start(l) == [at |-> NextScalar(value, 0), index |-> 0, count |-> Cardinality(Visible(value))]

RequestList(l) ==
    /\ commands < MaxCommands
    /\ commands' = commands + 1
    /\ list' = [list EXCEPT ![l] = Start(l)]
    /\ listed' = [listed EXCEPT ![l] = <<>>]
    /\ flipped' = [flipped EXCEPT ![l] = FALSE]
    /\ UNCHANGED <<value, paramRequests, paramReplies, inHand, asks, answers>>

\* What a read of key may be told now: the parameter and its value.
Current(v, key) == {<<p, v[p]>> : p \in Named(v, key)}

\* handle_param_request_read(): dropped if the queue is full.
RequestRead(l, key) ==
    /\ Len(asks) < MaxReads
    /\ Len(paramRequests) < RequestLength
    /\ asks' = Append(asks, [link |-> l, key |-> key, may |-> Current(value, key)])
    /\ answers' = Append(answers, <<>>)
    /\ paramRequests' = Append(paramRequests, [link |-> l, key |-> key, ask |-> Len(asks) + 1])
    /\ UNCHANGED <<value, paramReplies, inHand, list, listed, flipped, commands>>

\* handle_param_set(): an unknown or read-only parameter is left as it is.
ParamSet(p, b) ==
    /\ commands < MaxCommands
    /\ p \notin ReadOnly
    /\ value' = [value EXCEPT ![p] = b]
    /\ asks' = [n \in 1..Len(asks) |->
                  [asks[n] EXCEPT !.may = @ \cup Current(value', asks[n].key)]]
    /\ flipped' = IF p = Enable /\ value' # value THEN [l \in Links |-> TRUE] ELSE flipped
    /\ commands' = commands + 1
    /\ UNCHANGED <<paramRequests, paramReplies, inHand, list, answers, listed>>

----------------------------------------------------------------------------
(* param_io_timer(), on the IO thread: it reads the parameter, and the     *)
(* main thread may set it before the reply is in the queue.  Finding the   *)
(* parameter and reading it are one step: a PARAM_SET between the two is   *)
(* one just before, and AnswersToAsker allows any value since the request. *)
IoRead ==
    /\ inHand = Nothing
    /\ Len(paramReplies) < ReplyLength
    /\ paramRequests # <<>>
    /\ paramRequests' = Tail(paramRequests)
    /\ LET r == Head(paramRequests) IN
       IF Named(value, r.key) = {} THEN UNCHANGED inHand
       ELSE \E p \in Named(value, r.key) :
              inHand' = [link |-> r.link, ask |-> r.ask, param |-> p, value |-> value[p]]
    /\ UNCHANGED <<value, paramReplies, list, asks, answers, listed, flipped, commands>>

IoPush ==
    /\ inHand # Nothing
    /\ paramReplies' = Append(paramReplies, inHand)
    /\ inHand' = Nothing
    /\ UNCHANGED <<value, paramRequests, list, asks, answers, listed, flipped, commands>>

----------------------------------------------------------------------------
(* Each queued reply goes to the link that asked, from any link's update.  *)
SentHere(l, r) == l
SentTo(l, r) == r.link

Delivered(l, k) ==
    [n \in 1..Len(answers) |->
        answers[n] \o [i \in 1..Cardinality({j \in 1..k : paramReplies[j].ask = n}) |->
                         LET r == CHOOSE x \in {paramReplies[j] : j \in 1..k} : x.ask = n
                         IN [link |-> SentTo(l, r), is |-> <<r.param, r.value>>]]]

\* What a list at c has still to send: the queued parameter, and all after it.
Ahead(c) == IF c.at = Done THEN {} ELSE {c.at} \cup {p \in Visible(value) : p > c.at}

Nth(S, i) == CHOOSE p \in S : Cardinality({q \in S : q < p}) = i - 1

(* queued_param_send() on link l.  First k replies of any link: as many as *)
(* a call may send, or until one whose link has no room, and the links     *)
(* behind it wait too.  Then j parameters of the link's own list in what   *)
(* the bandwidth, the radio's buffer and a millisecond leave.              *)
QueuedParamSend(l, k, j) ==
    LET c == list[l]
        ahead == Ahead(c)
        next == IF j = Cardinality(ahead) THEN Done ELSE Nth(ahead, j + 1)
    IN
    /\ k <= Len(paramReplies) /\ k + j <= Burst /\ k + j > 0
    /\ j <= Cardinality(ahead)
    /\ answers' = Delivered(l, k)
    /\ paramReplies' = SubSeq(paramReplies, k + 1, Len(paramReplies))
    /\ list' = [list EXCEPT ![l] = [c EXCEPT !.at = next, !.index = @ + j]]
    /\ listed' = [listed EXCEPT ![l] =
          @ \o [i \in 1..j |-> [at |-> Nth(ahead, i), index |-> c.index + i - 1,
                               count |-> c.count]]]
    /\ UNCHANGED <<value, paramRequests, inHand, asks, flipped, commands>>

ParamNext ==
    \/ \E l \in Links :
         \/ RequestList(l)
         \/ \E key \in Keys : RequestRead(l, key)
         \/ \E k, j \in 0..Burst : QueuedParamSend(l, k, j)
    \/ \E p \in Params, b \in BOOLEAN : ParamSet(p, b)
    \/ IoRead \/ IoPush

ParamSpec == ParamInit /\ [][ParamNext]_paramVars

----------------------------------------------------------------------------
ParamTypeOK ==
    /\ value \in [Params -> BOOLEAN]
    /\ Len(paramRequests) <= RequestLength /\ Len(paramReplies) <= ReplyLength
    /\ \A l \in Links : /\ list[l].at \in 1..Done
                        /\ list[l].index \in 0..NParams /\ list[l].count \in 0..NParams
    /\ Len(asks) = Len(answers)

(* A read is answered at most once, on the link that asked (any link's     *)
(* update sends the answers of all of them), about the parameter asked for *)
(* and with a value it has had since the request, though the IO thread     *)
(* reads it while the main thread sets parameters and renumbers them       *)
(* (param_io_timer(), send_parameter_async_replies()).                     *)
AnswersToAsker ==
    \A n \in 1..Len(answers) :
        /\ Len(answers[n]) <= 1
        /\ \A i \in 1..Len(answers[n]) : /\ answers[n][i].link = asks[n].link
                                         /\ answers[n][i].is \in asks[n].may

(* A list that has ended has sent every parameter that was visible all     *)
(* along exactly once, numbered in order from 0, and as many as it         *)
(* announced unless the group appeared or vanished meanwhile: whatever     *)
(* else was sent in between, and however often the list was asked for anew *)
(* (handle_param_request_list(), queued_param_send()).                     *)
ListComplete ==
    \A l \in Links : LET seen == listed[l] IN
        /\ \A i \in 1..Len(seen) : seen[i].index = i - 1
        /\ \A i, j \in 1..Len(seen) : i < j => seen[i].at < seen[j].at
        /\ (list[l].at = Done /\ seen # <<>>) =>
               /\ Params \ Group \subseteq {seen[i].at : i \in 1..Len(seen)}
               /\ ~flipped[l] => Len(seen) = seen[1].count
=============================================================================
