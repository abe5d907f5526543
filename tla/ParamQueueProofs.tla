-------------------------- MODULE ParamQueueProofs --------------------------
(***************************************************************************)
(* Parameters over MAVLink for any links, parameters, queue lengths and    *)
(* requests: reads are answered at most once, to whom asked, and a list    *)
(* that ends is complete.                                                  *)
(***************************************************************************)
EXTENDS ParamQueue, OrderLemmas, SequenceTheorems

Values == [Params -> BOOLEAN]
Asks == [link : Links, key : Keys, may : SUBSET (Params \X BOOLEAN)]
ReadRequests == [link : Links, key : Keys, ask : Nat]
ReadReplies == [link : Links, ask : Nat, param : Params, value : BOOLEAN]
Told == [link : Links, is : Params \X BOOLEAN]

ReadShape ==
    /\ value \in Values
    /\ paramRequests \in Seq(ReadRequests) /\ Len(paramRequests) <= RequestLength
    /\ paramReplies \in Seq(ReadReplies) /\ Len(paramReplies) <= ReplyLength
    /\ inHand \in ReadReplies \cup {Nothing}
    /\ inHand # Nothing => Len(paramReplies) < ReplyLength
    /\ asks \in Seq(Asks) /\ answers \in Seq(Seq(Told)) /\ Len(answers) = Len(asks)

(* A read under way is at one place: in the request queue, in the IO       *)
(* thread's hand or in the reply queue, and has not been answered yet.     *)
Open(n, as, ans) == n \in 1..Len(as) /\ ans[n] = <<>>

Asked(r, as, ans) ==
    Open(r.ask, as, ans) /\ r.link = as[r.ask].link /\ r.key = as[r.ask].key

Answers(r, as, ans) ==
    /\ Open(r.ask, as, ans) /\ r.link = as[r.ask].link
    /\ <<r.param, r.value>> \in as[r.ask].may

Distinct(q) == \A i, j \in 1..Len(q) : i # j => q[i].ask # q[j].ask
NotIn(n, q) == \A i \in 1..Len(q) : q[i].ask # n

RequestsAsked ==
    /\ \A i \in 1..Len(paramRequests) : Asked(paramRequests[i], asks, answers)
    /\ Distinct(paramRequests)

RepliesAnswer ==
    /\ \A i \in 1..Len(paramReplies) : /\ Answers(paramReplies[i], asks, answers)
                                       /\ NotIn(paramReplies[i].ask, paramRequests)
    /\ Distinct(paramReplies)
    /\ inHand # Nothing => /\ Answers(inHand, asks, answers)
                           /\ NotIn(inHand.ask, paramRequests) /\ NotIn(inHand.ask, paramReplies)

(* What a read may be told includes what it would be told now.             *)
MayBeCurrent == \A n \in 1..Len(asks) : Current(value, asks[n].key) \subseteq asks[n].may

ToldRight(n, as, ans) ==
    /\ Len(ans[n]) <= 1
    /\ \A i \in 1..Len(ans[n]) : ans[n][i].link = as[n].link /\ ans[n][i].is \in as[n].may

ReadInv == ReadShape /\ RequestsAsked /\ RepliesAnswer /\ MayBeCurrent /\ AnswersToAsker

LEMMA NothingIsNoReply == Nothing \notin ReadReplies
BY DEF Nothing, ReadReplies, Params

LEMMA ReadInvInit == ParamInit => ReadInv
<1> SUFFICES ASSUME ParamInit PROVE ReadInv
  OBVIOUS
<1>1. /\ paramRequests = <<>> /\ paramReplies = <<>> /\ inHand = Nothing
      /\ asks = <<>> /\ answers = <<>> /\ value \in Values
  BY DEF ParamInit, Values
<1>2. ReadShape
  BY <1>1, ParamAssumption DEF ReadShape
<1>3. RequestsAsked /\ RepliesAnswer
  BY <1>1 DEF RequestsAsked, RepliesAnswer, Distinct
<1>4. MayBeCurrent /\ AnswersToAsker
  BY <1>1 DEF MayBeCurrent, AnswersToAsker
<1> QED BY <1>2, <1>3, <1>4 DEF ReadInv

LEMMA CurrentTyped ==
  ASSUME NEW v \in Values, NEW key
  PROVE  Current(v, key) \in SUBSET (Params \X BOOLEAN)
BY DEF Current, Named, Values

----------------------------------------------------------------------------
(* Steps that leave the reads alone.                                       *)
ReadVars == <<value, paramRequests, paramReplies, inHand, asks, answers>>

LEMMA ReadsUnchanged ==
  ASSUME ReadInv, UNCHANGED ReadVars
  PROVE  ReadInv'
<1>1. /\ value' = value /\ paramRequests' = paramRequests /\ paramReplies' = paramReplies
      /\ inHand' = inHand /\ asks' = asks /\ answers' = answers
  BY DEF ReadVars
<1>2. ReadShape'
  BY <1>1 DEF ReadInv, ReadShape
<1>3. RequestsAsked' /\ RepliesAnswer' /\ MayBeCurrent' /\ AnswersToAsker'
  BY <1>1 DEF ReadInv, RequestsAsked, RepliesAnswer, MayBeCurrent, AnswersToAsker
<1> QED BY <1>2, <1>3 DEF ReadInv

(* Reads stay what they are when more are asked for, and when what they    *)
(* may be told grows.                                                      *)
Grows(as, ans, as2, ans2) ==
    \A n : Open(n, as, ans) => /\ Open(n, as2, ans2)
                               /\ as2[n].link = as[n].link /\ as2[n].key = as[n].key
                               /\ as[n].may \subseteq as2[n].may

LEMMA StillUnderWay ==
  ASSUME NEW as, NEW ans, NEW as2, NEW ans2, Grows(as, ans, as2, ans2), NEW r
  PROVE  /\ Asked(r, as, ans) => Asked(r, as2, ans2)
         /\ Answers(r, as, ans) => Answers(r, as2, ans2)
BY DEF Grows, Asked, Answers

LEMMA RequestReadKeeps ==
  ASSUME ReadInv, NEW l \in Links, NEW key \in Keys, RequestRead(l, key)
  PROVE  ReadInv'
<1>1. PICK N \in Nat : N = Len(asks)
  BY DEF ReadInv, ReadShape
<1>2. PICK b : b = [link |-> l, key |-> key, may |-> Current(value, key)]
  OBVIOUS
<1>3. PICK q : q = [link |-> l, key |-> key, ask |-> N + 1]
  OBVIOUS
<1>4. PICK M \in Nat : M = Len(paramRequests)
  BY DEF ReadInv, ReadShape
<1>5. /\ asks' = Append(asks, b) /\ answers' = Append(answers, <<>>)
      /\ paramRequests' = Append(paramRequests, q)
      /\ value' = value /\ paramReplies' = paramReplies /\ inHand' = inHand /\ M < RequestLength
  BY <1>1, <1>2, <1>3, <1>4 DEF RequestRead
<1>6. b \in Asks /\ q \in ReadRequests /\ <<>> \in Seq(Told)
  <2>1. N + 1 \in Nat
    OBVIOUS
  <2> QED BY <1>2, <1>3, <2>1, CurrentTyped DEF Asks, ReadRequests, ReadInv, ReadShape
<1>7. /\ b.link = l /\ b.key = key /\ b.may = Current(value, key)
      /\ q.link = l /\ q.key = key /\ q.ask = N + 1
  BY <1>2, <1>3
<1>8. /\ asks \in Seq(Asks) /\ answers \in Seq(Seq(Told)) /\ Len(answers) = N
      /\ paramRequests \in Seq(ReadRequests)
  BY <1>1 DEF ReadInv, ReadShape
<1>9. /\ asks' \in Seq(Asks) /\ Len(asks') = N + 1 /\ asks'[N + 1] = b
      /\ \A n \in 1..N : asks'[n] = asks[n]
  BY <1>1, <1>5, <1>6, <1>8, AppendProperties
<1>10. /\ answers' \in Seq(Seq(Told)) /\ Len(answers') = N + 1 /\ answers'[N + 1] = <<>>
       /\ \A n \in 1..N : answers'[n] = answers[n]
  BY <1>5, <1>6, <1>8, AppendProperties
<1>11. /\ paramRequests' \in Seq(ReadRequests) /\ Len(paramRequests') = M + 1
       /\ paramRequests'[M + 1] = q
       /\ \A i \in 1..M : paramRequests'[i] = paramRequests[i]
  BY <1>4, <1>5, <1>6, <1>8, AppendProperties
<1>12. ReadShape'
  BY <1>5, <1>9, <1>10, <1>11, ParamAssumption DEF ReadInv, ReadShape
<1>13. \A n \in 1..(N + 1) : n \in 1..N \/ n = N + 1
  OBVIOUS
<1>14. \A n \in 1..N : n \in 1..(N + 1) /\ n # N + 1
  OBVIOUS
<1>15. /\ Grows(asks, answers, asks', answers')
       /\ \A n : Open(n, asks, answers) => n # N + 1
  BY <1>1, <1>9, <1>10, <1>14 DEF Grows, Open
<1>16. RequestsAsked'
  <2>1. ASSUME NEW i \in 1..M
        PROVE  /\ Asked(paramRequests'[i], asks', answers')
               /\ paramRequests'[i].ask # N + 1
    <3>1. Asked(paramRequests[i], asks, answers)
      BY <1>4 DEF ReadInv, RequestsAsked
    <3> QED BY <1>11, <1>15, <3>1, StillUnderWay DEF Asked
  <2>2. Asked(q, asks', answers')
    BY <1>7, <1>9, <1>10 DEF Asked, Open
  <2>3. \A i \in 1..(M + 1) : i \in 1..M \/ i = M + 1
    OBVIOUS
  <2>4. \A i \in 1..Len(paramRequests') : Asked(paramRequests'[i], asks', answers')
    BY <1>11, <2>1, <2>2, <2>3
  <2>5. Distinct(paramRequests')
    BY <1>4, <1>7, <1>11, <2>1, <2>3 DEF ReadInv, RequestsAsked, Distinct
  <2> QED BY <2>4, <2>5 DEF RequestsAsked
<1>17. ASSUME NEW n, Open(n, asks, answers), NotIn(n, paramRequests)
       PROVE  NotIn(n, paramRequests')
  <2>1. \A i \in 1..(M + 1) : i \in 1..M \/ i = M + 1
    OBVIOUS
  <2> QED BY <1>4, <1>7, <1>11, <1>15, <1>17, <2>1 DEF NotIn
<1>18. RepliesAnswer'
  <2>1. \A p : Answers(p, asks, answers) => Answers(p, asks', answers') /\ Open(p.ask, asks, answers)
    BY <1>15, StillUnderWay DEF Answers
  <2> QED BY <1>5, <1>17, <2>1 DEF ReadInv, RepliesAnswer
<1>19. MayBeCurrent'
  <2> SUFFICES ASSUME NEW n \in 1..(N + 1)
               PROVE  Current(value', asks'[n].key) \subseteq asks'[n].may
    BY <1>9 DEF MayBeCurrent
  <2>1. CASE n = N + 1
    BY <1>5, <1>7, <1>9, <2>1
  <2>2. CASE n \in 1..N
    BY <1>1, <1>5, <1>9, <2>2 DEF ReadInv, MayBeCurrent
  <2> QED BY <1>13, <2>1, <2>2
<1>20. AnswersToAsker'
  <2>1. \A n \in 1..N : ToldRight(n, asks, answers)
    BY <1>8 DEF ReadInv, AnswersToAsker, ToldRight
  <2>2. \A n \in 1..N : ToldRight(n, asks', answers')
    BY <1>9, <1>10, <2>1 DEF ToldRight
  <2>3. ToldRight(N + 1, asks', answers')
    BY <1>10 DEF ToldRight
  <2>4. \A n \in 1..Len(answers') : ToldRight(n, asks', answers')
    BY <1>10, <1>13, <2>2, <2>3
  <2> QED BY <2>4 DEF AnswersToAsker, ToldRight
<1> QED BY <1>12, <1>16, <1>18, <1>19, <1>20 DEF ReadInv

LEMMA ParamSetKeeps ==
  ASSUME ReadInv, NEW p \in Params, NEW b \in BOOLEAN, ParamSet(p, b)
  PROVE  ReadInv'
<1>1. PICK N \in Nat : N = Len(asks)
  BY DEF ReadInv, ReadShape
<1>2. PICK v \in Values : v = [value EXCEPT ![p] = b]
  BY DEF ReadInv, ReadShape, Values
<1>3. /\ value' = v
      /\ asks' = [n \in 1..N |-> [asks[n] EXCEPT !.may = asks[n].may \cup Current(v, asks[n].key)]]
      /\ paramRequests' = paramRequests /\ paramReplies' = paramReplies /\ inHand' = inHand
      /\ answers' = answers
  BY <1>1, <1>2 DEF ParamSet
<1>4. ASSUME NEW n \in 1..N
      PROVE  /\ asks[n] \in Asks /\ asks'[n] \in Asks
             /\ asks'[n].link = asks[n].link /\ asks'[n].key = asks[n].key
             /\ asks'[n].may = asks[n].may \cup Current(v, asks[n].key)
  <2>1. asks[n] \in Asks
    BY <1>1 DEF ReadInv, ReadShape
  <2>2. PICK c \in SUBSET (Params \X BOOLEAN) : c = Current(v, asks[n].key)
    BY CurrentTyped
  <2>3. asks'[n] = [asks[n] EXCEPT !.may = asks[n].may \cup c]
    BY <1>3, <2>2
  <2>4. asks[n].may \cup c \in SUBSET (Params \X BOOLEAN)
    BY <2>1 DEF Asks
  <2> QED BY <2>1, <2>2, <2>3, <2>4 DEF Asks
<1>5. asks' \in Seq(Asks) /\ Len(asks') = N
  <2>1. asks' \in [1..N -> Asks]
    BY <1>3, <1>4
  <2> QED BY <2>1, LenProperties
<1>6. ReadShape'
  BY <1>1, <1>3, <1>5 DEF ReadInv, ReadShape
<1>7. Grows(asks, answers, asks', answers')
  BY <1>1, <1>3, <1>4, <1>5 DEF Grows, Open
<1>8. RequestsAsked' /\ RepliesAnswer'
  <2>1. \A r : /\ Asked(r, asks, answers) => Asked(r, asks', answers')
               /\ Answers(r, asks, answers) => Answers(r, asks', answers')
    BY <1>7, StillUnderWay
  <2>2. RequestsAsked'
    BY <1>3, <2>1 DEF ReadInv, RequestsAsked
  <2>3. RepliesAnswer'
    BY <1>3, <2>1 DEF ReadInv, RepliesAnswer
  <2> QED BY <2>2, <2>3
<1>9. MayBeCurrent'
  BY <1>3, <1>4, <1>5 DEF MayBeCurrent
<1>10. AnswersToAsker'
  <2>1. \A n \in 1..N : ToldRight(n, asks, answers)
    BY <1>1 DEF ReadInv, ReadShape, AnswersToAsker, ToldRight
  <2>2. \A n \in 1..N : ToldRight(n, asks', answers')
    BY <1>3, <1>4, <2>1 DEF ToldRight
  <2>3. Len(answers') = N
    BY <1>1, <1>3 DEF ReadInv, ReadShape
  <2> QED BY <2>2, <2>3 DEF AnswersToAsker, ToldRight
<1> QED BY <1>6, <1>8, <1>9, <1>10 DEF ReadInv

LEMMA IoReadKeeps ==
  ASSUME ReadInv, IoRead
  PROVE  ReadInv'
<1>1. PICK r : r = Head(paramRequests)
  OBVIOUS
<1>2. PICK M \in Nat : M = Len(paramRequests)
  BY DEF ReadInv, ReadShape
<1>3. /\ inHand = Nothing /\ Len(paramReplies) < ReplyLength
      /\ paramRequests' = Tail(paramRequests) /\ M # 0
      /\ value' = value /\ paramReplies' = paramReplies /\ asks' = asks /\ answers' = answers
      /\ \/ inHand' = Nothing
         \/ \E p \in Named(value, r.key) :
              inHand' = [link |-> r.link, ask |-> r.ask, param |-> p, value |-> value[p]]
  BY <1>1, <1>2 DEF IoRead, ReadInv, ReadShape
<1>4. /\ paramRequests' \in Seq(ReadRequests) /\ Len(paramRequests') = M - 1
      /\ \A i \in 1..(M - 1) : paramRequests'[i] = paramRequests[i + 1]
      /\ r = paramRequests[1] /\ r \in ReadRequests
  BY <1>1, <1>2, <1>3 DEF ReadInv, ReadShape
<1>5. /\ \A i \in 1..(M - 1) : i + 1 \in 1..M /\ i + 1 # 1
      /\ 1 \in 1..M
  BY <1>3
<1>6. RequestsAsked'
  <2>1. \A i \in 1..(M - 1) : Asked(paramRequests'[i], asks', answers')
    BY <1>2, <1>3, <1>4, <1>5 DEF ReadInv, RequestsAsked
  <2>2. \A i, j \in 1..(M - 1) : i # j => i + 1 # j + 1
    OBVIOUS
  <2>3. Distinct(paramRequests')
    BY <1>2, <1>4, <1>5, <2>2 DEF ReadInv, RequestsAsked, Distinct
  <2> QED BY <1>4, <2>1, <2>3 DEF RequestsAsked
<1>7. \A n : NotIn(n, paramRequests) => NotIn(n, paramRequests')
  BY <1>2, <1>4, <1>5 DEF NotIn
<1>8. NotIn(r.ask, paramRequests') /\ NotIn(r.ask, paramReplies)
  <2>1. NotIn(r.ask, paramRequests')
    BY <1>2, <1>4, <1>5 DEF ReadInv, RequestsAsked, Distinct, NotIn
  <2>2. ASSUME NEW i \in 1..Len(paramReplies)
        PROVE  paramReplies[i].ask # r.ask
    BY <1>2, <1>4, <1>5 DEF ReadInv, RepliesAnswer, NotIn
  <2> QED BY <2>1, <2>2 DEF NotIn
<1>9. ASSUME NEW p \in Named(value, r.key),
             inHand' = [link |-> r.link, ask |-> r.ask, param |-> p, value |-> value[p]]
      PROVE  inHand' \in ReadReplies /\ Answers(inHand', asks', answers') /\ inHand'.ask = r.ask
  <2>1. Asked(r, asks, answers)
    BY <1>2, <1>4, <1>5 DEF ReadInv, RequestsAsked
  <2>2. p \in Params /\ value[p] \in BOOLEAN
    BY <1>9 DEF Named, ReadInv, ReadShape, Values
  <2>3. <<p, value[p]>> \in Current(value, r.key)
    BY <1>9 DEF Current
  <2>4. <<p, value[p]>> \in asks[r.ask].may
    BY <2>1, <2>3 DEF Asked, Open, ReadInv, MayBeCurrent
  <2>5. inHand' \in ReadReplies
    BY <1>4, <1>9, <2>2 DEF ReadRequests, ReadReplies
  <2>6. inHand'.link = r.link /\ inHand'.ask = r.ask /\ inHand'.param = p /\ inHand'.value = value[p]
    BY <1>9
  <2>7. Answers(inHand', asks', answers')
    BY <1>3, <2>1, <2>4, <2>6 DEF Answers, Asked
  <2> QED BY <2>5, <2>6, <2>7
<1>10. \/ inHand' = Nothing
       \/ /\ inHand' \in ReadReplies /\ Answers(inHand', asks', answers')
          /\ inHand'.ask = r.ask
  BY <1>3, <1>9
<1>11. ReadShape'
  BY <1>2, <1>3, <1>4, <1>10, ParamAssumption DEF ReadInv, ReadShape
<1>12. RepliesAnswer'
  <2>1. \A i \in 1..Len(paramReplies') : /\ Answers(paramReplies'[i], asks', answers')
                                         /\ NotIn(paramReplies'[i].ask, paramRequests')
    BY <1>3, <1>7 DEF ReadInv, RepliesAnswer
  <2>2. Distinct(paramReplies')
    BY <1>3 DEF ReadInv, RepliesAnswer
  <2> QED BY <1>3, <1>8, <1>10, <2>1, <2>2 DEF RepliesAnswer
<1>13. MayBeCurrent' /\ AnswersToAsker'
  BY <1>3 DEF ReadInv, MayBeCurrent, AnswersToAsker
<1> QED BY <1>6, <1>11, <1>12, <1>13 DEF ReadInv

LEMMA IoPushKeeps ==
  ASSUME ReadInv, IoPush
  PROVE  ReadInv'
<1>1. PICK p : p = inHand
  OBVIOUS
<1>2. PICK M \in Nat : M = Len(paramReplies)
  BY DEF ReadInv, ReadShape
<1>3. /\ p # Nothing /\ inHand' = Nothing /\ paramReplies' = Append(paramReplies, p)
      /\ value' = value /\ paramRequests' = paramRequests /\ asks' = asks /\ answers' = answers
      /\ p \in ReadReplies /\ paramReplies \in Seq(ReadReplies) /\ M < ReplyLength
  BY <1>1, <1>2 DEF IoPush, ReadInv, ReadShape
<1>4. /\ paramReplies' \in Seq(ReadReplies) /\ Len(paramReplies') = M + 1
      /\ paramReplies'[M + 1] = p
      /\ \A i \in 1..M : paramReplies'[i] = paramReplies[i]
  BY <1>2, <1>3, AppendProperties
<1>5. \A i \in 1..(M + 1) : i \in 1..M \/ i = M + 1
  OBVIOUS
<1>6. ReadShape'
  BY <1>3, <1>4, ParamAssumption DEF ReadInv, ReadShape
<1>7. RepliesAnswer'
  <2>1. Answers(p, asks, answers) /\ NotIn(p.ask, paramRequests) /\ NotIn(p.ask, paramReplies)
    BY <1>1, <1>3 DEF ReadInv, RepliesAnswer
  <2>2. \A i \in 1..M : /\ Answers(paramReplies[i], asks, answers)
                        /\ NotIn(paramReplies[i].ask, paramRequests)
    BY <1>2 DEF ReadInv, RepliesAnswer
  <2>3. \A i \in 1..(M + 1) : /\ Answers(paramReplies'[i], asks', answers')
                              /\ NotIn(paramReplies'[i].ask, paramRequests')
    BY <1>3, <1>4, <1>5, <2>1, <2>2
  <2>4. Distinct(paramReplies')
    BY <1>2, <1>4, <1>5, <2>1 DEF ReadInv, RepliesAnswer, Distinct, NotIn
  <2> QED BY <1>3, <1>4, <2>3, <2>4 DEF RepliesAnswer
<1>8. RequestsAsked' /\ MayBeCurrent' /\ AnswersToAsker'
  BY <1>3 DEF ReadInv, RequestsAsked, MayBeCurrent, AnswersToAsker
<1> QED BY <1>6, <1>7, <1>8 DEF ReadInv

----------------------------------------------------------------------------
(* Replies sent: each of the first k is the answer to the read it is about *)
(* and the only one.                                                       *)
Delivery(r) == [link |-> r.link, is |-> <<r.param, r.value>>]

LEMMA DeliveredOne ==
  ASSUME ReadInv, NEW l, NEW k \in Nat, k <= Len(paramReplies), NEW j \in 1..k
  PROVE  /\ Delivered(l, k)[paramReplies[j].ask] = <<Delivery(paramReplies[j])>>
         /\ Open(paramReplies[j].ask, asks, answers)
<1> DEFINE n == paramReplies[j].ask
<1>1. PICK M \in Nat : M = Len(paramReplies) /\ k <= M
  BY DEF ReadInv, ReadShape
<1>2. \A i \in 1..k : i \in 1..M /\ paramReplies[i] \in ReadReplies
  BY <1>1 DEF ReadInv, ReadShape
<1>3. \A i \in 1..k : paramReplies[i].ask = n => i = j
  BY <1>1, <1>2 DEF ReadInv, RepliesAnswer, Distinct
<1>4. Open(n, asks, answers)
  BY <1>1, <1>2 DEF ReadInv, RepliesAnswer, Answers
<1>5. PICK r : r = CHOOSE x \in {paramReplies[i] : i \in 1..k} : x.ask = n
  OBVIOUS
<1>6. r = paramReplies[j]
  BY <1>3, <1>5
<1>7. {i \in 1..k : paramReplies[i].ask = n} = {j}
  BY <1>3
<1>8. Cardinality({i \in 1..k : paramReplies[i].ask = n}) = 1
  BY <1>7, FS_Singleton
<1>9. n \in 1..Len(answers) /\ answers[n] = <<>>
  BY <1>4 DEF Open, ReadInv, ReadShape
<1>10. Delivered(l, k)[n] = <<>> \o [i \in 1..1 |-> Delivery(r)]
  BY <1>5, <1>8, <1>9 DEF Delivered, SentTo, Delivery
<1>11. PICK d : d = Delivery(r)
  OBVIOUS
<1>12. [i \in 1..1 |-> d] = <<d>>
  OBVIOUS
<1>13. <<>> \o <<d>> = <<d>>
  OBVIOUS
<1> QED BY <1>4, <1>6, <1>10, <1>11, <1>12, <1>13

LEMMA DeliveredNone ==
  ASSUME ReadInv, NEW l, NEW k \in Nat, NEW n \in 1..Len(answers),
         \A i \in 1..k : paramReplies[i].ask # n
  PROVE  Delivered(l, k)[n] = answers[n]
<1>1. {i \in 1..k : paramReplies[i].ask = n} = {}
  OBVIOUS
<1>2. Cardinality({i \in 1..k : paramReplies[i].ask = n}) = 0
  BY <1>1, FS_EmptySet
<1>3. PICK d : d = LET r == CHOOSE x \in {paramReplies[i] : i \in 1..k} : x.ask = n
                   IN [link |-> SentTo(l, r), is |-> <<r.param, r.value>>]
  OBVIOUS
<1>4. Delivered(l, k)[n] = answers[n] \o [i \in 1..0 |-> d]
  BY <1>2, <1>3 DEF Delivered
<1>5. [i \in 1..0 |-> d] = <<>>
  OBVIOUS
<1>6. answers[n] \in Seq(Told)
  BY DEF ReadInv, ReadShape
<1>7. answers[n] \o <<>> = answers[n]
  BY <1>6, ConcatEmptySeq
<1> QED BY <1>4, <1>5, <1>7

LEMMA DeliveredTyped ==
  ASSUME ReadInv, NEW l, NEW k \in Nat, k <= Len(paramReplies)
  PROVE  Delivered(l, k) \in Seq(Seq(Told)) /\ Len(Delivered(l, k)) = Len(asks)
<1>1. PICK N \in Nat : N = Len(asks) /\ N = Len(answers)
  BY DEF ReadInv, ReadShape
<1>2. PICK D : D = Delivered(l, k)
  OBVIOUS
<1>3. ASSUME NEW n \in 1..N
      PROVE  D[n] \in Seq(Told)
  <2>1. CASE \E j \in 1..k : paramReplies[j].ask = n
    <3>1. PICK j \in 1..k : paramReplies[j].ask = n
      BY <2>1
    <3>2. Delivered(l, k)[paramReplies[j].ask] = <<Delivery(paramReplies[j])>>
      BY DeliveredOne
    <3>3. D[n] = <<Delivery(paramReplies[j])>>
      BY <1>2, <3>1, <3>2
    <3>4. paramReplies[j] \in ReadReplies
      BY DEF ReadInv, ReadShape
    <3>5. Delivery(paramReplies[j]) \in Told
      BY <3>4 DEF Delivery, ReadReplies, Told
    <3> QED BY <3>3, <3>5
  <2>2. CASE ~\E j \in 1..k : paramReplies[j].ask = n
    <3>1. Delivered(l, k)[n] = answers[n]
      BY <1>1, <2>2, DeliveredNone
    <3>2. answers[n] \in Seq(Told)
      BY <1>1 DEF ReadInv, ReadShape
    <3> QED BY <1>2, <3>1, <3>2
  <2> QED BY <2>1, <2>2
<1>4. D = [n \in 1..N |-> D[n]]
  BY <1>1, <1>2 DEF Delivered
<1>5. D \in [1..N -> Seq(Told)]
  BY <1>3, <1>4
<1>6. D \in Seq(Seq(Told)) /\ Len(D) = N
  BY <1>5, LenProperties
<1> QED BY <1>1, <1>2, <1>6

LEMMA RepliesSentKeep ==
  ASSUME ReadInv, NEW l, NEW k \in Nat, k <= Len(paramReplies),
         answers' = Delivered(l, k),
         paramReplies' = SubSeq(paramReplies, k + 1, Len(paramReplies)),
         UNCHANGED <<value, paramRequests, inHand, asks>>
  PROVE  ReadInv'
<1>1. PICK M \in Nat : M = Len(paramReplies) /\ k <= M
  BY DEF ReadInv, ReadShape
<1>2. PICK N \in Nat : N = Len(asks) /\ N = Len(answers)
  BY DEF ReadInv, ReadShape
<1>3. /\ value' = value /\ paramRequests' = paramRequests /\ inHand' = inHand /\ asks' = asks
  OBVIOUS
<1>4. answers' \in Seq(Seq(Told)) /\ Len(answers') = N
  BY <1>2, DeliveredTyped
<1>5. /\ paramReplies' \in Seq(ReadReplies) /\ Len(paramReplies') = M - k
      /\ \A i \in 1..(M - k) : paramReplies'[i] = paramReplies[k + i]
  <2>1. \A i \in (k + 1)..M : paramReplies[i] \in ReadReplies
    BY <1>1 DEF ReadInv, ReadShape
  <2> QED BY <1>1, <2>1, SubSeqProperties
<1>6. ReadShape'
  BY <1>1, <1>2, <1>3, <1>4, <1>5, ParamAssumption DEF ReadInv, ReadShape
<1>7. \A i \in 1..(M - k) : k + i \in 1..M /\ k + i \notin 1..k
  BY <1>1
<1>8. ASSUME NEW n, Open(n, asks, answers), \A j \in 1..k : paramReplies[j].ask # n
      PROVE  Open(n, asks', answers')
  BY <1>2, <1>3, <1>8, DeliveredNone DEF Open
<1>9. \A j \in 1..k : j \in 1..M
  BY <1>1
<1>10. RequestsAsked'
  <2>1. ASSUME NEW i \in 1..Len(paramRequests)
        PROVE  Asked(paramRequests[i], asks', answers')
    <3>1. Asked(paramRequests[i], asks, answers)
      BY DEF ReadInv, RequestsAsked
    <3>2. \A j \in 1..k : paramReplies[j].ask # paramRequests[i].ask
      BY <1>1, <1>9 DEF ReadInv, RepliesAnswer, NotIn
    <3> QED BY <1>3, <1>8, <3>1, <3>2 DEF Asked
  <2>2. Distinct(paramRequests)
    BY DEF ReadInv, RequestsAsked
  <2> QED BY <1>3, <2>1, <2>2 DEF RequestsAsked
<1>11. RepliesAnswer'
  <2>1. ASSUME NEW i \in 1..(M - k)
        PROVE  Answers(paramReplies[k + i], asks', answers')
    <3>1. Answers(paramReplies[k + i], asks, answers)
      BY <1>1, <1>7 DEF ReadInv, RepliesAnswer
    <3>2. \A j \in 1..k : paramReplies[j].ask # paramReplies[k + i].ask
      BY <1>1, <1>7, <1>9 DEF ReadInv, RepliesAnswer, Distinct
    <3> QED BY <1>3, <1>8, <3>1, <3>2 DEF Answers
  <2>2. ASSUME NEW i \in 1..(M - k)
        PROVE  NotIn(paramReplies[k + i].ask, paramRequests)
    BY <1>1, <1>7 DEF ReadInv, RepliesAnswer
  <2>3. \A i, j \in 1..(M - k) : i # j => k + i # k + j
    OBVIOUS
  <2>4. Distinct(paramReplies')
    BY <1>1, <1>5, <1>7, <2>3 DEF ReadInv, RepliesAnswer, Distinct
  <2>5. ASSUME inHand # Nothing
        PROVE  /\ Answers(inHand, asks', answers')
               /\ NotIn(inHand.ask, paramRequests) /\ NotIn(inHand.ask, paramReplies')
    <3>1. /\ Answers(inHand, asks, answers)
          /\ NotIn(inHand.ask, paramRequests) /\ NotIn(inHand.ask, paramReplies)
      BY <2>5 DEF ReadInv, RepliesAnswer
    <3>2. \A j \in 1..k : paramReplies[j].ask # inHand.ask
      BY <1>1, <1>9, <3>1 DEF NotIn
    <3>3. NotIn(inHand.ask, paramReplies')
      BY <1>1, <1>5, <1>7, <3>1 DEF NotIn
    <3> QED BY <1>3, <1>8, <3>1, <3>2, <3>3 DEF Answers
  <2> QED BY <1>3, <1>5, <2>1, <2>2, <2>4, <2>5 DEF RepliesAnswer
<1>12. MayBeCurrent'
  BY <1>3 DEF ReadInv, MayBeCurrent
<1>13. AnswersToAsker'
  <2>1. ASSUME NEW n \in 1..N
        PROVE  ToldRight(n, asks', answers')
    <3>1. CASE \E j \in 1..k : paramReplies[j].ask = n
      <4>1. PICK j \in 1..k : paramReplies[j].ask = n
        BY <3>1
      <4>2. Delivered(l, k)[paramReplies[j].ask] = <<Delivery(paramReplies[j])>>
        BY DeliveredOne
      <4>3. answers'[n] = <<Delivery(paramReplies[j])>>
        BY <4>1, <4>2
      <4>4. Answers(paramReplies[j], asks, answers)
        BY <1>1, <1>9 DEF ReadInv, RepliesAnswer
      <4>5. PICK d : d = Delivery(paramReplies[j])
        OBVIOUS
      <4>6. d.link = asks[n].link /\ d.is \in asks[n].may
        BY <4>1, <4>4, <4>5 DEF Delivery, Answers
      <4>7. Len(<<d>>) = 1 /\ <<d>>[1] = d /\ \A i \in 1..1 : i = 1
        OBVIOUS
      <4> QED BY <1>3, <4>3, <4>5, <4>6, <4>7 DEF ToldRight
    <3>2. CASE ~\E j \in 1..k : paramReplies[j].ask = n
      <4>1. answers'[n] = answers[n]
        BY <1>2, <3>2, DeliveredNone
      <4>2. ToldRight(n, asks, answers)
        BY <1>2 DEF ReadInv, AnswersToAsker, ToldRight
      <4> QED BY <1>3, <4>1, <4>2 DEF ToldRight
    <3> QED BY <3>1, <3>2
  <2> QED BY <1>4, <2>1 DEF AnswersToAsker, ToldRight
<1> QED BY <1>6, <1>10, <1>11, <1>12, <1>13 DEF ReadInv

LEMMA ReadInvNext ==
  ASSUME ReadInv, [ParamNext]_paramVars
  PROVE  ReadInv'
<1>1. ASSUME NEW l \in Links, RequestList(l)
      PROVE  ReadInv'
  BY <1>1, ReadsUnchanged DEF RequestList, ReadVars
<1>2. ASSUME NEW l \in Links, NEW key \in Keys, RequestRead(l, key)
      PROVE  ReadInv'
  BY <1>2, RequestReadKeeps
<1>3. ASSUME NEW l \in Links, NEW k \in 0..Burst, NEW j \in 0..Burst, QueuedParamSend(l, k, j)
      PROVE  ReadInv'
  <2>1. k \in Nat
    BY ParamAssumption
  <2> QED BY <1>3, <2>1, RepliesSentKeep DEF QueuedParamSend
<1>4. ASSUME NEW p \in Params, NEW b \in BOOLEAN, ParamSet(p, b)
      PROVE  ReadInv'
  BY <1>4, ParamSetKeeps
<1>5. CASE IoRead
  BY <1>5, IoReadKeeps
<1>6. CASE IoPush
  BY <1>6, IoPushKeeps
<1>7. CASE UNCHANGED paramVars
  BY <1>7, ReadsUnchanged DEF paramVars, ReadVars
<1> QED BY <1>1, <1>2, <1>3, <1>4, <1>5, <1>6, <1>7 DEF ParamNext

(* For any number of links and parameters and queues of any length, a read *)
(* is answered at most once, on its link, about its parameter and with a   *)
(* value it has had since (param_io_timer(),                               *)
(* send_parameter_async_replies()).                                        *)
THEOREM ReadsAreAnswered == ParamSpec => []AnswersToAsker
<1>1. ReadInv => AnswersToAsker
  BY DEF ReadInv
<1> QED BY <1>1, ReadInvInit, ReadInvNext, PTL DEF ParamSpec

----------------------------------------------------------------------------
(* The lists.  A link's cursor c and what its latest list has sent, seen:  *)
(* sent parameters are numbered from 0 and ascend to the queued one; no    *)
(* parameter outside the group is left behind; and while the group stays   *)
(* what it was, exactly the visible ones before the queued one were sent.  *)
Cursors == [at : 1..Done, index : Nat, count : 0..NParams]
Listed == [at : Params, index : Nat, count : 0..NParams]

ListShape ==
    /\ value \in Values
    /\ list \in [Links -> Cursors]
    /\ listed \in [Links -> Seq(Listed)]
    /\ flipped \in [Links -> BOOLEAN]

Numbered(c, seen) ==
    /\ c.index = Len(seen) /\ c.index < c.at
    /\ \A i \in 1..Len(seen) : seen[i].index = i - 1 /\ seen[i].count = c.count

Ascending(c, seen) ==
    /\ \A i, j \in 1..Len(seen) : i < j => seen[i].at < seen[j].at
    /\ \A i \in 1..Len(seen) : seen[i].at < c.at

NeverAsked(c, seen) == c.at = Done /\ seen = <<>>

NoneMissed(c, seen) ==
    NeverAsked(c, seen) \/
    \A p \in Params \ Group : p < c.at => \E i \in 1..Len(seen) : seen[i].at = p

AsAnnounced(c, seen, V) ==
    /\ c.count = Cardinality(V)
    /\ Len(seen) = Cardinality(Below(V, c.at))
    /\ c.at \in V \/ c.at = Done

CursorOK(c, seen, flip, V) ==
    /\ Numbered(c, seen) /\ Ascending(c, seen) /\ NoneMissed(c, seen)
    /\ ~flip => AsAnnounced(c, seen, V)

ListInv ==
    ListShape /\ \A l \in Links : CursorOK(list[l], listed[l], flipped[l], Visible(value))

LEMMA VisibleIs ==
  ASSUME NEW v
  PROVE  /\ Visible(v) \in SUBSET Nat /\ Visible(v) \subseteq Params /\ IsFiniteSet(Visible(v))
         /\ Cardinality(Visible(v)) \in 0..NParams
         /\ Params \ Group \subseteq Visible(v) /\ Enable \in Visible(v)
<1>1. Visible(v) \subseteq Params /\ Params \ Group \subseteq Visible(v) /\ Enable \in Visible(v)
  BY ParamAssumption DEF Visible
<1>2. NParams \in Nat
  BY ParamAssumption
<1>3. IsFiniteSet(Params) /\ Cardinality(Params) = NParams
  BY <1>2, FS_Interval DEF Params
<1>4. /\ IsFiniteSet(Visible(v)) /\ Cardinality(Visible(v)) \in Nat
      /\ Cardinality(Visible(v)) <= NParams
  BY <1>1, <1>3, FS_Subset, FS_CardinalityType
<1>5. Params \subseteq Nat
  BY DEF Params
<1>6. Visible(v) \subseteq Nat
  BY <1>1, <1>5
<1>7. Cardinality(Visible(v)) \in 0..NParams
  BY <1>2, <1>4
<1> QED BY <1>1, <1>4, <1>6, <1>7

(* The first parameter: visible, and none before it is.                    *)
LEMMA FirstScalar ==
  ASSUME NEW v
  PROVE  NextScalar(v, 0) \in Visible(v) /\ \A o \in Visible(v) : NextScalar(v, 0) <= o
<1>1. PICK m \in Visible(v) : \A o \in Visible(v) : m <= o
  BY VisibleIs, Minimum
<1>2. NParams \in Nat /\ m \in 1..NParams
  BY <1>1, VisibleIs, ParamAssumption DEF Params
<1>3. m \in (0 + 1)..Done /\ \A o \in (0 + 1)..(m - 1) : o \notin Visible(v)
  BY <1>1, <1>2 DEF Done
<1>4. PICK q : q = NextScalar(v, 0)
  OBVIOUS
<1>5. /\ q \in 1..Done /\ (q = Done \/ q \in Visible(v))
      /\ \A o \in 1..(q - 1) : o \notin Visible(v)
  BY <1>1, <1>3, <1>4 DEF NextScalar
<1>6. \A o \in Visible(v) : o \in 1..NParams /\ ~(o \in 1..(q - 1))
  BY <1>5, VisibleIs DEF Params
<1>7. \A o \in Visible(v) : q <= o
  BY <1>2, <1>5, <1>6 DEF Done
<1>8. q <= m /\ m < Done
  BY <1>1, <1>2, <1>7 DEF Done
<1>9. q # Done
  BY <1>2, <1>5, <1>8 DEF Done
<1> QED BY <1>4, <1>5, <1>7, <1>9

LEMMA ListInvInit == ParamInit => ListInv
<1> SUFFICES ASSUME ParamInit PROVE ListInv
  OBVIOUS
<1>1. NParams \in Nat /\ Done \in 1..Done /\ 0 < Done
  BY ParamAssumption DEF Done
<1>2. ListShape
  BY <1>1 DEF ParamInit, ListShape, Values, Cursors
<1>3. ASSUME NEW l \in Links
      PROVE  CursorOK(list[l], listed[l], flipped[l], Visible(value))
  <2>1. /\ list[l] = [at |-> Done, index |-> 0, count |-> 0]
        /\ listed[l] = <<>> /\ flipped[l] = TRUE
    BY DEF ParamInit
  <2>2. Numbered(list[l], listed[l]) /\ Ascending(list[l], listed[l])
    BY <1>1, <2>1 DEF Numbered, Ascending
  <2> QED BY <2>1, <2>2 DEF CursorOK, NoneMissed, NeverAsked
<1> QED BY <1>2, <1>3 DEF ListInv

ListVars == <<value, list, listed, flipped>>

LEMMA ListsUnchanged ==
  ASSUME ListInv, UNCHANGED ListVars
  PROVE  ListInv'
BY DEF ListInv, ListShape, ListVars

(* PARAM_REQUEST_LIST: the list starts at the first parameter.             *)
LEMMA RequestListKeeps ==
  ASSUME ListInv, NEW l \in Links, RequestList(l)
  PROVE  ListInv'
<1>1. PICK s : s = Start(l)
  OBVIOUS
<1>2. /\ list' = [list EXCEPT ![l] = s] /\ listed' = [listed EXCEPT ![l] = <<>>]
      /\ flipped' = [flipped EXCEPT ![l] = FALSE] /\ value' = value
  BY <1>1 DEF RequestList
<1>3. PICK V : V = Visible(value)
  OBVIOUS
<1>4. s.at \in V /\ s.index = 0 /\ s.count = Cardinality(V) /\ \A o \in V : s.at <= o
  BY <1>1, <1>3, FirstScalar DEF Start
<1>5. V \in SUBSET Nat /\ V \subseteq Params /\ Cardinality(V) \in 0..NParams
      /\ Params \ Group \subseteq V
  BY <1>3, VisibleIs
<1>6. s.at \in Nat /\ s.at \in 1..Done /\ s.at > 0
  <2>1. NParams \in Nat /\ s.at \in 1..NParams
    BY <1>4, <1>5, ParamAssumption DEF Params
  <2> QED BY <2>1 DEF Done
<1>7. s \in Cursors
  BY <1>1, <1>3, <1>4, <1>5, <1>6 DEF Start, Cursors
<1>8. ListShape'
  BY <1>2, <1>7 DEF ListInv, ListShape
<1>9. CursorOK(s, <<>>, FALSE, V)
  <2>1. \A o \in V : o \in Nat /\ ~(o < s.at)
    BY <1>4, <1>5, <1>6
  <2>2. Below(V, s.at) = {}
    BY <2>1 DEF Below
  <2>3. AsAnnounced(s, <<>>, V)
    BY <1>4, <2>2, FS_EmptySet DEF AsAnnounced
  <2>4. NoneMissed(s, <<>>)
    BY <1>5, <2>1 DEF NoneMissed
  <2>5. Numbered(s, <<>>) /\ Ascending(s, <<>>)
    BY <1>4, <1>6 DEF Numbered, Ascending
  <2> QED BY <2>3, <2>4, <2>5 DEF CursorOK
<1>10. ASSUME NEW k \in Links
       PROVE  CursorOK(list'[k], listed'[k], flipped'[k], Visible(value'))
  <2>1. CASE k = l
    <3>1. list'[k] = s /\ listed'[k] = <<>> /\ flipped'[k] = FALSE
      BY <1>2, <2>1 DEF ListInv, ListShape
    <3> QED BY <1>2, <1>3, <1>9, <3>1
  <2>2. CASE k # l
    <3>1. list'[k] = list[k] /\ listed'[k] = listed[k] /\ flipped'[k] = flipped[k]
      BY <1>2, <2>2 DEF ListInv, ListShape
    <3> QED BY <1>2, <3>1 DEF ListInv
  <2> QED BY <2>1, <2>2
<1> QED BY <1>8, <1>10 DEF ListInv

(* PARAM_SET: what is visible changes only with the group's parameter, and *)
(* then every list under way knows.                                        *)
LEMMA ParamSetKeepsLists ==
  ASSUME ListInv, NEW p \in Params, NEW b \in BOOLEAN, ParamSet(p, b)
  PROVE  ListInv'
<1>1. /\ value' = [value EXCEPT ![p] = b] /\ list' = list /\ listed' = listed
      /\ flipped' = IF p = Enable /\ value' # value THEN [k \in Links |-> TRUE] ELSE flipped
  BY DEF ParamSet
<1>2. ListShape'
  BY <1>1 DEF ListInv, ListShape, Values
<1>3. CASE p = Enable /\ value' # value
  <2>1. \A k \in Links : flipped'[k] = TRUE
    BY <1>1, <1>3
  <2> QED BY <1>1, <1>2, <2>1 DEF ListInv, CursorOK
<1>4. CASE ~(p = Enable /\ value' # value)
  <2>1. value'[Enable] = value[Enable]
    BY <1>1, <1>4, ParamAssumption DEF ListInv, ListShape, Values
  <2>2. Visible(value') = Visible(value)
    BY <2>1 DEF Visible
  <2> QED BY <1>1, <1>2, <1>4, <2>2 DEF ListInv
<1> QED BY <1>3, <1>4

----------------------------------------------------------------------------
LEMMA NthIsNthOf == \A S, i : Nth(S, i) = NthOf(S, i)
BY DEF Nth, NthOf, Rank, Below

(* Where a cursor is after j of S: j of S are before it, and they are what *)
(* Nth() gives for 1 to j.                                                 *)
NextAt(S, j) == IF j = Cardinality(S) THEN Done ELSE Nth(S, j + 1)

LEMMA NextAtIs ==
  ASSUME NEW S \in SUBSET Params, NEW j \in 0..Cardinality(S)
  PROVE  /\ S \in SUBSET Nat /\ IsFiniteSet(S)
         /\ Cardinality(S) \in Nat
         /\ NextAt(S, j) \in S \/ (j = Cardinality(S) /\ NextAt(S, j) = Done)
         /\ NextAt(S, j) \in 1..Done
         /\ Cardinality(Below(S, NextAt(S, j))) = j
         /\ \A i \in 1..j : i \in 1..Cardinality(S) /\ Nth(S, i) < NextAt(S, j)
         /\ \A p \in S : p < NextAt(S, j) => \E i \in 1..j : Nth(S, i) = p
<1>1. NParams \in Nat /\ \A p \in S : p \in 1..NParams
  BY ParamAssumption DEF Params
<1>2. IsFiniteSet(1..NParams)
  BY <1>1, FS_Interval
<1>3. S \in SUBSET Nat /\ IsFiniteSet(S) /\ Cardinality(S) \in Nat
  <2>1. S \subseteq 1..NParams /\ 1..NParams \subseteq Nat
    BY <1>1
  <2>2. S \in SUBSET Nat
    BY <2>1
  <2> QED BY <1>2, <2>1, <2>2, FS_Subset, FS_CardinalityType
<1>4. PICK C \in Nat : C = Cardinality(S)
  BY <1>3
<1>5. \A i \in 1..j : i \in 1..C
  BY <1>4
<1>6. CASE j = C
  <2>1. PICK d : d = NextAt(S, j) /\ d = NParams + 1 /\ d = Done
    BY <1>4, <1>6 DEF NextAt, Done
  <2>2. \A p \in S : p \in Nat /\ p < d
    BY <1>1, <2>1
  <2>3. Below(S, d) = S
    BY <2>2 DEF Below
  <2>4. \A i \in 1..j : Nth(S, i) < d
    BY <1>3, <1>4, <1>5, <2>2, NthIs, NthIsNthOf
  <2>5. \A p \in S : Rank(S, p) + 1 \in 1..j /\ Nth(S, Rank(S, p) + 1) = p
    BY <1>3, <1>4, <1>6, NthReaches, NthIsNthOf
  <2>6. d \in 1..Done
    BY <1>1, <2>1
  <2> QED BY <1>3, <1>4, <1>5, <1>6, <2>1, <2>3, <2>4, <2>5, <2>6
<1>7. CASE j # C
  <2>0. j \in Nat /\ j + 1 \in 1..C /\ (j + 1) - 1 = j
    BY <1>4, <1>7
  <2>1. PICK d \in S : d = NextAt(S, j) /\ d = Nth(S, j + 1) /\ Rank(S, d) = j
    BY <1>3, <1>4, <1>7, <2>0, NthIs, NthIsNthOf DEF NextAt
  <2>2. Cardinality(Below(S, d)) = j
    BY <2>1 DEF Rank
  <2>3. \A i \in 1..j : i < j + 1
    BY <2>0
  <2>4. \A i \in 1..j : Nth(S, i) < d
    BY <1>3, <1>4, <1>5, <2>0, <2>1, <2>3, NthAscends, NthIsNthOf
  <2>5. ASSUME NEW p \in S, p < d
        PROVE  \E i \in 1..j : Nth(S, i) = p
    <3>1. PICK r \in Nat : r = Rank(S, p)
      BY <1>3, RankInSet
    <3>2. r < j
      BY <1>3, <2>1, <2>5, <3>1, RankGrows
    <3>3. r + 1 \in 1..j
      BY <2>0, <3>1, <3>2
    <3>4. Nth(S, r + 1) = p
      BY <1>3, <3>1, NthReaches, NthIsNthOf
    <3> QED BY <3>3, <3>4
  <2>6. d \in 1..Done
    BY <1>1, <2>1 DEF Done
  <2> QED BY <1>3, <1>4, <1>5, <2>1, <2>2, <2>4, <2>5, <2>6
<1> QED BY <1>6, <1>7

(* Two sets of numbers, the second one's members all later than the first  *)
(* one's: their numbers add.                                               *)
LEMMA CountsAdd ==
  ASSUME NEW A, NEW B, IsFiniteSet(A), IsFiniteSet(B), A \cap B = {}
  PROVE  Cardinality(A \cup B) = Cardinality(A) + Cardinality(B)
<1>1. Cardinality(A \cap B) = 0
  BY FS_EmptySet
<1>2. Cardinality(A) \in Nat /\ Cardinality(B) \in Nat
  BY FS_CardinalityType
<1>3. Cardinality(A \cup B) = Cardinality(A) + Cardinality(B) - Cardinality(A \cap B)
  BY FS_Union
<1> QED BY <1>1, <1>2, <1>3

----------------------------------------------------------------------------
(* A link's list moves on by j parameters of what is ahead of its cursor.  *)
SentSoFar(c, A, j) == [i \in 1..j |-> [at |-> Nth(A, i), index |-> c.index + i - 1, count |-> c.count]]
Moved(c, A, j) == [c EXCEPT !.at = NextAt(A, j), !.index = @ + j]

LEMMA AheadIs ==
  ASSUME NEW c \in Cursors
  PROVE  /\ Ahead(c) \in SUBSET Params
         /\ \A p \in Ahead(c) : c.at <= p
         /\ \A p \in Visible(value) : c.at <= p => p \in Ahead(c)
<1>1. NParams \in Nat /\ c.at \in 1..(NParams + 1)
  BY ParamAssumption DEF Cursors, Done
<1>2. \A p \in Visible(value) : p \in 1..NParams
  BY VisibleIs DEF Params
<1>3. c.at # Done => c.at \in 1..NParams
  BY <1>1 DEF Done
<1> QED BY <1>1, <1>2, <1>3 DEF Ahead, Params, Done

LEMMA ListMoves ==
  ASSUME ListInv, NEW c \in Cursors, NEW s \in Seq(Listed), NEW flip \in BOOLEAN,
         CursorOK(c, s, flip, Visible(value)),
         NEW A, A = Ahead(c), NEW j \in 0..Cardinality(A)
  PROVE  /\ Moved(c, A, j) \in Cursors /\ s \o SentSoFar(c, A, j) \in Seq(Listed)
         /\ CursorOK(Moved(c, A, j), s \o SentSoFar(c, A, j), flip, Visible(value))
<1>1. /\ NParams \in Nat /\ c.at \in 1..Done /\ c.index \in Nat /\ c.count \in 0..NParams
      /\ c.at \in Nat /\ Done \in Nat
  BY ParamAssumption DEF Cursors, Done
<1>2. PICK V : V = Visible(value) /\ V \in SUBSET Nat /\ V \subseteq Params /\ IsFiniteSet(V)
  BY VisibleIs
<1>3. /\ A \in SUBSET Params /\ \A p \in A : c.at <= p
      /\ \A p \in V : c.at <= p => p \in A
  BY <1>2, AheadIs
<1>4. A \in SUBSET Nat /\ IsFiniteSet(A) /\ Cardinality(A) \in Nat /\ j \in Nat
  BY <1>3, NextAtIs
<1>5. PICK d : d = NextAt(A, j)
  OBVIOUS
<1>6. /\ d \in A \/ d = Done
      /\ d \in 1..Done /\ d \in Nat
      /\ Cardinality(Below(A, d)) = j
      /\ \A i \in 1..j : i \in 1..Cardinality(A) /\ Nth(A, i) < d
      /\ \A p \in A : p < d => \E i \in 1..j : Nth(A, i) = p
  <2>1. \A x : x \in 1..Done => x \in Nat
    OBVIOUS
  <2> QED BY <1>3, <1>5, <2>1, NextAtIs
<1>7. c.at <= d
  BY <1>1, <1>3, <1>6
<1>8. j <= d - c.at
  <2>1. \A p \in Below(A, d) : p \in c.at..(d - 1)
    BY <1>1, <1>3, <1>4, <1>6 DEF Below
  <2>2. Below(A, d) \subseteq c.at..(d - 1)
    BY <2>1
  <2>3. c.at \in Int /\ d - 1 \in Int
    BY <1>1, <1>6
  <2>4. IsFiniteSet(c.at..(d - 1))
        /\ Cardinality(c.at..(d - 1)) = IF c.at > d - 1 THEN 0 ELSE (d - 1) - c.at + 1
    BY <2>3, FS_Interval
  <2>5. j <= Cardinality(c.at..(d - 1))
    BY <1>6, <2>2, <2>4, FS_Subset
  <2> QED BY <1>1, <1>4, <1>6, <1>7, <2>4, <2>5
<1>9. PICK e : e = Moved(c, A, j)
  OBVIOUS
<1>10. e.at = d /\ e.index = c.index + j /\ e.count = c.count /\ e \in Cursors
  <2>1. e = [c EXCEPT !.at = d, !.index = c.index + j]
    BY <1>5, <1>9 DEF Moved
  <2>2. c.index + j \in Nat
    BY <1>1, <1>4
  <2> QED BY <1>6, <2>1, <2>2 DEF Cursors
<1>11. \A i \in 1..j : Nth(A, i) \in A
  BY <1>4, <1>6, NthIs, NthIsNthOf
<1>12. PICK new : new = SentSoFar(c, A, j)
  OBVIOUS
<1>13. \A i \in 1..j : /\ new[i].at = Nth(A, i) /\ new[i].count = c.count
                       /\ new[i].index = c.index + i - 1
                       /\ new[i] \in Listed
  <2>1. \A i \in 1..j : /\ c.index + i - 1 \in Nat
                        /\ new[i] = [at |-> Nth(A, i), index |-> c.index + i - 1,
                                     count |-> c.count]
    BY <1>1, <1>4, <1>12 DEF SentSoFar
  <2>2. ASSUME NEW i \in 1..j
        PROVE  /\ new[i].at = Nth(A, i) /\ new[i].count = c.count
               /\ new[i].index = c.index + i - 1
               /\ new[i] \in Listed
    <3>1. PICK p \in Params : p = Nth(A, i)
      BY <1>3, <1>11
    <3>2. PICK x \in Nat : x = c.index + i - 1
      BY <2>1
    <3>3. new[i] = [at |-> p, index |-> x, count |-> c.count]
      BY <2>1, <3>1, <3>2
    <3>4. new[i] \in Listed
      BY <1>1, <3>3 DEF Listed
    <3>5. new[i].at = p /\ new[i].count = c.count /\ new[i].index = x
      BY <3>3
    <3> QED BY <3>1, <3>2, <3>4, <3>5
  <2> QED BY <2>2
<1>14. new \in Seq(Listed) /\ Len(new) = j
  <2>1. new \in [1..j -> Listed]
    BY <1>12, <1>13 DEF SentSoFar
  <2> QED BY <1>4, <2>1, LenProperties
<1>15. PICK n \in Nat : n = Len(s)
  OBVIOUS
<1>16. PICK t : t = s \o new
  OBVIOUS
<1>17. /\ t \in Seq(Listed) /\ Len(t) = n + j
       /\ \A i \in 1..n : t[i] = s[i]
       /\ \A i \in 1..j : t[n + i] = new[i]
  <2>1. /\ t \in Seq(Listed) /\ Len(t) = n + j
        /\ \A i \in 1..(n + j) : t[i] = IF i <= n THEN s[i] ELSE new[i - n]
    BY <1>14, <1>15, <1>16, ConcatProperties
  <2>2. \A i \in 1..n : i \in 1..(n + j) /\ i <= n
    BY <1>4
  <2>3. \A i \in 1..j : n + i \in 1..(n + j) /\ ~(n + i <= n) /\ (n + i) - n = i
    BY <1>4
  <2> QED BY <2>1, <2>2, <2>3
<1>18. \A i \in 1..(n + j) : i \in 1..n \/ \E k \in 1..j : i = n + k
  <2>1. \A i \in 1..(n + j) : i \in 1..n \/ (i - n \in 1..j /\ i = n + (i - n))
    BY <1>4
  <2> QED BY <2>1
<1>19. Numbered(e, t)
  <2>1. e.index = Len(t) /\ e.index < e.at
    BY <1>1, <1>4, <1>6, <1>8, <1>10, <1>15, <1>17 DEF CursorOK, Numbered
  <2>2. \A i \in 1..n : t[i].index = i - 1 /\ t[i].count = e.count
    BY <1>10, <1>15, <1>17 DEF CursorOK, Numbered
  <2>3. \A k \in 1..j : t[n + k].index = (n + k) - 1 /\ t[n + k].count = e.count
    BY <1>10, <1>13, <1>15, <1>17 DEF CursorOK, Numbered
  <2>4. ASSUME NEW i \in 1..(n + j)
        PROVE  t[i].index = i - 1 /\ t[i].count = e.count
    <3>1. CASE i \in 1..n
      BY <2>2, <3>1
    <3>2. CASE ~(i \in 1..n)
      <4>1. PICK k \in 1..j : i = n + k
        BY <1>18, <3>2
      <4> QED BY <2>3, <4>1
    <3> QED BY <3>1, <3>2
  <2> QED BY <1>17, <2>1, <2>4 DEF Numbered
<1>20. Ascending(e, t)
  <2>1. \A i \in 1..n : t[i].at < c.at /\ t[i].at \in Nat
    <3>1. \A i \in 1..n : s[i].at < c.at /\ s[i] \in Listed
      BY <1>15 DEF CursorOK, Ascending
    <3>2. \A i \in 1..n : s[i].at \in Nat
      BY <3>1 DEF Listed, Params
    <3> QED BY <1>17, <3>1, <3>2
  <2>2. \A k \in 1..j : t[n + k].at < d /\ c.at <= t[n + k].at /\ t[n + k].at \in Nat
    <3>1. \A k \in 1..j : t[n + k].at = Nth(A, k)
      BY <1>13, <1>17
    <3>2. \A k \in 1..j : Nth(A, k) < d /\ c.at <= Nth(A, k) /\ Nth(A, k) \in Nat
      BY <1>3, <1>4, <1>6, <1>11
    <3> QED BY <3>1, <3>2
  <2>3. ASSUME NEW i \in 1..(n + j)
        PROVE  t[i].at < d
    <3>1. CASE i \in 1..n
      <4>1. t[i].at < c.at /\ t[i].at \in Nat
        BY <2>1, <3>1
      <4> QED BY <1>1, <1>6, <1>7, <4>1
    <3>2. CASE ~(i \in 1..n)
      <4>1. PICK k \in 1..j : i = n + k
        BY <1>18, <3>2
      <4> QED BY <2>2, <4>1
    <3> QED BY <3>1, <3>2
  <2>4. ASSUME NEW i \in 1..(n + j), NEW k \in 1..(n + j), i < k
        PROVE  t[i].at < t[k].at
    <3>1. CASE i \in 1..n /\ k \in 1..n
      BY <1>15, <1>17, <2>4, <3>1 DEF CursorOK, Ascending
    <3>2. CASE i \in 1..n /\ ~(k \in 1..n)
      <4>1. PICK y \in 1..j : k = n + y
        BY <1>18, <3>2
      <4>2. t[i].at < c.at /\ t[i].at \in Nat
        BY <2>1, <3>2
      <4>3. c.at <= t[k].at /\ t[k].at \in Nat
        BY <2>2, <4>1
      <4> QED BY <1>1, <4>2, <4>3
    <3>3. CASE ~(i \in 1..n)
      <4>1. PICK x \in 1..j : i = n + x
        BY <1>18, <3>3
      <4>2. PICK y \in 1..j : k = n + y
        <5>1. ~(k \in 1..n)
          BY <2>4, <3>3
        <5> QED BY <1>18, <5>1
      <4>3. x < y /\ x \in 1..Cardinality(A) /\ y \in 1..Cardinality(A)
        BY <1>6, <2>4, <4>1, <4>2
      <4>4. Nth(A, x) < Nth(A, y)
        BY <1>4, <4>3, NthAscends, NthIsNthOf
      <4> QED BY <1>13, <1>17, <4>1, <4>2, <4>4
    <3> QED BY <3>1, <3>2, <3>3
  <2> QED BY <1>10, <1>17, <2>3, <2>4 DEF Ascending
<1>21. NoneMissed(e, t)
  <2>1. CASE NeverAsked(c, s)
    <3>1. A = {} /\ j = 0 /\ n = 0
      <4>1. A = {} /\ s = <<>>
        BY <2>1 DEF NeverAsked, Ahead
      <4> QED BY <1>15, <4>1, FS_EmptySet
    <3>2. d = Done
      BY <1>6, <3>1
    <3>3. t = <<>>
      BY <1>17, <3>1, EmptySeq
    <3> QED BY <1>10, <3>2, <3>3 DEF NoneMissed, NeverAsked
  <2>2. CASE ~NeverAsked(c, s)
    <3>1. ASSUME NEW p \in Params \ Group, p < d
          PROVE  \E i \in 1..(n + j) : t[i].at = p
      <4>1. p \in V /\ p \in Nat
        BY <1>2, VisibleIs
      <4>2. CASE p < c.at
        <5>1. PICK i \in 1..n : s[i].at = p
          BY <1>15, <2>2, <4>2 DEF CursorOK, NoneMissed
        <5>2. i \in 1..(n + j)
          BY <1>4
        <5> QED BY <1>17, <5>1, <5>2
      <4>3. CASE ~(p < c.at)
        <5>1. p \in A
          BY <1>1, <1>3, <4>1, <4>3
        <5>2. PICK i \in 1..j : Nth(A, i) = p
          BY <1>6, <3>1, <5>1
        <5>3. n + i \in 1..(n + j)
          BY <1>4
        <5>4. t[n + i].at = p
          BY <1>13, <1>17, <5>2
        <5> QED BY <5>3, <5>4
      <4> QED BY <4>2, <4>3
    <3> QED BY <1>10, <1>17, <3>1 DEF NoneMissed
  <2> QED BY <2>1, <2>2
<1>22. ASSUME ~flip
       PROVE  AsAnnounced(e, t, V)
  <2>1. /\ c.count = Cardinality(V) /\ n = Cardinality(Below(V, c.at))
        /\ c.at \in V \/ c.at = Done
    BY <1>2, <1>15, <1>22 DEF CursorOK, AsAnnounced
  <2>2. \A p \in A : p \in V
    BY <1>2, <2>1 DEF Ahead
  <2>3. d \in V \/ d = Done
    BY <1>6, <2>2
  <2>4. Below(V, d) = Below(V, c.at) \cup Below(A, d)
    <3>1. \A p \in V : p \in Nat
      BY <1>2
    <3>2. \A p \in V : p < d <=> p < c.at \/ (p \in A /\ p < d)
      BY <1>1, <1>3, <1>6, <1>7, <3>1
    <3> QED BY <2>2, <3>2 DEF Below
  <2>5. Below(V, c.at) \cap Below(A, d) = {}
    <3>1. \A p \in A : p \in Nat /\ ~(p < c.at)
      BY <1>1, <1>3, <1>4
    <3> QED BY <3>1 DEF Below
  <2>6. IsFiniteSet(Below(V, c.at)) /\ IsFiniteSet(Below(A, d))
    <3>1. Below(V, c.at) \subseteq V /\ Below(A, d) \subseteq A
      BY DEF Below
    <3> QED BY <1>2, <1>4, <3>1, FS_Subset
  <2>7. Cardinality(Below(V, d)) = n + j
    BY <1>6, <2>1, <2>4, <2>5, <2>6, CountsAdd
  <2> QED BY <1>10, <1>17, <2>1, <2>3, <2>7 DEF AsAnnounced
<1>23. CursorOK(e, t, flip, V)
  BY <1>19, <1>20, <1>21, <1>22 DEF CursorOK
<1> QED BY <1>2, <1>9, <1>10, <1>12, <1>16, <1>17, <1>23

LEMMA QueuedParamSendKeepsLists ==
  ASSUME ListInv, NEW l \in Links, NEW k \in 0..Burst, NEW j \in 0..Burst,
         QueuedParamSend(l, k, j)
  PROVE  ListInv'
<1>1. PICK c \in Cursors : c = list[l]
  BY DEF ListInv, ListShape
<1>2. PICK s \in Seq(Listed) : s = listed[l]
  BY DEF ListInv, ListShape
<1>3. PICK A : A = Ahead(c)
  OBVIOUS
<1>4. Cardinality(A) \in Nat
  <2>1. A \in SUBSET Params
    BY <1>3, AheadIs
  <2>2. IsFiniteSet(Params)
    BY ParamAssumption, FS_Interval DEF Params
  <2> QED BY <2>1, <2>2, FS_Subset, FS_CardinalityType
<1>5. /\ j \in 0..Cardinality(A)
      /\ list' = [list EXCEPT ![l] = Moved(c, A, j)]
      /\ listed' = [listed EXCEPT ![l] = s \o SentSoFar(c, A, j)]
      /\ UNCHANGED <<value, flipped>>
  <2>1. j <= Cardinality(A)
    BY <1>1, <1>3 DEF QueuedParamSend
  <2>2. j \in 0..Cardinality(A)
    BY <1>4, <2>1
  <2>3. list' = [list EXCEPT ![l] = Moved(c, A, j)]
    BY <1>1, <1>3 DEF QueuedParamSend, Moved, NextAt
  <2>4. listed' = [listed EXCEPT ![l] = s \o SentSoFar(c, A, j)]
    BY <1>1, <1>2, <1>3 DEF QueuedParamSend, SentSoFar
  <2>5. UNCHANGED <<value, flipped>>
    BY DEF QueuedParamSend
  <2> QED BY <2>2, <2>3, <2>4, <2>5
<1>6. flipped[l] \in BOOLEAN /\ CursorOK(c, s, flipped[l], Visible(value))
  BY <1>1, <1>2 DEF ListInv, ListShape
<1>7. PICK m \in Cursors : m = Moved(c, A, j)
  BY <1>3, <1>5, <1>6, ListMoves
<1>8. PICK t \in Seq(Listed) : t = s \o SentSoFar(c, A, j)
  BY <1>3, <1>5, <1>6, ListMoves
<1>9. CursorOK(m, t, flipped[l], Visible(value))
  BY <1>3, <1>5, <1>6, <1>7, <1>8, ListMoves
<1>10. ListShape'
  BY <1>5, <1>7, <1>8 DEF ListInv, ListShape
<1>11. ASSUME NEW x \in Links
       PROVE  CursorOK(list'[x], listed'[x], flipped'[x], Visible(value'))
  <2>1. CASE x = l
    <3>1. list'[x] = m /\ listed'[x] = t
      BY <1>5, <1>7, <1>8, <2>1 DEF ListInv, ListShape
    <3> QED BY <1>5, <1>9, <2>1, <3>1
  <2>2. CASE x # l
    <3>1. list'[x] = list[x] /\ listed'[x] = listed[x]
      BY <1>5, <2>2 DEF ListInv, ListShape
    <3> QED BY <1>5, <3>1 DEF ListInv
  <2> QED BY <2>1, <2>2
<1> QED BY <1>10, <1>11 DEF ListInv

LEMMA ListInvNext ==
  ASSUME ListInv, [ParamNext]_paramVars
  PROVE  ListInv'
<1>1. ASSUME NEW l \in Links, RequestList(l)
      PROVE  ListInv'
  BY <1>1, RequestListKeeps
<1>2. ASSUME NEW l \in Links, NEW key \in Keys, RequestRead(l, key)
      PROVE  ListInv'
  BY <1>2, ListsUnchanged DEF RequestRead, ListVars
<1>3. ASSUME NEW l \in Links, NEW k \in 0..Burst, NEW j \in 0..Burst, QueuedParamSend(l, k, j)
      PROVE  ListInv'
  BY <1>3, QueuedParamSendKeepsLists
<1>4. ASSUME NEW p \in Params, NEW b \in BOOLEAN, ParamSet(p, b)
      PROVE  ListInv'
  BY <1>4, ParamSetKeepsLists
<1>5. CASE IoRead
  BY <1>5, ListsUnchanged DEF IoRead, ListVars
<1>6. CASE IoPush
  BY <1>6, ListsUnchanged DEF IoPush, ListVars
<1>7. CASE UNCHANGED paramVars
  BY <1>7, ListsUnchanged DEF paramVars, ListVars
<1> QED BY <1>1, <1>2, <1>3, <1>4, <1>5, <1>6, <1>7 DEF ParamNext

(* A list whose cursor is past the last parameter has sent all of them.    *)
LEMMA EndedIsComplete ==
  ASSUME NEW c \in Cursors, NEW s \in Seq(Listed), NEW flip \in BOOLEAN, NEW v,
         CursorOK(c, s, flip, Visible(v)), c.at = Done, s # <<>>
  PROVE  /\ Params \ Group \subseteq {s[i].at : i \in 1..Len(s)}
         /\ ~flip => Len(s) = s[1].count
<1>1. NParams \in Nat /\ \A p \in Params : p \in 1..NParams
  BY ParamAssumption DEF Params
<1>2. \A p \in Params : p < Done
  BY <1>1 DEF Done
<1>3. Params \ Group \subseteq {s[i].at : i \in 1..Len(s)}
  BY <1>2 DEF CursorOK, NoneMissed, NeverAsked
<1>4. 1 \in 1..Len(s)
  BY EmptySeq, LenProperties
<1>5. s[1].count = c.count
  BY <1>4 DEF CursorOK, Numbered
<1>6. Below(Visible(v), Done) = Visible(v)
  BY <1>2, VisibleIs DEF Below
<1>7. ~flip => Len(s) = c.count
  BY <1>6 DEF CursorOK, AsAnnounced
<1> QED BY <1>3, <1>5, <1>7

(* Whatever is asked for and set in between and however often a list is    *)
(* asked for anew, for any number of links and parameters, a list that has *)
(* ended has sent every parameter that was visible all along once, in the  *)
(* order of its numbers (handle_param_request_list(),                      *)
(* queued_param_send()).                                                   *)
THEOREM ListsAreComplete == ParamSpec => []ListComplete
<1>1. ASSUME ListInv
      PROVE  ListComplete
  <2>1. ASSUME NEW l \in Links
        PROVE  LET seen == listed[l] IN
                 /\ \A i \in 1..Len(seen) : seen[i].index = i - 1
                 /\ \A i, j \in 1..Len(seen) : i < j => seen[i].at < seen[j].at
                 /\ (list[l].at = Done /\ seen # <<>>) =>
                        /\ Params \ Group \subseteq {seen[i].at : i \in 1..Len(seen)}
                        /\ ~flipped[l] => Len(seen) = seen[1].count
    <3>1. /\ CursorOK(list[l], listed[l], flipped[l], Visible(value))
          /\ list[l] \in Cursors /\ listed[l] \in Seq(Listed) /\ flipped[l] \in BOOLEAN
      BY <1>1 DEF ListInv, ListShape
    <3>2. \A i \in 1..Len(listed[l]) : listed[l][i].index = i - 1
      BY <3>1 DEF CursorOK, Numbered
    <3>3. \A i, j \in 1..Len(listed[l]) : i < j => listed[l][i].at < listed[l][j].at
      BY <3>1 DEF CursorOK, Ascending
    <3>4. (list[l].at = Done /\ listed[l] # <<>>) =>
              /\ Params \ Group \subseteq {listed[l][i].at : i \in 1..Len(listed[l])}
              /\ ~flipped[l] => Len(listed[l]) = listed[l][1].count
      BY <3>1, EndedIsComplete
    <3> QED BY <3>2, <3>3, <3>4
  <2> QED BY <2>1 DEF ListComplete
<1> QED BY <1>1, ListInvInit, ListInvNext, PTL DEF ParamSpec

(* The type invariant: the queues keep their bounds and no list's index    *)
(* passes its number of parameters.                                        *)
THEOREM ParamsTyped == ParamSpec => []ParamTypeOK
<1>1. ASSUME ReadInv, ListInv
      PROVE  ParamTypeOK
  <2>1. /\ value \in [Params -> BOOLEAN]
        /\ Len(paramRequests) <= RequestLength /\ Len(paramReplies) <= ReplyLength
        /\ Len(asks) = Len(answers)
    BY <1>1 DEF ReadInv, ReadShape, Values
  <2>2. ASSUME NEW l \in Links
        PROVE  /\ list[l].at \in 1..Done
               /\ list[l].index \in 0..NParams /\ list[l].count \in 0..NParams
    <3>1. /\ list[l].at \in 1..Done /\ list[l].index \in Nat /\ list[l].count \in 0..NParams
          /\ list[l].index < list[l].at
      BY <1>1 DEF ListInv, ListShape, Cursors, CursorOK, Numbered
    <3>2. NParams \in Nat /\ Done = NParams + 1
      BY ParamAssumption DEF Done
    <3> QED BY <3>1, <3>2
  <2> QED BY <2>1, <2>2 DEF ParamTypeOK
<1> QED BY <1>1, ReadInvInit, ReadInvNext, ListInvInit, ListInvNext, PTL DEF ParamSpec
=============================================================================
