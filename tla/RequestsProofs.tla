--------------------------- MODULE RequestsProofs ---------------------------
(***************************************************************************)
(* Proofs about Requests, for any plans and any number of requests: the    *)
(* callback is called once, success means that every step was carried out, *)
(* steps are carried out in order, and a retry is not overtaken by the     *)
(* call that timed out; the service of RequestService is implemented. And  *)
(* about Settings, for any calls of the API: a client reads what it has    *)
(* set.                                                                    *)
(*                                                                         *)
(* The argument: a request has at most one call on the bus, its latest,    *)
(* and goes on only when that one was carried out. So the steps carried    *)
(* out are those before the latest and perhaps the latest itself, and a    *)
(* request that is over adds nothing behind the calls of a later one.      *)
(*                                                                         *)
(* For the settings, each function of the API is shown to set what it      *)
(* means, in the terms of the function that reads it. A request that was   *)
(* over before the one that reads began was carried out before it; what    *)
(* is read was set by it or by a later one, and not by an earlier one,     *)
(* which cannot have overtaken it.                                         *)
(***************************************************************************)
EXTENDS Settings, TLAPS, WellFoundedInduction

\* The callback of a request is called once, when the request is over: not
\* again for a late reply, and not before.
CalledBackOnce ==
  \A r \in Request : reqs[r].told = IF Over(r) THEN 1 ELSE 0

\* A request is told the outcome of its last call, and of success only at the
\* end of its plan.
ResultIsOutcome ==
  \A r \in Request :
    /\ Over(r) => reqs[r].result = reqs[r].call
    /\ reqs[r].result = "ok" => LastStep(r)

\* The bus holds at most the latest call of each request, and none of a
\* request whose latest call was answered with success.
BusHoldsLatest ==
  /\ \A i \in DOMAIN bus : /\ bus[i].step = reqs[bus[i].req].sent
                           /\ reqs[bus[i].req].call # "ok"
  /\ \A i, j \in DOMAIN bus : bus[i].req = bus[j].req => i = j

\* A step that was carried out is not on the bus any more, and was sent.
WrittenWasSent ==
  \A j \in DOMAIN written :
    /\ written[j].step <= reqs[written[j].req].sent
    /\ \A i \in DOMAIN bus : bus[i] # written[j]

\* Every step before the latest was carried out, and the latest too if it was
\* answered with success.
SentWasWritten ==
  \A r \in Request : \A k \in 1..reqs[r].sent :
    k < reqs[r].sent \/ reqs[r].call = "ok" =>
      \E j \in DOMAIN written : written[j] = [req |-> r, step |-> k]

\* The requests that were over when another one was made are over.
BeforeIsOver ==
  \A r \in Request : \A q \in reqs[r].before : q \in Request /\ Over(q)

\* What is carried out or waits on the bus after a call of request `r` is not
\* of a request that was over when `r` was made.
OrderKept ==
  /\ RetryNotOvertaken
  /\ \A i \in DOMAIN written, j \in DOMAIN bus :
       bus[j].req \notin reqs[written[i].req].before
  /\ \A i, j \in DOMAIN bus :
       i < j => bus[j].req \notin reqs[bus[i].req].before

IInv ==
  /\ TypeOK
  /\ CalledBackOnce
  /\ ResultIsOutcome
  /\ BusHoldsLatest
  /\ WrittenWasSent
  /\ SentWasWritten
  /\ BeforeIsOver
  /\ OrderKept
  /\ StepsInOrder

-----------------------------------------------------------------------------
(***************************************************************************)
(* Steps that only answer a call                                           *)
(***************************************************************************)

\* What a reply leaves alone: the requests, but for the state of the last
\* call of one of them.
OnlyCallsAnswered ==
  /\ reqs' \in Seq(RequestState)
  /\ Len(reqs') = Len(reqs)
  /\ \A q \in Request :
       /\ reqs'[q].plan = reqs[q].plan
       /\ reqs'[q].sent = reqs[q].sent
       /\ reqs'[q].result = reqs[q].result
       /\ reqs'[q].told = reqs[q].told
       /\ reqs'[q].before = reqs[q].before
       /\ reqs[q].call # "pending" => reqs'[q].call = reqs[q].call

\* A pending call may be answered: nothing else of the requests changes.
LEMMA AnswerCall ==
  ASSUME TypeOK, NEW r \in Request, NEW o \in {"ok", "failed"},
         reqs[r].call = "pending", reqs' = [reqs EXCEPT ![r].call = o]
  PROVE  /\ OnlyCallsAnswered
         /\ \A q \in Request \ {r} : reqs'[q].call = reqs[q].call
         /\ reqs'[r].call = o
<1>1. reqs \in Seq(RequestState)
  BY DEF TypeOK
<1>2. \A q \in Request : reqs[q] \in RequestState
  BY <1>1 DEF Request
<1>3. [reqs[r] EXCEPT !.call = o] \in RequestState
  BY <1>2 DEF RequestState
<1>4. reqs' = [reqs EXCEPT ![r] = [reqs[r] EXCEPT !.call = o]]
  BY <1>1 DEF Request
<1>5. reqs' \in Seq(RequestState) /\ Len(reqs') = Len(reqs)
  BY <1>1, <1>3, <1>4 DEF Request
<1>6. reqs'[r] = [reqs[r] EXCEPT !.call = o]
  BY <1>1, <1>4 DEF Request
<1>7. \A q \in Request \ {r} : reqs'[q] = reqs[q]
  BY <1>1, <1>4 DEF Request
<1>8. /\ reqs'[r].plan = reqs[r].plan
      /\ reqs'[r].sent = reqs[r].sent
      /\ reqs'[r].result = reqs[r].result
      /\ reqs'[r].told = reqs[r].told
      /\ reqs'[r].before = reqs[r].before
      /\ reqs'[r].call = o
  BY <1>2, <1>6 DEF RequestState
<1>9. QED
  BY <1>5, <1>7, <1>8 DEF OnlyCallsAnswered

\* The reply to call `c` changes no more than the state of that call.
LEMMA ReplyAnswers ==
  ASSUME TypeOK, NEW c \in Call, c.req \in Request,
         NEW o \in {"ok", "failed"}, Reply(c, o)
  PROVE  /\ OnlyCallsAnswered
         /\ \A q \in Request : reqs'[q].call = "ok" /\ reqs[q].call # "ok"
                                 => o = "ok" /\ q = c.req /\ c.step = reqs[q].sent
<1>1. CASE reqs[c.req].sent = c.step /\ reqs[c.req].call = "pending"
  <2>1. reqs' = [reqs EXCEPT ![c.req].call = o]
    BY <1>1 DEF Reply
  <2>2. /\ OnlyCallsAnswered
        /\ \A q \in Request \ {c.req} : reqs'[q].call = reqs[q].call
        /\ reqs'[c.req].call = o
    BY <1>1, <2>1, AnswerCall
  <2>3. QED
    BY <1>1, <2>2
<1>2. CASE ~(reqs[c.req].sent = c.step /\ reqs[c.req].call = "pending")
  <2>1. reqs' = reqs
    BY <1>2 DEF Reply
  <2>2. QED
    BY <2>1 DEF OnlyCallsAnswered, TypeOK
<1>3. QED
  BY <1>1, <1>2

\* When calls are answered and the bus may have lost calls, what concerns only
\* the results and the histories of the requests is kept.
LEMMA AnswersKeepResults ==
  ASSUME TypeOK, CalledBackOnce, ResultIsOutcome, BeforeIsOver,
         OnlyCallsAnswered
  PROVE  CalledBackOnce' /\ ResultIsOutcome' /\ BeforeIsOver'
<1>1. Request' = Request
  BY DEF OnlyCallsAnswered, TypeOK, Request
<1>2. \A q \in Request : Over(q)' <=> Over(q)
  BY DEF OnlyCallsAnswered, Over
<1>3. CalledBackOnce'
  BY <1>1, <1>2 DEF CalledBackOnce, OnlyCallsAnswered
<1>4. ASSUME NEW r \in Request
      PROVE  /\ Over(r)' => reqs'[r].result = reqs'[r].call
             /\ reqs'[r].result = "ok" => LastStep(r)'
  <2>1. reqs[r] \in RequestState
    BY DEF TypeOK, Request
  <2>2. Over(r) => reqs[r].call # "pending"
    BY <2>1 DEF ResultIsOutcome, Over, RequestState
  <2>3. Over(r)' => reqs'[r].result = reqs'[r].call
    BY <1>2, <2>2 DEF ResultIsOutcome, OnlyCallsAnswered
  <2>4. reqs'[r].result = "ok" => LastStep(r)'
    BY DEF ResultIsOutcome, OnlyCallsAnswered, LastStep
  <2>5. QED
    BY <2>3, <2>4
<1>5. ResultIsOutcome'
  BY <1>1, <1>4 DEF ResultIsOutcome
<1>6. BeforeIsOver'
  BY <1>1, <1>2 DEF BeforeIsOver, OnlyCallsAnswered
<1>7. QED
  BY <1>3, <1>5, <1>6

\* The oldest call on the bus, and the bus without it.
LEMMA OldestCall ==
  ASSUME TypeOK, bus # <<>>, bus' = Tail(bus)
  PROVE  /\ Head(bus) = bus[1] /\ 1 \in DOMAIN bus
         /\ Head(bus) \in Call /\ Head(bus).req \in Request
         /\ bus' \in Seq(Call)
         /\ \A i \in DOMAIN bus' : i + 1 \in DOMAIN bus /\ bus'[i] = bus[i + 1]
         /\ \A i \in DOMAIN bus' : i \in Nat /\ i >= 1
<1>1. bus \in Seq(Call) /\ Len(bus) \in Nat /\ Len(bus) > 0
  BY DEF TypeOK
<1>2. Head(bus) = bus[1] /\ 1 \in DOMAIN bus
  BY <1>1
<1>3. Head(bus) \in Call /\ Head(bus).req \in Request
  BY <1>1, <1>2 DEF TypeOK
<1>4. bus' \in Seq(Call) /\ Len(bus') = Len(bus) - 1
  BY <1>1
<1>5. \A i \in DOMAIN bus' : i + 1 \in DOMAIN bus /\ bus'[i] = bus[i + 1]
  BY <1>1, <1>4
<1>6. \A i \in DOMAIN bus' : i \in Nat /\ i >= 1
  BY <1>4
<1>7. QED
  BY <1>2, <1>3, <1>4, <1>5, <1>6

\* When the oldest call leaves the bus, what the bus held behind it is as
\* before.
LEMMA BusAfterReply ==
  ASSUME TypeOK, BusHoldsLatest, bus # <<>>, bus' = Tail(bus),
         NEW o \in {"ok", "failed"}, Reply(Head(bus), o)
  PROVE  BusHoldsLatest'
<1>1. /\ Head(bus) = bus[1] /\ 1 \in DOMAIN bus
      /\ Head(bus) \in Call /\ Head(bus).req \in Request
      /\ \A i \in DOMAIN bus' : i + 1 \in DOMAIN bus /\ bus'[i] = bus[i + 1]
      /\ \A i \in DOMAIN bus' : i \in Nat /\ i >= 1
  BY OldestCall
<1>2. /\ OnlyCallsAnswered
      /\ \A q \in Request : reqs'[q].call = "ok" /\ reqs[q].call # "ok"
                              => q = Head(bus).req
  BY <1>1, ReplyAnswers
<1>3. ASSUME NEW i \in DOMAIN bus'
      PROVE  /\ bus'[i].step = reqs'[bus'[i].req].sent
             /\ reqs'[bus'[i].req].call # "ok"
  <2>1. i + 1 # 1
    BY <1>1
  <2>2. bus[i + 1].req \in Request
    BY <1>1 DEF TypeOK
  <2>3. bus[i + 1].req # bus[1].req
    BY <1>1, <2>1 DEF BusHoldsLatest
  <2>4. reqs[bus[i + 1].req].call # "ok"
    BY <1>1 DEF BusHoldsLatest
  <2>5. reqs'[bus[i + 1].req].call # "ok"
    BY <1>1, <1>2, <2>2, <2>3, <2>4
  <2>6. bus[i + 1].step = reqs[bus[i + 1].req].sent
    BY <1>1 DEF BusHoldsLatest
  <2>7. QED
    BY <1>1, <1>2, <2>2, <2>5, <2>6 DEF OnlyCallsAnswered
<1>4. ASSUME NEW i \in DOMAIN bus', NEW j \in DOMAIN bus',
             bus'[i].req = bus'[j].req
      PROVE  i = j
  <2>1. i + 1 = j + 1
    BY <1>1, <1>4 DEF BusHoldsLatest
  <2>2. QED
    BY <1>1, <2>1
<1>5. QED
  BY <1>3, <1>4 DEF BusHoldsLatest

\* The types after a reply, for a bus that holds calls of requests.
LEMMA TypeAfterAnswer ==
  ASSUME TypeOK, OnlyCallsAnswered, UNCHANGED <<modem, crashed>>,
         bus' \in Seq(Call), written' \in Seq(Call),
         \A i \in DOMAIN bus' : bus'[i].req \in Request,
         \A i \in DOMAIN written' : written'[i].req \in Request
  PROVE  TypeOK'
<1>1. Request' = Request
  BY DEF OnlyCallsAnswered, TypeOK, Request
<1>2. reqs' \in Seq(RequestState) /\ Len(reqs') <= MaxRequests
  BY DEF OnlyCallsAnswered, TypeOK
<1>3. \A r \in Request' : reqs'[r].sent <= Len(reqs'[r].plan)
  BY <1>1 DEF OnlyCallsAnswered, TypeOK
<1>4. QED
  BY <1>1, <1>2, <1>3 DEF TypeOK

\* The daemon carries out a call: the step it adds is the next of its plan, and
\* is not of a request that was over when another one was made.
LEMMA AcceptKeeps ==
  ASSUME IInv, Accept
  PROVE  IInv'
<1> DEFINE c == Head(bus)
           n == Len(written)
<1>1. TypeOK /\ BusHoldsLatest /\ bus # <<>> /\ bus' = Tail(bus)
  BY DEF IInv, Accept
<1>2. PICK o \in {"ok", "failed"} : Reply(c, o)
  BY DEF Accept
<1>3. /\ c = bus[1] /\ 1 \in DOMAIN bus
      /\ c \in Call /\ c.req \in Request
      /\ bus' \in Seq(Call)
      /\ \A i \in DOMAIN bus' : i + 1 \in DOMAIN bus /\ bus'[i] = bus[i + 1]
      /\ \A i \in DOMAIN bus' : i \in Nat /\ i >= 1
  BY <1>1, OldestCall
<1>4. /\ OnlyCallsAnswered
      /\ \A q \in Request : reqs'[q].call = "ok" /\ reqs[q].call # "ok"
                              => q = c.req /\ c.step = reqs[q].sent
  BY <1>1, <1>2, <1>3, ReplyAnswers
<1>5. Request' = Request
  BY <1>4 DEF OnlyCallsAnswered, IInv, TypeOK, Request
<1>6. /\ written \in Seq(Call) /\ n \in Nat
      /\ written' = Append(written, c) /\ written' \in Seq(Call)
      /\ Len(written') = n + 1 /\ DOMAIN written' = 1..(n + 1)
      /\ written'[n + 1] = c
      /\ \A j \in 1..n : written'[j] = written[j]
      /\ DOMAIN written = 1..n
  BY <1>1, <1>3 DEF Accept, TypeOK
<1>7. TypeOK'
  <2>1. \A i \in DOMAIN bus' : bus'[i].req \in Request
    BY <1>1, <1>3 DEF TypeOK
  <2>2. \A j \in DOMAIN written' : written'[j].req \in Request
    <3>1. \A j \in 1..n : written'[j].req \in Request
      BY <1>1, <1>6 DEF TypeOK
    <3>2. QED
      BY <1>3, <1>6, <3>1
  <2>3. QED
    BY <1>1, <1>3, <1>4, <1>6, <2>1, <2>2, TypeAfterAnswer DEF Accept
<1>8. CalledBackOnce' /\ ResultIsOutcome' /\ BeforeIsOver'
  BY <1>4, AnswersKeepResults DEF IInv
<1>9. BusHoldsLatest'
  BY <1>1, <1>2, BusAfterReply
<1>10. c.step = reqs[c.req].sent
  BY <1>1, <1>3 DEF BusHoldsLatest
<1>11. WrittenWasSent'
  <2>1. ASSUME NEW j \in 1..n
        PROVE  /\ written'[j].step <= reqs'[written'[j].req].sent
               /\ \A i \in DOMAIN bus' : bus'[i] # written'[j]
    <3>1. written[j].req \in Request /\ written[j].step <= reqs[written[j].req].sent
      BY <1>6 DEF IInv, TypeOK, WrittenWasSent
    <3>2. \A i \in DOMAIN bus : bus[i] # written[j]
      BY <1>6 DEF IInv, WrittenWasSent
    <3>3. QED
      BY <1>3, <1>4, <1>6, <3>1, <3>2 DEF OnlyCallsAnswered
  <2>2. c.step <= reqs'[c.req].sent
    <3>1. reqs'[c.req].sent = reqs[c.req].sent /\ c.step \in Nat
      BY <1>3, <1>4 DEF OnlyCallsAnswered, Call
    <3>2. QED
      BY <1>10, <3>1
  <2>3. ASSUME NEW i \in DOMAIN bus' PROVE bus'[i] # c
    <3>1. i + 1 # 1 /\ i + 1 \in DOMAIN bus /\ bus'[i] = bus[i + 1]
      BY <1>3
    <3>2. bus[i + 1].req # bus[1].req
      BY <1>1, <1>3, <3>1 DEF BusHoldsLatest
    <3>3. QED
      BY <1>3, <3>1, <3>2
  <2>4. QED
    BY <1>6, <2>1, <2>2, <2>3 DEF WrittenWasSent
<1>12. SentWasWritten'
  <2>1. SUFFICES ASSUME NEW r \in Request, NEW k \in 1..reqs'[r].sent,
                        k < reqs'[r].sent \/ reqs'[r].call = "ok"
                 PROVE  \E j \in DOMAIN written' :
                          written'[j] = [req |-> r, step |-> k]
    BY <1>5 DEF SentWasWritten
  <2>2. reqs'[r].sent = reqs[r].sent /\ reqs[r].sent \in Nat
    <3>1. reqs[r] \in RequestState
      BY <1>1 DEF TypeOK, Request
    <3>2. reqs[r].sent \in Nat
      BY <3>1 DEF RequestState
    <3>3. QED
      BY <1>4, <3>2 DEF OnlyCallsAnswered
  <2>3. CASE k < reqs[r].sent \/ reqs[r].call = "ok"
    <3>1. PICK j \in DOMAIN written : written[j] = [req |-> r, step |-> k]
      BY <2>2, <2>3 DEF IInv, SentWasWritten
    <3>2. j \in DOMAIN written' /\ written'[j] = written[j]
      BY <1>6
    <3>3. QED
      BY <3>1, <3>2
  <2>4. CASE ~(k < reqs[r].sent \/ reqs[r].call = "ok")
    <3>1. r = c.req /\ c.step = reqs[r].sent /\ k = reqs[r].sent
      BY <1>4, <2>1, <2>2, <2>4
    <3>2. c = [req |-> r, step |-> k]
      BY <1>3, <3>1 DEF Call
    <3>3. n + 1 \in DOMAIN written'
      BY <1>6
    <3>4. QED
      BY <1>6, <3>2, <3>3
  <2>5. QED
    BY <2>3, <2>4
<1>13. \A r \in Request : reqs'[r].before = reqs[r].before
  BY <1>4 DEF OnlyCallsAnswered
<1>14. RetryNotOvertaken'
  <2>1. SUFFICES ASSUME NEW i \in DOMAIN written', NEW j \in DOMAIN written', i < j
                 PROVE  written'[j].req \notin reqs'[written'[i].req].before
    BY DEF RetryNotOvertaken
  <2>2. i \in 1..n /\ written'[i] = written[i] /\ written[i].req \in Request
    BY <1>1, <1>6, <2>1 DEF TypeOK
  <2>3. CASE j = n + 1
    BY <1>3, <1>6, <1>13, <2>2, <2>3 DEF IInv, OrderKept
  <2>4. CASE j # n + 1
    <3>1. j \in 1..n /\ written'[j] = written[j]
      BY <1>6, <2>4
    <3>2. QED
      BY <1>6, <1>13, <2>1, <2>2, <3>1 DEF IInv, OrderKept, RetryNotOvertaken
  <2>5. QED
    BY <2>3, <2>4
<1>15. \A i \in DOMAIN written', j \in DOMAIN bus' :
         bus'[j].req \notin reqs'[written'[i].req].before
  <2>1. SUFFICES ASSUME NEW i \in DOMAIN written', NEW j \in DOMAIN bus'
                 PROVE  bus'[j].req \notin reqs'[written'[i].req].before
    OBVIOUS
  <2>2. CASE i = n + 1
    <3>1. 1 < j + 1
      BY <1>3
    <3>2. bus[j + 1].req \notin reqs[c.req].before
      BY <1>3, <3>1 DEF IInv, OrderKept
    <3>3. QED
      BY <1>3, <1>6, <1>13, <2>2, <3>2
  <2>3. CASE i # n + 1
    <3>1. i \in 1..n /\ written'[i] = written[i] /\ written[i].req \in Request
      BY <1>1, <1>6, <2>3 DEF TypeOK
    <3>2. QED
      BY <1>3, <1>6, <1>13, <3>1 DEF IInv, OrderKept
  <2>4. QED
    BY <2>2, <2>3
<1>16. \A i, j \in DOMAIN bus' :
         i < j => bus'[j].req \notin reqs'[bus'[i].req].before
  <2>1. SUFFICES ASSUME NEW i \in DOMAIN bus', NEW j \in DOMAIN bus', i < j
                 PROVE  bus'[j].req \notin reqs'[bus'[i].req].before
    OBVIOUS
  <2>2. i + 1 < j + 1
    BY <1>3, <2>1
  <2>3. bus[j + 1].req \notin reqs[bus[i + 1].req].before
    BY <1>3, <2>2 DEF IInv, OrderKept
  <2>4. bus[i + 1].req \in Request
    BY <1>1, <1>3 DEF TypeOK
  <2>5. QED
    BY <1>3, <1>13, <2>3, <2>4
<1>17. OrderKept'
  BY <1>14, <1>15, <1>16 DEF OrderKept
<1>18. StepsInOrder'
  <2>1. ASSUME NEW j \in 1..n
        PROVE  /\ \A k \in 1..(written'[j].step - 1) : \E i \in 1..(j - 1) :
                    written'[i] = [req |-> written'[j].req, step |-> k]
               /\ \A i \in 1..(j - 1) : written'[i] # written'[j]
    <3>1. \A i \in 1..(j - 1) : written'[i] = written[i]
      BY <1>6
    <3>2. QED
      BY <1>6, <3>1 DEF IInv, StepsInOrder
  <2>2. ASSUME NEW k \in 1..(c.step - 1)
        PROVE  \E i \in 1..n : written'[i] = [req |-> c.req, step |-> k]
    <3>1. c.step \in Nat /\ k \in 1..reqs[c.req].sent /\ k < reqs[c.req].sent
      BY <1>3, <1>10 DEF Call
    <3>2. \E i \in DOMAIN written : written[i] = [req |-> c.req, step |-> k]
      BY <1>3, <3>1 DEF IInv, SentWasWritten
    <3>3. QED
      BY <1>6, <3>2
  <2>3. \A i \in 1..n : written'[i] # c
    BY <1>3, <1>6 DEF IInv, WrittenWasSent
  <2>4. (n + 1) - 1 = n
    BY <1>6
  <2>5. QED
    BY <1>6, <2>1, <2>2, <2>3, <2>4 DEF StepsInOrder
<1>19. QED
  BY <1>7, <1>8, <1>9, <1>11, <1>12, <1>17, <1>18 DEF IInv

\* What was carried out stays in order when nothing is added to it.
LEMMA WrittenKept ==
  ASSUME TypeOK, RetryNotOvertaken, StepsInOrder, written' = written,
         \A r \in Request : reqs'[r].before = reqs[r].before
  PROVE  RetryNotOvertaken' /\ StepsInOrder'
<1>1. \A i \in DOMAIN written : written[i].req \in Request
  BY DEF TypeOK
<1>2. RetryNotOvertaken'
  BY <1>1 DEF RetryNotOvertaken
<1>3. StepsInOrder'
  BY DEF StepsInOrder
<1>4. QED
  BY <1>2, <1>3

\* A call is answered with an error, and `d` calls are gone from the front of
\* the bus.
LEMMA ErrorKeeps ==
  ASSUME IInv, OnlyCallsAnswered,
         \A q \in Request : reqs'[q].call = "ok" => reqs[q].call = "ok",
         NEW d \in {0, 1}, bus' \in Seq(Call),
         \A i \in DOMAIN bus' : i + d \in DOMAIN bus /\ bus'[i] = bus[i + d],
         UNCHANGED <<modem, written, crashed>>
  PROVE  IInv'
<1>1. TypeOK
  BY DEF IInv
<1>2. Request' = Request
  BY <1>1 DEF OnlyCallsAnswered, TypeOK, Request
<1>3. /\ \A q \in Request : reqs'[q].sent = reqs[q].sent
      /\ \A q \in Request : reqs'[q].before = reqs[q].before
  BY DEF OnlyCallsAnswered
<1>4. /\ \A i \in DOMAIN bus : bus[i].req \in Request
      /\ \A j \in DOMAIN written : written[j].req \in Request
  BY <1>1 DEF TypeOK
<1>5. TypeOK'
  <2>1. written' \in Seq(Call) /\ \A j \in DOMAIN written' : written'[j].req \in Request
    BY <1>1, <1>4 DEF TypeOK
  <2>2. \A i \in DOMAIN bus' : bus'[i].req \in Request
    BY <1>4
  <2>3. QED
    BY <1>1, <2>1, <2>2, TypeAfterAnswer
<1>6. CalledBackOnce' /\ ResultIsOutcome' /\ BeforeIsOver'
  BY AnswersKeepResults DEF IInv
<1>7. \A i \in DOMAIN bus' : i \in Nat
  <2>1. bus' \in Seq(Call)
    OBVIOUS
  <2>2. DOMAIN bus' = 1..Len(bus') /\ Len(bus') \in Nat
    BY <2>1
  <2>3. QED
    BY <2>2
<1>8. BusHoldsLatest'
  <2>1. ASSUME NEW i \in DOMAIN bus'
        PROVE  /\ bus'[i].step = reqs'[bus'[i].req].sent
               /\ reqs'[bus'[i].req].call # "ok"
    BY <1>3, <1>4 DEF IInv, BusHoldsLatest
  <2>2. ASSUME NEW i \in DOMAIN bus', NEW j \in DOMAIN bus',
               bus'[i].req = bus'[j].req
        PROVE  i = j
    <3>1. i + d = j + d
      BY <2>2 DEF IInv, BusHoldsLatest
    <3>2. QED
      BY <1>7, <3>1
  <2>3. QED
    BY <2>1, <2>2 DEF BusHoldsLatest
<1>9. WrittenWasSent'
  BY <1>3, <1>4 DEF IInv, WrittenWasSent
<1>10. SentWasWritten'
  BY <1>2, <1>3 DEF IInv, SentWasWritten
<1>11. RetryNotOvertaken' /\ StepsInOrder'
  BY <1>1, <1>3, WrittenKept DEF IInv, OrderKept
<1>12. OrderKept'
  <2>1. \A i \in DOMAIN written', j \in DOMAIN bus' :
          bus'[j].req \notin reqs'[written'[i].req].before
    BY <1>3, <1>4 DEF IInv, OrderKept
  <2>2. ASSUME NEW i \in DOMAIN bus', NEW j \in DOMAIN bus', i < j
        PROVE  bus'[j].req \notin reqs'[bus'[i].req].before
    <3>1. i + d < j + d
      BY <1>7, <2>2
    <3>2. bus[j + d].req \notin reqs[bus[i + d].req].before
      BY <3>1 DEF IInv, OrderKept
    <3>3. QED
      BY <1>3, <1>4, <3>2
  <2>3. QED
    BY <1>11, <2>1, <2>2 DEF OrderKept
<1>13. QED
  BY <1>5, <1>6, <1>8, <1>9, <1>10, <1>11, <1>12 DEF IInv

\* The daemon, or the connection when the daemon is gone, answers the oldest
\* call with an error.
LEMMA RejectKeeps ==
  ASSUME IInv, Reject
  PROVE  IInv'
<1>1. TypeOK /\ bus # <<>> /\ bus' = Tail(bus) /\ Reply(Head(bus), "failed")
  BY DEF IInv, Reject
<1>2. /\ Head(bus) \in Call /\ Head(bus).req \in Request
      /\ bus' \in Seq(Call)
      /\ \A i \in DOMAIN bus' : i + 1 \in DOMAIN bus /\ bus'[i] = bus[i + 1]
  BY <1>1, OldestCall
<1>3. /\ OnlyCallsAnswered
      /\ \A q \in Request : reqs'[q].call = "ok" => reqs[q].call = "ok"
  BY <1>1, <1>2, ReplyAnswers
<1>4. QED
  BY <1>2, <1>3, ErrorKeeps DEF Reject

\* A call times out: the daemon may still carry it out.
LEMMA TimeoutKeeps ==
  ASSUME IInv, NEW r \in Request, Timeout(r)
  PROVE  IInv'
<1>1. TypeOK /\ bus' = bus
  BY DEF IInv, Timeout
<1>2. /\ OnlyCallsAnswered
      /\ \A q \in Request \ {r} : reqs'[q].call = reqs[q].call
      /\ reqs'[r].call = "failed"
  BY <1>1, AnswerCall DEF Timeout
<1>3. bus' \in Seq(Call) /\ \A i \in DOMAIN bus : i + 0 = i
  <2>1. bus \in Seq(Call)
    BY <1>1 DEF TypeOK
  <2>2. DOMAIN bus = 1..Len(bus) /\ Len(bus) \in Nat
    BY <2>1
  <2>3. \A i \in DOMAIN bus : i + 0 = i
    BY <2>2
  <2>4. QED
    BY <1>1, <2>1, <2>3
<1>4. QED
  BY <1>1, <1>2, <1>3, ErrorKeeps DEF Timeout

-----------------------------------------------------------------------------
(***************************************************************************)
(* The reply handlers                                                      *)
(***************************************************************************)

\* The end of a request changes its result and the count of its callbacks.
LEMMA FinishKeeps ==
  ASSUME IInv, NEW r \in Request, Finish(r)
  PROVE  IInv'
<1> DEFINE R == [reqs[r] EXCEPT !.result = reqs[r].call, !.told = @ + 1]
<1>1. /\ TypeOK /\ UNCHANGED <<modem, bus, written, crashed>>
      /\ ~Over(r) /\ reqs[r].call # "pending"
      /\ reqs[r].call = "failed" \/ LastStep(r)
  BY DEF IInv, Finish, Tell, Replied
<1>2. reqs \in Seq(RequestState) /\ reqs[r] \in RequestState
  BY <1>1 DEF TypeOK, Request
<1>3. reqs' = [reqs EXCEPT ![r] = R]
  BY <1>2 DEF Finish, Tell, Request
<1>4. /\ R \in RequestState
      /\ R.plan = reqs[r].plan /\ R.sent = reqs[r].sent
      /\ R.call = reqs[r].call /\ R.before = reqs[r].before
      /\ R.result = reqs[r].call /\ R.told = reqs[r].told + 1
  <2>1. reqs[r].told + 1 \in Nat
    BY <1>2 DEF RequestState
  <2>2. reqs[r].call \in {"none", "ok", "failed"}
    BY <1>1, <1>2 DEF RequestState
  <2>3. QED
    BY <1>2, <2>1, <2>2 DEF RequestState
<1> HIDE DEF R
<1>5. /\ reqs' \in Seq(RequestState) /\ Len(reqs') = Len(reqs)
      /\ reqs'[r] = R
      /\ \A q \in Request \ {r} : reqs'[q] = reqs[q]
      /\ Request' = Request
  BY <1>2, <1>3, <1>4 DEF Request
<1>6. \A q \in Request : /\ reqs'[q].plan = reqs[q].plan
                         /\ reqs'[q].sent = reqs[q].sent
                         /\ reqs'[q].call = reqs[q].call
                         /\ reqs'[q].before = reqs[q].before
  BY <1>4, <1>5
<1>7. \A q \in Request : Over(q)' <=> Over(q) \/ q = r
  <2>1. Over(r)'
    BY <1>1, <1>2, <1>4, <1>5 DEF Over, RequestState
  <2>2. QED
    BY <1>5, <2>1 DEF Over
<1>8. TypeOK'
  BY <1>1, <1>5, <1>6 DEF TypeOK
<1>9. CalledBackOnce'
  <2>1. reqs'[r].told = 1
    <3>1. reqs[r].told = 0
      BY <1>1 DEF IInv, CalledBackOnce
    <3>2. QED
      BY <1>4, <1>5, <3>1
  <2>2. \A q \in Request \ {r} : reqs'[q].told = IF Over(q)' THEN 1 ELSE 0
    BY <1>5, <1>7 DEF IInv, CalledBackOnce
  <2>3. QED
    BY <1>5, <1>7, <2>1, <2>2 DEF CalledBackOnce
<1>10. ResultIsOutcome'
  <2>1. /\ reqs'[r].result = reqs'[r].call
        /\ reqs'[r].result = "ok" => LastStep(r)'
    <3>1. reqs'[r].result = reqs[r].call
      BY <1>4, <1>5
    <3>2. LastStep(r)' <=> LastStep(r)
      BY <1>6 DEF LastStep
    <3>3. QED
      BY <1>1, <1>6, <3>1, <3>2
  <2>2. \A q \in Request \ {r} :
          /\ Over(q)' => reqs'[q].result = reqs'[q].call
          /\ reqs'[q].result = "ok" => LastStep(q)'
    BY <1>5, <1>7 DEF IInv, ResultIsOutcome, LastStep
  <2>3. QED
    BY <1>5, <2>1, <2>2 DEF ResultIsOutcome
<1>11. BeforeIsOver'
  BY <1>5, <1>6, <1>7 DEF IInv, BeforeIsOver
<1>12. /\ \A i \in DOMAIN bus : bus[i].req \in Request
       /\ \A j \in DOMAIN written : written[j].req \in Request
  BY <1>1 DEF TypeOK
<1>13. BusHoldsLatest'
  BY <1>1, <1>6, <1>12 DEF IInv, BusHoldsLatest
<1>14. WrittenWasSent'
  BY <1>1, <1>6, <1>12 DEF IInv, WrittenWasSent
<1>15. SentWasWritten'
  BY <1>1, <1>5, <1>6 DEF IInv, SentWasWritten
<1>16. RetryNotOvertaken' /\ StepsInOrder'
  BY <1>1, <1>6, WrittenKept DEF IInv, OrderKept
<1>17. OrderKept'
  BY <1>1, <1>6, <1>12, <1>16 DEF IInv, OrderKept
<1>18. QED
  BY <1>8, <1>9, <1>10, <1>11, <1>13, <1>14, <1>15, <1>16, <1>17 DEF IInv

\* The next call of a plan goes behind all others on the bus: the one before
\* it was carried out, so the request has no other call there.
LEMMA SendNextKeeps ==
  ASSUME IInv, NEW r \in Request, ~Over(r), reqs[r].call = "ok",
         ~LastStep(r), SendNext(r)
  PROVE  IInv'
<1> DEFINE s == reqs[r].sent
           R == [reqs[r] EXCEPT !.sent = @ + 1, !.call = "pending"]
           c == [req |-> r, step |-> s + 1]
           n == Len(bus)
<1>1. TypeOK /\ UNCHANGED <<modem, written, crashed>>
  BY DEF IInv, SendNext
<1>2. reqs \in Seq(RequestState) /\ reqs[r] \in RequestState
  BY <1>1 DEF TypeOK, Request
<1>3. s \in Nat /\ s < Len(reqs[r].plan)
  <2>1. s \in Nat /\ reqs[r].plan \in Seq(Property)
    BY <1>2, RequestsAssumption DEF RequestState
  <2>2. s <= Len(reqs[r].plan) /\ s # Len(reqs[r].plan)
    BY <1>1 DEF TypeOK, LastStep
  <2>3. Len(reqs[r].plan) \in Nat
    BY <2>1
  <2>4. QED
    BY <2>1, <2>2, <2>3
<1>4. reqs' = [reqs EXCEPT ![r] = R]
  BY <1>2 DEF SendNext, Request
<1>5. /\ R \in RequestState
      /\ R.plan = reqs[r].plan /\ R.sent = s + 1
      /\ R.call = "pending" /\ R.before = reqs[r].before
      /\ R.result = reqs[r].result /\ R.told = reqs[r].told
  <2>1. s + 1 \in Nat
    BY <1>3
  <2>2. QED
    BY <1>2, <2>1 DEF RequestState
<1>6. c \in Call /\ c.req = r /\ c.step = s + 1
  <2>1. r \in 1..MaxRequests
    <3>1. r \in 1..Len(reqs) /\ Len(reqs) \in Nat /\ Len(reqs) <= MaxRequests
      BY <1>1, <1>2 DEF TypeOK, Request
    <3>2. QED
      BY <3>1, RequestsAssumption
  <2>2. QED
    BY <1>3, <2>1 DEF Call
<1>7. bus' = Append(bus, c)
  BY DEF SendNext
<1> HIDE DEF R, c
<1>8. /\ reqs' \in Seq(RequestState) /\ Len(reqs') = Len(reqs)
      /\ reqs'[r] = R
      /\ \A q \in Request \ {r} : reqs'[q] = reqs[q]
      /\ Request' = Request
  BY <1>2, <1>4, <1>5 DEF Request
<1>9. /\ bus \in Seq(Call) /\ n \in Nat /\ DOMAIN bus = 1..n
      /\ bus' \in Seq(Call) /\ DOMAIN bus' = 1..(n + 1)
      /\ bus'[n + 1] = c
      /\ \A i \in 1..n : bus'[i] = bus[i]
  BY <1>1, <1>6, <1>7 DEF TypeOK
<1>10. \A q \in Request : /\ reqs'[q].plan = reqs[q].plan
                          /\ reqs'[q].result = reqs[q].result
                          /\ reqs'[q].told = reqs[q].told
                          /\ reqs'[q].before = reqs[q].before
                          /\ Over(q)' <=> Over(q)
  BY <1>5, <1>8 DEF Over
<1>11. /\ \A i \in DOMAIN bus : bus[i].req \in Request /\ bus[i].req # r
       /\ \A j \in DOMAIN written : written[j].req \in Request
  BY <1>1 DEF TypeOK, IInv, BusHoldsLatest
<1>12. \A i \in DOMAIN bus' : i \in 1..n \/ i = n + 1
  BY <1>9
<1>13. TypeOK'
  <2>1. \A q \in Request : reqs'[q].sent <= Len(reqs'[q].plan)
    <3>1. reqs'[r].sent <= Len(reqs'[r].plan)
      <4>1. Len(reqs[r].plan) \in Nat
        BY <1>2, RequestsAssumption DEF RequestState
      <4>2. s + 1 <= Len(reqs[r].plan)
        BY <1>3, <4>1
      <4>3. QED
        BY <1>5, <1>8, <4>2
    <3>2. QED
      BY <1>1, <1>8, <3>1 DEF TypeOK
  <2>2. \A i \in DOMAIN bus' : bus'[i].req \in Request
    BY <1>6, <1>9, <1>11, <1>12
  <2>3. QED
    BY <1>1, <1>8, <1>9, <2>1, <2>2 DEF TypeOK
<1>14. CalledBackOnce' /\ BeforeIsOver'
  BY <1>8, <1>10 DEF IInv, CalledBackOnce, BeforeIsOver
<1>15. ResultIsOutcome'
  <2>1. ~Over(r)' /\ reqs'[r].result # "ok"
    BY <1>10 DEF Over
  <2>2. QED
    BY <1>8, <1>10, <2>1 DEF IInv, ResultIsOutcome, LastStep
<1>16. BusHoldsLatest'
  <2>1. \A i \in DOMAIN bus' : /\ bus'[i].step = reqs'[bus'[i].req].sent
                               /\ reqs'[bus'[i].req].call # "ok"
    <3>1. \A i \in 1..n : /\ bus'[i].step = reqs'[bus'[i].req].sent
                          /\ reqs'[bus'[i].req].call # "ok"
      BY <1>8, <1>9, <1>11 DEF IInv, BusHoldsLatest
    <3>2. c.step = reqs'[c.req].sent /\ reqs'[c.req].call # "ok"
      BY <1>5, <1>6, <1>8
    <3>3. QED
      BY <1>9, <1>12, <3>1, <3>2
  <2>2. ASSUME NEW i \in DOMAIN bus', NEW j \in DOMAIN bus',
               bus'[i].req = bus'[j].req
        PROVE  i = j
    <3>1. CASE i \in 1..n /\ j \in 1..n
      BY <1>9, <2>2, <3>1 DEF IInv, BusHoldsLatest
    <3>2. CASE i \in 1..n /\ j = n + 1
      BY <1>6, <1>9, <1>11, <2>2, <3>2
    <3>3. CASE i = n + 1 /\ j \in 1..n
      BY <1>6, <1>9, <1>11, <2>2, <3>3
    <3>4. QED
      BY <1>12, <3>1, <3>2, <3>3
  <2>3. QED
    BY <2>1, <2>2 DEF BusHoldsLatest
<1>17. WrittenWasSent'
  <2>1. ASSUME NEW j \in DOMAIN written
        PROVE  /\ written[j].step <= reqs'[written[j].req].sent
               /\ \A i \in DOMAIN bus' : bus'[i] # written[j]
    <3>1. /\ written[j].step <= reqs[written[j].req].sent
          /\ \A i \in DOMAIN bus : bus[i] # written[j]
      BY DEF IInv, WrittenWasSent
    <3>2. written[j].step \in Nat
      <4>1. written[j] \in Call
        BY <1>1 DEF TypeOK
      <4>2. QED
        BY <4>1 DEF Call
    <3>3. written[j] # c /\ written[j].step <= reqs'[written[j].req].sent
      <4>1. CASE written[j].req = r
        <5>1. written[j].step <= s /\ written[j].step < s + 1
          BY <1>3, <3>1, <3>2, <4>1
        <5>2. QED
          BY <1>3, <1>5, <1>6, <1>8, <3>2, <4>1, <5>1
      <4>2. CASE written[j].req # r
        BY <1>6, <1>8, <1>11, <3>1, <4>2
      <4>3. QED
        BY <4>1, <4>2
    <3>4. QED
      BY <1>9, <1>12, <3>1, <3>3
  <2>2. QED
    BY <1>1, <2>1 DEF WrittenWasSent
<1>18. SentWasWritten'
  <2>1. ASSUME NEW q \in Request, NEW k \in 1..reqs'[q].sent,
               k < reqs'[q].sent \/ reqs'[q].call = "ok"
        PROVE  \E j \in DOMAIN written : written[j] = [req |-> q, step |-> k]
    <3>1. CASE q = r
      <4>1. k \in 1..s
        BY <1>3, <1>5, <1>8, <2>1, <3>1
      <4>2. QED
        BY <3>1, <4>1 DEF IInv, SentWasWritten
    <3>2. CASE q # r
      BY <1>8, <2>1, <3>2 DEF IInv, SentWasWritten
    <3>3. QED
      BY <3>1, <3>2
  <2>2. QED
    BY <1>1, <1>8, <2>1 DEF SentWasWritten
<1>19. RetryNotOvertaken' /\ StepsInOrder'
  BY <1>1, <1>10, WrittenKept DEF IInv, OrderKept
<1>20. OrderKept'
  <2>1. \A q \in Request : r \notin reqs[q].before
    BY DEF IInv, BeforeIsOver
  <2>2. ASSUME NEW i \in DOMAIN written, NEW j \in DOMAIN bus'
        PROVE  bus'[j].req \notin reqs'[written[i].req].before
    BY <1>6, <1>9, <1>10, <1>11, <1>12, <2>1 DEF IInv, OrderKept
  <2>3. ASSUME NEW i \in DOMAIN bus', NEW j \in DOMAIN bus', i < j
        PROVE  bus'[j].req \notin reqs'[bus'[i].req].before
    <3>1. i \in 1..n
      BY <1>9, <1>12, <2>3
    <3>2. bus'[i] = bus[i] /\ bus[i].req \in Request
      BY <1>9, <1>11, <3>1
    <3>3. CASE j = n + 1
      BY <1>6, <1>9, <1>10, <2>1, <3>2, <3>3
    <3>4. CASE j \in 1..n
      BY <1>9, <1>10, <2>3, <3>1, <3>2, <3>4 DEF IInv, OrderKept
    <3>5. QED
      BY <1>12, <3>3, <3>4
  <2>4. QED
    BY <1>1, <1>19, <2>2, <2>3 DEF OrderKept
<1>21. QED
  BY <1>13, <1>14, <1>15, <1>16, <1>17, <1>18, <1>19, <1>20 DEF IInv

\* A handler that finds the modem freed either gets away with it and goes on,
\* or stops the program.
LEMMA DanglingKeeps ==
  ASSUME IInv, NEW r \in Request, ContinueDangling(r)
  PROVE  IInv'
<1>1. CASE SendNext(r)
  BY <1>1, SendNextKeeps DEF ContinueDangling, Replied
<1>2. CASE crashed' = TRUE /\ UNCHANGED <<modem, reqs, bus, written>>
  <2>1. Request' = Request /\ \A q \in Request : Over(q)' <=> Over(q)
    BY <1>2 DEF Request, Over
  <2>2. TypeOK'
    BY <1>2, <2>1 DEF IInv, TypeOK
  <2>3. CalledBackOnce' /\ ResultIsOutcome' /\ BeforeIsOver'
    BY <1>2, <2>1 DEF IInv, CalledBackOnce, ResultIsOutcome, BeforeIsOver, LastStep
  <2>4. BusHoldsLatest' /\ WrittenWasSent'
    BY <1>2 DEF IInv, BusHoldsLatest, WrittenWasSent
  <2>5. SentWasWritten'
    BY <1>2, <2>1 DEF IInv, SentWasWritten
  <2>6. OrderKept' /\ StepsInOrder'
    BY <1>2 DEF IInv, OrderKept, RetryNotOvertaken, StepsInOrder
  <2>7. QED
    BY <2>2, <2>3, <2>4, <2>5, <2>6 DEF IInv
<1>3. QED
  BY <1>1, <1>2 DEF ContinueDangling

-----------------------------------------------------------------------------
(***************************************************************************)
(* The client                                                              *)
(***************************************************************************)

\* A new request leaves the others alone; no call of it is on the bus, and
\* none was carried out.
LEMMA NewRequest ==
  ASSUME IInv, MayAsk, NEW R \in RequestState, reqs' = Append(reqs, R),
         R.before = {q \in Request : Over(q)}
  PROVE  /\ reqs' \in Seq(RequestState)
         /\ Len(reqs') = Len(reqs) + 1 /\ Len(reqs') <= MaxRequests
         /\ reqs'[Len(reqs) + 1] = R
         /\ Len(reqs) + 1 \in 1..MaxRequests
         /\ Len(reqs) + 1 \notin Request
         /\ Request' = Request \union {Len(reqs) + 1}
         /\ \A q \in Request : reqs'[q] = reqs[q] /\ (Over(q)' <=> Over(q))
         /\ \A q \in Request : Len(reqs) + 1 \notin reqs[q].before
         /\ BeforeIsOver'
<1>1. reqs \in Seq(RequestState) /\ Len(reqs) \in Nat /\ Len(reqs) < MaxRequests
  BY DEF IInv, TypeOK, MayAsk
<1>2. Request = 1..Len(reqs)
  BY <1>1 DEF Request
<1>3. /\ reqs' \in Seq(RequestState) /\ Len(reqs') = Len(reqs) + 1
      /\ reqs'[Len(reqs) + 1] = R
      /\ \A q \in Request : reqs'[q] = reqs[q]
      /\ Request' = 1..(Len(reqs) + 1)
  BY <1>1, <1>2 DEF Request
<1>4. Len(reqs) + 1 <= MaxRequests /\ Len(reqs) + 1 \in 1..MaxRequests
  BY <1>1, RequestsAssumption
<1>5. Len(reqs) + 1 \notin Request /\ Request' = Request \union {Len(reqs) + 1}
  BY <1>1, <1>2, <1>3
<1>6. \A q \in Request : Over(q)' <=> Over(q)
  BY <1>3 DEF Over
<1>7. \A q \in Request : Len(reqs) + 1 \notin reqs[q].before
  BY <1>5 DEF IInv, BeforeIsOver
<1>8. BeforeIsOver'
  BY <1>3, <1>5, <1>6 DEF IInv, BeforeIsOver
<1>9. QED
  BY <1>3, <1>4, <1>5, <1>6, <1>7, <1>8

\* The requests that are over, as the history of a new one.
LEMMA HistoryType ==
  ASSUME TypeOK
  PROVE  {q \in Request : Over(q)} \in SUBSET (1..MaxRequests)
<1>1. reqs \in Seq(RequestState) /\ Len(reqs) \in Nat /\ Len(reqs) <= MaxRequests
  BY DEF TypeOK
<1>2. Request = 1..Len(reqs)
  BY <1>1 DEF Request
<1>3. Request \subseteq 1..MaxRequests
  BY <1>1, <1>2, RequestsAssumption
<1>4. QED
  BY <1>3

\* A refused request has no step: it is over with an error.
LEMMA RefuseKeeps ==
  ASSUME IInv, NEW plan \in Plan, Refuse(plan)
  PROVE  IInv'
<1> DEFINE H == {q \in Request : Over(q)}
           R == [plan |-> plan, sent |-> 0, call |-> "failed",
                 result |-> "failed", told |-> 1, before |-> H]
           m == Len(reqs) + 1
<1>1. TypeOK /\ MayAsk /\ UNCHANGED <<modem, bus, written, crashed>>
  BY DEF IInv, Refuse
<1>2. H \in SUBSET (1..MaxRequests)
  BY <1>1, HistoryType
<1>3. reqs' = Append(reqs, R)
  BY DEF Refuse
<1> HIDE DEF H
<1>4. /\ R \in RequestState
      /\ R.plan = plan /\ R.sent = 0 /\ R.call = "failed"
      /\ R.result = "failed" /\ R.told = 1 /\ R.before = H
  BY <1>2 DEF RequestState
<1> HIDE DEF R
<1>5. /\ reqs' \in Seq(RequestState) /\ Len(reqs') <= MaxRequests
      /\ reqs'[m] = R /\ m \notin Request
      /\ Request' = Request \union {m}
      /\ \A q \in Request : reqs'[q] = reqs[q] /\ (Over(q)' <=> Over(q))
      /\ BeforeIsOver'
  BY <1>1, <1>3, <1>4, NewRequest DEF H
<1>6. reqs'[m].result = "failed" /\ reqs'[m].call = "failed" /\ reqs'[m].told = 1
  BY <1>4, <1>5
<1>7. /\ \A i \in DOMAIN bus : bus[i].req \in Request
      /\ \A j \in DOMAIN written : written[j].req \in Request
  BY <1>1 DEF TypeOK
<1>8. TypeOK'
  <2>1. Len(plan) \in Nat
    BY RequestsAssumption
  <2>2. reqs'[m].sent <= Len(reqs'[m].plan)
    BY <1>4, <1>5, <2>1
  <2>3. QED
    BY <1>1, <1>5, <2>2 DEF TypeOK
<1>9. CalledBackOnce'
  BY <1>5, <1>6 DEF IInv, CalledBackOnce, Over
<1>10. ResultIsOutcome'
  BY <1>5, <1>6 DEF IInv, ResultIsOutcome, LastStep, Over
<1>11. BusHoldsLatest' /\ WrittenWasSent'
  BY <1>1, <1>5, <1>7 DEF IInv, BusHoldsLatest, WrittenWasSent
<1>12. SentWasWritten'
  <2>1. \A k \in 1..reqs'[m].sent : FALSE
    BY <1>4, <1>5
  <2>2. QED
    BY <1>1, <1>5, <2>1 DEF IInv, SentWasWritten
<1>13. RetryNotOvertaken' /\ StepsInOrder'
  BY <1>1, <1>5, WrittenKept DEF IInv, OrderKept
<1>14. OrderKept'
  BY <1>1, <1>5, <1>7, <1>13 DEF IInv, OrderKept
<1>15. QED
  BY <1>5, <1>8, <1>9, <1>10, <1>11, <1>12, <1>13, <1>14 DEF IInv

\* An accepted request sends its first call behind all others.
LEMMA AskKeeps ==
  ASSUME IInv, NEW plan \in Plan, Ask(plan)
  PROVE  IInv'
<1> DEFINE H == {q \in Request : Over(q)}
           R == [plan |-> plan, sent |-> 1, call |-> "pending",
                 result |-> "none", told |-> 0, before |-> H]
           m == Len(reqs) + 1
           c == [req |-> m, step |-> 1]
           n == Len(bus)
<1>1. TypeOK /\ MayAsk /\ UNCHANGED <<modem, written, crashed>> /\ plan # <<>>
  BY DEF IInv, Ask
<1>2. H \in SUBSET (1..MaxRequests)
  BY <1>1, HistoryType
<1>3. reqs' = Append(reqs, R) /\ bus' = Append(bus, c)
  BY DEF Ask
<1> HIDE DEF H
<1>4. /\ R \in RequestState
      /\ R.plan = plan /\ R.sent = 1 /\ R.call = "pending"
      /\ R.result = "none" /\ R.told = 0 /\ R.before = H
  BY <1>2 DEF RequestState
<1> HIDE DEF R
<1>5. /\ reqs' \in Seq(RequestState) /\ Len(reqs') <= MaxRequests
      /\ reqs'[m] = R /\ m \in 1..MaxRequests /\ m \notin Request
      /\ Request' = Request \union {m}
      /\ \A q \in Request : reqs'[q] = reqs[q] /\ (Over(q)' <=> Over(q))
      /\ \A q \in Request : m \notin reqs[q].before
      /\ BeforeIsOver'
  BY <1>1, <1>3, <1>4, NewRequest DEF H
<1>6. c \in Call /\ c.req = m /\ c.step = 1
  BY <1>5 DEF Call
<1> HIDE DEF m, c
<1>7. /\ bus \in Seq(Call) /\ n \in Nat /\ DOMAIN bus = 1..n
      /\ bus' \in Seq(Call) /\ DOMAIN bus' = 1..(n + 1)
      /\ bus'[n + 1] = c
      /\ \A i \in 1..n : bus'[i] = bus[i]
  BY <1>1, <1>3, <1>6 DEF TypeOK
<1>8. \A i \in DOMAIN bus' : i \in 1..n \/ i = n + 1
  BY <1>7
<1>9. /\ \A i \in DOMAIN bus : bus[i].req \in Request
      /\ \A j \in DOMAIN written : written[j].req \in Request
  BY <1>1 DEF TypeOK
<1>10. reqs'[m].result = "none" /\ reqs'[m].told = 0
  BY <1>4, <1>5
<1>11. TypeOK'
  <2>1. plan \in Seq(Property) /\ Len(plan) \in Nat
    BY RequestsAssumption
  <2>2. 1 <= Len(plan)
    BY <1>1, <2>1
  <2>3. reqs'[m].sent <= Len(reqs'[m].plan)
    BY <1>4, <1>5, <2>2
  <2>4. \A i \in DOMAIN bus' : bus'[i].req \in Request'
    BY <1>5, <1>6, <1>7, <1>8, <1>9
  <2>5. QED
    BY <1>1, <1>5, <1>7, <2>3, <2>4 DEF TypeOK
<1>12. CalledBackOnce'
  BY <1>5, <1>10 DEF IInv, CalledBackOnce, Over
<1>13. ResultIsOutcome'
  BY <1>5, <1>10 DEF IInv, ResultIsOutcome, LastStep, Over
<1>14. BusHoldsLatest'
  <2>1. \A i \in DOMAIN bus' : /\ bus'[i].step = reqs'[bus'[i].req].sent
                               /\ reqs'[bus'[i].req].call # "ok"
    <3>1. \A i \in 1..n : /\ bus'[i].step = reqs'[bus'[i].req].sent
                          /\ reqs'[bus'[i].req].call # "ok"
      BY <1>5, <1>7, <1>9 DEF IInv, BusHoldsLatest
    <3>2. c.step = reqs'[c.req].sent /\ reqs'[c.req].call # "ok"
      BY <1>4, <1>5, <1>6
    <3>3. QED
      BY <1>7, <1>8, <3>1, <3>2
  <2>2. ASSUME NEW i \in DOMAIN bus', NEW j \in DOMAIN bus',
               bus'[i].req = bus'[j].req
        PROVE  i = j
    <3>1. CASE i \in 1..n /\ j \in 1..n
      BY <1>7, <2>2, <3>1 DEF IInv, BusHoldsLatest
    <3>2. CASE i \in 1..n /\ j = n + 1
      BY <1>5, <1>6, <1>7, <1>9, <2>2, <3>2
    <3>3. CASE i = n + 1 /\ j \in 1..n
      BY <1>5, <1>6, <1>7, <1>9, <2>2, <3>3
    <3>4. QED
      BY <1>8, <3>1, <3>2, <3>3
  <2>3. QED
    BY <2>1, <2>2 DEF BusHoldsLatest
<1>15. WrittenWasSent'
  <2>1. \A j \in DOMAIN written : written[j] # c
    BY <1>5, <1>6, <1>9
  <2>2. QED
    BY <1>1, <1>5, <1>7, <1>8, <1>9, <2>1 DEF IInv, WrittenWasSent
<1>16. SentWasWritten'
  <2>1. \A k \in 1..reqs'[m].sent :
          ~(k < reqs'[m].sent \/ reqs'[m].call = "ok")
    BY <1>4, <1>5
  <2>2. QED
    BY <1>1, <1>5, <2>1 DEF IInv, SentWasWritten
<1>17. RetryNotOvertaken' /\ StepsInOrder'
  BY <1>1, <1>5, WrittenKept DEF IInv, OrderKept
<1>18. OrderKept'
  <2>1. ASSUME NEW i \in DOMAIN written, NEW j \in DOMAIN bus'
        PROVE  bus'[j].req \notin reqs'[written[i].req].before
    BY <1>5, <1>6, <1>7, <1>8, <1>9 DEF IInv, OrderKept
  <2>2. ASSUME NEW i \in DOMAIN bus', NEW j \in DOMAIN bus', i < j
        PROVE  bus'[j].req \notin reqs'[bus'[i].req].before
    <3>1. i \in 1..n
      BY <1>7, <1>8, <2>2
    <3>2. bus'[i] = bus[i] /\ bus[i].req \in Request
      BY <1>7, <1>9, <3>1
    <3>3. CASE j = n + 1
      BY <1>5, <1>6, <1>7, <3>2, <3>3
    <3>4. CASE j \in 1..n
      BY <1>5, <1>7, <2>2, <3>1, <3>2, <3>4 DEF IInv, OrderKept
    <3>5. QED
      BY <1>8, <3>3, <3>4
  <2>3. QED
    BY <1>1, <1>17, <2>1, <2>2 DEF OrderKept
<1>19. QED
  BY <1>5, <1>11, <1>12, <1>13, <1>14, <1>15, <1>16, <1>17, <1>18 DEF IInv

-----------------------------------------------------------------------------
(***************************************************************************)
(* The invariant and what follows from it                                  *)
(***************************************************************************)

\* What changes only the modem or crashes, or nothing, keeps the invariant.
LEMMA ModemKeeps ==
  ASSUME IInv, UNCHANGED <<reqs, bus, written>>, TypeOK'
  PROVE  IInv'
<1>1. Request' = Request /\ \A q \in Request : Over(q)' <=> Over(q)
  BY DEF Request, Over
<1>2. CalledBackOnce' /\ ResultIsOutcome' /\ BeforeIsOver'
  BY <1>1 DEF IInv, CalledBackOnce, ResultIsOutcome, BeforeIsOver, LastStep
<1>3. BusHoldsLatest' /\ WrittenWasSent'
  BY DEF IInv, BusHoldsLatest, WrittenWasSent
<1>4. SentWasWritten'
  BY <1>1 DEF IInv, SentWasWritten
<1>5. OrderKept' /\ StepsInOrder'
  BY DEF IInv, OrderKept, RetryNotOvertaken, StepsInOrder
<1>6. QED
  BY <1>2, <1>3, <1>4, <1>5 DEF IInv

\* The initial state satisfies the invariant.
LEMMA InitHolds == Init => IInv
<1>1. SUFFICES ASSUME Init PROVE IInv
  OBVIOUS
<1>2. /\ reqs = <<>> /\ bus = <<>> /\ written = <<>>
      /\ modem = "live" /\ crashed = FALSE
  BY <1>1 DEF Init
<1>3. Request = {} /\ DOMAIN bus = {} /\ DOMAIN written = {}
  BY <1>2 DEF Request
<1>4. TypeOK
  <2>1. Len(reqs) <= MaxRequests
    BY <1>2, RequestsAssumption
  <2>2. reqs \in Seq(RequestState) /\ bus \in Seq(Call) /\ written \in Seq(Call)
    BY <1>2
  <2>3. QED
    BY <1>2, <1>3, <2>1, <2>2 DEF TypeOK
<1>5. CalledBackOnce /\ ResultIsOutcome /\ BeforeIsOver
  BY <1>3 DEF CalledBackOnce, ResultIsOutcome, BeforeIsOver
<1>6. BusHoldsLatest /\ WrittenWasSent /\ SentWasWritten
  BY <1>3 DEF BusHoldsLatest, WrittenWasSent, SentWasWritten
<1>7. OrderKept /\ StepsInOrder
  BY <1>3 DEF OrderKept, RetryNotOvertaken, StepsInOrder
<1>8. QED
  BY <1>4, <1>5, <1>6, <1>7 DEF IInv

\* Every step keeps it.
LEMMA NextKeeps == IInv /\ [Next]_vars => IInv'
<1>1. SUFFICES ASSUME IInv, [Next]_vars PROVE IInv'
  OBVIOUS
<1>2. CASE \E plan \in Plan : Ask(plan) \/ Refuse(plan)
  BY <1>1, <1>2, AskKeeps, RefuseKeeps
<1>3. CASE Deinit
  <2>1. TypeOK'
    BY <1>1, <1>3 DEF IInv, Deinit, TypeOK, Request
  <2>2. QED
    BY <1>1, <1>3, <2>1, ModemKeeps DEF Deinit
<1>4. CASE Accept
  BY <1>1, <1>4, AcceptKeeps
<1>5. CASE Reject
  BY <1>1, <1>5, RejectKeeps
<1>6. CASE \E r \in Request : Timeout(r)
  BY <1>1, <1>6, TimeoutKeeps
<1>7. CASE Library
  <2>1. PICK r \in Request : Continue(r) \/ ContinueDangling(r) \/ Finish(r)
    BY <1>7 DEF Library
  <2>2. CASE Continue(r)
    BY <1>1, <2>2, SendNextKeeps DEF Continue, Replied
  <2>3. CASE ContinueDangling(r)
    BY <1>1, <2>3, DanglingKeeps
  <2>4. CASE Finish(r)
    BY <1>1, <2>4, FinishKeeps
  <2>5. QED
    BY <2>1, <2>2, <2>3, <2>4
<1>8. CASE UNCHANGED vars
  <2>1. UNCHANGED <<modem, reqs, bus, written, crashed>>
    BY <1>8 DEF vars
  <2>2. TypeOK'
    BY <1>1, <2>1 DEF IInv, TypeOK, Request
  <2>3. QED
    BY <1>1, <2>1, <2>2, ModemKeeps
<1>9. QED
  BY <1>1, <1>2, <1>3, <1>4, <1>5, <1>6, <1>7, <1>8 DEF Next

\* A client that is told of success finds every step carried out.
LEMMA SuccessFromInv == IInv => SuccessMeansAll
<1>1. SUFFICES ASSUME IInv, NEW r \in Request, reqs[r].result = "ok",
                      NEW k \in DOMAIN reqs[r].plan
               PROVE  \E i \in DOMAIN written :
                        written[i] = [req |-> r, step |-> k]
  BY DEF SuccessMeansAll
<1>2. reqs[r].call = "ok" /\ reqs[r].sent = Len(reqs[r].plan)
  BY <1>1 DEF IInv, ResultIsOutcome, Over, LastStep
<1>3. reqs[r] \in RequestState
  BY <1>1 DEF IInv, TypeOK, Request
<1>4. reqs[r].plan \in Seq(Property)
  BY <1>3, RequestsAssumption DEF RequestState
<1>5. k \in 1..reqs[r].sent
  BY <1>1, <1>2, <1>4
<1>6. QED
  BY <1>1, <1>2, <1>5 DEF IInv, SentWasWritten

\* What it says of the properties.
LEMMA InvImplies ==
  IInv => /\ TypeOK /\ CalledBackOnce /\ SuccessMeansAll
          /\ StepsInOrder /\ RetryNotOvertaken
<1>1. IInv => SuccessMeansAll
  BY SuccessFromInv
<1>2. QED
  BY <1>1 DEF IInv, OrderKept

\* The inductive invariant holds in every state of every behaviour.
THEOREM Invariance == Spec => []IInv
<1>1. QED
  BY InitHolds, NextKeeps, PTL DEF Spec

\* No request makes more calls than its plan has steps.
THEOREM TypeCorrect == Spec => []TypeOK
<1>1. IInv => TypeOK
  BY DEF IInv
<1>2. QED
  BY <1>1, Invariance, PTL

\* on_response_common() and its likes call each callback once, whatever the
\* daemon answers, fails to answer or answers too late.
THEOREM CallbackCorrect == Spec => []CalledBackOnce
<1>1. IInv => CalledBackOnce
  BY DEF IInv
<1>2. QED
  BY <1>1, Invariance, PTL

\* A client that is told of success finds every step carried out.
THEOREM SuccessCorrect == Spec => []SuccessMeansAll
<1>1. QED
  BY SuccessFromInv, Invariance, PTL

\* The steps of a request are carried out in the order of its plan, without a
\* gap and each once.
THEOREM OrderCorrect == Spec => []StepsInOrder
<1>1. IInv => StepsInOrder
  BY DEF IInv
<1>2. QED
  BY <1>1, Invariance, PTL

\* A retry is not overwritten by the request that timed out.
THEOREM RetryCorrect == Spec => []RetryNotOvertaken
<1>1. IInv => RetryNotOvertaken
  BY DEF IInv, OrderKept
<1>2. QED
  BY <1>1, Invariance, PTL

-----------------------------------------------------------------------------
(***************************************************************************)
(* The settings: clients of which some wait for the answer                 *)
(***************************************************************************)

\* Every call is of a step of its plan.
StepsExist ==
  /\ \A i \in DOMAIN bus : bus[i].step \in DOMAIN reqs[bus[i].req].plan
  /\ \A i \in DOMAIN written :
       written[i].step \in DOMAIN reqs[written[i].req].plan

\* ofonod carried out nothing it does not know.
WrittenIsKnown == \A i \in DOMAIN written : Known(Done(i))

\* No request was over when it was made itself.
BeforeIsEarlier == \A r \in Request : r \notin reqs[r].before

SettingsInv == IInv /\ StepsExist /\ WrittenIsKnown /\ BeforeIsEarlier

\* What no step changes: the plans of the requests, and which were over before
\* them.
PlansKept ==
  \A r \in Request :
    /\ r \in Request'
    /\ reqs'[r].plan = reqs[r].plan
    /\ reqs'[r].before = reqs[r].before

-----------------------------------------------------------------------------

\* A change of the other fields of a request.
LEMMA FieldsKept ==
  ASSUME TypeOK, NEW r \in Request, NEW q,
         q.plan = reqs[r].plan, q.before = reqs[r].before,
         reqs' = [reqs EXCEPT ![r] = q]
  PROVE  PlansKept /\ Request' = Request
<1>1. reqs \in Seq(RequestState)
  BY DEF TypeOK
<1>2. Request' = Request
  BY <1>1 DEF Request
<1>3. reqs'[r] = q
  BY <1>1 DEF Request
<1>4. \A p \in Request \ {r} : reqs'[p] = reqs[p]
  BY <1>1 DEF Request
<1> QED
  BY <1>2, <1>3, <1>4 DEF PlansKept

\* A step that leaves the requests alone.
LEMMA SameReqsKept ==
  ASSUME reqs' = reqs
  PROVE  PlansKept /\ Request' = Request
BY DEF PlansKept, Request

\* A reply changes the state of a call only.
LEMMA ReplyKeepsPlans ==
  ASSUME TypeOK, NEW c \in Call, c.req \in Request, NEW o, Reply(c, o)
  PROVE  PlansKept /\ Request' = Request
<1>1. CASE reqs' = reqs
  BY <1>1, SameReqsKept
<1>2. CASE reqs' = [reqs EXCEPT ![c.req].call = o]
  <2> DEFINE q == [reqs[c.req] EXCEPT !.call = o]
  <2>1. reqs[c.req] \in RequestState
    BY DEF TypeOK, Request
  <2>2. q.plan = reqs[c.req].plan /\ q.before = reqs[c.req].before
    BY <2>1 DEF RequestState
  <2>3. reqs' = [reqs EXCEPT ![c.req] = q]
    BY <1>2
  <2> HIDE DEF q
  <2> QED
    BY <2>2, <2>3, FieldsKept
<1> QED
  BY <1>1, <1>2 DEF Reply

\* A step of the daemon takes the oldest call and may carry it out.
LEMMA DaemonKeepsSteps ==
  ASSUME SettingsInv,
         \/ Accept /\ Known(reqs[Head(bus).req].plan[Head(bus).step])
         \/ Reject
  PROVE  StepsExist' /\ WrittenIsKnown' /\ BeforeIsEarlier'
<1>1. /\ TypeOK /\ StepsExist /\ WrittenIsKnown /\ BeforeIsEarlier
      /\ bus # <<>> /\ bus' = Tail(bus)
      /\ \E o : Reply(Head(bus), o)
      /\ \/ written' = written
         \/ /\ written' = Append(written, Head(bus))
            /\ Known(reqs[Head(bus).req].plan[Head(bus).step])
  BY DEF SettingsInv, IInv, Accept, Reject
<1>2. /\ Head(bus) = bus[1] /\ 1 \in DOMAIN bus
      /\ Head(bus) \in Call /\ Head(bus).req \in Request
      /\ \A i \in DOMAIN bus' : i + 1 \in DOMAIN bus /\ bus'[i] = bus[i + 1]
  BY <1>1, OldestCall
<1>3. PlansKept /\ Request' = Request
  BY <1>1, <1>2, ReplyKeepsPlans
<1>4. written \in Seq(Call)
  BY <1>1 DEF TypeOK
<1>5. ASSUME NEW i \in DOMAIN bus'
      PROVE  bus'[i].step \in DOMAIN reqs'[bus'[i].req].plan
  <2>1. bus'[i] = bus[i + 1] /\ i + 1 \in DOMAIN bus
    BY <1>2
  <2>2. bus[i + 1].req \in Request
    BY <1>1, <2>1 DEF TypeOK
  <2> QED
    BY <1>1, <1>3, <2>1, <2>2 DEF StepsExist, PlansKept
<1>6. ASSUME NEW i \in DOMAIN written'
      PROVE  /\ written'[i].req \in Request
             /\ written'[i].step \in DOMAIN reqs[written'[i].req].plan
             /\ Known(reqs[written'[i].req].plan[written'[i].step])
  <2>1. CASE i \in DOMAIN written /\ written'[i] = written[i]
    BY <1>1, <2>1 DEF StepsExist, WrittenIsKnown, Done, TypeOK
  <2>2. CASE /\ written'[i] = Head(bus)
             /\ Known(reqs[Head(bus).req].plan[Head(bus).step])
    BY <1>1, <1>2, <2>2 DEF StepsExist
  <2>3. \/ i \in DOMAIN written /\ written'[i] = written[i]
        \/ /\ written'[i] = Head(bus)
           /\ Known(reqs[Head(bus).req].plan[Head(bus).step])
    <3>1. CASE written' = written
      BY <3>1
    <3>2. CASE /\ written' = Append(written, Head(bus))
               /\ Known(reqs[Head(bus).req].plan[Head(bus).step])
      BY <1>4, <3>2
    <3> QED
      BY <1>1, <3>1, <3>2
  <2> QED
    BY <2>1, <2>2, <2>3
<1>7. StepsExist'
  <2>1. \A i \in DOMAIN written' :
          written'[i].step \in DOMAIN reqs'[written'[i].req].plan
    BY <1>3, <1>6 DEF PlansKept
  <2> QED
    BY <1>5, <2>1 DEF StepsExist
<1>8. WrittenIsKnown'
  <2>1. \A i \in DOMAIN written' :
          Known(reqs'[written'[i].req].plan[written'[i].step])
    BY <1>3, <1>6 DEF PlansKept
  <2> QED
    BY <2>1 DEF WrittenIsKnown, Done
<1>9. BeforeIsEarlier'
  BY <1>1, <1>3 DEF BeforeIsEarlier, PlansKept
<1> QED
  BY <1>7, <1>8, <1>9

\* Nothing else changes what was carried out.
LEMMA OthersKeepSteps ==
  ASSUME SettingsInv, PlansKept, written' = written,
         \A i \in DOMAIN bus' :
           \/ i \in DOMAIN bus /\ bus'[i] = bus[i]
           \/ bus'[i].step \in DOMAIN reqs'[bus'[i].req].plan,
         \A r \in Request' : r \in Request \/ r \notin reqs'[r].before
  PROVE  StepsExist' /\ WrittenIsKnown' /\ BeforeIsEarlier'
<1>1. TypeOK /\ StepsExist /\ WrittenIsKnown /\ BeforeIsEarlier
  BY DEF SettingsInv, IInv
<1>2. /\ \A i \in DOMAIN bus : bus[i].req \in Request
      /\ \A i \in DOMAIN written : written[i].req \in Request
  BY <1>1 DEF TypeOK
<1>3. StepsExist'
  BY <1>1, <1>2 DEF StepsExist, PlansKept
<1>4. WrittenIsKnown'
  BY <1>1, <1>2 DEF WrittenIsKnown, Done, PlansKept
<1>5. BeforeIsEarlier'
  BY <1>1 DEF BeforeIsEarlier, PlansKept
<1> QED
  BY <1>3, <1>4, <1>5

\* A timeout, and the callback, change no call.
LEMMA TimeoutKeepsSteps ==
  ASSUME SettingsInv, NEW r \in Request, Timeout(r)
  PROVE  StepsExist' /\ WrittenIsKnown' /\ BeforeIsEarlier'
<1> DEFINE q == [reqs[r] EXCEPT !.call = "failed"]
<1>1. TypeOK
  BY DEF SettingsInv, IInv
<1>2. reqs[r] \in RequestState
  BY <1>1 DEF TypeOK, Request
<1>3. q.plan = reqs[r].plan /\ q.before = reqs[r].before
  BY <1>2 DEF RequestState
<1>4. reqs' = [reqs EXCEPT ![r] = q]
  BY DEF Timeout
<1> HIDE DEF q
<1>5. PlansKept /\ Request' = Request
  BY <1>1, <1>3, <1>4, FieldsKept
<1> QED
  BY <1>5, OthersKeepSteps DEF Timeout

LEMMA FinishKeepsSteps ==
  ASSUME SettingsInv, NEW r \in Request, Finish(r)
  PROVE  StepsExist' /\ WrittenIsKnown' /\ BeforeIsEarlier'
<1> DEFINE q == [reqs[r] EXCEPT !.result = reqs[r].call,
                                !.told = reqs[r].told + 1]
<1>1. TypeOK
  BY DEF SettingsInv, IInv
<1>2. reqs[r] \in RequestState
  BY <1>1 DEF TypeOK, Request
<1>3. q.plan = reqs[r].plan /\ q.before = reqs[r].before
  BY <1>2 DEF RequestState
<1>4. reqs' = [reqs EXCEPT ![r] = q]
  <2>1. reqs' = [reqs EXCEPT ![r].result = reqs[r].call, ![r].told = @ + 1]
    BY DEF Finish, Tell
  <2> QED
    BY <1>1, <1>2, <2>1 DEF TypeOK, Request, RequestState
<1> HIDE DEF q
<1>5. PlansKept /\ Request' = Request
  BY <1>1, <1>3, <1>4, FieldsKept
<1> QED
  BY <1>5, OthersKeepSteps DEF Finish, Tell

\* The next step of a plan that is not at its end.
LEMMA SendNextKeepsSteps ==
  ASSUME SettingsInv, NEW r \in Request, SendNext(r), ~LastStep(r)
  PROVE  StepsExist' /\ WrittenIsKnown' /\ BeforeIsEarlier'
<1> DEFINE q == [reqs[r] EXCEPT !.sent = reqs[r].sent + 1,
                                !.call = "pending"]
           e == [req |-> r, step |-> reqs[r].sent + 1]
<1>1. TypeOK
  BY DEF SettingsInv, IInv
<1>2. reqs[r] \in RequestState /\ bus \in Seq(Call)
  BY <1>1 DEF TypeOK, Request
<1>3. q.plan = reqs[r].plan /\ q.before = reqs[r].before
  BY <1>2 DEF RequestState
<1>4. reqs' = [reqs EXCEPT ![r] = q]
  <2>1. reqs' = [reqs EXCEPT ![r].sent = @ + 1, ![r].call = "pending"]
    BY DEF SendNext
  <2> QED
    BY <1>1, <1>2, <2>1 DEF TypeOK, Request, RequestState
<1> HIDE DEF q
<1>5. PlansKept /\ Request' = Request
  BY <1>1, <1>3, <1>4, FieldsKept
<1>6. reqs[r].sent + 1 \in DOMAIN reqs[r].plan
  <2>1. reqs[r].plan \in Seq(Property) /\ reqs[r].sent \in Nat
    BY <1>2, RequestsAssumption DEF RequestState
  <2>2. reqs[r].sent <= Len(reqs[r].plan) /\ reqs[r].sent # Len(reqs[r].plan)
    BY <1>1 DEF TypeOK, LastStep
  <2> QED
    BY <2>1, <2>2
<1>7. ASSUME NEW i \in DOMAIN bus'
      PROVE  \/ i \in DOMAIN bus /\ bus'[i] = bus[i]
             \/ bus'[i].step \in DOMAIN reqs'[bus'[i].req].plan
  <2>1. bus' = Append(bus, e)
    BY DEF SendNext
  <2>2. CASE i \in DOMAIN bus /\ bus'[i] = bus[i]
    BY <2>2
  <2>3. CASE bus'[i] = e
    BY <1>5, <1>6, <2>3 DEF PlansKept
  <2> HIDE DEF e
  <2>4. (i \in DOMAIN bus /\ bus'[i] = bus[i]) \/ bus'[i] = e
    BY <1>2, <2>1
  <2> QED
    BY <2>2, <2>3, <2>4
<1> QED
  BY <1>5, <1>7, OthersKeepSteps DEF SendNext

\* A request that is made.
LEMMA MakeKeepsSteps ==
  ASSUME SettingsInv, NEW q, reqs' = Append(reqs, q),
         q.before = {r \in Request : Over(r)}, written' = written,
         \/ bus' = bus
         \/ /\ bus' = Append(bus, [req |-> Len(reqs) + 1, step |-> 1])
            /\ 1 \in DOMAIN q.plan
  PROVE  StepsExist' /\ WrittenIsKnown' /\ BeforeIsEarlier'
<1> DEFINE e == [req |-> Len(reqs) + 1, step |-> 1]
<1>1. TypeOK
  BY DEF SettingsInv, IInv
<1>2. reqs \in Seq(RequestState) /\ bus \in Seq(Call)
  BY <1>1 DEF TypeOK
<1>3. /\ DOMAIN reqs = 1..Len(reqs) /\ Len(reqs) \in Nat
      /\ DOMAIN reqs' = DOMAIN reqs \cup {Len(reqs) + 1}
      /\ \A r \in DOMAIN reqs : reqs'[r] = reqs[r]
      /\ reqs'[Len(reqs) + 1] = q
  BY <1>2
<1>4. PlansKept
  BY <1>3 DEF PlansKept, Request
<1>5. \A r \in Request' : r \in Request \/ r \notin reqs'[r].before
  BY <1>3 DEF Request
<1>6. ASSUME NEW i \in DOMAIN bus'
      PROVE  \/ i \in DOMAIN bus /\ bus'[i] = bus[i]
             \/ bus'[i].step \in DOMAIN reqs'[bus'[i].req].plan
  <2>1. CASE bus' = bus
    BY <2>1
  <2>2. CASE bus' = Append(bus, e) /\ 1 \in DOMAIN q.plan
    <3>1. e.req = Len(reqs) + 1 /\ e.step = 1
      OBVIOUS
    <3> HIDE DEF e
    <3>2. (i \in DOMAIN bus /\ bus'[i] = bus[i]) \/ bus'[i] = e
      BY <1>2, <2>2
    <3> QED
      BY <1>3, <2>2, <3>1, <3>2
  <2> QED
    BY <2>1, <2>2
<1> QED
  BY <1>4, <1>5, <1>6, OthersKeepSteps

-----------------------------------------------------------------------------

\* What the client asks for next is a plan.
LEMMA FollowUpsArePlans == TypeOK => FollowUps \subseteq Plan
<1> SUFFICES ASSUME TypeOK, NEW s \in Script, Len(s) > Len(reqs)
             PROVE  s[Len(reqs) + 1] \in Plan
  BY DEF FollowUps
<1>1. s \in Seq(Plan)
  BY SettingsAssumption
<1>2. Len(reqs) \in Nat
  BY DEF TypeOK
<1> QED
  BY <1>1, <1>2

\* A client that may wait for an answer makes no other steps, but the one that
\* takes apart an answer that is not there.
LEMMA SettingsSteps ==
  ASSUME TypeOK, SettingsNext
  PROVE  \/ \E plan \in Plan : Ask(plan) \/ Refuse(plan)
         \/ Deinit
         \/ Library
         \/ GetContextsFails
         \/ Accept /\ Known(reqs[Head(bus).req].plan[Head(bus).step])
         \/ Reject
         \/ \E r \in Request : Timeout(r)
<1>1. CASE \E plan \in FollowUps : Ask(plan) \/ Refuse(plan)
  BY <1>1, FollowUpsArePlans
<1>2. CASE Return
  <2>1. Len(reqs) \in Request
    BY <1>2 DEF Return, Blocked, TypeOK, Request
  <2> QED
    BY <1>2, <2>1 DEF Return, Library
<1> QED
  BY <1>1, <1>2 DEF SettingsNext

\* The initial state satisfies the invariant of the settings.
LEMMA SettingsInitHolds == Init => SettingsInv
<1> SUFFICES ASSUME Init
             PROVE  SettingsInv
  OBVIOUS
<1>1. DOMAIN bus = {} /\ DOMAIN written = {} /\ Request = {}
  BY DEF Init, Request
<1> QED
  BY <1>1, InitHolds
  DEF SettingsInv, StepsExist, WrittenIsKnown, BeforeIsEarlier

\* Every step of a client that may wait keeps it.
LEMMA SettingsNextKeeps == SettingsInv /\ [SettingsNext]_vars => SettingsInv'
<1> SUFFICES ASSUME SettingsInv, [SettingsNext]_vars
             PROVE  SettingsInv'
  OBVIOUS
<1>1. IInv /\ TypeOK
  BY DEF SettingsInv, IInv
<1>2. ASSUME UNCHANGED <<reqs, bus, written>>
      PROVE  StepsExist' /\ WrittenIsKnown' /\ BeforeIsEarlier'
  BY <1>2 DEF SettingsInv, StepsExist, WrittenIsKnown, Done, BeforeIsEarlier,
              Request
<1>3. CASE \E plan \in Plan : Ask(plan) \/ Refuse(plan)
  <2>1. PICK plan \in Plan : Ask(plan) \/ Refuse(plan)
    BY <1>3
  <2>2. IInv'
    BY <1>1, <1>3, NextKeeps DEF Next
  <2>3. CASE Ask(plan)
    <3> DEFINE q == [plan |-> plan, sent |-> 1, call |-> "pending",
                     result |-> "none", told |-> 0,
                     before |-> {r \in Request : Over(r)}]
    <3>1. /\ reqs' = Append(reqs, q) /\ written' = written
          /\ bus' = Append(bus, [req |-> Len(reqs) + 1, step |-> 1])
          /\ q.before = {r \in Request : Over(r)} /\ q.plan = plan
      BY <2>3 DEF Ask
    <3>2. 1 \in DOMAIN plan
      BY <2>3, RequestsAssumption DEF Ask
    <3> HIDE DEF q
    <3> QED
      BY <2>2, <3>1, <3>2, MakeKeepsSteps DEF SettingsInv
  <2>4. CASE Refuse(plan)
    <3> DEFINE q == [plan |-> plan, sent |-> 0, call |-> "failed",
                     result |-> "failed", told |-> 1,
                     before |-> {r \in Request : Over(r)}]
    <3>1. /\ reqs' = Append(reqs, q) /\ written' = written /\ bus' = bus
          /\ q.before = {r \in Request : Over(r)}
      BY <2>4 DEF Refuse
    <3> HIDE DEF q
    <3> QED
      BY <2>2, <3>1, MakeKeepsSteps DEF SettingsInv
  <2> QED
    BY <2>1, <2>3, <2>4
<1>4. CASE Deinit
  <2>1. IInv'
    BY <1>1, <1>4, NextKeeps DEF Next
  <2> QED
    BY <1>2, <1>4, <2>1 DEF Deinit, SettingsInv
<1>5. CASE Library
  <2>1. IInv'
    BY <1>1, <1>5, NextKeeps DEF Next
  <2>2. PICK r \in Request : Continue(r) \/ ContinueDangling(r) \/ Finish(r)
    BY <1>5 DEF Library
  <2>3. CASE Finish(r)
    BY <2>1, <2>3, FinishKeepsSteps DEF SettingsInv
  <2>4. CASE SendNext(r) /\ ~LastStep(r)
    BY <2>1, <2>4, SendNextKeepsSteps DEF SettingsInv
  <2>5. CASE UNCHANGED <<modem, reqs, bus, written>>
    BY <1>2, <2>1, <2>5 DEF SettingsInv
  <2> QED
    BY <2>2, <2>3, <2>4, <2>5 DEF Continue, ContinueDangling
<1>6. CASE GetContextsFails
  <2>1. UNCHANGED <<modem, reqs, bus, written>> /\ crashed' = TRUE
    BY <1>6 DEF GetContextsFails
  <2>2. TypeOK'
    BY <1>1, <2>1 DEF TypeOK, Request
  <2>3. IInv'
    BY <1>1, <2>1, <2>2, ModemKeeps
  <2> QED
    BY <1>2, <2>1, <2>3 DEF SettingsInv
<1>7. CASE Accept /\ Known(reqs[Head(bus).req].plan[Head(bus).step])
  <2>1. IInv'
    BY <1>1, <1>7, NextKeeps DEF Next
  <2> QED
    BY <1>7, <2>1, DaemonKeepsSteps DEF SettingsInv
<1>8. CASE Reject
  <2>1. IInv'
    BY <1>1, <1>8, NextKeeps DEF Next
  <2> QED
    BY <1>8, <2>1, DaemonKeepsSteps DEF SettingsInv
<1>9. CASE \E r \in Request : Timeout(r)
  <2>1. IInv'
    BY <1>1, <1>9, NextKeeps DEF Next
  <2> QED
    BY <1>9, <2>1, TimeoutKeepsSteps DEF SettingsInv
<1>10. CASE UNCHANGED vars
  <2>1. IInv'
    BY <1>1, <1>10, NextKeeps
  <2> QED
    BY <1>2, <1>10, <2>1 DEF SettingsInv, vars
<1> QED
  BY <1>1, <1>3, <1>4, <1>5, <1>6, <1>7, <1>8, <1>9, <1>10, SettingsSteps

\* Whatever functions of the API a client calls, each call on the bus is of a
\* step of its request, ofonod carries out what it knows only, and no request
\* is over before itself.
THEOREM SettingsInvariance == SettingsSpec => []SettingsInv
<1> QED
  BY SettingsInitHolds, SettingsNextKeeps, PTL DEF SettingsSpec

-----------------------------------------------------------------------------
(***************************************************************************)
(* What the functions of the API mean                                      *)
(***************************************************************************)

\* What ofonod stores under these is set, but told by no function.
Unread == {<<"Context", "Protocol">>, <<"CallSettings", "HideCallerId">>}

\* A step sets or tells, but not both; and of what it sets under a property
\* that is told, the client is told what it meant.
AsMeant(step) ==
  /\ step.puts = {} \/ step.tells = {}
  /\ step.tells \cap Unread = {}
  /\ Known(step) => \A p \in step.puts :
       /\ p.setting = p.at
       /\ \/ p.at \in Unread
          \/ OffWithNumber(p)
          \/ Told(p.at, p.value) = p.meant

PlanAsMeant(plan) ==
  /\ plan \in Seq({plan[k] : k \in DOMAIN plan})
  /\ \A k \in DOMAIN plan : AsMeant(plan[k])

-----------------------------------------------------------------------------

\* A request that is refused sets nothing.
LEMMA NoStepAsMeant == PlanAsMeant(<<>>)
BY DEF PlanAsMeant

\* Plans of one step, and two plans one after the other.
LEMMA OneStepAsMeant ==
  ASSUME NEW step, AsMeant(step)
  PROVE  PlanAsMeant(<<step>>)
<1>1. DOMAIN <<step>> = {1} /\ <<step>>[1] = step
  OBVIOUS
<1> QED
  BY <1>1 DEF PlanAsMeant

LEMMA SeqOfItsElements ==
  ASSUME NEW S, NEW s \in Seq(S)
  PROVE  s \in Seq({s[k] : k \in DOMAIN s})
<1>1. /\ Len(s) \in Nat /\ DOMAIN s = 1..Len(s)
      /\ s = [k \in 1..Len(s) |-> s[k]]
  OBVIOUS
<1>2. \A k \in 1..Len(s) : s[k] \in {s[i] : i \in DOMAIN s}
  BY <1>1
<1> QED
  BY <1>1, <1>2

LEMMA TwoPlansAsMeant ==
  ASSUME NEW p, PlanAsMeant(p), NEW q, PlanAsMeant(q)
  PROVE  PlanAsMeant(p \o q)
<1> DEFINE S == {p[k] : k \in DOMAIN p} \cup {q[k] : k \in DOMAIN q}
<1>1. p \in Seq(S) /\ q \in Seq(S)
  <2>1. p \in Seq({p[k] : k \in DOMAIN p}) /\ q \in Seq({q[k] : k \in DOMAIN q})
    BY DEF PlanAsMeant
  <2> QED
    BY <2>1
<1> HIDE DEF S
<1>2. /\ p \o q \in Seq(S)
      /\ \A k \in DOMAIN (p \o q) :
           \/ k \in DOMAIN p /\ (p \o q)[k] = p[k]
           \/ k - Len(p) \in DOMAIN q /\ (p \o q)[k] = q[k - Len(p)]
  BY <1>1
<1> DEFINE r == p \o q
<1>3. \A k \in DOMAIN r : AsMeant(r[k])
  BY <1>2 DEF PlanAsMeant
<1>4. r \in Seq({r[k] : k \in DOMAIN r})
  <2>1. r \in Seq(S)
    BY <1>2
  <2> HIDE DEF r
  <2> QED
    BY <2>1, SeqOfItsElements
<1> QED
  BY <1>3, <1>4 DEF PlanAsMeant

\* A property that is told as it is.
LEMMA ToldPlain ==
  ASSUME NEW iface, NEW key, NEW value,
         key \notin {"VoiceCallWaiting", "TechnologyPreference", "Mode"},
         key \notin CliKeys, iface # "CallBarring"
  PROVE  Told(<<iface, key>>, value) = value
BY DEF Told

\* A step, and a plan of one step, that sets a property the client is told as
\* it was meant.
LEMMA PutAsMeant ==
  ASSUME NEW iface, NEW key, NEW value, NEW meant,
         \/ <<iface, key>> \in Unread
         \/ Told(<<iface, key>>, value) = meant
         \/ iface = "CallForwarding" /\ meant = NoString /\ value # NoString
  PROVE  AsMeant(Put(iface, key, value, meant))
<1> DEFINE p == [at |-> <<iface, key>>, value |-> value,
                 setting |-> <<iface, key>>, meant |-> meant]
           step == Put(iface, key, value, meant)
<1>1. step.puts = {p} /\ step.tells = {}
  BY DEF Put, PutFor, Step
<1>2. /\ p.setting = p.at /\ p.at = <<iface, key>> /\ p.value = value
      /\ p.meant = meant /\ p.at[1] = iface
  OBVIOUS
<1> HIDE DEF p, step
<1>3. \/ p.at \in Unread
      \/ OffWithNumber(p)
      \/ Told(p.at, p.value) = p.meant
  BY <1>2 DEF OffWithNumber
<1>4. AsMeant(step)
  BY <1>1, <1>2, <1>3 DEF AsMeant
<1> QED
  BY <1>4 DEF step

LEMMA SetAsMeant ==
  ASSUME NEW iface, NEW key, NEW value, NEW meant,
         \/ <<iface, key>> \in Unread
         \/ Told(<<iface, key>>, value) = meant
         \/ iface = "CallForwarding" /\ meant = NoString /\ value # NoString
  PROVE  PlanAsMeant(Set(iface, key, value, meant))
BY PutAsMeant, OneStepAsMeant DEF Set

\* A setting that is told as it was written.
LEMMA SetPlainAsMeant ==
  ASSUME NEW iface, NEW key, NEW value,
         key \notin {"VoiceCallWaiting", "TechnologyPreference", "Mode"},
         key \notin CliKeys, iface # "CallBarring"
  PROVE  PlanAsMeant(Set(iface, key, value, value))
BY ToldPlain, SetAsMeant

\* A plan that neither sets nor reads.
LEMMA DoAsMeant ==
  ASSUME NEW iface, NEW method
  PROVE  PlanAsMeant(Do(iface, method))
<1> DEFINE step == Step(<<iface, method>>, {}, {})
<1>1. step.puts = {} /\ step.tells = {}
  BY DEF Step
<1> HIDE DEF step
<1>2. AsMeant(step)
  BY <1>1 DEF AsMeant
<1>3. PlanAsMeant(<<step>>)
  BY <1>2, OneStepAsMeant
<1> QED
  BY <1>3 DEF step, Do

\* A step that reads, whether the client waits for it or not.
LEMMA ReadAsMeant ==
  ASSUME NEW call, NEW tells, tells \cap Unread = {}, NEW has
  PROVE  /\ PlanAsMeant(<<Step(call, {}, tells)>>)
         /\ PlanAsMeant(Wait(has, <<Step(call, {}, tells)>>))
<1> DEFINE step == Step(call, {}, tells)
           blocking == [step EXCEPT !.blocks = TRUE]
<1>1. /\ step.puts = {} /\ step.tells = tells
      /\ blocking.puts = {} /\ blocking.tells = tells
  BY DEF Step
<1>2. Wait(has, <<step>>) = IF has THEN <<blocking>> ELSE <<>>
  BY DEF Wait
<1> HIDE DEF step, blocking
<1>3. AsMeant(step) /\ AsMeant(blocking)
  BY <1>1 DEF AsMeant
<1>4. PlanAsMeant(<<step>>) /\ PlanAsMeant(<<blocking>>)
  BY <1>3, OneStepAsMeant
<1>5. PlanAsMeant(Wait(has, <<step>>))
  BY <1>2, <1>4, NoStepAsMeant
<1> QED
  BY <1>4, <1>5 DEF step

\* A plan that reads properties of one interface.
LEMMA GetAsMeant ==
  ASSUME NEW iface, NEW keys,
         \A k \in keys : <<iface, k>> \notin Unread, NEW has
  PROVE  /\ PlanAsMeant(Get(iface, keys))
         /\ PlanAsMeant(Wait(has, Get(iface, keys)))
<1> DEFINE tells == {<<iface, k>> : k \in keys}
<1>1. tells \cap Unread = {}
  OBVIOUS
<1> QED
  BY <1>1, ReadAsMeant DEF Get

\* _str_to_network_mode() undoes _network_mode_to_str().
LEMMA NetworkModeAsMeant ==
  ASSUME NEW mode \in DOMAIN NetworkModeString
  PROVE  PlanAsMeant(SetNetworkMode(mode))
<1>1. NetworkModeTold(NetworkModeString[mode]) = mode
  <2>1. CASE mode = "MODE_UNKNOWN"
    <3>1. NetworkModeString["MODE_UNKNOWN"] = NoString
      BY DEF NetworkModeString
    <3>2. NoString \notin {"any", "gsm", "umts", "lte"}
      BY Zenon DEF NoString
    <3> QED
      BY <2>1, <3>1, <3>2 DEF NetworkModeTold, LookUp
  <2>2. CASE mode \in {"MODE_AUTO", "MODE_2G", "MODE_3G", "MODE_4G"}
    BY <2>2 DEF NetworkModeString, NetworkModeTold, LookUp
  <2> QED
    BY <2>1, <2>2 DEF NetworkModeString
<1>2. \A v : Told(<<"RadioSettings", "TechnologyPreference">>, v) =
               NetworkModeTold(v)
  BY DEF Told, CliKeys
<1> QED
  BY <1>1, <1>2, SetAsMeant DEF SetNetworkMode

\* So does the reply handler of ofono_ss_get_call_waiting().
LEMMA CallWaitingAsMeant ==
  ASSUME NEW on \in Switch
  PROVE  PlanAsMeant(SetCallWaiting(on))
<1> DEFINE v == IF on = "true" THEN "enabled" ELSE "disabled"
<1>1. CallWaitingTold(v) = on
  BY DEF Switch, CallWaitingTold, LookUp
<1>2. Told(<<"CallSettings", "VoiceCallWaiting">>, v) = CallWaitingTold(v)
  BY DEF Told, CliKeys
<1> QED
  BY <1>1, <1>2, SetAsMeant DEF SetCallWaiting

\* Forwarding sets the number, and for one condition the time after it.
LEMMA CallForwardAsMeant ==
  ASSUME NEW s \in Forwarding
  PROVE  PlanAsMeant(SetCallForward(s))
<1> DEFINE number == Put("CallForwarding", s.condition, s.num,
                         IF s.enable THEN s.num ELSE NoString)
           time == Put("CallForwarding", "VoiceNoReplyTimeout",
                       ToString(s.timeout), ToString(s.timeout))
<1>1. /\ s.condition \in {"VoiceUnconditional", "VoiceBusy", "VoiceNoReply",
                          "VoiceNotReachable"}
      /\ s.enable \in BOOLEAN
  BY DEF Forwarding
<1>2. \A v : Told(<<"CallForwarding", s.condition>>, v) = v
  BY <1>1, ToldPlain DEF CliKeys
<1>3. AsMeant(number)
  BY <1>2, PutAsMeant
<1>4. AsMeant(time)
  <2>1. \A v : Told(<<"CallForwarding", "VoiceNoReplyTimeout">>, v) = v
    BY ToldPlain DEF CliKeys
  <2> QED
    BY <2>1, PutAsMeant
<1>5. PlanAsMeant(<<number>>)
  BY <1>3, OneStepAsMeant
<1>6. PlanAsMeant(<<number, time>>)
  <2> HIDE DEF number, time
  <2>1. <<number, time>>[1] = number /\ <<number, time>>[2] = time
    OBVIOUS
  <2>2. \A k \in DOMAIN <<number, time>> : k = 1 \/ k = 2
    OBVIOUS
  <2>3. <<number, time>> \in Seq({number, time})
    OBVIOUS
  <2> DEFINE p == <<number, time>>
  <2>4. /\ p \in Seq({number, time}) /\ p[1] = number /\ p[2] = time
        /\ \A k \in DOMAIN p : k = 1 \/ k = 2
    BY <2>1, <2>2, <2>3
  <2> HIDE DEF p
  <2>5. p \in Seq({p[k] : k \in DOMAIN p})
    BY <2>4, SeqOfItsElements
  <2>6. \A k \in DOMAIN p : AsMeant(p[k])
    BY <1>3, <1>4, <2>4
  <2>7. PlanAsMeant(p)
    BY <2>5, <2>6 DEF PlanAsMeant
  <2> QED
    BY <2>7 DEF p
<1>7. SetCallForward(s) \in {<<>>, <<number>>, <<number, time>>}
  <2> DEFINE yes == ForwardingAccepted(s)
             noreply == s.condition = "VoiceNoReply" /\ s.enable
  <2>1. SetCallForward(s) =
          CASE ~yes -> <<>> [] yes /\ s.condition = "VoiceNoReply" /\ s.enable
                 -> <<number, time>>
            [] OTHER -> <<number>>
    BY DEF SetCallForward
  <2> HIDE DEF number, time, yes
  <2> QED
    BY <2>1
<1> QED
  BY <1>5, <1>6, <1>7, NoStepAsMeant

\* What ofono_ss_set_call_barring() sets is not known to ofonod.
LEMMA CallBarringAsMeant ==
  ASSUME NEW on \in BOOLEAN, NEW type \in BarringType, NEW pwd \in 0..5
  PROVE  PlanAsMeant(SetCallBarring(on, type, pwd))
<1> DEFINE off == [AB |-> "DisableAll", BAOC |-> "DisableAllOutgoing",
                   BAIC |-> "DisableAllIncoming"]
           b == BarringValue[type]
           meant == IF on THEN BarringTold(b[2]) ELSE "NONE"
           set == PutFor(<<"CallBarring", b[1]>>, "CallSettings", b[1], b[2],
                         meant)
<1>1. CASE pwd # 4
  BY <1>1, NoStepAsMeant DEF SetCallBarring
<1>2. CASE pwd = 4 /\ ~on /\ type \in DOMAIN off
  BY <1>2, DoAsMeant DEF SetCallBarring
<1>3. CASE pwd = 4 /\ (on \/ type \notin DOMAIN off)
  <2>1. CASE type \notin DOMAIN BarringValue
    BY <1>3, <2>1, NoStepAsMeant DEF SetCallBarring
  <2>2. CASE type \in DOMAIN BarringValue
    <3>1. b[1] \in {"VoiceOutgoing", "VoiceIncoming"}
      BY <2>2 DEF BarringValue
    <3>2. AsMeant(set)
      <4>1. /\ set.tells = {}
            /\ \E p \in set.puts : p.at = <<"CallSettings", b[1]>>
        BY DEF PutFor, Step
      <4> HIDE DEF set
      <4>2. ~Known(set)
        BY <3>1, <4>1 DEF Known
      <4> QED
        BY <4>1, <4>2 DEF AsMeant
    <3>3. PlanAsMeant(<<set>>)
      BY <3>2, OneStepAsMeant
    <3>4. SetCallBarring(on, type, pwd) = <<set>>
      BY <1>3, <2>2 DEF SetCallBarring
    <3> QED
      BY <3>3, <3>4
  <2> QED
    BY <2>1, <2>2
<1> QED
  BY <1>1, <1>2, <1>3

\* A context is set field by field.
LEMMA ContextAsMeant ==
  ASSUME NEW protocol \in DOMAIN ProtocolString, NEW given \in ContextSetting
  PROVE  PlanAsMeant(SetContext(protocol, given))
<1>1. PlanAsMeant(Set("Context", "Protocol", ProtocolString[protocol], protocol))
  BY SetAsMeant DEF Unread
<1>2. \A f \in ContextField : PlanAsMeant(IfGiven(given, f))
  <2> TAKE f \in ContextField
  <2>1. /\ f \notin {"VoiceCallWaiting", "TechnologyPreference", "Mode"}
        /\ f \notin CliKeys
    BY DEF ContextField, CliKeys
  <2>2. PlanAsMeant(Set("Context", f, given[f], given[f]))
    BY <2>1, SetPlainAsMeant
  <2> QED
    BY <2>2, NoStepAsMeant DEF IfGiven
<1> DEFINE g(f) == IfGiven(given, f)
           p == Set("Context", "Protocol", ProtocolString[protocol], protocol)
<1>3. /\ PlanAsMeant(p)
      /\ PlanAsMeant(g("AccessPointName")) /\ PlanAsMeant(g("Username"))
      /\ PlanAsMeant(g("Password")) /\ PlanAsMeant(g("MessageProxy"))
      /\ PlanAsMeant(g("MessageCenter"))
  BY <1>1, <1>2 DEF ContextField
<1> HIDE DEF g, p
<1> DEFINE p2 == p \o g("AccessPointName")
           p3 == p2 \o g("Username")
           p4 == p3 \o g("Password")
           p5 == p4 \o g("MessageProxy")
           p6 == p5 \o g("MessageCenter")
<1>4. SetContext(protocol, given) = p6
  BY DEF SetContext, g, p
<1>5. PlanAsMeant(p2)
  BY <1>3, TwoPlansAsMeant
<1>6. PlanAsMeant(p3)
  <2> HIDE DEF p2
  <2> QED
    BY <1>3, <1>5, TwoPlansAsMeant
<1>7. PlanAsMeant(p4)
  <2> HIDE DEF p3
  <2> QED
    BY <1>3, <1>6, TwoPlansAsMeant
<1>8. PlanAsMeant(p5)
  <2> HIDE DEF p4
  <2> QED
    BY <1>3, <1>7, TwoPlansAsMeant
<1>9. PlanAsMeant(p6)
  <2> HIDE DEF p5
  <2> QED
    BY <1>3, <1>8, TwoPlansAsMeant
<1> QED
  BY <1>4, <1>9

LEMMA DeactivateAllAsMeant == PlanAsMeant(DeactivateAll)
<1> DEFINE p == [at |-> <<"Context", "Active">>, value |-> "false",
                 setting |-> <<"Context", "Active">>, meant |-> "false"]
           step == Step(<<"ConnectionManager", "DeactivateAll">>, {p}, {})
<1>1. step.puts = {p} /\ step.tells = {}
  BY DEF Step
<1>2. /\ p.setting = p.at /\ p.at = <<"Context", "Active">>
      /\ p.value = "false" /\ p.meant = "false"
  OBVIOUS
<1>3. Told(<<"Context", "Active">>, "false") = "false"
  BY ToldPlain DEF CliKeys
<1>4. DeactivateAll = <<step>>
  BY DEF DeactivateAll
<1> HIDE DEF p, step
<1>5. Told(p.at, p.value) = p.meant
  BY <1>2, <1>3
<1>6. AsMeant(step)
  BY <1>1, <1>2, <1>5 DEF AsMeant
<1> QED
  BY <1>4, <1>6, OneStepAsMeant

\* All functions that set, that read, and that do something else.
LEMMA SettersAsMeant ==
  ASSUME NEW plan \in Setters
  PROVE  PlanAsMeant(plan)
<1>1. \A v : /\ PlanAsMeant(SetSca(v)) /\ PlanAsMeant(SetDeliveryReport(v))
             /\ PlanAsMeant(SetCbsPowered(v)) /\ PlanAsMeant(SetCbsTopics(v))
  BY SetPlainAsMeant
  DEF SetSca, SetDeliveryReport, SetCbsPowered, SetCbsTopics, CliKeys
<1>2. /\ PlanAsMeant(ActivateContext) /\ PlanAsMeant(DeactivateContext)
      /\ \A v : /\ PlanAsMeant(SetConnmanPowered(v))
                /\ PlanAsMeant(SetRoamingAllowed(v))
  BY SetPlainAsMeant
  DEF ActivateContext, DeactivateContext, SetConnmanPowered, SetRoamingAllowed,
      CliKeys
<1>3. \A v : /\ PlanAsMeant(SetOnline(v)) /\ PlanAsMeant(SetPowered(v))
             /\ PlanAsMeant(SetMute(v)) /\ PlanAsMeant(SetSpeakerVolume(v))
             /\ PlanAsMeant(SetMicrophoneVolume(v))
  BY SetPlainAsMeant
  DEF SetOnline, SetPowered, SetMute, SetSpeakerVolume, SetMicrophoneVolume,
      CliKeys
<1>4. \A v : PlanAsMeant(SetClir(v))
  BY SetAsMeant DEF SetClir, Unread
<1> QED
  BY <1>1, <1>2, <1>3, <1>4, CallWaitingAsMeant, CallForwardAsMeant,
     CallBarringAsMeant, NetworkModeAsMeant, ContextAsMeant,
     DeactivateAllAsMeant
  DEF Setters

LEMMA GettersAsMeant ==
  ASSUME NEW plan \in Getters
  PROVE  PlanAsMeant(plan)
<1>1. \A iface, keys : (iface # "Context" /\ iface # "CallSettings")
        => /\ PlanAsMeant(Get(iface, keys))
           /\ \A has : PlanAsMeant(Wait(has, Get(iface, keys)))
  <2> SUFFICES ASSUME NEW iface, NEW keys, iface # "Context",
                      iface # "CallSettings", NEW has
               PROVE  /\ PlanAsMeant(Get(iface, keys))
                      /\ PlanAsMeant(Wait(has, Get(iface, keys)))
    OBVIOUS
  <2>1. \A k \in keys : <<iface, k>> \notin Unread
    BY DEF Unread
  <2> QED
    BY <2>1, GetAsMeant
<1>2. \A keys : "HideCallerId" \notin keys =>
        PlanAsMeant(Get("CallSettings", keys))
  <2> SUFFICES ASSUME NEW keys, "HideCallerId" \notin keys
               PROVE  PlanAsMeant(Get("CallSettings", keys))
    OBVIOUS
  <2>1. \A k \in keys : <<"CallSettings", k>> \notin Unread
    BY DEF Unread
  <2> QED
    BY <2>1, GetAsMeant
<1>3. /\ PlanAsMeant(GetCallWaiting) /\ PlanAsMeant(GetCliStatus)
      /\ PlanAsMeant(GetClir)
  BY <1>2 DEF GetCallWaiting, GetCliStatus, GetClir, CliKeys
<1>4. /\ PlanAsMeant(GetCallForward) /\ PlanAsMeant(GetCallBarring)
      /\ PlanAsMeant(GetNetworkMode) /\ PlanAsMeant(GetSca)
      /\ PlanAsMeant(GetDeliveryReport) /\ PlanAsMeant(GetCbsConfig)
      /\ PlanAsMeant(GetModemInfo) /\ PlanAsMeant(GetMainMenu)
  BY <1>1 DEF GetCallForward, GetCallBarring, GetNetworkMode, GetSca,
              GetDeliveryReport, GetCbsConfig, GetModemInfo, GetMainMenu
<1>5. \A has : /\ PlanAsMeant(GetRegistrationInfo(has))
               /\ PlanAsMeant(GetOperatorName(has))
               /\ PlanAsMeant(GetSignalStrength(has))
               /\ PlanAsMeant(GetSelectionMode(has))
               /\ PlanAsMeant(GetConnmanPowered(has))
               /\ PlanAsMeant(GetRoamingAllowed(has))
               /\ PlanAsMeant(GetConnmanStatus(has))
  BY <1>1 DEF GetRegistrationInfo, GetOperatorName, GetSignalStrength,
              GetSelectionMode, GetConnmanPowered, GetRoamingAllowed,
              GetConnmanStatus
<1>6. \A has : /\ PlanAsMeant(GetEcc(has)) /\ PlanAsMeant(GetMute(has))
               /\ PlanAsMeant(GetSpeakerVolume(has))
               /\ PlanAsMeant(GetMicrophoneVolume(has))
  BY <1>1 DEF GetEcc, GetMute, GetSpeakerVolume, GetMicrophoneVolume, GetVolume
<1>7. \A has : PlanAsMeant(GetContextInfo(has))
  <2> TAKE has
  <2> DEFINE keys == {"Type", "Active", "Settings", "IPv6.Settings"}
  <2>1. \A k \in keys : <<"Context", k>> \notin Unread
    BY DEF Unread
  <2> QED
    BY <2>1, GetAsMeant DEF GetContextInfo
<1>8. \A has : PlanAsMeant(GetContexts(has))
  BY ReadAsMeant DEF GetContexts
<1> QED
  BY <1>3, <1>4, <1>5, <1>6, <1>7, <1>8 DEF Getters

LEMMA DoersAsMeant ==
  ASSUME NEW plan \in Doers
  PROVE  PlanAsMeant(plan)
<1>1. \A method, lengths : PlanAsMeant(PinRequest(method, lengths))
  BY DoAsMeant, NoStepAsMeant DEF PinRequest
<1>2. \A pin, pin2 :
        /\ PlanAsMeant(EnablePin(pin)) /\ PlanAsMeant(DisablePin(pin))
        /\ PlanAsMeant(EnterPin(pin)) /\ PlanAsMeant(ResetPin(pin, pin2))
        /\ PlanAsMeant(ChangePin(pin, pin2))
  BY <1>1 DEF EnablePin, DisablePin, EnterPin, ResetPin, ChangePin
<1>3. /\ PlanAsMeant(ChangeBarringPassword) /\ PlanAsMeant(InitiateUssd)
      /\ PlanAsMeant(RespondUssd) /\ PlanAsMeant(CancelUssd)
      /\ PlanAsMeant(NetworkRegister) /\ PlanAsMeant(NetworkAutoRegister)
      /\ PlanAsMeant(ScanOperators) /\ PlanAsMeant(ServingCell)
      /\ PlanAsMeant(NeighbouringCells)
  BY DoAsMeant
  DEF ChangeBarringPassword, InitiateUssd, RespondUssd, CancelUssd,
      NetworkRegister, NetworkAutoRegister, ScanOperators, ServingCell,
      NeighbouringCells
<1>4. /\ PlanAsMeant(SendSms) /\ PlanAsMeant(SendVcard)
      /\ PlanAsMeant(SendVcalendar) /\ PlanAsMeant(AddContext)
      /\ PlanAsMeant(RemoveContext) /\ PlanAsMeant(SimIo)
      /\ PlanAsMeant(SetVolumeByAlsa) /\ PlanAsMeant(SetSoundPath)
      /\ PlanAsMeant(ImportPhonebook) /\ PlanAsMeant(SelectItem)
  BY DoAsMeant
  DEF SendSms, SendVcard, SendVcalendar, AddContext, RemoveContext, SimIo,
      SetVolumeByAlsa, SetSoundPath, ImportPhonebook, SelectItem
<1> QED
  BY <1>2, <1>3, <1>4 DEF Doers

-----------------------------------------------------------------------------
(***************************************************************************)
(* A client reads what it has set                                          *)
(***************************************************************************)

\* A set of numbers that is not empty and has a bound has a maximum.
LEMMA MaxExists ==
  ASSUME NEW i \in Nat, NEW T, T \subseteq 1..i, T # {}
  PROVE  \E m \in T : \A l \in T : l <= m
<1> DEFINE R == OpToRel(<, Nat)
           U == {i - l : l \in T}
<1>1. IsWellFoundedOn(R, Nat)
  BY NatLessThanWellFounded
<1>2. \A a, b \in Nat : a < b => <<a, b>> \in R
  BY DEF OpToRel
<1>3. U \subseteq Nat /\ U # {}
  <2>1. \A l \in T : i - l \in Nat
    OBVIOUS
  <2> QED
    BY <2>1
<1> HIDE DEF R, U
<1>4. PICK u \in U : \A v \in U : ~(<<v, u>> \in R)
  BY <1>1, <1>3, WFMin
<1>5. \A v \in U : u <= v
  <2> TAKE v \in U
  <2>1. u \in Nat /\ v \in Nat /\ ~(v < u)
    BY <1>2, <1>3, <1>4
  <2> QED
    BY <2>1
<1>6. PICK m \in T : u = i - m
  BY DEF U
<1>7. \A l \in T : i - l \in U
  BY DEF U
<1> QED
  BY <1>5, <1>6, <1>7

\* The functions of the API set what they mean to.
LEMMA PlansAsMeant == \A plan \in Plan : PlanAsMeant(plan)
BY SettingsAssumption, SettersAsMeant, GettersAsMeant, DoersAsMeant

\* What was carried out was known to ofonod, and set what it meant to.
LEMMA DoneAsMeant ==
  ASSUME SettingsInv, NEW j \in DOMAIN written
  PROVE  /\ AsMeant(Done(j)) /\ Known(Done(j))
         /\ written[j].req \in Request
         /\ written[j].step \in DOMAIN reqs[written[j].req].plan
<1>1. TypeOK /\ StepsExist /\ WrittenIsKnown
  BY DEF SettingsInv, IInv
<1>2. written[j].req \in Request
  BY <1>1 DEF TypeOK
<1>3. reqs[written[j].req].plan \in Plan
  <2>1. reqs[written[j].req] \in RequestState
    BY <1>1, <1>2 DEF TypeOK, Request
  <2> QED
    BY <2>1 DEF RequestState
<1>4. written[j].step \in DOMAIN reqs[written[j].req].plan
  BY <1>1 DEF StepsExist
<1>5. AsMeant(Done(j))
  BY <1>3, <1>4, PlansAsMeant DEF PlanAsMeant, Done
<1>6. Known(Done(j))
  BY <1>1 DEF WrittenIsKnown
<1> QED
  BY <1>2, <1>4, <1>5, <1>6

\* A request that was told of success and means to set a property has set it.
LEMMA SetterIsWritten ==
  ASSUME SettingsInv, NEW s \in Request, reqs[s].result = "ok",
         NEW at, Meant(s, at) # {}
  PROVE  \E j \in DOMAIN written : /\ written[j].req = s
                                   /\ \E p \in Done(j).puts : p.at = at
<1>1. PICK k \in DOMAIN reqs[s].plan :
           \E p \in reqs[s].plan[k].puts : p.setting = at
  BY DEF Meant
<1>2. SuccessMeansAll
  BY InvImplies DEF SettingsInv
<1>3. PICK j \in DOMAIN written : written[j] = [req |-> s, step |-> k]
  BY <1>1, <1>2 DEF SuccessMeansAll
<1>4. written[j].req = s /\ Done(j) = reqs[s].plan[k]
  BY <1>3 DEF Done
<1>5. AsMeant(Done(j)) /\ Known(Done(j))
  BY DoneAsMeant
<1>6. PICK p \in Done(j).puts : p.setting = at
  BY <1>1, <1>4
<1>7. p.at = at
  BY <1>5, <1>6 DEF AsMeant
<1> QED
  BY <1>4, <1>7

\* What a step sets is what its request means.
LEMMA PutIsMeant ==
  ASSUME SettingsInv, NEW j \in DOMAIN written, NEW p \in Done(j).puts,
         p.at \notin Unread
  PROVE  \/ OffWithNumber(p)
         \/ Told(p.at, p.value) \in Meant(written[j].req, p.at)
<1>1. /\ AsMeant(Done(j)) /\ Known(Done(j))
      /\ written[j].step \in DOMAIN reqs[written[j].req].plan
  BY DoneAsMeant
<1>2. /\ p.setting = p.at
      /\ OffWithNumber(p) \/ Told(p.at, p.value) = p.meant
  BY <1>1 DEF AsMeant
<1>3. p.meant \in Meant(written[j].req, p.at)
  BY <1>1, <1>2 DEF Meant, Done
<1> QED
  BY <1>2, <1>3

\* What is read was set by the last request that wrote it: by the one that was
\* over before the reader began, or after that one.
LEMMA ReadsFromInv == SettingsInv => ReadsWhatWasSet
<1> SUFFICES ASSUME SettingsInv, NEW i \in DOMAIN written,
                    NEW at \in Done(i).tells,
                    NEW s \in reqs[written[i].req].before,
                    reqs[s].result = "ok", Meant(s, at) # {}
             PROVE  \E p \in Current(at, i) :
                      \/ OffWithNumber(p)
                      \/ \E t \in Request :
                           /\ t \notin reqs[s].before
                           /\ Told(at, p.value) \in Meant(t, at)
  BY DEF ReadsWhatWasSet
<1>1. TypeOK /\ BeforeIsOver /\ BeforeIsEarlier /\ RetryNotOvertaken
  BY InvImplies DEF SettingsInv, IInv
<1>2. /\ written[i].req \in Request /\ AsMeant(Done(i))
      /\ i \in Nat /\ DOMAIN written = 1..Len(written) /\ Len(written) \in Nat
  BY <1>1, DoneAsMeant DEF TypeOK
<1>3. s \in Request /\ at \notin Unread
  BY <1>1, <1>2 DEF BeforeIsOver, AsMeant
<1>4. PICK j \in DOMAIN written : /\ written[j].req = s
                                  /\ \E p \in Done(j).puts : p.at = at
  BY <1>3, SetterIsWritten
<1>5. j \in 1..(i - 1)
  <2>1. j # i
    BY <1>2, <1>4 DEF AsMeant
  <2>2. ~(i < j)
    BY <1>1, <1>4 DEF RetryNotOvertaken
  <2> QED
    BY <1>2, <2>1, <2>2
<1> DEFINE before == {l \in 1..(i - 1) : \E p \in Done(l).puts : p.at = at}
<1>6. j \in before /\ before \subseteq 1..i
  BY <1>2, <1>4, <1>5
<1>7. PICK m \in before : \A l \in before : l <= m
  BY <1>2, <1>6, MaxExists
<1>8. PICK p \in Done(m).puts : p.at = at
  BY <1>7
<1>9. p \in Current(at, i)
  BY <1>7, <1>8 DEF Current
<1>10. m \in DOMAIN written /\ j <= m /\ m \in Nat /\ j \in Nat
  BY <1>2, <1>5, <1>6, <1>7
<1>11. OffWithNumber(p) \/ Told(at, p.value) \in Meant(written[m].req, at)
  BY <1>3, <1>8, <1>10, PutIsMeant
<1>12. written[m].req \notin reqs[s].before
  <2>1. CASE m = j
    BY <1>1, <1>3, <1>4, <2>1 DEF BeforeIsEarlier
  <2>2. CASE j < m
    BY <1>1, <1>4, <1>10, <2>2 DEF RetryNotOvertaken
  <2> QED
    BY <1>10, <2>1, <2>2
<1>13. written[m].req \in Request
  BY <1>10, DoneAsMeant
<1> QED
  BY <1>9, <1>11, <1>12, <1>13

\* A client reads what it has set, whatever functions of the API it calls with
\* whatever arguments, in whatever order, and whatever fails or times out.
THEOREM SettingsCorrect == SettingsSpec => []ReadsWhatWasSet
<1> QED
  BY SettingsInvariance, ReadsFromInv, PTL

\* The requests of a client of which some wait for their answer keep what
\* requests promise: one callback each, success only for a whole plan, steps
\* in order, and no retry overtaken by the call that timed out.
THEOREM RequestsCorrect ==
  SettingsSpec => [](/\ TypeOK /\ CalledBackOnce /\ SuccessMeansAll
                     /\ StepsInOrder /\ RetryNotOvertaken)
<1>1. SettingsInv => IInv
  BY DEF SettingsInv
<1> QED
  BY <1>1, SettingsInvariance, InvImplies, PTL

-----------------------------------------------------------------------------
(***************************************************************************)
(* Requests implement the service                                          *)
(***************************************************************************)

\* A request that is not over has made a call, and calls are of steps.
Begun ==
  /\ \A r \in Request : ~Over(r) => reqs[r].sent # 0
  /\ \A i \in DOMAIN bus : bus[i].step # 0

\* A request as its client knows it.
UpTo(q) == IF q.result # "none" THEN q.sent ELSE Len(q.plan)

AsAsk(q) ==
  [steps |-> Len(q.plan),
   upto  |-> UpTo(q),
   told  |-> q.result,
   calls |-> q.told,
   after |-> q.before]

\* The mapping, request by request.
LEMMA AsksAre == Asks = [r \in Request |-> AsAsk(reqs[r])]
BY DEF Asks, AsAsk, UpTo, Over

\* A request is made.
LEMMA AsksAppend ==
  ASSUME reqs \in Seq(RequestState), NEW q, reqs' = Append(reqs, q)
  PROVE  Asks' = Append(Asks, AsAsk(q))
<1> DEFINE n == Len(reqs)
<1>1. /\ n \in Nat /\ Request = 1..n /\ Request' = 1..(n + 1)
      /\ \A r \in 1..n : reqs'[r] = reqs[r]
      /\ reqs'[n + 1] = q
  BY DEF Request
<1>2. Asks = [r \in 1..n |-> AsAsk(reqs[r])]
  BY <1>1, AsksAre
<1>3. Asks' = [r \in 1..(n + 1) |-> AsAsk(reqs'[r])]
  BY <1>1 DEF Asks, AsAsk, UpTo, Over
<1> DEFINE F == [r \in 1..n |-> AsAsk(reqs[r])]
           A == AsAsk(q)
<1> HIDE DEF n
<1>4. Len(F) = n
  BY <1>1
<1>5. Append(F, A) = [r \in 1..(n + 1) |-> IF r = n + 1 THEN A ELSE F[r]]
  <2> HIDE DEF A
  <2>1. F \in Seq({AsAsk(reqs[r]) : r \in 1..n})
    BY <1>1
  <2> QED
    BY <1>1, <1>4, <2>1
<1>6. \A r \in 1..(n + 1) :
        AsAsk(reqs'[r]) = IF r = n + 1 THEN A ELSE F[r]
  <2> TAKE r \in 1..(n + 1)
  <2>1. CASE r = n + 1
    BY <1>1, <2>1
  <2>2. CASE r \in 1..n
    <3>1. r # n + 1 /\ reqs'[r] = reqs[r]
      <4>1. n \in Nat
        BY <1>1
      <4>2. r # n + 1
        BY <2>2, <4>1
      <4> QED
        BY <1>1, <2>2, <4>2
    <3>2. F[r] = AsAsk(reqs[r])
      BY <2>2, Zenon
    <3> QED
      BY <3>1, <3>2, Zenon
  <2>3. r = n + 1 \/ r \in 1..n
    BY <1>1
  <2> QED
    BY <2>1, <2>2, <2>3, Zenon
<1>7. Asks' = [r \in 1..(n + 1) |-> IF r = n + 1 THEN A ELSE F[r]]
  BY <1>3, <1>6, Zenon
<1> QED
  BY <1>2, <1>5, <1>7

\* What a client knows does not change.
LEMMA AsksKept ==
  ASSUME Request' = Request,
         \A r \in Request : AsAsk(reqs'[r]) = AsAsk(reqs[r])
  PROVE  Asks' = Asks
<1>1. Asks' = [r \in Request' |-> AsAsk(reqs'[r])]
  BY DEF Asks, AsAsk, UpTo, Over
<1> QED
  BY <1>1, AsksAre, Zenon

\* An answer on the bus tells the client nothing yet.
LEMMA AnswersKeepAsks ==
  ASSUME TypeOK, OnlyCallsAnswered
  PROVE  Asks' = Asks
<1>1. Request' = Request
  BY DEF TypeOK, OnlyCallsAnswered, Request
<1>2. \A r \in Request : AsAsk(reqs'[r]) = AsAsk(reqs[r])
  BY DEF OnlyCallsAnswered, AsAsk, UpTo
<1> QED
  BY <1>1, <1>2, AsksKept

\* A request whose arguments are accepted, and one whose are not.
LEMMA AskRefines ==
  ASSUME IInv, NEW plan \in Plan, Ask(plan)
  PROVE  Service!Next
<1> DEFINE q == [plan |-> plan, sent |-> 1, call |-> "pending",
                 result |-> "none", told |-> 0,
                 before |-> {r \in Request : Over(r)}]
           n == Len(plan)
           known == {r \in Request : Over(r)}
<1>1. /\ reqs' = Append(reqs, q) /\ written' = written /\ plan # <<>>
  BY DEF Ask
<1>2. AsAsk(q) = [steps |-> n, upto |-> n, told |-> "none", calls |-> 0,
                  after |-> known]
  BY DEF AsAsk, UpTo
<1>3. reqs \in Seq(RequestState)
  BY DEF IInv, TypeOK
<1>4. n # 0
  BY <1>1, RequestsAssumption
<1>5. known = {r \in DOMAIN Asks : Asks[r].told # "none"}
  BY DEF Asks, Over
<1> HIDE DEF q, known
<1>6. Asks' = Append(Asks, [steps |-> n, upto |-> n, told |-> "none",
                            calls |-> 0, after |-> known])
  BY <1>1, <1>2, <1>3, AsksAppend
<1>7. Service!Ask(n)
  BY <1>1, <1>4, <1>5, <1>6 DEF Service!Ask
<1> QED
  BY <1>7 DEF Service!Next

LEMMA RefuseRefines ==
  ASSUME IInv, NEW plan \in Plan, Refuse(plan)
  PROVE  Service!Next
<1> DEFINE q == [plan |-> plan, sent |-> 0, call |-> "failed",
                 result |-> "failed", told |-> 1,
                 before |-> {r \in Request : Over(r)}]
           known == {r \in Request : Over(r)}
<1>1. /\ reqs' = Append(reqs, q) /\ written' = written /\ Len(plan) = 0
  BY DEF Refuse
<1>2. AsAsk(q) = [steps |-> 0, upto |-> 0, told |-> "failed", calls |-> 1,
                  after |-> known]
  BY <1>1 DEF AsAsk, UpTo
<1>3. reqs \in Seq(RequestState)
  BY DEF IInv, TypeOK
<1>4. known = {r \in DOMAIN Asks : Asks[r].told # "none"}
  BY DEF Asks, Over
<1> HIDE DEF q, known
<1>5. Asks' = Append(Asks, [steps |-> 0, upto |-> 0, told |-> "failed",
                            calls |-> 1, after |-> known])
  BY <1>1, <1>2, <1>3, AsksAppend
<1>6. Service!Refuse
  BY <1>1, <1>4, <1>5 DEF Service!Refuse
<1> QED
  BY <1>6 DEF Service!Next

\* A call that is carried out is the next step of its request.
LEMMA AcceptRefines ==
  ASSUME IInv, Begun, Accept
  PROVE  Service!Next
<1> DEFINE c == Head(bus)
           r == c.req
           k == c.step
<1>1. /\ TypeOK /\ bus # <<>> /\ bus' = Tail(bus)
      /\ written' = Append(written, c)
      /\ \E o \in {"ok", "failed"} : Reply(c, o)
  BY DEF IInv, Accept
<1>2. /\ c = bus[1] /\ 1 \in DOMAIN bus
      /\ c \in Call /\ r \in Request
  BY <1>1, OldestCall
<1> HIDE DEF c
<1>3. Asks' = Asks
  BY <1>1, <1>2, ReplyAnswers, AnswersKeepAsks
<1>4. reqs[r] \in RequestState /\ c = [req |-> r, step |-> k] /\ k \in Nat
  BY <1>1, <1>2 DEF TypeOK, Request, Call
<1>5. /\ k = reqs[r].sent /\ k # 0 /\ k <= Len(reqs[r].plan)
      /\ Len(reqs[r].plan) \in Nat
  BY <1>1, <1>2, <1>4, RequestsAssumption
  DEF IInv, BusHoldsLatest, Begun, TypeOK, RequestState
<1>6. /\ r \in DOMAIN Asks
      /\ Asks[r].steps = Len(reqs[r].plan) /\ k <= Asks[r].upto
  BY <1>2, <1>4, <1>5 DEF Asks
<1>7. k \in 1..Asks[r].steps
  BY <1>4, <1>5, <1>6
<1>8. ~Service!CarriedOut(r, k)
  BY <1>2, <1>4 DEF Service!CarriedOut, IInv, WrittenWasSent
<1>9. \A j \in 1..(k - 1) : Service!CarriedOut(r, j)
  BY <1>2, <1>4, <1>5 DEF Service!CarriedOut, IInv, SentWasWritten
<1>10. \A i \in DOMAIN written : r \notin Asks[written[i].req].after
  BY <1>1, <1>2 DEF IInv, OrderKept, Asks, TypeOK
<1>11. Service!CarryOut(r, k)
  BY <1>1, <1>3, <1>4, <1>6, <1>8, <1>9, <1>10 DEF Service!CarryOut
<1> QED
  BY <1>6, <1>7, <1>11 DEF Service!Next

\* The callback tells what the service does.
LEMMA FinishRefines ==
  ASSUME IInv, Begun, NEW r \in Request, Finish(r)
  PROVE  Service!Next
<1> DEFINE q == [reqs[r] EXCEPT !.result = reqs[r].call,
                                !.told = reqs[r].told + 1]
<1>1. /\ TypeOK /\ written' = written
      /\ ~Over(r) /\ reqs[r].call # "pending"
      /\ reqs[r].call = "failed" \/ LastStep(r)
  BY DEF IInv, Finish, Replied, Tell
<1>2. reqs \in Seq(RequestState) /\ reqs[r] \in RequestState
  BY <1>1 DEF TypeOK, Request
<1>3. /\ reqs[r].call \in {"ok", "failed"}
      /\ reqs[r].sent \in Nat /\ Len(reqs[r].plan) \in Nat
      /\ reqs[r].sent # 0 /\ reqs[r].sent <= Len(reqs[r].plan)
  BY <1>1, <1>2, RequestsAssumption DEF RequestState, Begun, TypeOK
<1>4. reqs' = [reqs EXCEPT ![r] = q]
  <2>1. reqs' = [reqs EXCEPT ![r].result = reqs[r].call, ![r].told = @ + 1]
    BY DEF Finish, Tell
  <2> QED
    BY <1>1, <1>2, <2>1 DEF TypeOK, Request, RequestState
<1>5. /\ q.plan = reqs[r].plan /\ q.sent = reqs[r].sent
      /\ q.result = reqs[r].call /\ q.told = reqs[r].told + 1
      /\ q.before = reqs[r].before
  BY <1>2 DEF RequestState
<1> HIDE DEF q
<1>6. /\ Request' = Request /\ reqs'[r] = q
      /\ \A p \in Request \ {r} : reqs'[p] = reqs[p]
  BY <1>2, <1>4 DEF Request
<1> DEFINE a == [steps |-> Len(reqs[r].plan), upto |-> reqs[r].sent,
                 told |-> reqs[r].call, calls |-> reqs[r].told + 1,
                 after |-> reqs[r].before]
<1>7. AsAsk(q) = a
  BY <1>3, <1>5 DEF AsAsk, UpTo
<1> HIDE DEF a
<1>8. Asks' = [Asks EXCEPT ![r] = a]
  <2>1. Asks' = [p \in Request |-> AsAsk(reqs'[p])]
    BY <1>6 DEF Asks, AsAsk, UpTo, Over
  <2>2. \A p \in Request :
          AsAsk(reqs'[p]) = IF p = r THEN a ELSE AsAsk(reqs[p])
    BY <1>6, <1>7
  <2> QED
    BY <2>1, <2>2, AsksAre
<1>9. /\ r \in DOMAIN Asks /\ Asks[r] = AsAsk(reqs[r])
      /\ Asks[r].told = "none" /\ Asks[r].steps = Len(reqs[r].plan)
  BY <1>1, AsksAre DEF AsAsk, Over
<1>10. Asks' = [Asks EXCEPT ![r].told = reqs[r].call,
                             ![r].upto = reqs[r].sent, ![r].calls = @ + 1]
  <2> DEFINE b == AsAsk(reqs[r])
             A == [Asks EXCEPT ![r].told = reqs[r].call,
                               ![r].upto = reqs[r].sent, ![r].calls = @ + 1]
  <2>1. a = [[[b EXCEPT !.told = reqs[r].call] EXCEPT !.upto = reqs[r].sent]
               EXCEPT !.calls = b.calls + 1]
    <3>1. b.calls = reqs[r].told
      BY DEF AsAsk
    <3>2. b = [steps |-> Len(reqs[r].plan), upto |-> UpTo(reqs[r]),
               told |-> reqs[r].result, calls |-> reqs[r].told,
               after |-> reqs[r].before]
      BY DEF AsAsk
    <3> DEFINE steps == Len(reqs[r].plan)
               after == reqs[r].before
               calls == reqs[r].told + 1
               b1 == [b EXCEPT !.told = reqs[r].call]
               b2 == [b1 EXCEPT !.upto = reqs[r].sent]
    <3>3. b1 = [steps |-> steps, upto |-> UpTo(reqs[r]),
                told |-> reqs[r].call, calls |-> reqs[r].told, after |-> after]
      <4> HIDE DEF b
      <4> QED
        BY <3>2
    <3>4. b2 = [steps |-> steps, upto |-> reqs[r].sent,
                told |-> reqs[r].call, calls |-> reqs[r].told, after |-> after]
      <4> HIDE DEF b1
      <4> QED
        BY <3>3
    <3>5. a = [steps |-> steps, upto |-> reqs[r].sent,
               told |-> reqs[r].call, calls |-> calls, after |-> after]
      BY DEF a
    <3>6. [b2 EXCEPT !.calls = calls] = a
      <4> HIDE DEF b2, calls, a
      <4> QED
        BY <3>4, <3>5
    <3> HIDE DEF b
    <3> QED
      BY <3>1, <3>6
  <2> HIDE DEF b
  <2>2. Asks[r] = b
    BY <1>9 DEF b
  <2> QED
    BY <1>8, <1>9, <2>1, <2>2, AsksAre
<1>11. Service!Tell(r, reqs[r].call, reqs[r].sent)
  BY <1>1, <1>9, <1>10 DEF Service!Tell
<1>12. CASE reqs[r].call = "failed"
  <2>1. \A k \in 1..(reqs[r].sent - 1) : Service!CarriedOut(r, k)
    BY <1>3 DEF Service!CarriedOut, IInv, SentWasWritten
  <2>2. Service!Fail(r, reqs[r].sent)
    BY <1>11, <1>12, <2>1 DEF Service!Fail
  <2>3. reqs[r].sent \in 1..Asks[r].steps
    BY <1>3, <1>9
  <2> QED
    BY <1>9, <2>2, <2>3 DEF Service!Next
<1>13. CASE reqs[r].call = "ok" /\ LastStep(r)
  <2>1. reqs[r].sent = Asks[r].steps
    BY <1>9, <1>13 DEF LastStep
  <2>2. \A k \in 1..Asks[r].steps : Service!CarriedOut(r, k)
    BY <1>13, <2>1 DEF Service!CarriedOut, IInv, SentWasWritten
  <2>3. Service!Succeed(r)
    BY <1>11, <1>13, <2>1, <2>2 DEF Service!Succeed
  <2> QED
    BY <1>9, <2>3 DEF Service!Next
<1> QED
  BY <1>1, <1>3, <1>12, <1>13

\* Of a step that is sent the client knows nothing.
LEMMA SendNextKeepsAsks ==
  ASSUME IInv, NEW r \in Request, Replied(r), SendNext(r)
  PROVE  Asks' = Asks /\ written' = written
<1> DEFINE q == [reqs[r] EXCEPT !.sent = reqs[r].sent + 1,
                                !.call = "pending"]
<1>1. TypeOK /\ ~Over(r) /\ written' = written
  BY DEF IInv, Replied, SendNext
<1>2. reqs \in Seq(RequestState) /\ reqs[r] \in RequestState
  BY <1>1 DEF TypeOK, Request
<1>3. /\ q.plan = reqs[r].plan /\ q.result = reqs[r].result
      /\ q.told = reqs[r].told /\ q.before = reqs[r].before
  BY <1>2 DEF RequestState
<1>4. reqs' = [reqs EXCEPT ![r] = q]
  <2>1. reqs' = [reqs EXCEPT ![r].sent = @ + 1, ![r].call = "pending"]
    BY DEF SendNext
  <2> QED
    BY <1>1, <1>2, <2>1 DEF TypeOK, Request, RequestState
<1> HIDE DEF q
<1>5. /\ Request' = Request /\ reqs'[r] = q
      /\ \A p \in Request \ {r} : reqs'[p] = reqs[p]
  BY <1>2, <1>4 DEF Request
<1>6. \A p \in Request : AsAsk(reqs'[p]) = AsAsk(reqs[p])
  BY <1>1, <1>3, <1>5 DEF AsAsk, UpTo, Over
<1> QED
  BY <1>1, <1>5, <1>6, AsksKept

\* Every step keeps what has begun.
LEMMA BegunKept == IInv /\ Begun /\ [Next]_vars => Begun'
<1> SUFFICES ASSUME IInv, Begun, [Next]_vars
             PROVE  Begun'
  OBVIOUS
<1>1. TypeOK /\ reqs \in Seq(RequestState) /\ bus \in Seq(Call)
  BY DEF IInv, TypeOK
<1>2. ASSUME NEW q, reqs' = Append(reqs, q), q.result # "none" \/ q.sent = 1,
             \/ bus' = bus
             \/ bus' = Append(bus, [req |-> Len(reqs) + 1, step |-> 1])
      PROVE  Begun'
  <2>1. /\ Request' = Request \cup {Len(reqs) + 1}
        /\ \A r \in Request : reqs'[r] = reqs[r]
        /\ reqs'[Len(reqs) + 1] = q
    BY <1>1, <1>2 DEF Request
  <2>2. \A r \in Request' : ~Over(r)' => reqs'[r].sent # 0
    <3> TAKE r \in Request'
    <3>1. CASE r \in Request
      BY <2>1, <3>1 DEF Begun, Over
    <3>2. CASE r = Len(reqs) + 1
      BY <1>2, <2>1, <3>2 DEF Over
    <3> QED
      BY <2>1, <3>1, <3>2
  <2>3. \A i \in DOMAIN bus' : bus'[i].step # 0
    <3>1. CASE bus' = bus
      BY <3>1 DEF Begun
    <3> DEFINE e == [req |-> Len(reqs) + 1, step |-> 1]
    <3>2. CASE bus' = Append(bus, e)
      <4>1. e.step # 0
        OBVIOUS
      <4> HIDE DEF e
      <4> QED
        BY <1>1, <3>2, <4>1 DEF Begun
    <3> QED
      BY <1>2, <3>1, <3>2
  <2> QED
    BY <2>2, <2>3 DEF Begun
<1>3. CASE \E plan \in Plan : Ask(plan) \/ Refuse(plan)
  <2>1. PICK plan \in Plan : Ask(plan) \/ Refuse(plan)
    BY <1>3
  <2>2. CASE Ask(plan)
    BY <1>2, <2>2 DEF Ask
  <2>3. CASE Refuse(plan)
    BY <1>2, <2>3 DEF Refuse
  <2> QED
    BY <2>1, <2>2, <2>3
<1>4. CASE Deinit
  BY <1>4 DEF Deinit, Begun, Request, Over
<1>5. ASSUME OnlyCallsAnswered, \A i \in DOMAIN bus' : bus'[i].step # 0
      PROVE  Begun'
  <2>1. Request' = Request
    BY <1>1, <1>5 DEF OnlyCallsAnswered, Request
  <2> QED
    BY <1>5, <2>1 DEF OnlyCallsAnswered, Begun, Over
<1>6. CASE Accept \/ Reject
  <2>1. /\ bus # <<>> /\ bus' = Tail(bus)
        /\ \E o \in {"ok", "failed"} : Reply(Head(bus), o)
    BY <1>6 DEF Accept, Reject
  <2>2. /\ Head(bus) \in Call /\ Head(bus).req \in Request
        /\ \A i \in DOMAIN bus' : i + 1 \in DOMAIN bus /\ bus'[i] = bus[i + 1]
    BY <1>1, <2>1, OldestCall
  <2>3. OnlyCallsAnswered
    BY <1>1, <2>1, <2>2, ReplyAnswers
  <2> QED
    BY <1>5, <2>2, <2>3 DEF Begun
<1>7. CASE \E r \in Request : Timeout(r)
  <2>1. PICK r \in Request : Timeout(r)
    BY <1>7
  <2>2. OnlyCallsAnswered
    BY <1>1, <2>1, AnswerCall DEF Timeout
  <2> QED
    BY <1>5, <2>1, <2>2 DEF Begun, Timeout
<1>8. CASE Library
  <2>1. PICK r \in Request : Continue(r) \/ ContinueDangling(r) \/ Finish(r)
    BY <1>8 DEF Library
  <2>2. reqs[r] \in RequestState
    BY <1>1 DEF Request
  <2>3. CASE Finish(r)
    <3>1. /\ Request' = Request /\ bus' = bus
          /\ \A p \in Request \ {r} : reqs'[p] = reqs[p]
          /\ reqs'[r].sent = reqs[r].sent /\ ~Over(r)
      BY <1>1, <2>2, <2>3 DEF Finish, Tell, Replied, Request, RequestState
    <3> QED
      BY <3>1 DEF Begun, Over
  <2>4. CASE SendNext(r)
    <3> DEFINE e == [req |-> r, step |-> reqs[r].sent + 1]
    <3>1. /\ Request' = Request /\ bus' = Append(bus, e)
          /\ \A p \in Request \ {r} : reqs'[p] = reqs[p]
          /\ reqs'[r].sent = reqs[r].sent + 1
      BY <1>1, <2>2, <2>4 DEF SendNext, Request, RequestState
    <3>2. reqs[r].sent + 1 # 0
      BY <2>2 DEF RequestState
    <3>3. e.step # 0
      BY <3>2
    <3> HIDE DEF e
    <3>4. \A i \in DOMAIN bus' : bus'[i].step # 0
      BY <1>1, <3>1, <3>3 DEF Begun
    <3> QED
      BY <3>1, <3>2, <3>4 DEF Begun, Over
  <2>5. CASE UNCHANGED <<modem, reqs, bus, written>>
    BY <2>5 DEF Begun, Request, Over
  <2> QED
    BY <2>1, <2>3, <2>4, <2>5 DEF Continue, ContinueDangling
<1>9. CASE UNCHANGED vars
  BY <1>9 DEF vars, Begun, Request, Over
<1> QED
  BY <1>3, <1>4, <1>6, <1>7, <1>8, <1>9 DEF Next

\* The steps of any client are steps of the service, or none.
LEMMA NextRefines ==
  IInv /\ Begun /\ [Next]_vars => [Service!Next]_(Service!vars)
<1> SUFFICES ASSUME IInv, Begun, [Next]_vars
             PROVE  Service!Next \/ UNCHANGED Service!vars
  OBVIOUS
<1>1. TypeOK
  BY DEF IInv
<1>2. CASE \E plan \in Plan : Ask(plan) \/ Refuse(plan)
  BY <1>2, AskRefines, RefuseRefines
<1>3. CASE Accept
  BY <1>3, AcceptRefines
<1>4. CASE Reject
  <2>1. /\ Head(bus) \in Call /\ Head(bus).req \in Request
    BY <1>1, <1>4, OldestCall DEF Reject
  <2>2. OnlyCallsAnswered
    BY <1>1, <1>4, <2>1, ReplyAnswers DEF Reject
  <2> QED
    BY <1>1, <1>4, <2>2, AnswersKeepAsks DEF Reject, Service!vars
<1>5. CASE \E r \in Request : Timeout(r)
  <2>1. PICK r \in Request : Timeout(r)
    BY <1>5
  <2>2. OnlyCallsAnswered
    BY <1>1, <2>1, AnswerCall DEF Timeout
  <2> QED
    BY <1>1, <2>1, <2>2, AnswersKeepAsks DEF Timeout, Service!vars
<1>6. CASE UNCHANGED <<reqs, written>>
  BY <1>6 DEF Service!vars, Asks, Request, Over
<1>7. CASE Library
  <2>1. PICK r \in Request : Continue(r) \/ ContinueDangling(r) \/ Finish(r)
    BY <1>7 DEF Library
  <2>2. CASE Finish(r)
    BY <2>2, FinishRefines
  <2>3. CASE Replied(r) /\ SendNext(r)
    BY <2>3, SendNextKeepsAsks DEF Service!vars
  <2> QED
    BY <1>6, <2>1, <2>2, <2>3 DEF Continue, ContinueDangling
<1> QED
  BY <1>2, <1>3, <1>4, <1>5, <1>6, <1>7 DEF Next, Deinit, vars

\* No request was made at first.
LEMMA InitRefines == Init => Service!Init /\ Begun
<1> SUFFICES ASSUME Init
             PROVE  Service!Init /\ Begun
  OBVIOUS
<1>1. DOMAIN bus = {} /\ Request = {} /\ written = <<>>
  BY DEF Init, Request
<1>2. Asks = <<>>
  BY <1>1 DEF Asks
<1> QED
  BY <1>1, <1>2 DEF Service!Init, Begun

\* Requests, whatever their plans, implement the service the library promises.
THEOREM Refinement == Spec => ServiceSpec
<1>1. Spec => []Begun
  BY InitRefines, BegunKept, Invariance, PTL DEF Spec
<1> QED
  BY <1>1, InitRefines, NextRefines, Invariance, PTL
  DEF Spec, ServiceSpec, Service!Spec

\* So do the functions of the API, of which some block.
THEOREM SettingsRefinement == SettingsSpec => ServiceSpec
<1>1. SettingsInv /\ [SettingsNext]_vars =>
        [Next]_vars \/ UNCHANGED <<modem, reqs, bus, written>>
  <2> SUFFICES ASSUME SettingsInv, SettingsNext
               PROVE  Next \/ UNCHANGED <<modem, reqs, bus, written>>
    BY DEF vars
  <2>1. TypeOK
    BY DEF SettingsInv, IInv
  <2> QED
    BY <2>1, SettingsSteps DEF Next, GetContextsFails
<1>2. UNCHANGED <<modem, reqs, bus, written>> =>
        [Service!Next]_(Service!vars) /\ (Begun => Begun')
  <2> SUFFICES ASSUME UNCHANGED <<modem, reqs, bus, written>>
               PROVE  UNCHANGED Service!vars /\ (Begun => Begun')
    OBVIOUS
  <2> QED
    BY DEF Service!vars, Asks, Request, Over, Begun
<1>3. SettingsInv => IInv
  BY DEF SettingsInv
<1>4. SettingsInv /\ Begun /\ [SettingsNext]_vars =>
        [Service!Next]_(Service!vars) /\ Begun'
  BY <1>1, <1>2, <1>3, BegunKept, NextRefines
<1> QED
  BY <1>4, InitRefines, SettingsInvariance, PTL
  DEF SettingsSpec, ServiceSpec, Service!Spec

=============================================================================
