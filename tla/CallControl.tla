---------------------------- MODULE CallControl ----------------------------
(***************************************************************************)
(* The requests of ofono-call.c that act on calls, beside a daemon whose   *)
(* calls come, change and go meanwhile. ofono_call_answer() and            *)
(* ofono_call_deflect() block in GetCalls, choose a call from the answer,  *)
(* and then send the request to the path of that call;                     *)
(* ofono_call_release_specific() sends to the path of the id it is given,  *)
(* ofono_call_dial() makes a call, and the others act on all calls of some *)
(* status. A path names an id, and an id is used again when its call is    *)
(* over. Two calls that are active at once are in a conference.            *)
(*                                                                         *)
(* The calls of one connection reach the daemon in the order they were     *)
(* made, the blocking ones too. The order in which GetCalls lists the      *)
(* calls is the daemon's.                                                  *)
(***************************************************************************)
EXTENDS Naturals, Sequences, FiniteSets, Functions

CONSTANTS CallId,            \* the ids ofonod gives to calls, from 1
          MAX_CALL_PARTIES,  \* the calls struct ofono_calls has room for
          MaxEvents,         \* bound: changes of calls by network and peers
          Turns              \* bound: the methods of the first, second ...
                             \* request of the client

\* The requests on calls, by the names D-Bus knows them by.
Method ==
  {"Answer", "Deflect", "Hangup", "PrivateChat", "Dial", "HangupAll",
   "SwapCalls", "ReleaseAndAnswer", "ReleaseAndSwap", "HoldAndAnswer",
   "Transfer", "CreateMultiparty", "HangupMultiparty", "SendTones"}

ASSUME CallControlAssumption ==
  /\ CallId \subseteq Nat \ {0} /\ IsFiniteSet(CallId)
  /\ MAX_CALL_PARTIES \in Nat
  /\ MaxEvents \in Nat
  /\ Turns \in Seq(SUBSET Method)

VARIABLES calls,   \* the status of the call of each id, in the daemon
          born,    \* how many calls have had each id
          events,  \* how many times a call changed on its own
          reqs,    \* the requests made, in order
          bus,     \* calls to the daemon it has not worked off, oldest first
          acted    \* what the daemon did to calls for requests

vars == <<calls, born, events, reqs, bus, acted>>

-----------------------------------------------------------------------------
(***************************************************************************)
(* Calls and requests                                                      *)
(***************************************************************************)

\* enum ofono_call_status, but for the status of calls that are over.
Status == {"active", "held", "dialing", "alerting", "incoming", "waiting"}

Ringing == {"incoming", "waiting"}

\* A call as struct ofono_call_info has it, and which call of its id it is.
CallInfo == [id : CallId, status : Status, born : Nat]

MaxRequests == Len(Turns)

\* A request: its method, the list it was given, the call it is for (0: none
\* yet, or none in particular), its state, and how often its callback was
\* called. The rest is history: how many calls there were when the client
\* asked, the one that rang if it was alone, and whether anything but this
\* request has touched the calls, or failed, since.
Request ==
  [method  : Method,
   seen    : Seq(CallInfo),
   target  : CallId \cup {0},
   state   : {"listing", "listed", "dropped", "pending", "ok", "failed"},
   told    : Nat,
   had     : Nat,
   rang    : CallId \cup {0},
   stirred : BOOLEAN]

\* What a request did to a call.
Deed == [req : 1..MaxRequests, id : CallId, born : Nat,
         made : Status \cup {"none"}]

Live == {c \in CallId : calls[c] # "none"}

\* The only call, if it is the only one and rings, else 0.
LoneRinging ==
  IF \E c \in CallId : Live = {c} /\ calls[c] = "incoming"
    THEN CHOOSE c \in CallId : Live = {c} ELSE 0

\* A new call takes the lowest id that is free.
Free(c) == calls[c] = "none" /\ \A d \in CallId : d < c => calls[d] # "none"

Init ==
  /\ calls = [c \in CallId |-> "none"]
  /\ born = [c \in CallId |-> 0]
  /\ events = 0
  /\ reqs = <<>>
  /\ bus = <<>>
  /\ acted = {}

\* Every request that is not over, but those in `except`, is stirred.
Stir(rs, except) ==
  [r \in DOMAIN rs |->
     IF r \in except \/ rs[r].told > 0 THEN rs[r]
     ELSE [rs[r] EXCEPT !.stirred = TRUE]]

-----------------------------------------------------------------------------
(***************************************************************************)
(* Network and peers                                                       *)
(***************************************************************************)

\* What the status of a call becomes without a request of this client.
Moves ==
  {<<"dialing", "alerting">>, <<"alerting", "active">>, <<"active", "held">>,
   <<"held", "active">>, <<"incoming", "active">>, <<"waiting", "incoming">>}

Event(status, c) ==
  /\ events < MaxEvents
  /\ events' = events + 1
  /\ calls' = [calls EXCEPT ![c] = status]
  /\ reqs' = Stir(reqs, {})
  /\ UNCHANGED <<bus, acted>>

\* A call comes in; it waits if there are others.
NewCall(c) ==
  /\ Free(c)
  /\ born' = [born EXCEPT ![c] = @ + 1]
  /\ Event(IF Live = {} THEN "incoming" ELSE "waiting", c)

Move(c) ==
  /\ \E m \in Moves :
       /\ calls[c] = m[1]
       /\ m[2] = "incoming" => Live = {c}
       /\ Event(m[2], c)
  /\ UNCHANGED born

EndCall(c) ==
  /\ calls[c] # "none"
  /\ Event("none", c)
  /\ UNCHANGED born

-----------------------------------------------------------------------------
(***************************************************************************)
(* The client                                                              *)
(***************************************************************************)

\* A look-up blocks the client and the main loop.
Blocked == \E r \in DOMAIN reqs : reqs[r].state \in {"listing", "listed"}

Made(method, target, state) ==
  [method |-> method, seen |-> <<>>, target |-> target, state |-> state,
   told |-> 0, had |-> Cardinality(Live), rang |-> LoneRinging,
   stirred |-> FALSE]

\* Faulty variant of Ask: a look-up has a connection of its own.
AskAside(method, target, state, call) ==
  /\ ~Blocked
  /\ Len(reqs) < MaxRequests /\ method \in Turns[Len(reqs) + 1]
  /\ reqs' = Append(reqs, Made(method, target, state))
  /\ LET c == [req |-> Len(reqs) + 1, call |-> call]
     IN bus' = IF state = "listing" THEN <<c>> \o bus ELSE Append(bus, c)
  /\ UNCHANGED <<calls, born, events, acted>>

\* A request goes to the daemon.
Ask(method, target, state, call) ==
  /\ ~Blocked
  /\ Len(reqs) < MaxRequests /\ method \in Turns[Len(reqs) + 1]
  /\ reqs' = Append(reqs, Made(method, target, state))
  /\ bus' = Append(bus, [req |-> Len(reqs) + 1, call |-> call])
  /\ UNCHANGED <<calls, born, events, acted>>

\* ofono_call_answer() and ofono_call_deflect() ask for the calls first.
Answer == Ask("Answer", 0, "listing", "GetCalls")
Deflect == Ask("Deflect", 0, "listing", "GetCalls")

\* The requests on a call of an id the client has heard of.
AskOn(method, c) == born[c] > 0 /\ Ask(method, c, "pending", "act")
ReleaseSpecific(c) == AskOn("Hangup", c)
PrivateChat(c) == AskOn("PrivateChat", c)

\* The requests to the manager of the calls.
AskManager(method) == Ask(method, 0, "pending", "act")
Dial == AskManager("Dial")
ReleaseAll == AskManager("HangupAll")
Swap == AskManager("SwapCalls")
ReleaseAndAnswer == AskManager("ReleaseAndAnswer")
ReleaseAndSwap == AskManager("ReleaseAndSwap")
HoldAndAnswer == AskManager("HoldAndAnswer")
Transfer == AskManager("Transfer")
CreateMultiparty == AskManager("CreateMultiparty")
HangupMultiparty == AskManager("HangupMultiparty")
SendTones == AskManager("SendTones")

\* Faulty variant of AnswerTarget: the first of any number of calls will do.
AnswerTargetFirst(list) ==
  IF list # <<>> /\ list[1].status = "incoming" THEN list[1].id ELSE 0

\* Faulty variant of AnswerTarget: the call has to wait.
AnswerTargetWaiting(list) ==
  IF Len(list) = 1 /\ list[1].status = "waiting" THEN list[1].id ELSE 0

\* ofono_call_answer() answers the call if there is one call and it rings.
AnswerTarget(list) ==
  IF Len(list) = 1 /\ list[1].status = "incoming" THEN list[1].id ELSE 0

\* The condition of ofono_call_deflect(): it holds of every status.
Deflectable(status) == status # "incoming" \/ status # "waiting"

\* ofono_call_deflect() takes the first call that fulfils it.
DeflectTarget(list) ==
  IF \E i \in DOMAIN list : Deflectable(list[i].status)
    THEN LET i == CHOOSE i \in DOMAIN list :
                    /\ Deflectable(list[i].status)
                    /\ \A j \in 1..(i - 1) : ~Deflectable(list[j].status)
         IN list[i].id
    ELSE 0

Target(r) ==
  IF reqs[r].method = "Answer" THEN AnswerTarget(reqs[r].seen)
                             ELSE DeflectTarget(reqs[r].seen)

\* The request goes to the path of the call that was chosen.
Act(r) ==
  /\ reqs[r].state = "listed"
  /\ Target(r) # 0
  /\ reqs' = [reqs EXCEPT ![r].state = "pending", ![r].target = Target(r)]
  /\ bus' = Append(bus, [req |-> r, call |-> "act"])
  /\ UNCHANGED <<calls, born, events, acted>>

\* No call to act on: the function returns, and the callback is never called.
Drop(r) ==
  /\ reqs[r].state = "listed"
  /\ Target(r) = 0
  /\ reqs' = [reqs EXCEPT ![r].state = "dropped"]
  /\ UNCHANGED <<calls, born, events, bus, acted>>

\* The reply, or the error, is dispatched.
Finish(r) ==
  /\ ~Blocked
  /\ reqs[r].state \in {"ok", "failed"}
  /\ reqs[r].told = 0
  /\ reqs' = [reqs EXCEPT ![r].told = 1]
  /\ UNCHANGED <<calls, born, events, bus, acted>>

-----------------------------------------------------------------------------
(***************************************************************************)
(* The daemon                                                              *)
(***************************************************************************)

\* The calls in some order.
Listings ==
  {[i \in 1..Cardinality(Live) |->
      [id |-> p[i], status |-> calls[p[i]], born |-> born[p[i]]]] :
     p \in Bijection(1..Cardinality(Live), Live)}

\* Faulty variant of Given: the array has to have room to spare.
GivenTight(list) == IF Len(list) >= MAX_CALL_PARTIES THEN <<>> ELSE list

\* Faulty variant of Given: the size of the array is not looked at.
GivenAll(list) == list

\* What ofono_call_get_calls() gives its caller: nothing, if the array is too
\* small for all.
Given(list) == IF Len(list) > MAX_CALL_PARTIES THEN <<>> ELSE list

Answers(r, list) ==
  reqs' = IF reqs[r].state = "listing"
            THEN [reqs EXCEPT ![r].state = "listed", ![r].seen = list]
            ELSE reqs

GetCalls ==
  /\ bus # <<>> /\ Head(bus).call = "GetCalls"
  /\ \E list \in Listings : Answers(Head(bus).req, Given(list))
  /\ bus' = Tail(bus)
  /\ UNCHANGED <<calls, born, events, acted>>

\* GetCalls fails or times out: the array was zeroed before.
GetCallsFails(r) ==
  /\ reqs[r].state = "listing"
  /\ reqs' = [reqs EXCEPT ![r].state = "listed", ![r].stirred = TRUE]
  /\ UNCHANGED <<calls, born, events, bus, acted>>

\* What request `r` makes of call `c`, if the daemon carries it out.
Becomes(r, c) ==
  LET method == reqs[r].method
      status == calls[c]
      mine == reqs[r].target = c
  IN CASE method = "Answer" /\ mine /\ status = "incoming" -> "active"
       [] method = "Deflect" /\ mine /\ status \in Ringing -> "none"
       [] method = "Hangup" /\ mine -> "none"
       [] method = "PrivateChat" /\ ~mine /\ status = "active" -> "held"
       [] method = "HangupAll" -> "none"
       [] method \in {"SwapCalls", "HoldAndAnswer"} /\ status = "active" ->
            "held"
       [] method \in {"SwapCalls", "ReleaseAndSwap", "CreateMultiparty"}
            /\ status = "held" -> "active"
       [] method \in {"ReleaseAndAnswer", "ReleaseAndSwap", "HangupMultiparty"}
            /\ status = "active" -> "none"
       [] method \in {"ReleaseAndAnswer", "HoldAndAnswer"}
            /\ status = "waiting" -> "active"
       [] method = "Transfer" /\ status \in {"active", "held"} -> "none"
       [] OTHER -> status

\* Request `r` gets its reply, unless it has timed out.
Reply(rs, r, state) ==
  IF rs[r].state = "pending" THEN [rs EXCEPT ![r].state = state] ELSE rs

\* The daemon carries out the oldest request, and says so.
Perform ==
  /\ bus # <<>> /\ Head(bus).call = "act"
  /\ LET r == Head(bus).req
         changed == {c \in CallId : Becomes(r, c) # calls[c]}
     IN /\ reqs[r].method # "Dial"
        /\ changed # {} \/ reqs[r].method = "SendTones"
        /\ calls' = [c \in CallId |-> Becomes(r, c)]
        /\ acted' = acted \cup {[req |-> r, id |-> c, born |-> born[c],
                                made |-> Becomes(r, c)] : c \in changed}
        /\ reqs' = Reply(IF changed = {} THEN reqs ELSE Stir(reqs, {r}), r, "ok")
  /\ bus' = Tail(bus)
  /\ UNCHANGED <<born, events>>

\* A call is dialled.
PerformDial(c) ==
  /\ bus # <<>> /\ Head(bus).call = "act"
  /\ Free(c)
  /\ LET r == Head(bus).req
     IN /\ reqs[r].method = "Dial"
        /\ acted' = acted \cup {[req |-> r, id |-> c, born |-> born[c] + 1,
                                made |-> "dialing"]}
        /\ reqs' = Reply(Stir(reqs, {r}), r, "ok")
  /\ calls' = [calls EXCEPT ![c] = "dialing"]
  /\ born' = [born EXCEPT ![c] = @ + 1]
  /\ bus' = Tail(bus)
  /\ UNCHANGED events

\* The daemon may refuse a request for any reason. A Deflect is sent to the
\* path of a call under the interface of the manager, which ofonod may refuse
\* always; the model leaves that open.
Refuse ==
  /\ bus # <<>> /\ Head(bus).call = "act"
  /\ LET r == Head(bus).req
         able == \E c \in CallId : Becomes(r, c) # calls[c]
     IN reqs' = Reply(IF able THEN Stir(reqs, {}) ELSE reqs, r, "failed")
  /\ bus' = Tail(bus)
  /\ UNCHANGED <<calls, born, events, acted>>

Timeout(r) ==
  /\ reqs[r].state = "pending"
  /\ reqs' = [reqs EXCEPT ![r].state = "failed", ![r].stirred = TRUE]
  /\ UNCHANGED <<calls, born, events, bus, acted>>

-----------------------------------------------------------------------------
Library == \E r \in DOMAIN reqs : Act(r) \/ Drop(r) \/ Finish(r)

\* GDBus limits every call in time.
Limits == \E r \in DOMAIN reqs : GetCallsFails(r) \/ Timeout(r)

Client ==
  \/ Answer \/ Deflect
  \/ \E c \in CallId : ReleaseSpecific(c) \/ PrivateChat(c)
  \/ Dial \/ ReleaseAll \/ Swap
  \/ ReleaseAndAnswer \/ ReleaseAndSwap \/ HoldAndAnswer
  \/ Transfer \/ CreateMultiparty \/ HangupMultiparty \/ SendTones

Daemon ==
  \/ GetCalls
  \/ Perform \/ (\E c \in CallId : PerformDial(c)) \/ Refuse

Next ==
  \/ \E c \in CallId : NewCall(c) \/ Move(c) \/ EndCall(c)
  \/ Client
  \/ Library
  \/ Daemon
  \/ Limits

Spec == Init /\ [][Next]_vars

\* The main loop runs.
FairSpec == Spec /\ WF_vars(Library) /\ WF_vars(Limits)

-----------------------------------------------------------------------------
(***************************************************************************)
(* Properties                                                              *)
(***************************************************************************)

\* The type invariant. The list given to a request fits the array of the
\* caller, and nothing is under way or done for a request that was not made.
TypeOK ==
  /\ calls \in [CallId -> Status \cup {"none"}]
  /\ born \in [CallId -> Nat]
  /\ events \in 0..MaxEvents
  /\ reqs \in Seq(Request)
  /\ Len(reqs) <= MaxRequests
  /\ \A r \in DOMAIN reqs : Len(reqs[r].seen) <= MAX_CALL_PARTIES
  /\ bus \in Seq([req : 1..MaxRequests, call : {"GetCalls", "act"}])
  /\ \A i \in DOMAIN bus : bus[i].req \in DOMAIN reqs
  /\ acted \subseteq Deed
  /\ \A a \in acted : a.req \in DOMAIN reqs

\* ofono_call_answer() takes no call but the one that was alone and ringing
\* when it looked, or a later call that has got its id.
AnswersOnlyTheRinging ==
  \A a \in acted : reqs[a.req].method = "Answer" =>
    LET seen == reqs[a.req].seen
    IN /\ Len(seen) = 1
       /\ seen[1].id = a.id /\ seen[1].status = "incoming"
       /\ seen[1].born <= a.born

\* A look-up sees what the requests before it have done: it lists no call
\* that one of them has ended, nor one in a status one of them has yet to
\* change. What a client asks to be released it cannot answer or deflect.
EarlierRequestsSeen ==
  \A a \in acted : \A r \in DOMAIN reqs :
    a.req < r /\ a.made = "none" =>
      \A i \in DOMAIN reqs[r].seen :
        <<reqs[r].seen[i].id, reqs[r].seen[i].born>> # <<a.id, a.born>>

\* Why ofono_call_answer() or ofono_call_deflect() may return without a call
\* to act on: there was none fit when the client asked, more than the array
\* holds, or the calls changed, or the look-up failed.
MayDrop(r) ==
  \/ reqs[r].stirred
  \/ reqs[r].method = "Answer" /\ reqs[r].rang = 0
  \/ reqs[r].method = "Deflect" /\ reqs[r].had \notin 1..MAX_CALL_PARTIES

\* Every request is called back in the end, but for one to answer or deflect
\* that found nothing fit to act on; that one never is.
RequestEnds ==
  \A r \in 1..MaxRequests :
    r \in DOMAIN reqs ~>
      /\ r \in DOMAIN reqs
      /\ reqs[r].told = 1 \/ (reqs[r].state = "dropped" /\ MayDrop(r))

\* A client that asks to answer when one call rings has that call answered,
\* unless something else happens to the calls or fails meanwhile.
RingingAnswered ==
  \A r \in 1..MaxRequests :
    (r \in DOMAIN reqs /\ reqs[r].method = "Answer" /\ reqs[r].rang # 0) ~>
      /\ r \in DOMAIN reqs
      /\ \/ reqs[r].stirred
         \/ \E a \in acted : /\ a.req = r /\ a.id = reqs[r].rang
                             /\ a.made = "active"

\* ofono_call_deflect(), says its header, redirects an incoming or a waiting
\* call: the call it acts on was listed as one.
DeflectsRinging ==
  \A r \in DOMAIN reqs : reqs[r].method = "Deflect" /\ reqs[r].target # 0 =>
    \E i \in DOMAIN reqs[r].seen :
      reqs[r].seen[i].id = reqs[r].target /\ reqs[r].seen[i].status \in Ringing

=============================================================================
