------------------------------ MODULE Requests ------------------------------
(***************************************************************************)
(* The asynchronous requests of libofono. A request is a plan: the D-Bus   *)
(* calls it makes one after the other, each when the one before it was     *)
(* answered without error. Nearly all plans have one step and end in       *)
(* on_response_common() or a reply handler of the same shape;              *)
(* ofono_connman_set_context() has up to six steps, and                    *)
(* ofono_ss_set_call_forward() two. The client is called back at the end.  *)
(*                                                                         *)
(* The daemon works off the calls of a connection in the order they were   *)
(* sent. GDBus answers each call once: with the daemon's reply, or with an *)
(* error when the daemon goes away or the timeout expires. A call that     *)
(* timed out may still be carried out; its late reply is dropped. Requests *)
(* that fail CHECK_PARAMETERS have the empty plan. What is written is      *)
(* known by the request and the step that wrote it; values are abstracted. *)
(***************************************************************************)
EXTENDS Naturals, Sequences

CONSTANTS Property,    \* what a call may ask of the daemon
          Plan,        \* the plans of the requests of the client
          MaxRequests  \* bound: requests

ASSUME RequestsAssumption ==
  /\ MaxRequests \in Nat
  /\ Plan \subseteq Seq(Property)

VARIABLES modem,    \* "live", or "freed" by ofono_modem_deinit()
          reqs,     \* the requests made, in order
          bus,      \* calls the daemon has not worked off, oldest first
          written,  \* the steps it has carried out, oldest first
          crashed   \* a reply handler read the freed modem

vars == <<modem, reqs, bus, written, crashed>>

Request == DOMAIN reqs

\* A request: its plan, how many calls it has made, the state of its last
\* call, what its callback was told and how often, and which requests were
\* over when it was made (a history variable).
RequestState ==
  [plan   : Plan,
   sent   : Nat,
   call   : {"pending", "ok", "failed"},
   result : {"none", "ok", "failed"},
   told   : Nat,
   before : SUBSET (1..MaxRequests)]

\* Step `step` of request `req`, as a call on the bus or carried out.
Call == [req : 1..MaxRequests, step : Nat]

-----------------------------------------------------------------------------
Init ==
  /\ modem = "live"
  /\ reqs = <<>>
  /\ bus = <<>>
  /\ written = <<>>
  /\ crashed = FALSE

Over(r) == reqs[r].result # "none"

-----------------------------------------------------------------------------
(***************************************************************************)
(* The client                                                              *)
(***************************************************************************)

MayAsk == modem = "live" /\ ~crashed /\ Len(reqs) < MaxRequests

\* A request whose arguments are accepted: the first call is sent.
Ask(plan) ==
  /\ MayAsk
  /\ plan # <<>>
  /\ reqs' = Append(reqs, [plan |-> plan, sent |-> 1, call |-> "pending",
                           result |-> "none", told |-> 0,
                           before |-> {r \in Request : Over(r)}])
  /\ bus' = Append(bus, [req |-> Len(reqs) + 1, step |-> 1])
  /\ UNCHANGED <<modem, written, crashed>>

\* A request whose arguments are not: the callback is called at once.
Refuse(plan) ==
  /\ MayAsk
  /\ plan = <<>>
  /\ reqs' = Append(reqs, [plan |-> plan, sent |-> 0, call |-> "failed",
                           result |-> "failed", told |-> 1,
                           before |-> {r \in Request : Over(r)}])
  /\ UNCHANGED <<modem, bus, written, crashed>>

\* ofono_modem_deinit() waits for no request.
Deinit ==
  /\ modem = "live" /\ ~crashed
  /\ modem' = "freed"
  /\ UNCHANGED <<reqs, bus, written, crashed>>

-----------------------------------------------------------------------------
(***************************************************************************)
(* The daemon and the connection                                           *)
(***************************************************************************)

\* The connection answers call `c`, unless it has answered it before.
Reply(c, outcome) ==
  reqs' = IF reqs[c.req].sent = c.step /\ reqs[c.req].call = "pending"
            THEN [reqs EXCEPT ![c.req].call = outcome]
            ELSE reqs

\* The daemon carries out the oldest call and says so, or fails to say so.
Accept ==
  /\ bus # <<>>
  /\ bus' = Tail(bus)
  /\ written' = Append(written, Head(bus))
  /\ \E outcome \in {"ok", "failed"} : Reply(Head(bus), outcome)
  /\ UNCHANGED <<modem, crashed>>

Reject ==
  /\ bus # <<>>
  /\ bus' = Tail(bus)
  /\ Reply(Head(bus), "failed")
  /\ UNCHANGED <<modem, written, crashed>>

Timeout(r) ==
  /\ reqs[r].call = "pending"
  /\ reqs' = [reqs EXCEPT ![r].call = "failed"]
  /\ UNCHANGED <<modem, bus, written, crashed>>

-----------------------------------------------------------------------------
(***************************************************************************)
(* The reply handlers                                                      *)
(***************************************************************************)

\* The reply to the last call of `r` waits to be dispatched.
Replied(r) == ~crashed /\ ~Over(r) /\ reqs[r].call # "pending"

LastStep(r) == reqs[r].sent = Len(reqs[r].plan)

SendNext(r) ==
  /\ reqs' = [reqs EXCEPT ![r].sent = @ + 1, ![r].call = "pending"]
  /\ bus' = Append(bus, [req |-> r, step |-> reqs[r].sent + 1])
  /\ UNCHANGED <<modem, written, crashed>>

\* Faulty variant of Continue: the end of the plan is not noticed.
ContinueBeyond(r) ==
  /\ Replied(r)
  /\ reqs[r].call = "ok"
  /\ modem = "live"
  /\ SendNext(r)

\* Faulty variant of Continue: the handler goes on after an error.
ContinueAfterError(r) ==
  /\ Replied(r)
  /\ ~LastStep(r)
  /\ modem = "live"
  /\ SendNext(r)

\* Faulty variant of Continue: the handler does not return after it has called
\* the callback.
ContinueWhenOver(r) ==
  /\ ~crashed /\ reqs[r].call # "pending"
  /\ ~LastStep(r) /\ reqs[r].sent > 0
  /\ modem = "live"
  /\ SendNext(r)

\* A reply handler goes on with the plan.
Continue(r) ==
  /\ Replied(r)
  /\ reqs[r].call = "ok"
  /\ ~LastStep(r)
  /\ modem = "live"
  /\ SendNext(r)

\* The handler takes the connection from the modem, which is freed: what it
\* reads is undefined.
ContinueDangling(r) ==
  /\ Replied(r)
  /\ reqs[r].call = "ok"
  /\ ~LastStep(r)
  /\ modem = "freed"
  /\ \/ SendNext(r)
     \/ crashed' = TRUE /\ UNCHANGED <<modem, reqs, bus, written>>

Tell(r) ==
  /\ reqs' = [reqs EXCEPT ![r].result = reqs[r].call, ![r].told = @ + 1]
  /\ UNCHANGED <<modem, bus, written, crashed>>

\* Faulty variant of Finish: a plan with steps left counts as done.
FinishEarly(r) == Replied(r) /\ Tell(r)

\* Faulty variant of Finish: the records are not given up.
FinishTwice(r) ==
  /\ ~crashed /\ reqs[r].call # "pending"
  /\ reqs[r].call = "failed" \/ LastStep(r)
  /\ Tell(r)

\* Faulty variant of Finish: an error is not told.
FinishSilent(r) == Replied(r) /\ reqs[r].call = "ok" /\ LastStep(r) /\ Tell(r)

\* An error, or the end of the plan: the callback is called and the records
\* of the request are freed.
Finish(r) ==
  /\ Replied(r)
  /\ reqs[r].call = "failed" \/ LastStep(r)
  /\ Tell(r)

Library == \E r \in Request : Continue(r) \/ ContinueDangling(r) \/ Finish(r)

Next ==
  \/ \E plan \in Plan : Ask(plan) \/ Refuse(plan)
  \/ Deinit
  \/ Accept \/ Reject
  \/ \E r \in Request : Timeout(r)
  \/ Library

Spec == Init /\ [][Next]_vars

\* The main loop runs, and every call has a timeout.
FairSpec ==
  /\ Spec
  /\ WF_vars(Library)
  /\ \A r \in 1..MaxRequests : WF_vars(r \in Request /\ Timeout(r))

-----------------------------------------------------------------------------
(***************************************************************************)
(* Properties                                                              *)
(***************************************************************************)

\* The type invariant. No request makes more calls than its plan has steps,
\* and nothing is called or carried out for a request that was not made.
TypeOK ==
  /\ modem \in {"live", "freed"}
  /\ reqs \in Seq(RequestState)
  /\ Len(reqs) <= MaxRequests
  /\ \A r \in Request : reqs[r].sent <= Len(reqs[r].plan)
  /\ bus \in Seq(Call)
  /\ written \in Seq(Call)
  /\ \A i \in DOMAIN bus : bus[i].req \in Request
  /\ \A i \in DOMAIN written : written[i].req \in Request
  /\ crashed \in BOOLEAN

\* A request whose callback is told of success has had every step of its plan
\* carried out.
SuccessMeansAll ==
  \A r \in Request : reqs[r].result = "ok" =>
    \A k \in DOMAIN reqs[r].plan :
      \E i \in DOMAIN written : written[i] = [req |-> r, step |-> k]

\* What the daemon has carried out of a request is an initial part of its
\* plan, step by step and each once, whatever fails, times out or is answered
\* too late: ofono_connman_set_context() never sets a user name without the
\* access point name before it.
StepsInOrder ==
  \A j \in DOMAIN written :
    /\ \A k \in 1..(written[j].step - 1) :
         \E i \in 1..(j - 1) :
           written[i] = [req |-> written[j].req, step |-> k]
    /\ \A i \in 1..(j - 1) : written[i] # written[j]

\* A request that was over when another one was made cannot write after it:
\* a client that retries after a timeout is not overwritten by the call that
\* timed out.
RetryNotOvertaken ==
  \A i, j \in DOMAIN written :
    i < j => written[j].req \notin reqs[written[i].req].before

\* The requests as their clients know them. One that is over makes no more
\* calls than it has made.
Asks ==
  [r \in Request |->
     [steps |-> Len(reqs[r].plan),
      upto  |-> IF Over(r) THEN reqs[r].sent ELSE Len(reqs[r].plan),
      told  |-> reqs[r].result,
      calls |-> reqs[r].told,
      after |-> reqs[r].before]]

Service == INSTANCE RequestService
             WITH Steps <- {Len(plan) : plan \in Plan}, asks <- Asks,
                  log <- written

\* The calls, replies and timeouts implement the service: whatever the daemon
\* fails to answer or answers too late, the callback is called once, success
\* means the whole plan, and of a request that failed no more is carried out
\* than the step under way, and not behind the client's retry.
ServiceSpec == Service!Spec

\* Every request is over in the end, by a reply, an error or the timeout.
RequestEnds ==
  \A r \in 1..MaxRequests : r \in Request ~> crashed \/ (r \in Request /\ Over(r))

=============================================================================
