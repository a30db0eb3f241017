--------------------------- MODULE RequestService ---------------------------
(***************************************************************************)
(* What libofono promises a client about its asynchronous requests,        *)
(* without the calls, replies and timeouts that implement it.              *)
(*                                                                         *)
(* A request has a number of steps, which are carried out in their order,  *)
(* each once. Its client is called back once. If it is told of success,    *)
(* every step was carried out. If it is told of failure, one step more may *)
(* be, the one under way, but none after it, and not even that one once a  *)
(* step of a request was carried out that the client made in the knowledge *)
(* of the failure.                                                         *)
(***************************************************************************)
EXTENDS Naturals, Sequences

CONSTANT Steps  \* how many steps a request may have

VARIABLES asks,  \* the requests made, in order
          log    \* the steps carried out, oldest first

vars == <<asks, log>>

\* A request: its steps, up to which of them it may be carried out, what its
\* client was told and how often it was called back, and which requests the
\* client knew the outcome of.
Ask(n) ==
  /\ n # 0
  /\ asks' = Append(asks, [steps |-> n, upto |-> n, told |-> "none", calls |-> 0,
                           after |-> {r \in DOMAIN asks : asks[r].told # "none"}])
  /\ UNCHANGED log

\* A request without steps is one that is refused.
Refuse ==
  /\ asks' = Append(asks, [steps |-> 0, upto |-> 0, told |-> "failed", calls |-> 1,
                           after |-> {r \in DOMAIN asks : asks[r].told # "none"}])
  /\ UNCHANGED log

CarriedOut(r, k) == \E i \in DOMAIN log : log[i] = [req |-> r, step |-> k]

\* The next step of a request is carried out, unless a client that knew of its
\* outcome has had a step carried out since.
CarryOut(r, k) ==
  /\ k <= asks[r].upto
  /\ ~CarriedOut(r, k) /\ \A j \in 1..(k - 1) : CarriedOut(r, j)
  /\ \A i \in DOMAIN log : r \notin asks[log[i].req].after
  /\ log' = Append(log, [req |-> r, step |-> k])
  /\ UNCHANGED asks

Tell(r, outcome, upto) ==
  /\ asks[r].told = "none"
  /\ asks' = [asks EXCEPT ![r].told = outcome, ![r].upto = upto,
                          ![r].calls = @ + 1]
  /\ UNCHANGED log

Succeed(r) ==
  /\ \A k \in 1..asks[r].steps : CarriedOut(r, k)
  /\ Tell(r, "ok", asks[r].steps)

Fail(r, n) ==
  /\ \A k \in 1..(n - 1) : CarriedOut(r, k)
  /\ Tell(r, "failed", n)

Init == asks = <<>> /\ log = <<>>

Next ==
  \/ \E n \in Steps : Ask(n)
  \/ Refuse
  \/ \E r \in DOMAIN asks :
       \/ \E k \in 1..asks[r].steps : CarryOut(r, k) \/ Fail(r, k)
       \/ Succeed(r)

Spec == Init /\ [][Next]_vars

=============================================================================
