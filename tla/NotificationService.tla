------------------------ MODULE NotificationService ------------------------
(***************************************************************************)
(* What libofono promises a client about notification callbacks, without   *)
(* the lists, watches and cursors that implement it.                       *)
(*                                                                         *)
(* A registration is a notification and a callback, numbered by the call   *)
(* that made it; the same pair is never registered twice. A round serves   *)
(* one incoming signal: it calls registrations of one notification, each   *)
(* at most once, in registration order, and only while they are            *)
(* registered. A round ends when every registration of the notification    *)
(* has been called. The single excuse for ending early is that the         *)
(* callback now running had its own registration taken away.               *)
(***************************************************************************)
EXTENDS Naturals

CONSTANTS Noti,        \* the notifications
          Cb,          \* the callbacks
          MaxRegister  \* bound on the number of registrations ever made

VARIABLES regs,     \* the registrations in force
          serving,  \* the notification of the round, or "none"
          running,  \* the registration number whose callback runs, or 0
          done      \* the registration numbers called in this round

vars == <<regs, serving, running, done>>

Registration == [id : 1..MaxRegister, noti : Noti, cb : Cb]

Ids == {r.id : r \in regs}

TypeOK ==
  /\ regs \subseteq Registration
  /\ serving \in Noti \cup {"none"}
  /\ running \in 0..MaxRegister
  /\ done \subseteq 1..MaxRegister

Init ==
  /\ regs = {}
  /\ serving = "none"
  /\ running = 0
  /\ done = {}

Register(r) ==
  /\ \A q \in regs : q.id < r.id /\ <<q.noti, q.cb>> # <<r.noti, r.cb>>
  /\ \A i \in done : i < r.id
  /\ regs' = regs \cup {r}
  /\ UNCHANGED <<serving, running, done>>

Unregister(r) ==
  /\ regs' = regs \ {r}
  /\ UNCHANGED <<serving, running, done>>

Finalize ==
  /\ regs' = {}
  /\ UNCHANGED <<serving, running, done>>

Begin(r) ==
  /\ serving = "none"
  /\ serving' = r.noti
  /\ running' = r.id
  /\ done' = {r.id}
  /\ UNCHANGED regs

Call(r) ==
  /\ running \in Ids
  /\ r.noti = serving
  /\ r.id \notin done
  /\ r.id > running
  /\ running' = r.id
  /\ done' = done \cup {r.id}
  /\ UNCHANGED <<regs, serving>>

\* The round ends: no registration of the notification was left out, unless
\* the one whose callback was running is gone.
End ==
  /\ serving # "none"
  /\ running \in Ids => \A r \in regs : r.noti = serving => r.id \in done
  /\ serving' = "none"
  /\ running' = 0
  /\ done' = {}
  /\ UNCHANGED regs

Next ==
  \/ \E r \in Registration : Register(r)
  \/ \E r \in regs : Unregister(r) \/ Begin(r) \/ Call(r)
  \/ Finalize
  \/ End

Spec == Init /\ [][Next]_vars
=============================================================================
