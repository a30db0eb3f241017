----------------------------- MODULE ViewsProofs -----------------------------
(***************************************************************************)
(* Proofs about the handlers that block in a read while the daemon goes    *)
(* on: those that notify SIM and network status, and those that notify     *)
(* call status. For any number of changes, a client comes to know the SIM, *)
(* the network and the calls as they are, is never told of a ready SIM     *)
(* that is not, and is told of each end of a call once.                    *)
(*                                                                         *)
(* The first half is about StatusViews. ViewConverges speaks of a subject  *)
(* about which nothing waits. What is kept by every step is that a subject *)
(* is always on its way to the client (Heard): a signal that makes a       *)
(* handler read waits, or the handler that runs has not read or has read   *)
(* the present status, or the client knows it.                             *)
(*                                                                         *)
(* The second half is about Calls, whose signals carry what they announce  *)
(* but whose ids are used again. What is kept is that the last signal that *)
(* waits about an id, or the handler that runs when none waits, says what  *)
(* the daemon has (LastSaysNow, ReaderSaysNow).                            *)
(***************************************************************************)
EXTENDS StatusViews, Calls, TLAPS, FiniteSetTheorems, FunctionTheorems

\* A signal waits that makes a handler read the subject.
WillReread(s) ==
  \E i \in DOMAIN wire :
    IsChange(wire[i]) /\ wire[i].subject = s /\ wire[i].key \in Reread(s)

BeingRead(s) ==
  /\ handler.subject = s
  /\ handler.answer \in {NoAnswer, Failed, StatusNow(s)}

Known(s) == handler.subject # s /\ (s \in blind \/ view[s] = StatusNow(s))

Heard == \A s \in spoken \cap ifaces : WillReread(s) \/ BeingRead(s) \/ Known(s)

\* A client that was told nothing it could read was told the zeroed status.
BlindIsZeroed == \A s \in blind : view[s] = Zeroed(s)

IInv == TypeOK /\ Heard /\ BlindIsZeroed

-----------------------------------------------------------------------------

LEMMA StatusInRange ==
  ASSUME TypeOK, NEW s \in Subject
  PROVE  /\ StatusNow(s) \in StatusesOf(s)
         /\ Zeroed(s) \in StatusesOf(s)
         /\ NoAnswer \notin StatusesOf(s)
         /\ Failed \notin StatusesOf(s)
BY DEF TypeOK, Subject, StatusNow, StatusesOf, SimStatus, RegistrationStatus,
       Zeroed, NoAnswer, Failed, SimState, RegistrationState

\* A handler that runs has a subject, and an answer of that subject.
LEMMA HandlerShape ==
  ASSUME TypeOK, handler # NoHandler
  PROVE  /\ handler.subject \in Subject
         /\ handler = [subject |-> handler.subject, answer |-> handler.answer]
         /\ handler.answer \in StatusesOf(handler.subject) \cup {NoAnswer, Failed}
BY DEF TypeOK

LEMMA NoHandlerHasNoSubject == \A s \in Subject : NoHandler.subject # s
BY DEF NoHandler, Subject

\* A signal that is appended leaves those that wait.
LEMMA AppendKeeps ==
  ASSUME wire \in Seq(Signal), NEW sig \in Signal, wire' = Append(wire, sig)
  PROVE  /\ wire' \in Seq(Signal)
         /\ \A s : WillReread(s) => WillReread(s)'
         /\ IsChange(sig) /\ sig.key \in Reread(sig.subject) =>
              WillReread(sig.subject)'
<1>1. /\ wire' \in Seq(Signal)
      /\ DOMAIN wire = 1..Len(wire) /\ Len(wire) \in Nat
      /\ DOMAIN wire' = 1..(Len(wire) + 1)
      /\ \A i \in DOMAIN wire : wire'[i] = wire[i]
      /\ wire'[Len(wire) + 1] = sig
  OBVIOUS
<1>2. \A s : WillReread(s) => WillReread(s)'
  BY <1>1 DEF WillReread, IsChange
<1>3. IsChange(sig) /\ sig.key \in Reread(sig.subject) =>
        WillReread(sig.subject)'
  BY <1>1 DEF WillReread, IsChange
<1> QED
  BY <1>1, <1>2, <1>3

\* When the oldest signal is taken, the others still wait.
LEMMA TailKeeps ==
  ASSUME wire \in Seq(Signal), wire # <<>>, wire' = Tail(wire)
  PROVE  /\ wire' \in Seq(Signal)
         /\ Head(wire) \in Signal
         /\ \A s : \/ WillReread(s) => WillReread(s)'
                   \/ /\ IsChange(Head(wire))
                      /\ Head(wire).subject = s
                      /\ Head(wire).key \in Reread(s)
<1>1. /\ wire' \in Seq(Signal)
      /\ Head(wire) \in Signal
      /\ Head(wire) = wire[1]
      /\ DOMAIN wire = 1..Len(wire) /\ Len(wire) \in Nat \ {0}
      /\ DOMAIN wire' = 1..(Len(wire) - 1)
      /\ \A i \in DOMAIN wire' : wire'[i] = wire[i + 1]
  OBVIOUS
<1>2. ASSUME NEW s, WillReread(s), ~ WillReread(s)'
      PROVE  /\ IsChange(wire[1])
             /\ wire[1].subject = s
             /\ wire[1].key \in Reread(s)
  <2>1. PICK i \in DOMAIN wire : /\ IsChange(wire[i])
                                 /\ wire[i].subject = s
                                 /\ wire[i].key \in Reread(s)
    BY <1>2 DEF WillReread
  <2>2. CASE i = 1
    BY <2>1, <2>2
  <2>3. CASE i # 1
    <3>1. i - 1 \in DOMAIN wire' /\ wire'[i - 1] = wire[i]
      BY <1>1, <2>3
    <3> QED
      BY <1>2, <2>1, <3>1 DEF WillReread, IsChange
  <2> QED
    BY <2>2, <2>3
<1> QED
  BY <1>1, <1>2

\* A change that is announced is on its way.
LEMMA SayKeeps ==
  ASSUME IInv, Changes, NEW s \in Subject, NEW key \in KeysOf(s), Say(s, key),
         sim' \in Sim, network' \in Registration,
         \A r \in Subject \ {s} : StatusNow(r)' = StatusNow(r),
         key \notin Reread(s) => StatusNow(s)' = StatusNow(s)
  PROVE  IInv'
<1>1. /\ UNCHANGED <<ifaces, announced, cache, handler, view, blind>>
      /\ wire' = Append(wire, [subject |-> s, key |-> key])
      /\ changes' \in 0..MaxChanges
      /\ spoken' \in {spoken, spoken \cup {s}}
      /\ spoken' # spoken => key \notin {"Strength", "Other"}
  BY StatusViewsAssumption DEF Changes, Say, IInv, TypeOK
<1>2. /\ [subject |-> s, key |-> key] \in Signal
      /\ IsChange([subject |-> s, key |-> key])
      /\ wire \in Seq(Signal)
  BY DEF Signal, IsChange, KeysOf, Subject, IInv, TypeOK
<1>3. /\ wire' \in Seq(Signal)
      /\ \A r : WillReread(r) => WillReread(r)'
      /\ key \in Reread(s) => WillReread(s)'
  BY <1>1, <1>2, AppendKeeps
<1>4. TypeOK'
  BY <1>1, <1>3 DEF IInv, TypeOK
<1>5. Heard'
  <2> SUFFICES ASSUME NEW r \in (spoken \cap ifaces)'
               PROVE  (WillReread(r) \/ BeingRead(r) \/ Known(r))'
    BY DEF Heard
  <2>1. CASE key \in Reread(s) /\ r = s
    BY <1>3, <2>1
  <2>2. CASE ~(key \in Reread(s) /\ r = s)
    <3>1. r \in spoken \cap ifaces /\ r \in Subject
      BY <1>1, <2>2 DEF KeysOf, Reread, IInv, TypeOK, Subject
    <3>2. StatusNow(r)' = StatusNow(r)
      BY <2>2, <3>1
    <3>3. WillReread(r) \/ BeingRead(r) \/ Known(r)
      BY <3>1 DEF IInv, Heard
    <3> QED
      BY <1>1, <1>3, <3>2, <3>3 DEF BeingRead, Known
  <2> QED
    BY <2>1, <2>2
<1>6. BlindIsZeroed'
  BY <1>1 DEF IInv, BlindIsZeroed
<1> QED
  BY <1>4, <1>5, <1>6 DEF IInv

-----------------------------------------------------------------------------
(***************************************************************************)
(* The steps                                                               *)
(***************************************************************************)

LEMMA InitHolds == Init => IInv
<1> SUFFICES ASSUME Init
             PROVE  IInv
  OBVIOUS
<1>1. TypeOK
  BY StatusViewsAssumption
     DEF Init, TypeOK, NoSim, Sim, Registration, StatusesOf
<1>2. Heard /\ BlindIsZeroed
  BY DEF Init, Heard, BlindIsZeroed
<1> QED
  BY <1>1, <1>2 DEF IInv

LEMMA DaemonKeeps ==
  ASSUME IInv, Daemon
  PROVE  IInv'
<1> USE DEF IInv
<1>1. CASE InsertOrRemove
  <2>1. sim' \in Sim
    <3>1. sim' \in {NoSim, NewSim(TRUE), NewSim(FALSE)}
      BY <1>1 DEF InsertOrRemove
    <3>2. NoSim \in Sim /\ NewSim(TRUE) \in Sim /\ NewSim(FALSE) \in Sim
      BY DEF NoSim, NewSim, Sim
    <3> QED
      BY <3>1, <3>2
  <2>2. /\ Changes /\ Say("sim", "Present") /\ network' = network
        /\ "Present" \in KeysOf("sim") /\ "Present" \in Reread("sim")
    BY <1>1 DEF InsertOrRemove, KeysOf, Reread
  <2>3. \A r \in Subject \ {"sim"} : StatusNow(r)' = StatusNow(r)
    BY <2>2 DEF StatusNow, Subject
  <2> QED
    BY <2>1, <2>2, <2>3, SayKeeps DEF TypeOK, Subject
<1>2. CASE Proceed
  <2>1. PICK key \in {"PinRequired", "Retries", "SubscriberIdentity"} :
          Say("sim", key)
    BY <1>2 DEF Proceed
  <2>2. /\ Changes /\ network' = network
        /\ key \in KeysOf("sim") /\ key \in Reread("sim")
    BY <1>2 DEF Proceed, KeysOf, Reread
  <2>3. sim' \in Sim
    BY <1>2 DEF Proceed, Sim, TypeOK
  <2>4. \A r \in Subject \ {"sim"} : StatusNow(r)' = StatusNow(r)
    BY <2>2 DEF StatusNow, Subject
  <2> QED
    BY <2>1, <2>2, <2>3, <2>4, SayKeeps DEF TypeOK, Subject
<1>3. CASE Register
  <2>1. /\ Changes /\ Say("network", "Status") /\ sim' = sim
        /\ network' \in Registration
        /\ "Status" \in KeysOf("network") /\ "Status" \in Reread("network")
    BY <1>3 DEF Register, KeysOf, Reread
  <2>2. \A r \in Subject \ {"network"} : StatusNow(r)' = StatusNow(r)
    BY <2>1 DEF StatusNow, Subject
  <2> QED
    BY <2>1, <2>2, SayKeeps DEF TypeOK, Subject
<1>4. ASSUME NEW s \in Subject, NEW key \in {"Strength", "Other"},
             ChangeOther(s, key)
      PROVE  IInv'
  <2>1. Changes /\ Say(s, key) /\ UNCHANGED <<sim, network>> /\ key \in KeysOf(s)
    BY <1>4 DEF ChangeOther
  <2>2. \A r \in Subject : StatusNow(r)' = StatusNow(r)
    BY <2>1 DEF StatusNow
  <2> QED
    BY <2>1, <2>2, SayKeeps DEF TypeOK
<1>5. ASSUME NEW s \in Subject, ComeOrGo(s)
      PROVE  IInv'
  <2>1. /\ ifaces' \subseteq ifaces \cup {s}
        /\ sim' \in Sim /\ network' \in Registration
        /\ spoken' = spoken \ {s}
        /\ UNCHANGED <<announced, wire, cache, handler, view, blind>>
        /\ changes' \in 0..MaxChanges
    BY <1>5, StatusViewsAssumption
       DEF ComeOrGo, Changes, TypeOK, NoSim, Sim, Registration
  <2>2. TypeOK'
    BY <2>1 DEF TypeOK
  <2>3. \A r \in Subject \ {s} : StatusNow(r)' = StatusNow(r)
    BY <1>5 DEF ComeOrGo, StatusNow, Subject
  <2>4. Heard'
    <3> SUFFICES ASSUME NEW r \in (spoken \cap ifaces)'
                 PROVE  (WillReread(r) \/ BeingRead(r) \/ Known(r))'
      BY DEF Heard
    <3>1. r \in spoken \cap ifaces /\ r \in Subject \ {s}
      BY <2>1 DEF TypeOK
    <3>2. WillReread(r) \/ BeingRead(r) \/ Known(r)
      BY <3>1 DEF Heard
    <3> QED
      BY <2>1, <2>3, <3>1, <3>2 DEF WillReread, BeingRead, Known, IsChange
  <2>5. BlindIsZeroed'
    BY <2>1 DEF BlindIsZeroed
  <2> QED
    BY <2>2, <2>4, <2>5
<1> QED
  BY <1>1, <1>2, <1>3, <1>4, <1>5 DEF Daemon

\* The daemon announces its interfaces, or answers.
LEMMA AnnounceKeeps ==
  ASSUME IInv, Announce
  PROVE  IInv'
<1> DEFINE sig == [ifaces |-> ifaces]
<1>1. /\ announced' = ifaces /\ wire' = Append(wire, sig)
      /\ UNCHANGED <<ifaces, sim, network, changes, cache, handler, client>>
  BY DEF Announce
<1>2. sig \in Signal /\ wire \in Seq(Signal)
  BY DEF Signal, IInv, TypeOK
<1> HIDE DEF sig
<1>3. wire' \in Seq(Signal) /\ \A r : WillReread(r) => WillReread(r)'
  BY <1>1, <1>2, AppendKeeps
<1>4. TypeOK'
  BY <1>1, <1>3 DEF IInv, TypeOK, client
<1>5. Heard'
  BY <1>1, <1>3 DEF IInv, Heard, BeingRead, Known, StatusNow, client
<1> QED
  BY <1>1, <1>4, <1>5 DEF IInv, BlindIsZeroed, client

LEMMA AnswerKeeps ==
  ASSUME IInv, Answer
  PROVE  IInv'
<1>1. /\ UNCHANGED <<daemon, wire, cache, client>>
      /\ handler # NoHandler
      /\ \E a \in {StatusNow(handler.subject), Failed} :
           handler' = [handler EXCEPT !.answer = a]
  BY DEF Answer
<1>2. /\ handler.subject \in Subject
      /\ handler = [subject |-> handler.subject, answer |-> handler.answer]
      /\ StatusNow(handler.subject) \in StatusesOf(handler.subject)
  BY <1>1, HandlerShape, StatusInRange DEF IInv
<1>3. PICK a \in {StatusNow(handler.subject), Failed} :
        handler' = [subject |-> handler.subject, answer |-> a]
  BY <1>1, <1>2
<1>4. TypeOK'
  <2>1. handler' \in [subject : {handler.subject},
                      answer : StatusesOf(handler.subject) \cup {NoAnswer, Failed}]
    BY <1>2, <1>3
  <2> QED
    BY <1>1, <1>2, <2>1 DEF IInv, TypeOK, daemon, client
<1>5. Heard'
  <2> SUFFICES ASSUME NEW r \in spoken \cap ifaces
               PROVE  (WillReread(r) \/ BeingRead(r) \/ Known(r))'
    BY <1>1 DEF Heard, daemon, client
  <2>1. StatusNow(r)' = StatusNow(r) /\ (WillReread(r) => WillReread(r)')
    BY <1>1 DEF StatusNow, WillReread, IsChange, daemon
  <2>2. CASE handler.subject = r
    BY <1>3, <2>1, <2>2 DEF BeingRead
  <2>3. CASE handler.subject # r
    BY <1>1, <1>3, <2>1, <2>3 DEF IInv, Heard, BeingRead, Known, client
  <2> QED
    BY <2>2, <2>3
<1> QED
  BY <1>1, <1>4, <1>5 DEF IInv, BlindIsZeroed, client

\* The oldest signal is taken by no handler, or by the one that then reads.
LEMMA DispatchKeeps ==
  ASSUME IInv, DispatchInterfaces \/ DispatchReread \/ DispatchIgnored
  PROVE  IInv'
<1>1. /\ handler = NoHandler /\ wire # <<>> /\ wire' = Tail(wire)
      /\ wire \in Seq(Signal)
      /\ UNCHANGED <<daemon, client>>
  BY DEF DispatchInterfaces, DispatchReread, DispatchIgnored, MainLoopRuns,
         IInv, TypeOK
<1>2. /\ wire' \in Seq(Signal)
      /\ Head(wire) \in Signal
      /\ \A s : \/ WillReread(s) => WillReread(s)'
                \/ /\ IsChange(Head(wire))
                   /\ Head(wire).subject = s
                   /\ Head(wire).key \in Reread(s)
  BY <1>1, TailKeeps
<1>3. IsChange(Head(wire)) => Head(wire).subject \in Subject
  BY <1>2 DEF Signal, IsChange
<1>4. ~ IsChange(Head(wire)) => Head(wire).ifaces \in SUBSET Subject
  BY <1>2 DEF Signal, IsChange
<1>5. \A r : StatusNow(r)' = StatusNow(r)
  BY <1>1 DEF StatusNow, daemon
<1>6. BlindIsZeroed'
  BY <1>1 DEF IInv, BlindIsZeroed, client
<1>7. \A r \in spoken \cap ifaces : WillReread(r) \/ Known(r)
  BY <1>1, NoHandlerHasNoSubject DEF IInv, Heard, BeingRead, TypeOK
<1>8. CASE DispatchInterfaces \/ DispatchIgnored
  <2>1. /\ handler' = handler
        /\ cache' \in SUBSET Subject
        /\ \A r : WillReread(r) => WillReread(r)'
    BY <1>2, <1>4, <1>8 DEF DispatchInterfaces, DispatchIgnored, IInv, TypeOK
  <2>2. TypeOK'
    BY <1>1, <1>2, <2>1 DEF IInv, TypeOK, daemon, client
  <2>3. Heard'
    BY <1>1, <1>5, <1>7, <2>1 DEF Heard, Known, daemon, client
  <2> QED
    BY <1>6, <2>2, <2>3 DEF IInv
<1>9. CASE DispatchReread
  <2> DEFINE s == Head(wire).subject
  <2>1. /\ s \in Subject /\ cache' = cache
        /\ \E a \in {NoAnswer, Failed} : handler' = [subject |-> s, answer |-> a]
    BY <1>3, <1>9 DEF DispatchReread
  <2>2. PICK t \in Subject : t = s
    BY <2>1
  <2>3. PICK a \in {NoAnswer, Failed} : handler' = [subject |-> t, answer |-> a]
    BY <2>1, <2>2
  <2>4. TypeOK'
    <3>1. handler' \in [subject : {t},
                        answer : StatusesOf(t) \cup {NoAnswer, Failed}]
      BY <2>3
    <3> QED
      BY <1>1, <1>2, <2>1, <3>1 DEF IInv, TypeOK, daemon, client
  <2>5. Heard'
    <3> SUFFICES ASSUME NEW r \in spoken \cap ifaces
                 PROVE  (WillReread(r) \/ BeingRead(r) \/ Known(r))'
      BY <1>1 DEF Heard, daemon, client
    <3>1. CASE r = t
      BY <2>3, <3>1 DEF BeingRead
    <3>2. CASE r # t
      <4>1. WillReread(r) => WillReread(r)'
        BY <1>2, <2>2, <3>2
      <4>2. Known(r) => Known(r)'
        BY <1>1, <1>5, <2>3, <3>2 DEF Known, client
      <4> QED
        BY <1>7, <4>1, <4>2
    <3> QED
      BY <3>1, <3>2
  <2> QED
    BY <1>6, <2>4, <2>5 DEF IInv
<1> QED
  BY <1>8, <1>9

LEMMA NotifyKeeps ==
  ASSUME IInv, Notify
  PROVE  IInv'
<1>1. PICK s \in Subject : s = handler.subject
  BY HandlerShape DEF Notify, IInv
<1>2. /\ handler # NoHandler /\ handler.answer # NoAnswer
      /\ handler' = NoHandler
      /\ view' = [view EXCEPT ![s] = IF handler.answer = Failed THEN Zeroed(s)
                                     ELSE handler.answer]
      /\ blind' = IF handler.answer = Failed THEN blind \cup {s} ELSE blind \ {s}
      /\ UNCHANGED <<daemon, wire, cache, spoken>>
  BY <1>1 DEF Notify
<1>3. /\ handler.answer \in StatusesOf(s) \cup {Failed}
      /\ Zeroed(s) \in StatusesOf(s)
  BY <1>1, <1>2, HandlerShape, StatusInRange DEF IInv
<1>4. /\ view \in [Subject -> SimState \cup RegistrationState \cup {"none"}]
      /\ StatusesOf(s) \subseteq SimState \cup RegistrationState
  BY DEF IInv, TypeOK, StatusesOf
<1>5. /\ view'[s] = IF handler.answer = Failed THEN Zeroed(s) ELSE handler.answer
      /\ \A r \in Subject \ {s} : view'[r] = view[r]
  BY <1>2, <1>4
<1>6. TypeOK'
  <2>1. view' \in [Subject -> SimState \cup RegistrationState \cup {"none"}]
    BY <1>2, <1>3, <1>4
  <2>2. \A r \in Subject : view'[r] \in StatusesOf(r) \cup {"none"}
    BY <1>3, <1>5 DEF IInv, TypeOK
  <2> QED
    BY <1>2, <2>1, <2>2 DEF IInv, TypeOK, daemon
<1>7. Heard'
  <2> SUFFICES ASSUME NEW r \in spoken \cap ifaces
               PROVE  (WillReread(r) \/ BeingRead(r) \/ Known(r))'
    BY <1>2 DEF Heard, daemon
  <2>1. /\ r \in Subject /\ handler'.subject # r
        /\ StatusNow(r)' = StatusNow(r) /\ (WillReread(r) => WillReread(r)')
    BY <1>2, NoHandlerHasNoSubject
       DEF IInv, TypeOK, StatusNow, WillReread, IsChange, daemon
  <2>2. CASE r = s
    <3>1. WillReread(s) \/ handler.answer \in {Failed, StatusNow(s)}
      BY <1>1, <1>2, <2>2 DEF IInv, Heard, BeingRead, Known
    <3> QED
      BY <1>2, <1>5, <2>1, <2>2, <3>1 DEF Known
  <2>3. CASE r # s
    <3>1. WillReread(r) \/ r \in blind \/ view[r] = StatusNow(r)
      BY <1>1, <2>3 DEF IInv, Heard, BeingRead, Known
    <3> QED
      BY <1>2, <1>5, <2>1, <2>3, <3>1 DEF Known
  <2> QED
    BY <2>2, <2>3
<1>8. BlindIsZeroed'
  BY <1>2, <1>5 DEF IInv, TypeOK, BlindIsZeroed
<1> QED
  BY <1>6, <1>7, <1>8 DEF IInv

LEMMA NextKeeps ==
  ASSUME IInv, [Next]_vars
  PROVE  IInv'
<1>1. CASE UNCHANGED vars
  BY <1>1 DEF vars, IInv, TypeOK, Heard, WillReread, BeingRead, Known, StatusNow,
              IsChange, BlindIsZeroed
<1>2. CASE Next
  BY <1>2, DaemonKeeps, AnnounceKeeps, AnswerKeeps, DispatchKeeps, NotifyKeeps
     DEF Next, Library
<1> QED
  BY <1>1, <1>2

-----------------------------------------------------------------------------

THEOREM Invariance == Spec => []IInv
<1>1. IInv /\ [Next]_vars => IInv'
  BY NextKeeps
<1> QED
  BY InitHolds, <1>1, PTL DEF Spec

\* Every variable keeps the kind of value the code gives it.
THEOREM TypeCorrect == Spec => []TypeOK
<1>1. IInv => TypeOK
  BY DEF IInv
<1> QED
  BY Invariance, <1>1, PTL

\* A subject about which nothing waits is known as it is.
LEMMA QuietIsKnown ==
  ASSUME IInv, NEW s \in spoken \cap ifaces, Quiet(s)
  PROVE  s \in blind \/ view[s] = StatusNow(s)
<1>1. ~ WillReread(s) /\ ~ BeingRead(s)
  BY DEF Quiet, WillReread, BeingRead
<1> QED
  BY <1>1 DEF IInv, Heard, Known

\* The client comes to know the SIM and the network as they are.
THEOREM ViewCorrect == Spec => []ViewConverges
<1>1. IInv => ViewConverges
  BY QuietIsKnown DEF ViewConverges
<1> QED
  BY Invariance, <1>1, PTL

\* The client never believes a SIM to be ready that is not, whatever failed.
THEOREM ReadyCorrect == Spec => []ReadyMeansUsable
<1>1. ASSUME IInv
      PROVE  ReadyMeansUsable
  <2> SUFFICES ASSUME "sim" \in spoken \cap ifaces, Quiet("sim"),
                      view["sim"] = "ready"
               PROVE  sim.present /\ ~sim.locked /\ sim.imsi
    BY DEF ReadyMeansUsable
  <2>1. "sim" \notin blind
    BY <1>1 DEF IInv, BlindIsZeroed, Zeroed
  <2>2. StatusNow("sim") = "ready"
    BY <1>1, <2>1, QuietIsKnown
  <2>3. sim \in Sim
    BY <1>1 DEF IInv, TypeOK
  <2> QED
    BY <2>2, <2>3 DEF StatusNow, SimStatus, Sim
<1> QED
  BY Invariance, <1>1, PTL

-----------------------------------------------------------------------------
(***************************************************************************)
(* Calls                                                                   *)
(***************************************************************************)

\* What the last signal about a call, or none, says of it.
Says(sig, call) ==
  /\ sig.kind = "added" => call # "none"
  /\ sig.kind = "state" =>
       sig.status = IF call = "none" THEN "disconnected" ELSE call

LastSaysNow ==
  \A k \in DOMAIN signals :
    \/ Says(signals[k], calls[signals[k].id])
    \/ \E j \in DOMAIN signals : k < j /\ signals[j].id = signals[k].id

\* No signal about call `id` waits.
NoneWaits(id) == \A k \in DOMAIN signals : signals[k].id # id

\* If none waits, the handler that runs has what it needs: the announced
\* status, or the status to be read, if reading does not fail.
ReaderSaysNow ==
  reader # NoReader /\ NoneWaits(reader.sig.id) =>
    /\ Says(reader.sig, calls[reader.sig.id])
    /\ reader.sig.kind = "added" =>
         reader.answer \in {"none", "failed", calls[reader.sig.id]}

\* Only a change of the state carries a status.
Shaped(sig) == sig.kind = "state" <=> sig.status # "none"

SignalsShaped == \A k \in DOMAIN signals : Shaped(signals[k])

\* A call that is gone is not read.
ReaderShaped ==
  reader # NoReader =>
    /\ Shaped(reader.sig)
    /\ reader.sig.kind = "state" => reader.status = reader.sig.status
    /\ reader.answer # "disconnected"

CallsInv ==
  /\ CallsTypeOK
  /\ LastSaysNow
  /\ ReaderSaysNow
  /\ SignalsShaped
  /\ ReaderShaped
  /\ CallsConverge
  /\ EveryEndTold

-----------------------------------------------------------------------------

LEMMA ReaderTyped ==
  ASSUME CallsTypeOK, reader # NoReader
  PROVE  /\ reader.sig \in CallSignal
         /\ reader.sig.id \in CallId
         /\ reader.status \in Status \cup {"none"}
         /\ reader.answer \in Status \cup {"none", "failed"}
         /\ reader = [sig |-> reader.sig, status |-> reader.status,
                      answer |-> reader.answer]
BY DEF CallsTypeOK, Reader, CallSignal

LEMMA ReaderIsOne ==
  ASSUME NEW a, NEW b, NEW c
  PROVE  [sig |-> a, status |-> b, answer |-> c] # NoReader
<1>1. DOMAIN [sig |-> a, status |-> b, answer |-> c] # DOMAIN NoReader
  BY DEF NoReader
<1> QED
  BY <1>1

LEMMA SignalsAppend ==
  ASSUME NEW s \in Seq(CallSignal), NEW e \in CallSignal, NEW t,
         t = Append(s, e)
  PROVE  /\ t \in Seq(CallSignal)
         /\ DOMAIN t = DOMAIN s \cup {Len(s) + 1}
         /\ DOMAIN s = 1..Len(s) /\ Len(s) \in Nat
         /\ \A k \in DOMAIN s : k < Len(s) + 1 /\ t[k] = s[k]
         /\ t[Len(s) + 1] = e
OBVIOUS

LEMMA SignalsTail ==
  ASSUME NEW s \in Seq(CallSignal), s # <<>>, NEW t, t = Tail(s)
  PROVE  /\ t \in Seq(CallSignal)
         /\ DOMAIN s = 1..Len(s) /\ Len(s) \in Nat
         /\ 1 \in DOMAIN s /\ Head(s) = s[1] /\ s[1] \in CallSignal
         /\ \A k \in DOMAIN t : k \in Nat /\ k + 1 \in DOMAIN s /\ t[k] = s[k + 1]
         /\ \A k \in DOMAIN s : k # 1 => k - 1 \in DOMAIN t /\ t[k - 1] = s[k]
OBVIOUS

\* Whether a signal tells of the end of a call `id`, as a number.
EndOf(sig, id) ==
  IF sig.id = id /\ sig.status = "disconnected" THEN 1 ELSE 0

\* Ends that wait are counted up by a signal that tells of one ...
LEMMA EndsAppend ==
  ASSUME NEW s \in Seq(CallSignal), NEW e \in CallSignal, NEW id
  PROVE  /\ Cardinality(EndsIn(s, id)) \in Nat
         /\ Cardinality(EndsIn(Append(s, e), id)) =
              Cardinality(EndsIn(s, id)) + EndOf(e, id)
<1> DEFINE t == Append(s, e)
<1>1. /\ DOMAIN t = DOMAIN s \cup {Len(s) + 1}
      /\ DOMAIN s = 1..Len(s) /\ Len(s) \in Nat
      /\ \A k \in DOMAIN s : t[k] = s[k]
      /\ t[Len(s) + 1] = e
  BY SignalsAppend
<1> HIDE DEF t
<1>2. IsFiniteSet(EndsIn(s, id)) /\ Cardinality(EndsIn(s, id)) \in Nat
  <2>1. IsFiniteSet(1..Len(s))
    BY <1>1, FS_Interval
  <2>2. EndsIn(s, id) \in SUBSET (1..Len(s))
    BY <1>1 DEF EndsIn
  <2> QED
    BY <2>1, <2>2, FS_Subset, FS_CardinalityType
<1>3. Len(s) + 1 \notin EndsIn(s, id)
  BY <1>1 DEF EndsIn
<1>4. CASE e.id = id /\ e.status = "disconnected"
  <2>1. EndsIn(t, id) = EndsIn(s, id) \cup {Len(s) + 1}
    BY <1>1, <1>4 DEF EndsIn
  <2>2. Cardinality(EndsIn(s, id) \cup {Len(s) + 1}) =
          Cardinality(EndsIn(s, id)) + 1
    BY <1>2, <1>3, FS_AddElement
  <2> QED
    BY <1>2, <1>4, <2>1, <2>2 DEF EndOf, t
<1>5. CASE ~(e.id = id /\ e.status = "disconnected")
  <2>1. EndsIn(t, id) = EndsIn(s, id)
    BY <1>1, <1>5 DEF EndsIn
  <2> QED
    BY <1>2, <1>5, <2>1 DEF EndOf, t
<1> QED
  BY <1>4, <1>5

\* ... and down when it is taken.
LEMMA EndsTail ==
  ASSUME NEW s \in Seq(CallSignal), s # <<>>, NEW id
  PROVE  /\ Cardinality(EndsIn(Tail(s), id)) \in Nat
         /\ Cardinality(EndsIn(s, id)) =
              Cardinality(EndsIn(Tail(s), id)) + EndOf(s[1], id)
<1> DEFINE t == Tail(s)
           S == EndsIn(s, id)
           T == EndsIn(t, id)
           f == [k \in T |-> k + 1]
<1>1. /\ DOMAIN s = 1..Len(s) /\ Len(s) \in Nat /\ 1 \in DOMAIN s
      /\ \A k \in DOMAIN t : k \in Nat /\ k + 1 \in DOMAIN s /\ t[k] = s[k + 1]
      /\ \A k \in DOMAIN s : k # 1 => k - 1 \in DOMAIN t /\ t[k - 1] = s[k]
  BY SignalsTail
<1> HIDE DEF t
<1>2. IsFiniteSet(S)
  <2>1. IsFiniteSet(1..Len(s))
    BY <1>1, FS_Interval
  <2>2. S \in SUBSET (1..Len(s))
    BY <1>1 DEF EndsIn
  <2> QED
    BY <2>1, <2>2, FS_Subset
<1>3. IsFiniteSet(S \ {1})
      /\ Cardinality(S \ {1}) = IF 1 \in S THEN Cardinality(S) - 1
                                           ELSE Cardinality(S)
  BY <1>2, FS_RemoveElement
<1>4. f \in Bijection(T, S \ {1})
  <2>1. \A k \in T : k \in Nat /\ k + 1 \in S \ {1}
    <3> TAKE k \in T
    <3>1. k \in DOMAIN t /\ t[k].id = id /\ t[k].status = "disconnected"
      BY DEF EndsIn
    <3>2. k \in Nat /\ k + 1 \in DOMAIN s /\ t[k] = s[k + 1]
      BY <1>1, <3>1
    <3> QED
      BY <3>1, <3>2 DEF EndsIn
  <2>2. f \in [T -> S \ {1}]
    BY <2>1
  <2>3. \A a, b \in T : f[a] = f[b] => a = b
    BY <2>1
  <2>4. \A k \in S \ {1} : \E j \in T : f[j] = k
    <3> TAKE k \in S \ {1}
    <3>1. k - 1 \in T /\ k \in Nat
      BY <1>1 DEF EndsIn
    <3>2. f[k - 1] = k
      BY <3>1
    <3> QED
      BY <3>1, <3>2
  <2> HIDE DEF f, S, T
  <2> QED
    BY <2>2, <2>3, <2>4, Fun_IsBij
<1> HIDE DEF f
<1>5. IsFiniteSet(T) /\ Cardinality(T) = Cardinality(S \ {1})
  <2>1. ExistsBijection(S \ {1}, T)
    BY <1>4, Fun_BijInverse DEF ExistsBijection
  <2> QED
    BY <1>3, <2>1, FS_Bijection
<1>6. Cardinality(S) \in Nat /\ Cardinality(T) \in Nat
  BY <1>2, <1>5, FS_CardinalityType
<1>7. 1 \in S <=> s[1].id = id /\ s[1].status = "disconnected"
  BY <1>1 DEF EndsIn
<1> QED
  BY <1>3, <1>5, <1>6, <1>7 DEF EndOf, t

-----------------------------------------------------------------------------

\* A change of a call that is announced. What it says of the call holds.
LEMMA AnnounceCallKeeps ==
  ASSUME CallsInv, NEW id \in CallId, NEW kind, NEW status,
         NEW e, e = [id |-> id, kind |-> kind, status |-> status],
         e \in CallSignal, Shaped(e), Says(e, calls'[id]),
         AnnounceCall(id, kind, status),
         calls' \in [CallId -> Live \cup {"none"}],
         \A c \in CallId \ {id} : calls'[c] = calls[c],
         ended' = IF status = "disconnected" THEN [ended EXCEPT ![id] = @ + 1]
                                             ELSE ended
  PROVE  CallsInv'
<1>1. /\ events' \in 0..MaxEvents
      /\ signals' = Append(signals, e)
      /\ UNCHANGED <<reader, told, doubt, farewell>>
      /\ signals \in Seq(CallSignal)
  BY CallsAssumption DEF AnnounceCall, CallsInv, CallsTypeOK
<1>2. /\ signals' \in Seq(CallSignal)
      /\ DOMAIN signals' = DOMAIN signals \cup {Len(signals) + 1}
      /\ \A k \in DOMAIN signals : k < Len(signals) + 1 /\ signals'[k] = signals[k]
      /\ signals'[Len(signals) + 1] = e
  BY <1>1, SignalsAppend
<1>3. e.id = id /\ e.kind = kind /\ e.status = status
  OBVIOUS
<1>4. \A k \in DOMAIN signals : signals[k].id \in CallId
  <2>1. \A k \in DOMAIN signals : signals[k] \in CallSignal
    BY <1>1
  <2> QED
    BY <2>1 DEF CallSignal
<1>6. CallsTypeOK'
  <2>1. ended' \in [CallId -> Nat]
    BY DEF CallsInv, CallsTypeOK
  <2> QED
    BY <1>1, <1>2, <2>1 DEF CallsInv, CallsTypeOK
<1>7. LastSaysNow'
  <2> SUFFICES ASSUME NEW k \in DOMAIN signals'
               PROVE  \/ Says(signals'[k], calls'[signals'[k].id])
                      \/ \E j \in DOMAIN signals' :
                           k < j /\ signals'[j].id = signals'[k].id
    BY DEF LastSaysNow
  <2>1. CASE k = Len(signals) + 1
    BY <1>2, <2>1
  <2>2. CASE k \in DOMAIN signals /\ signals[k].id = id
    BY <1>2, <1>3, <2>2
  <2>3. CASE k \in DOMAIN signals /\ signals[k].id # id
    <3>1. signals[k].id \in CallId \ {id} /\ signals'[k] = signals[k]
      BY <1>2, <1>4, <2>3
    <3>2. CASE Says(signals[k], calls[signals[k].id])
      BY <3>1, <3>2
    <3>3. CASE \E j \in DOMAIN signals : k < j /\ signals[j].id = signals[k].id
      BY <1>2, <3>1, <3>3
    <3> QED
      BY <2>3, <3>2, <3>3 DEF CallsInv, LastSaysNow
  <2> QED
    BY <1>2, <2>1, <2>2, <2>3
<1>9. ReaderSaysNow'
  <2> SUFFICES ASSUME reader # NoReader, \A k \in DOMAIN signals' :
                        signals'[k].id # reader.sig.id
               PROVE  /\ Says(reader.sig, calls'[reader.sig.id])
                      /\ reader.sig.kind = "added" =>
                           reader.answer \in {"none", "failed", calls'[reader.sig.id]}
    BY <1>1 DEF ReaderSaysNow, NoneWaits
  <2>1. CallsTypeOK /\ ReaderSaysNow
    BY DEF CallsInv
  <2>2. reader.sig.id \in CallId
    BY <2>1, ReaderTyped
  <2>3. reader.sig.id # id /\ NoneWaits(reader.sig.id)
    BY <1>2, <1>3 DEF NoneWaits
  <2>4. calls'[reader.sig.id] = calls[reader.sig.id]
    BY <2>2, <2>3
  <2> QED
    BY <2>1, <2>3, <2>4 DEF ReaderSaysNow
<1>10. SignalsShaped'
  BY <1>2 DEF CallsInv, SignalsShaped, Shaped
<1>11. ReaderShaped'
  BY <1>1 DEF CallsInv, ReaderShaped, Shaped
<1>12. CallsConverge'
  <2> SUFFICES ASSUME NEW c \in CallId, CallQuiet(c)', doubt'[c] = "none"
               PROVE  Right(c)'
    BY DEF CallsConverge
  <2>1. c # id /\ CallQuiet(c)
    BY <1>1, <1>2, <1>3 DEF CallQuiet
  <2> QED
    BY <1>1, <2>1 DEF CallsInv, CallsConverge, Right
<1>13. EveryEndTold'
  <2> SUFFICES ASSUME NEW c \in CallId
               PROVE  ended'[c] = farewell[c] + Cardinality(EndsIn(signals', c))
                                    + (IF EndHandled(c) THEN 1 ELSE 0)
    BY <1>1 DEF EveryEndTold, EndHandled
  <2>1. /\ Cardinality(EndsIn(signals, c)) \in Nat
        /\ Cardinality(EndsIn(signals', c)) = Cardinality(EndsIn(signals, c))
             + (IF id = c /\ status = "disconnected" THEN 1 ELSE 0)
    <3>1. /\ signals \in Seq(CallSignal) /\ signals' = Append(signals, e)
          /\ e \in CallSignal
      BY <1>1
    <3>2. /\ Cardinality(EndsIn(signals, c)) \in Nat
          /\ Cardinality(EndsIn(Append(signals, e), c)) =
               Cardinality(EndsIn(signals, c)) + EndOf(e, c)
      BY <3>1, EndsAppend, Zenon
    <3> QED
      BY <1>3, <3>1, <3>2 DEF EndOf
  <2>2. /\ ended \in [CallId -> Nat] /\ farewell \in [CallId -> Nat]
        /\ ended[c] = farewell[c] + Cardinality(EndsIn(signals, c))
                        + (IF EndHandled(c) THEN 1 ELSE 0)
    BY DEF CallsInv, CallsTypeOK, EveryEndTold
  <2>3. ended'[c] = ended[c]
          + (IF id = c /\ status = "disconnected" THEN 1 ELSE 0)
    BY <2>2
  <2> QED
    BY <2>1, <2>2, <2>3
<1> QED
  BY <1>6, <1>7, <1>9, <1>10, <1>11, <1>12, <1>13 DEF CallsInv

LEMMA CallsInitHolds == CallsInit => CallsInv
<1> SUFFICES ASSUME CallsInit
             PROVE  CallsInv
  OBVIOUS
<1>1. CallsTypeOK
  BY CallsAssumption DEF CallsInit, CallsTypeOK
<1>2. LastSaysNow /\ ReaderSaysNow /\ SignalsShaped /\ ReaderShaped
  BY DEF CallsInit, LastSaysNow, ReaderSaysNow, SignalsShaped, ReaderShaped
<1>3. CallsConverge
  BY DEF CallsInit, CallsConverge, Right
<1>4. EveryEndTold
  <2>1. \A id : EndsIn(signals, id) = {}
    BY DEF CallsInit, EndsIn
  <2> QED
    BY <2>1, FS_EmptySet DEF CallsInit, EveryEndTold, EndHandled
<1> QED
  BY <1>1, <1>2, <1>3, <1>4 DEF CallsInv

\* What becomes of a live call is a live call.
LEMMA AfterIsLive ==
  ASSUME NEW s \in Live, NEW t \in After(s),
         s # "none"
  PROVE  t \in Live
BY DEF After, Live, Status

LEMMA CallDaemonKeeps ==
  ASSUME CallsInv, NEW id \in CallId,
         NewCall(id) \/ ChangeState(id) \/ EndCall(id) \/ ChangeCall(id)
  PROVE  CallsInv'
<1>1. calls \in [CallId -> Live \cup {"none"}]
  BY DEF CallsInv, CallsTypeOK
<1>2. CASE NewCall(id)
  <2> DEFINE e == [id |-> id, kind |-> "added", status |-> "none"]
  <2>1. PICK s \in {"incoming", "waiting", "dialing"} :
          calls' = [calls EXCEPT ![id] = s]
    BY <1>2 DEF NewCall
  <2>2. /\ calls' \in [CallId -> Live \cup {"none"}]
        /\ calls'[id] = s
        /\ \A c \in CallId \ {id} : calls'[c] = calls[c]
    BY <1>1, <2>1 DEF Live, Status
  <2>3. e \in CallSignal /\ Shaped(e) /\ Says(e, calls'[id])
    BY <2>2 DEF CallSignal, Shaped, Says
  <2> HIDE DEF e
  <2>4. e = [id |-> id, kind |-> "added", status |-> "none"]
    BY DEF e
  <2> QED
    BY <1>2, <2>2, <2>3, <2>4, AnnounceCallKeeps DEF NewCall
<1>3. CASE ChangeState(id)
  <2>1. PICK s \in After(calls[id]) :
          calls' = [calls EXCEPT ![id] = s] /\ AnnounceCall(id, "state", s)
    BY <1>3 DEF ChangeState
  <2> DEFINE e == [id |-> id, kind |-> "state", status |-> s]
  <2>2. s \in Live
    BY <1>1, <1>3, <2>1, AfterIsLive DEF ChangeState
  <2>3. /\ calls' \in [CallId -> Live \cup {"none"}]
        /\ calls'[id] = s
        /\ \A c \in CallId \ {id} : calls'[c] = calls[c]
    BY <1>1, <2>1, <2>2
  <2>4. s \in Status \ {"disconnected", "none"}
    BY <2>2 DEF Live, Status
  <2>5. e \in CallSignal /\ Shaped(e) /\ Says(e, calls'[id])
    BY <2>3, <2>4 DEF CallSignal, Shaped, Says
  <2>6. ended' = ended
    BY <1>3 DEF ChangeState
  <2> HIDE DEF e
  <2>7. e = [id |-> id, kind |-> "state", status |-> s]
    BY DEF e
  <2> QED
    BY <2>1, <2>3, <2>4, <2>5, <2>6, <2>7, AnnounceCallKeeps
<1>4. CASE EndCall(id)
  <2> DEFINE e == [id |-> id, kind |-> "state", status |-> "disconnected"]
  <2>1. /\ calls' \in [CallId -> Live \cup {"none"}]
        /\ calls'[id] = "none"
        /\ \A c \in CallId \ {id} : calls'[c] = calls[c]
    BY <1>1, <1>4 DEF EndCall
  <2>2. e \in CallSignal /\ Shaped(e) /\ Says(e, calls'[id])
    BY <2>1 DEF CallSignal, Shaped, Says, Status
  <2> HIDE DEF e
  <2>3. e = [id |-> id, kind |-> "state", status |-> "disconnected"]
    BY DEF e
  <2> QED
    BY <1>4, <2>1, <2>2, <2>3, AnnounceCallKeeps DEF EndCall
<1>5. CASE ChangeCall(id)
  <2> DEFINE e == [id |-> id, kind |-> "other", status |-> "none"]
  <2>1. calls' = calls /\ ended' = ended
    BY <1>5 DEF ChangeCall
  <2>2. e \in CallSignal /\ Shaped(e) /\ Says(e, calls'[id])
    BY DEF CallSignal, Shaped, Says
  <2> HIDE DEF e
  <2>3. e = [id |-> id, kind |-> "other", status |-> "none"]
    BY DEF e
  <2> QED
    BY <1>1, <1>5, <2>1, <2>2, <2>3, AnnounceCallKeeps DEF ChangeCall
<1> QED
  BY <1>2, <1>3, <1>4, <1>5

\* What is read is a live call, or nothing.
LEMMA AnswerCallKeeps ==
  ASSUME CallsInv, AnswerCall
  PROVE  CallsInv'
<1>1. /\ CallsTypeOK /\ ReaderSaysNow /\ ReaderShaped /\ CallsConverge
      /\ LastSaysNow /\ SignalsShaped /\ EveryEndTold
      /\ reader # NoReader
      /\ UNCHANGED <<callDaemon, told, doubt, farewell>>
  BY DEF CallsInv, AnswerCall
<1>2. UNCHANGED <<calls, events, ended, signals, told, doubt, farewell>>
  BY <1>1 DEF callDaemon
<1>3. PICK answer \in {calls[reader.sig.id], "failed"} \ {"none"} :
        reader' = [reader EXCEPT !.answer = answer]
  BY DEF AnswerCall
<1>4. /\ reader.sig \in CallSignal /\ reader.sig.id \in CallId
      /\ reader.status \in Status \cup {"none"}
      /\ reader = [sig |-> reader.sig, status |-> reader.status,
                   answer |-> reader.answer]
  BY <1>1, ReaderTyped
<1>5. /\ reader' = [sig |-> reader.sig, status |-> reader.status,
                    answer |-> answer]
      /\ reader'.sig = reader.sig /\ reader'.status = reader.status
      /\ reader'.answer = answer
  BY <1>3, <1>4
<1>6. calls[reader.sig.id] \in Live \cup {"none"}
  BY <1>1, <1>4 DEF CallsTypeOK
<1>7. answer \in Status \cup {"failed"} /\ answer # "disconnected"
  BY <1>6 DEF Live, Status
<1>8. CallsTypeOK'
  <2>1. reader' \in Reader
    BY <1>4, <1>5, <1>7 DEF Reader
  <2> QED
    BY <1>1, <1>2, <2>1 DEF CallsTypeOK
<1>9. LastSaysNow' /\ SignalsShaped'
  BY <1>1, <1>2 DEF LastSaysNow, SignalsShaped
<1>10. ReaderSaysNow'
  BY <1>1, <1>2, <1>5 DEF ReaderSaysNow, NoneWaits
<1>11. ReaderShaped'
  BY <1>1, <1>5, <1>7 DEF ReaderShaped
<1>12. reader' # NoReader
  BY <1>5, ReaderIsOne
<1>13. CallsConverge'
  BY <1>1, <1>2, <1>5, <1>12 DEF CallsConverge, CallQuiet, Right
<1>14. EveryEndTold'
  BY <1>1, <1>2, <1>5, <1>12 DEF EveryEndTold, EndHandled
<1> QED
  BY <1>8, <1>9, <1>10, <1>11, <1>13, <1>14 DEF CallsInv

\* The handler takes over what the signal says.
LEMMA DispatchCallKeeps ==
  ASSUME CallsInv, DispatchCall
  PROVE  CallsInv'
<1>1. /\ CallsTypeOK /\ LastSaysNow /\ SignalsShaped
      /\ CallsConverge /\ EveryEndTold
      /\ reader = NoReader /\ signals # <<>> /\ signals' = Tail(signals)
      /\ UNCHANGED <<calls, events, ended, told, doubt, farewell>>
  BY DEF CallsInv, DispatchCall
<1>2. signals \in Seq(CallSignal)
  BY <1>1 DEF CallsTypeOK
<1>3. /\ signals' \in Seq(CallSignal)
      /\ DOMAIN signals = 1..Len(signals) /\ Len(signals) \in Nat
      /\ 1 \in DOMAIN signals /\ Head(signals) = signals[1]
      /\ signals[1] \in CallSignal
      /\ \A k \in DOMAIN signals' :
           /\ k \in Nat /\ k + 1 \in DOMAIN signals
           /\ signals'[k] = signals[k + 1]
      /\ \A k \in DOMAIN signals :
           k # 1 => k - 1 \in DOMAIN signals' /\ signals'[k - 1] = signals[k]
  BY <1>1, <1>2, SignalsTail
<1> DEFINE h == signals[1]
<1>4. PICK s \in FromSignal(h) :
        reader' = [sig |-> h, status |-> s,
                   answer |-> IF s = "disconnected" THEN "failed" ELSE "none"]
  BY <1>3 DEF DispatchCall
<1>5. /\ h \in CallSignal /\ h.id \in CallId
      /\ h.kind \in {"added", "state", "other"}
      /\ h.status \in Status \cup {"none"}
  BY <1>3 DEF CallSignal
<1>6. /\ s \in Status \cup {"none"}
      /\ h.kind = "state" => s = h.status
  BY <1>4, <1>5 DEF FromSignal
<1>7. /\ reader'.sig = h /\ reader'.status = s
      /\ reader'.answer \in {"failed", "none"}
      /\ reader' # NoReader
  BY <1>4, ReaderIsOne
<1>8. Shaped(h) /\ \A k \in DOMAIN signals' : Shaped(signals'[k])
  BY <1>1, <1>3 DEF SignalsShaped
<1>9. CallsTypeOK'
  <2>1. reader' \in Reader
    BY <1>4, <1>5, <1>6 DEF Reader
  <2> QED
    BY <1>1, <1>3, <2>1 DEF CallsTypeOK
<1>10. LastSaysNow'
  <2> SUFFICES ASSUME NEW k \in DOMAIN signals'
               PROVE  \/ Says(signals'[k], calls'[signals'[k].id])
                      \/ \E j \in DOMAIN signals' :
                           k < j /\ signals'[j].id = signals'[k].id
    BY DEF LastSaysNow
  <2>1. k \in Nat /\ k + 1 \in DOMAIN signals /\ signals'[k] = signals[k + 1]
    BY <1>3
  <2>2. CASE Says(signals[k + 1], calls[signals[k + 1].id])
    BY <1>1, <2>1, <2>2
  <2>3. CASE \E j \in DOMAIN signals :
               k + 1 < j /\ signals[j].id = signals[k + 1].id
    <3>1. PICK j \in DOMAIN signals :
            k + 1 < j /\ signals[j].id = signals[k + 1].id
      BY <2>3
    <3>2. j \in Nat /\ j # 1 /\ k < j - 1
      BY <1>3, <2>1, <3>1
    <3>3. j - 1 \in DOMAIN signals' /\ signals'[j - 1] = signals[j]
      BY <1>3, <3>2
    <3> QED
      BY <2>1, <3>1, <3>2, <3>3
  <2> QED
    BY <1>1, <2>1, <2>2, <2>3 DEF LastSaysNow
<1>11. ASSUME NEW c, \A k \in DOMAIN signals' : signals'[k].id # c
       PROVE  \A k \in DOMAIN signals : k # 1 => signals[k].id # c
  BY <1>3, <1>11
<1>12. ReaderSaysNow'
  <2> SUFFICES ASSUME \A k \in DOMAIN signals' : signals'[k].id # h.id
               PROVE  Says(h, calls[h.id])
    BY <1>1, <1>7 DEF ReaderSaysNow, NoneWaits
  <2>1. \A k \in DOMAIN signals : k # 1 => signals[k].id # h.id
    BY <1>11
  <2> QED
    BY <1>1, <1>3, <2>1 DEF LastSaysNow
<1>13. SignalsShaped'
  BY <1>8 DEF SignalsShaped
<1>14. ReaderShaped'
  BY <1>6, <1>7, <1>8 DEF ReaderShaped
<1>15. CallsConverge'
  <2> SUFFICES ASSUME NEW c \in CallId, CallQuiet(c)', doubt[c] = "none"
               PROVE  Right(c)
    BY <1>1 DEF CallsConverge, Right
  <2>1. h.id # c /\ \A k \in DOMAIN signals' : signals'[k].id # c
    BY <1>7 DEF CallQuiet
  <2>2. CallQuiet(c)
    BY <1>1, <1>11, <2>1 DEF CallQuiet
  <2> QED
    BY <1>1, <2>2 DEF CallsConverge
<1>16. EveryEndTold'
  <2> SUFFICES ASSUME NEW c \in CallId
               PROVE  ended[c] = farewell[c] + Cardinality(EndsIn(signals', c))
                                   + EndOf(h, c)
    BY <1>1, <1>7 DEF EveryEndTold, EndHandled, EndOf
  <2>1. /\ Cardinality(EndsIn(Tail(signals), c)) \in Nat
        /\ Cardinality(EndsIn(signals, c)) =
             Cardinality(EndsIn(Tail(signals), c)) + EndOf(h, c)
    BY <1>1, <1>2, EndsTail, Zenon
  <2>2. /\ farewell[c] \in Nat /\ EndOf(h, c) \in Nat
        /\ ended[c] = farewell[c] + Cardinality(EndsIn(signals, c)) + 0
    BY <1>1 DEF CallsTypeOK, EveryEndTold, EndHandled, EndOf
  <2> QED
    BY <1>1, <2>1, <2>2
<1> QED
  BY <1>9, <1>10, <1>12, <1>13, <1>14, <1>15, <1>16 DEF CallsInv

\* What is notified without doubt is what the last signal says.
LEMMA NotifyCallKeeps ==
  ASSUME CallsInv, NotifyCall
  PROVE  CallsInv'
<1> DEFINE r == reader
           i == reader.sig.id
<1>1. /\ CallsTypeOK /\ LastSaysNow /\ ReaderSaysNow /\ SignalsShaped
      /\ ReaderShaped /\ CallsConverge /\ EveryEndTold
      /\ reader # NoReader /\ reader.answer # "none" /\ reader' = NoReader
      /\ told' = [told EXCEPT ![i] = Notified(r)]
      /\ doubt' = [doubt EXCEPT ![i] = Doubt(r)]
      /\ farewell' = IF Notified(r) = "disconnected" /\ Doubt(r) = "none"
                       THEN [farewell EXCEPT ![i] = @ + 1] ELSE farewell
      /\ UNCHANGED <<calls, events, ended, signals>>
  BY DEF CallsInv, NotifyCall, callDaemon
<1>2. /\ r.sig \in CallSignal /\ i \in CallId
      /\ r.status \in Status \cup {"none"}
      /\ r.answer \in Status \cup {"none", "failed"}
  BY <1>1, ReaderTyped
<1>3. r.sig.kind \in {"added", "state", "other"}
  BY <1>2 DEF CallSignal
<1>4. /\ Shaped(r.sig) /\ r.answer # "disconnected"
      /\ r.sig.kind = "state" => r.status = r.sig.status
  BY <1>1 DEF ReaderShaped
<1>5. /\ told \in [CallId -> Status \cup {"none"}]
      /\ doubt \in [CallId -> {"none", "unread", "unset"}]
      /\ farewell \in [CallId -> Nat]
  BY <1>1 DEF CallsTypeOK
<1>6. CallsTypeOK'
  <2>1. Notified(r) \in Status \cup {"none"}
    BY <1>2 DEF Notified, ZeroedStatus, Status
  <2>2. Doubt(r) \in {"none", "unread", "unset"}
    BY DEF Doubt
  <2>3. /\ told' \in [CallId -> Status \cup {"none"}]
        /\ doubt' \in [CallId -> {"none", "unread", "unset"}]
        /\ farewell' \in [CallId -> Nat]
    BY <1>1, <1>2, <1>5, <2>1, <2>2
  <2> QED
    BY <1>1, <2>3 DEF CallsTypeOK
<1>7. LastSaysNow' /\ SignalsShaped'
  BY <1>1 DEF LastSaysNow, SignalsShaped
<1>8. ReaderSaysNow' /\ ReaderShaped'
  BY <1>1 DEF ReaderSaysNow, ReaderShaped
<1>9. CallsConverge'
  <2> SUFFICES ASSUME NEW c \in CallId, NoneWaits(c), doubt'[c] = "none"
               PROVE  Right(c)'
    BY <1>1 DEF CallsConverge, CallQuiet, NoneWaits
  <2>1. CASE c # i
    <3>1. told'[c] = told[c] /\ doubt[c] = "none" /\ CallQuiet(c)
      BY <1>1, <1>5, <2>1 DEF CallQuiet, NoneWaits
    <3> QED
      BY <1>1, <3>1 DEF CallsConverge, Right
  <2>2. CASE c = i
    <3>1. told'[c] = Notified(r) /\ Doubt(r) = "none"
      BY <1>1, <1>2, <1>5, <2>2
    <3>2. /\ Says(r.sig, calls[c])
          /\ r.sig.kind = "added" => r.answer \in {"none", "failed", calls[c]}
      BY <1>1, <2>2 DEF ReaderSaysNow
    <3>3. CASE r.sig.kind = "state"
      BY <1>1, <1>4, <3>1, <3>2, <3>3 DEF Right, Says, Notified
    <3>4. CASE r.sig.kind = "added"
      <4>1. r.answer # "failed"
        BY <3>1, <3>4 DEF Doubt
      <4> QED
        BY <1>1, <3>1, <3>2, <3>4, <4>1 DEF Right, Says, Notified
    <3>5. r.sig.kind # "other"
      BY <3>1 DEF Doubt
    <3> QED
      BY <1>3, <3>3, <3>4, <3>5
  <2> QED
    BY <2>1, <2>2
<1>10. Notified(r) = "disconnected" /\ Doubt(r) = "none"
         <=> r.sig.status = "disconnected"
  <2>1. CASE r.sig.kind = "state"
    BY <1>4, <2>1 DEF Notified, Doubt
  <2>2. CASE r.sig.kind = "added"
    BY <1>4, <2>2 DEF Notified, ZeroedStatus, Shaped
  <2>3. CASE r.sig.kind = "other"
    BY <1>4, <2>3 DEF Doubt, Shaped
  <2> QED
    BY <1>3, <2>1, <2>2, <2>3
<1>11. EveryEndTold'
  <2> SUFFICES ASSUME NEW c \in CallId
               PROVE  ended[c] = farewell'[c] + Cardinality(EndsIn(signals, c)) + 0
    BY <1>1 DEF EveryEndTold, EndHandled
  <2>1. signals \in Seq(CallSignal)
    BY <1>1 DEF CallsTypeOK
  <2>2. Cardinality(EndsIn(signals, c)) \in Nat
    BY <1>2, <2>1, EndsAppend, Zenon
  <2>3. ended[c] = farewell[c] + Cardinality(EndsIn(signals, c)) + EndOf(r.sig, c)
    BY <1>1 DEF EveryEndTold, EndHandled, EndOf
  <2>4. farewell'[c] = farewell[c] + EndOf(r.sig, c)
    BY <1>1, <1>5, <1>10 DEF EndOf
  <2>5. farewell[c] \in Nat /\ EndOf(r.sig, c) \in Nat
    BY <1>5 DEF EndOf
  <2> QED
    BY <2>2, <2>3, <2>4, <2>5
<1> QED
  BY <1>6, <1>7, <1>8, <1>9, <1>11 DEF CallsInv

LEMMA CallsNextKeeps ==
  CallsInv /\ [CallsNext]_callVars => CallsInv'
<1> SUFFICES ASSUME CallsInv, [CallsNext]_callVars
             PROVE  CallsInv'
  OBVIOUS
<1>1. ASSUME NEW id \in CallId,
             NewCall(id) \/ ChangeState(id) \/ EndCall(id) \/ ChangeCall(id)
      PROVE  CallsInv'
  BY <1>1, CallDaemonKeeps
<1>2. CASE AnswerCall
  BY <1>2, AnswerCallKeeps
<1>3. CASE DispatchCall
  BY <1>3, DispatchCallKeeps
<1>4. CASE NotifyCall
  BY <1>4, NotifyCallKeeps
<1>5. CASE UNCHANGED callVars
  BY <1>5 DEF callVars, CallsInv, CallsTypeOK, LastSaysNow, ReaderSaysNow,
              NoneWaits, SignalsShaped, ReaderShaped, CallsConverge, CallQuiet,
              Right, EveryEndTold, EndHandled
<1> QED
  BY <1>1, <1>2, <1>3, <1>4, <1>5 DEF CallsNext

\* The inductive invariant of the handlers that follow calls: about each call
\* the last signal, or the handler that runs when none waits, says what the
\* daemon has.
THEOREM CallsInvariance == CallsSpec => []CallsInv
<1>1. CallsInit => CallsInv
  BY CallsInitHolds
<1>2. CallsInv /\ [CallsNext]_callVars => CallsInv'
  BY CallsNextKeeps
<1> QED
  BY <1>1, <1>2, PTL DEF CallsSpec

\* The handlers that follow calls keep the state well typed.
THEOREM CallsTypeCorrect == CallsSpec => []CallsTypeOK
<1>1. CallsInv => CallsTypeOK
  BY DEF CallsInv
<1> QED
  BY <1>1, CallsInvariance, PTL

\* However the changes of calls and the blocking reads of their handlers
\* interleave, a client that has been told everything about a call id, by
\* _call_added_notify() and _call_status_changed_notify(), knows the call that
\* has it now, or that there is none, unless the last status it was told was
\* neither read nor announced.
THEOREM CallsCorrect == CallsSpec => []CallsConverge
<1>1. CallsInv => CallsConverge
  BY DEF CallsInv
<1> QED
  BY <1>1, CallsInvariance, PTL

\* Of the calls that ended, each was told to the client once, or its end
\* waits: none is dropped because GetProperties fails for a call that is gone,
\* and none is told twice because its arrival is handled after its end.
THEOREM EndsCorrect == CallsSpec => []EveryEndTold
<1>1. CallsInv => EveryEndTold
  BY DEF CallsInv
<1> QED
  BY <1>1, CallsInvariance, PTL

=============================================================================
