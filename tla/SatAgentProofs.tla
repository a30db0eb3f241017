-------------------------- MODULE SatAgentProofs --------------------------
(***************************************************************************)
(* Proofs about the SIM toolkit agent: its types, that no invocation is    *)
(* answered twice, and that an answer goes to the command its dialog shows.*)
(*                                                                         *)
(* The first rests on the order of the inbox: what the agent has seen is   *)
(* older than what waits (SeenIsOlder), so that a command is stored and    *)
(* answered for the first time when it is dispatched.                      *)
(*                                                                         *)
(* The second rests on the daemon's having one command at a time: when a   *)
(* command is dispatched, the one before was answered, or was given up by  *)
(* a Cancel that was dispatched already (CancelledBehind, CancelledBetween,*)
(* CancelledOrCurrent), and the client that has a cancel callback has no   *)
(* dialog open. Release needs none: no command follows it.                 *)
(***************************************************************************)
EXTENDS SatAgent, TLAPS

IsCommand(k) == inbox[k].id # 0

IsCancel(k) == inbox[k].id = 0 /\ inbox[k].method = "Cancel"

\* What the agent or the client still holds of commands.
Open == dialogs \cup ({slot} \ {0})

Replied == {replies[i].to : i \in DOMAIN replies}

-----------------------------------------------------------------------------
(***************************************************************************)
(* The invariant behind AnsweredOnce                                       *)
(***************************************************************************)

InboxSorted ==
  \A j, k \in DOMAIN inbox :
    j < k /\ IsCommand(j) /\ IsCommand(k) => inbox[j].id < inbox[k].id

InboxSent == \A k \in DOMAIN inbox : inbox[k].id <= Len(sent)

SeenIsOlder ==
  \A d \in Open \cup Replied :
    /\ d <= Len(sent)
    /\ \A k \in DOMAIN inbox : IsCommand(k) => d < inbox[k].id

SlotUnanswered == slot \notin Replied

TypeInv == TypeOK /\ Len(sent) <= MaxRequests

OnceInv ==
  /\ TypeInv
  /\ InboxSorted
  /\ InboxSent
  /\ SeenIsOlder
  /\ SlotUnanswered
  /\ AnsweredOnce

-----------------------------------------------------------------------------
(***************************************************************************)
(* The invariant behind AnswerReachesItsCommand                            *)
(***************************************************************************)

BeforeRegistration ==
  agent \in {"none", "offered"} => inbox = <<>> /\ ~known /\ awaiting = 0

HeldByAgent == agent # "registered" => Open = {}

EndingCloses == pc = "ending" => dialogs = {}

OneShown ==
  \A i \in dialogs : slot \in {0, i} /\ i \notin Replied /\ dialogs = {i}

\* The daemon still waits for command `d`, or it has given it up by a Cancel
\* that waits behind place `k` of the inbox, or it makes no calls any more.
GivenUp(d, k) ==
  d = awaiting \/ ~known \/ \E c \in DOMAIN inbox : k < c /\ IsCancel(c)

CancelledOrCurrent ==
  /\ \A k \in DOMAIN inbox : IsCommand(k) => GivenUp(inbox[k].id, k)
  /\ pc # "ending" => \A d \in Open : GivenUp(d, 0)

CancelledBetween ==
  \A j, k \in DOMAIN inbox :
    j < k /\ IsCommand(j) /\ IsCommand(k) =>
      \E c \in DOMAIN inbox : j < c /\ c < k /\ IsCancel(c)

CancelledBehind ==
  pc # "ending" /\ Open # {} =>
    \A k \in DOMAIN inbox :
      IsCommand(k) => \E c \in DOMAIN inbox : c < k /\ IsCancel(c)

ReachInv ==
  /\ OnceInv
  /\ BeforeRegistration
  /\ HeldByAgent
  /\ EndingCloses
  /\ OneShown
  /\ CancelledOrCurrent
  /\ CancelledBetween
  /\ CancelledBehind
  /\ AnswerReachesItsCommand

-----------------------------------------------------------------------------
(***************************************************************************)
(* Sequences                                                               *)
(***************************************************************************)

Message == [method : Method \cup {"Cancel", "Release"}, id : 0..MaxRequests]

LEMMA AppendFacts ==
  ASSUME NEW S, NEW s \in Seq(S), NEW e \in S
  PROVE  /\ Append(s, e) \in Seq(S)
         /\ Len(s) \in Nat /\ Len(Append(s, e)) = Len(s) + 1
         /\ DOMAIN s = 1..Len(s)
         /\ DOMAIN Append(s, e) = 1..(Len(s) + 1)
         /\ \A i \in 1..Len(s) : Append(s, e)[i] = s[i]
         /\ Append(s, e)[Len(s) + 1] = e
OBVIOUS

LEMMA TailFacts ==
  ASSUME NEW S, NEW s \in Seq(S), s # <<>>
  PROVE  /\ Tail(s) \in Seq(S)
         /\ 1 \in DOMAIN s /\ Head(s) = s[1] /\ s[1] \in S
         /\ DOMAIN s = 1..Len(s) /\ Len(s) \in Nat /\ Len(s) >= 1
         /\ DOMAIN Tail(s) = 1..(Len(s) - 1)
         /\ \A i \in 1..(Len(s) - 1) : Tail(s)[i] = s[i + 1]
<1>1. Len(s) \in Nat /\ Len(s) >= 1 /\ DOMAIN s = 1..Len(s)
  OBVIOUS
<1>2. Tail(s) \in Seq(S) /\ Len(Tail(s)) = Len(s) - 1
  OBVIOUS
<1>3. DOMAIN Tail(s) = 1..(Len(s) - 1)
  BY <1>2
<1>4. Head(s) = s[1] /\ 1 \in DOMAIN s /\ s[1] \in S
  BY <1>1
<1>5. \A i \in 1..(Len(s) - 1) : Tail(s)[i] = s[i + 1]
  OBVIOUS
<1> QED
  BY <1>1, <1>2, <1>3, <1>4, <1>5

\* A reply to a command that had none.
LEMMA ReplyFacts ==
  ASSUME TypeOK, NEW t \in Request, NEW d \in 0..MaxRequests, Reply(t, d)
  PROVE  /\ replies' \in Seq([to : Request, dialog : 0..MaxRequests])
         /\ Replied' = Replied \cup {t}
         /\ AnsweredOnce /\ t \notin Replied => AnsweredOnce'
         /\ AnswerReachesItsCommand /\ d \in {0, t} => AnswerReachesItsCommand'
<1> DEFINE S == [to : Request, dialog : 0..MaxRequests]
           e == [to |-> t, dialog |-> d]
<1>1. replies \in Seq(S) /\ e \in S /\ replies' = Append(replies, e)
  BY DEF TypeOK, Reply
<1>2. e.to = t /\ e.dialog = d
  OBVIOUS
<1> HIDE DEF S, e
<1>3. /\ replies' \in Seq(S)
      /\ Len(replies) \in Nat
      /\ DOMAIN replies = 1..Len(replies)
      /\ DOMAIN replies' = 1..(Len(replies) + 1)
      /\ \A i \in 1..Len(replies) : replies'[i] = replies[i]
      /\ replies'[Len(replies) + 1] = e
  BY <1>1, AppendFacts
<1>4. \A i \in DOMAIN replies' : i \in DOMAIN replies \/ i = Len(replies) + 1
  BY <1>3
<1>5. DOMAIN replies \subseteq DOMAIN replies' /\ Len(replies) + 1 \in DOMAIN replies'
  BY <1>3
<1>6. Replied' = Replied \cup {t}
  BY <1>2, <1>3, <1>4, <1>5 DEF Replied
<1>7. AnsweredOnce /\ t \notin Replied => AnsweredOnce'
  BY <1>2, <1>3, <1>4 DEF AnsweredOnce, Replied
<1>8. AnswerReachesItsCommand /\ d \in {0, t} => AnswerReachesItsCommand'
  BY <1>2, <1>3, <1>4 DEF AnswerReachesItsCommand
<1> QED
  BY <1>3, <1>6, <1>7, <1>8 DEF S

-----------------------------------------------------------------------------
(***************************************************************************)
(* Types                                                                   *)
(***************************************************************************)

LEMMA DispatchTypes ==
  ASSUME TypeInv, Dispatch
  PROVE  TypeInv'
<1>1. inbox \in Seq(Message) /\ inbox # <<>> /\ inbox' = Tail(inbox)
  BY DEF TypeInv, TypeOK, Message, Dispatch
<1>2. inbox' \in Seq(Message) /\ Head(inbox) \in Message
  BY <1>1, TailFacts
<1>3. MaxRequests \in Nat /\ Head(inbox).id \in 0..MaxRequests
      /\ slot \in 0..MaxRequests /\ 0 \in 0..MaxRequests
  BY <1>2, SatAssumption DEF Message, TypeInv, TypeOK
<1>4. \A n \in (0..MaxRequests) \ {0} : n \in Request
  BY <1>3 DEF Request
<1>5. SUFFICES /\ slot' \in 0..MaxRequests
               /\ pc' \in {"idle", "command", "ending", "crashed"}
               /\ dialogs' \subseteq Request
               /\ replies' \in Seq([to : Request, dialog : 0..MaxRequests])
  BY <1>2 DEF TypeInv, TypeOK, Message, Dispatch, daemon
<1>6. CASE Head(inbox).id = 0
  BY <1>3, <1>6 DEF Dispatch, Ended, TypeInv, TypeOK
<1>7. CASE Head(inbox).id # 0
  <2>1. CASE Refused(Head(inbox))
    BY <1>3, <1>4, <1>7, <2>1, ReplyFacts DEF Refused, TypeInv, TypeOK
  <2>2. CASE Shown(Head(inbox))
    BY <1>3, <1>4, <1>7, <2>2 DEF Shown, SlotFor, TypeInv, TypeOK
  <2>3. CASE Unsupported(Head(inbox))
    <3>1. SlotFor(Head(inbox)) \in 0..MaxRequests
      BY <1>3 DEF SlotFor
    <3>2. replies' \in Seq([to : Request, dialog : 0..MaxRequests])
      BY <1>3, <1>4, <2>3, <3>1, ReplyFacts DEF Unsupported, TypeInv, TypeOK
    <3> QED
      BY <1>3, <2>3, <3>2 DEF Unsupported, TypeInv, TypeOK
  <2>4. CASE Unhandled(Head(inbox))
    BY <2>4 DEF Unhandled, TypeInv, TypeOK
  <2> QED
    BY <1>7, <2>1, <2>2, <2>3, <2>4 DEF Dispatch
<1> QED
  BY <1>6, <1>7

LEMMA TypeStep ==
  ASSUME TypeInv, [Next]_vars
  PROVE  TypeInv'
<1>0. MaxRequests \in Nat
  BY SatAssumption
<1>1. ASSUME NEW m \in Method, Call(m)
      PROVE  TypeInv'
  <2>1. /\ sent \in Seq(Method) /\ sent' = Append(sent, m)
        /\ Len(sent) < MaxRequests
    BY <1>1 DEF Call, TypeInv, TypeOK
  <2>2. sent' \in Seq(Method) /\ Len(sent') = Len(sent) + 1 /\ Len(sent) \in Nat
    BY <2>1, AppendFacts
  <2>3. Len(sent') \in 0..MaxRequests
    BY <1>0, <2>1, <2>2
  <2>4. [method |-> m, id |-> Len(sent')] \in Message
    BY <2>3 DEF Message
  <2>5. inbox' \in Seq(Message)
    BY <1>1, <2>4 DEF Call, TypeInv, TypeOK, Message
  <2> QED
    BY <1>0, <1>1, <2>2, <2>3, <2>5 DEF Call, TypeInv, TypeOK, Message
<1>2. CASE Cancel
  <2>1. [method |-> "Cancel", id |-> 0] \in Message
    BY <1>0 DEF Message
  <2> QED
    BY <1>0, <1>2, <2>1 DEF Cancel, TypeInv, TypeOK, Message
<1>3. CASE Release
  <2>1. [method |-> "Release", id |-> 0] \in Message
    BY <1>0 DEF Message
  <2>2. known' \in BOOLEAN
    BY <1>3, Zenon DEF Release
  <2>3. awaiting' \in 0..MaxRequests /\ inbox' \in Seq(Message)
    BY <1>0, <1>3, <2>1 DEF Release, TypeInv, TypeOK, Message
  <2> QED
    BY <1>3, <2>2, <2>3 DEF Release, TypeInv, TypeOK, Message
<1>4. CASE TakeAgent \/ Answered
  <2>1. known' \in BOOLEAN
    BY <1>4, Zenon DEF TakeAgent, Answered, TypeInv, TypeOK
  <2>2. awaiting' \in 0..MaxRequests
    BY <1>0, <1>4 DEF TakeAgent, Answered, TypeInv, TypeOK
  <2> QED
    BY <1>4, <2>1, <2>2 DEF TakeAgent, Answered, TypeInv, TypeOK
<1>5. CASE Dispatch
  BY <1>5, DispatchTypes
<1>6. CASE Return
  BY <1>0, <1>6 DEF Return, daemon, TypeInv, TypeOK
<1>7. CASE InitAgent \/ AgentRegistered \/ AgentFails
  BY <1>7 DEF InitAgent, AgentRegistered, AgentFails, daemon, TypeInv, TypeOK
<1>8. CASE DeinitAgent
  <2>1. known' \in BOOLEAN
    BY <1>8, Zenon DEF DeinitAgent, TypeInv, TypeOK
  <2>2. awaiting' \in 0..MaxRequests
    BY <1>0, <1>8 DEF DeinitAgent, TypeInv, TypeOK
  <2>3. /\ slot' \in 0..MaxRequests /\ dialogs' \subseteq Request
        /\ agent' = "freed"
        /\ UNCHANGED <<pc, inbox, sent, replies>>
    BY <1>0, <1>8 DEF DeinitAgent
  <2> QED
    BY <2>1, <2>2, <2>3 DEF TypeInv, TypeOK
<1>9. ASSUME NEW i \in Request, SendResponse(i)
      PROVE  TypeInv'
  <2>1. slot # 0 => slot \in Request
    BY <1>0 DEF TypeInv, TypeOK, Request
  <2>2. i \in 0..MaxRequests
    BY <1>0 DEF Request
  <2>3. replies' \in Seq([to : Request, dialog : 0..MaxRequests])
    BY <1>9, <2>1, <2>2, ReplyFacts DEF SendResponse, TypeInv, TypeOK
  <2> QED
    BY <1>0, <1>9, <2>3 DEF SendResponse, daemon, TypeInv, TypeOK
<1>10. CASE UNCHANGED vars
  BY <1>10 DEF vars, TypeInv, TypeOK
<1> QED
  BY <1>1, <1>2, <1>3, <1>4, <1>5, <1>6, <1>7, <1>8, <1>9, <1>10
     DEF Next, Respond

LEMMA TypeInit ==
  ASSUME Init
  PROVE  TypeInv
<1>1. MaxRequests \in Nat
  BY SatAssumption
<1>2. sent \in Seq(Method) /\ Len(sent) = 0
  BY DEF Init
<1>3. known \in BOOLEAN
  BY Zenon DEF Init
<1>4. /\ inbox \in Seq([method : Method \cup {"Cancel", "Release"},
                       id : 0..MaxRequests])
      /\ replies \in Seq([to : Request, dialog : 0..MaxRequests])
  BY DEF Init
<1> QED
  BY <1>1, <1>2, <1>3, <1>4 DEF Init, TypeInv, TypeOK

\* The state of the agent, what waits for it and what was answered have the
\* types they should have in every reachable state; no command has a number
\* beyond the last.
THEOREM TypeCorrect == Spec => []TypeOK
<1>1. TypeInv /\ [Next]_vars => TypeInv'
  BY TypeStep
<1>2. Init => TypeInv
  BY TypeInit
<1>3. TypeInv => TypeOK
  BY DEF TypeInv
<1> QED
  BY <1>1, <1>2, <1>3, PTL DEF Spec

-----------------------------------------------------------------------------
(***************************************************************************)
(* No invocation is answered twice                                         *)
(***************************************************************************)

LEMMA OnceTypes ==
  ASSUME TypeInv
  PROVE  /\ MaxRequests \in Nat
         /\ inbox \in Seq(Message)
         /\ DOMAIN inbox = 1..Len(inbox) /\ Len(inbox) \in Nat
         /\ \A k \in DOMAIN inbox : k \in Nat /\ inbox[k].id \in Nat
         /\ sent \in Seq(Method) /\ Len(sent) \in Nat
         /\ slot \in Nat /\ 0 \notin Replied /\ Replied \subseteq Request
         /\ \A d \in Open \cup Replied : d \in Request /\ d \in Nat /\ d # 0
<1>1. MaxRequests \in Nat
  BY SatAssumption
<1>2. inbox \in Seq(Message)
  BY DEF TypeInv, TypeOK, Message
<1>3. DOMAIN inbox = 1..Len(inbox) /\ Len(inbox) \in Nat
      /\ \A k \in DOMAIN inbox : k \in Nat /\ inbox[k] \in Message
  BY <1>2
<1>4. \A k \in DOMAIN inbox : inbox[k].id \in Nat
  BY <1>1, <1>3 DEF Message
<1>5. sent \in Seq(Method) /\ Len(sent) \in Nat
  BY DEF TypeInv, TypeOK
<1>6. \A i \in DOMAIN replies : replies[i].to \in Request
  <2>1. replies \in Seq([to : Request, dialog : 0..MaxRequests])
    BY DEF TypeInv, TypeOK
  <2> DEFINE S == [to : Request, dialog : 0..MaxRequests]
  <2>2. \A e \in S : e.to \in Request
    OBVIOUS
  <2>3. replies \in Seq(S)
    BY <2>1
  <2> HIDE DEF S
  <2>4. \A i \in DOMAIN replies : replies[i] \in S
    BY <2>3
  <2> QED
    BY <2>2, <2>4
<1>7. Replied \subseteq Request /\ 0 \notin Replied
  BY <1>1, <1>6 DEF Replied, Request
<1>8. Open \subseteq Request /\ slot \in Nat
  BY <1>1 DEF Open, Request, TypeInv, TypeOK
<1>9. \A d \in Request : d \in Nat /\ d # 0
  BY <1>1 DEF Request
<1> QED
  BY <1>1, <1>2, <1>3, <1>4, <1>5, <1>7, <1>8, <1>9

\* The command at the head of the inbox, if there is one.
Oldest(d) == inbox # <<>> /\ d = inbox[1].id /\ d # 0

\* A step that adds no command to the inbox, if what it stores, shows or
\* answers was stored, shown or answered before or is taken off the inbox.
LEMMA OnceKeeps ==
  ASSUME OnceInv, TypeInv', UNCHANGED sent,
         NEW n \in {0, 1},
         \A k \in DOMAIN inbox' :
           \/ inbox'[k].id = 0
           \/ k + n \in DOMAIN inbox /\ inbox'[k] = inbox[k + n],
         \A d \in Open' \cup Replied' :
           d \in Open \cup Replied \/ (n = 1 /\ Oldest(d)),
         slot' \notin Replied', AnsweredOnce'
  PROVE  OnceInv'
<1>1. /\ DOMAIN inbox = 1..Len(inbox) /\ Len(inbox) \in Nat
      /\ \A k \in DOMAIN inbox : k \in Nat /\ inbox[k].id \in Nat
      /\ \A k \in DOMAIN inbox' : k \in Nat /\ inbox'[k].id \in Nat
      /\ \A k \in DOMAIN inbox' : k >= 1
      /\ \A d \in Open \cup Replied : d \in Nat
  <2>1. TypeInv
    BY DEF OnceInv
  <2>2. /\ DOMAIN inbox' = 1..Len(inbox') /\ Len(inbox') \in Nat
        /\ \A k \in DOMAIN inbox' : k \in Nat /\ inbox'[k].id \in Nat
    <3>1. inbox' \in Seq(Message) /\ MaxRequests \in Nat
      BY SatAssumption DEF TypeInv, TypeOK, Message
    <3>2. DOMAIN inbox' = 1..Len(inbox') /\ Len(inbox') \in Nat
          /\ \A k \in DOMAIN inbox' : k \in Nat /\ inbox'[k] \in Message
      BY <3>1
    <3> QED
      BY <3>1, <3>2 DEF Message
  <2> QED
    BY <2>1, <2>2, OnceTypes
<1>2. InboxSorted'
  <2> SUFFICES ASSUME NEW j \in DOMAIN inbox', NEW k \in DOMAIN inbox',
                      j < k, inbox'[j].id # 0, inbox'[k].id # 0
               PROVE  inbox'[j].id < inbox'[k].id
    BY DEF InboxSorted, IsCommand
  <2>1. j + n < k + n
    BY <1>1
  <2> QED
    BY <2>1 DEF OnceInv, InboxSorted, IsCommand
<1>3. InboxSent'
  <2> SUFFICES ASSUME NEW k \in DOMAIN inbox'
               PROVE  inbox'[k].id <= Len(sent)
    BY DEF InboxSent
  <2>1. Len(sent) \in Nat
    BY OnceTypes DEF OnceInv
  <2> QED
    BY <1>1, <2>1 DEF OnceInv, InboxSent
<1>4. SeenIsOlder'
  <2> SUFFICES ASSUME NEW d \in Open' \cup Replied'
               PROVE  /\ d <= Len(sent)
                      /\ \A k \in DOMAIN inbox' :
                           inbox'[k].id # 0 => d < inbox'[k].id
    BY DEF SeenIsOlder, IsCommand
  <2>1. CASE d \in Open \cup Replied
    BY <2>1 DEF OnceInv, SeenIsOlder, IsCommand
  <2>2. CASE n = 1 /\ Oldest(d)
    <3>1. 1 \in DOMAIN inbox
      BY <1>1, <2>2 DEF Oldest, OnceInv, TypeInv, TypeOK
    <3>2. d <= Len(sent)
      BY <2>2, <3>1 DEF Oldest, OnceInv, InboxSent
    <3>3. ASSUME NEW k \in DOMAIN inbox', inbox'[k].id # 0
          PROVE  d < inbox'[k].id
      <4>1. k + 1 \in DOMAIN inbox /\ inbox'[k] = inbox[k + 1] /\ 1 < k + 1
        BY <1>1, <2>2, <3>3
      <4> QED
        BY <2>2, <3>1, <3>3, <4>1 DEF Oldest, OnceInv, InboxSorted, IsCommand
    <3> QED
      BY <3>2, <3>3
  <2> QED
    BY <2>1, <2>2
<1> QED
  BY <1>2, <1>3, <1>4 DEF OnceInv, SlotUnanswered

\* The inbox after the oldest call was taken off it.
LEMMA OldestTaken ==
  ASSUME TypeInv, inbox # <<>>, inbox' = Tail(inbox)
  PROVE  /\ 1 \in DOMAIN inbox /\ Head(inbox) = inbox[1]
         /\ Head(inbox).id \in 0..MaxRequests
         /\ \A k \in DOMAIN inbox' :
              /\ k \in Nat /\ k >= 1
              /\ k + 1 \in DOMAIN inbox /\ inbox'[k] = inbox[k + 1]
         /\ \A k \in DOMAIN inbox :
              k = 1 \/ (k \in Nat /\ k - 1 \in DOMAIN inbox' /\ k - 1 >= 1
                        /\ inbox[k] = inbox'[k - 1])
<1>1. inbox \in Seq(Message)
  BY OnceTypes
<1>2. /\ 1 \in DOMAIN inbox /\ Head(inbox) = inbox[1] /\ inbox[1] \in Message
      /\ DOMAIN inbox = 1..Len(inbox) /\ Len(inbox) \in Nat /\ Len(inbox) >= 1
      /\ DOMAIN inbox' = 1..(Len(inbox) - 1)
      /\ \A i \in 1..(Len(inbox) - 1) : inbox'[i] = inbox[i + 1]
  BY <1>1, TailFacts
<1>3. Head(inbox).id \in 0..MaxRequests
  BY <1>2 DEF Message
<1>4. ASSUME NEW k \in DOMAIN inbox'
      PROVE  /\ k \in Nat /\ k >= 1
             /\ k + 1 \in DOMAIN inbox /\ inbox'[k] = inbox[k + 1]
  BY <1>2
<1>5. ASSUME NEW k \in DOMAIN inbox, k # 1
      PROVE  /\ k \in Nat /\ k - 1 \in DOMAIN inbox' /\ k - 1 >= 1
             /\ inbox[k] = inbox'[k - 1]
  <2>1. k \in Nat /\ k - 1 \in 1..(Len(inbox) - 1) /\ k - 1 >= 1
        /\ (k - 1) + 1 = k
    BY <1>2, <1>5
  <2> QED
    BY <1>2, <2>1
<1> QED
  BY <1>2, <1>3, <1>4, <1>5

\* The inbox after a call was added to it.
LEMMA CallAdded ==
  ASSUME TypeInv, NEW e \in Message, inbox' = Append(inbox, e)
  PROVE  /\ DOMAIN inbox = 1..Len(inbox) /\ Len(inbox) \in Nat
         /\ DOMAIN inbox' = 1..(Len(inbox) + 1)
         /\ \A k \in DOMAIN inbox :
              k \in DOMAIN inbox' /\ k < Len(inbox) + 1 /\ inbox'[k] = inbox[k]
         /\ \A k \in DOMAIN inbox' : k \in DOMAIN inbox \/ k = Len(inbox) + 1
         /\ Len(inbox) + 1 \in DOMAIN inbox'
         /\ inbox'[Len(inbox) + 1] = e
<1>1. inbox \in Seq(Message)
  BY OnceTypes
<1> QED
  BY <1>1, AppendFacts

\* A step that leaves sent, inbox and answers alone and stores and shows
\* nothing new.
LEMMA OnceForgets ==
  ASSUME OnceInv, TypeInv', UNCHANGED <<sent, inbox, replies>>,
         Open' \subseteq Open, slot' \in {0, slot}
  PROVE  OnceInv'
<1>1. TypeInv
  BY DEF OnceInv
<1>2. Replied' = Replied /\ AnsweredOnce'
  BY DEF OnceInv, AnsweredOnce, Replied
<1>3. slot' \notin Replied'
  BY <1>1, <1>2, OnceTypes DEF OnceInv, SlotUnanswered
<1>4. \A k \in DOMAIN inbox' : k + 0 \in DOMAIN inbox /\ inbox'[k] = inbox[k + 0]
  BY <1>1, OnceTypes
<1> QED
  BY <1>2, <1>3, <1>4, OnceKeeps

LEMMA DispatchOnce ==
  ASSUME OnceInv, Dispatch
  PROVE  OnceInv'
<1> DEFINE h == Head(inbox)
<1>1. TypeInv /\ TypeInv' /\ TypeOK /\ inbox # <<>> /\ inbox' = Tail(inbox)
  BY DispatchTypes DEF OnceInv, TypeInv, Dispatch
<1>2. /\ 1 \in DOMAIN inbox /\ h = inbox[1] /\ h.id \in 0..MaxRequests
      /\ \A k \in DOMAIN inbox' : k + 1 \in DOMAIN inbox /\ inbox'[k] = inbox[k + 1]
  BY <1>1, OldestTaken
<1>3. h.id # 0 => /\ Oldest(h.id) /\ h.id \in Request
                  /\ h.id \notin Open \cup Replied
  <2>1. MaxRequests \in Nat
    BY SatAssumption
  <2>2. h.id # 0 => h.id \in Request
    BY <1>2, <2>1 DEF Request
  <2>3. h.id # 0 => \A d \in Open \cup Replied : d < h.id
    BY <1>2 DEF OnceInv, SeenIsOlder, IsCommand
  <2>4. h.id # 0 => h.id \notin Open \cup Replied
    BY <1>1, <2>3, OnceTypes
  <2> QED
    BY <1>1, <1>2, <2>2, <2>4 DEF Oldest
<1>4. 0 \notin Replied /\ Replied \subseteq Request /\ MaxRequests \in Nat
      /\ (slot # 0 => slot \in Request)
  BY <1>1, OnceTypes DEF Open
<1>5. sent' = sent
  BY DEF Dispatch, daemon
<1> SUFFICES /\ \A d \in Open' \cup Replied' :
                  d \in Open \cup Replied \/ (h.id # 0 /\ d = h.id)
             /\ slot' \notin Replied'
             /\ AnsweredOnce'
  BY <1>1, <1>2, <1>3, <1>5, OnceKeeps
<1> HIDE DEF h
<1>6. ASSUME replies' = replies
      PROVE  Replied' = Replied /\ AnsweredOnce'
  BY <1>6 DEF OnceInv, AnsweredOnce, Replied
<1>7. CASE h.id = 0
  <2>1. /\ UNCHANGED replies /\ slot' \in {0, slot}
        /\ dialogs' \in {{}, dialogs}
    BY <1>7 DEF Dispatch, Ended, h
  <2> QED
    BY <1>4, <1>6, <2>1 DEF Open, OnceInv, SlotUnanswered
<1>8. CASE h.id # 0 /\ Refused(h)
  <2>1. Reply(h.id, 0) /\ UNCHANGED <<slot, dialogs>>
    BY <1>8 DEF Refused
  <2>2. Replied' = Replied \cup {h.id} /\ AnsweredOnce'
    BY <1>1, <1>3, <1>4, <1>8, <2>1, ReplyFacts DEF OnceInv
  <2>3. slot # h.id
    BY <1>3, <1>8 DEF Open
  <2> QED
    BY <1>8, <2>1, <2>2, <2>3 DEF Open, OnceInv, SlotUnanswered
<1>9. CASE h.id # 0 /\ Shown(h)
  <2>1. /\ slot' \in {h.id, slot} /\ dialogs' = dialogs \cup {h.id}
        /\ UNCHANGED replies
    BY <1>9 DEF Shown, SlotFor
  <2> QED
    BY <1>3, <1>6, <1>9, <2>1 DEF Open, OnceInv, SlotUnanswered
<1>10. CASE h.id # 0 /\ Unsupported(h)
  <2> DEFINE t == SlotFor(h)
  <2>1. t \in {h.id, slot}
    BY DEF SlotFor
  <2>2. /\ IF t = 0 THEN UNCHANGED replies ELSE Reply(t, 0)
        /\ slot' = 0 /\ UNCHANGED dialogs
    BY <1>10 DEF Unsupported
  <2>3. t \notin Replied
    BY <1>3, <1>10, <2>1 DEF OnceInv, SlotUnanswered
  <2>4. t # 0 => t \in Request
    BY <1>3, <1>4, <1>10, <2>1
  <2> HIDE DEF t
  <2>5. Replied' \subseteq Replied \cup ({t} \ {0}) /\ AnsweredOnce'
    BY <1>1, <1>4, <1>6, <2>2, <2>3, <2>4, ReplyFacts DEF OnceInv
  <2>6. slot' \notin Replied'
    BY <1>4, <2>2, <2>5
  <2> QED
    BY <1>10, <2>1, <2>2, <2>5, <2>6 DEF Open
<1>11. CASE h.id # 0 /\ Unhandled(h)
  <2>1. UNCHANGED <<slot, dialogs, replies>>
    BY <1>11 DEF Unhandled
  <2> QED
    BY <1>6, <2>1 DEF Open, OnceInv, SlotUnanswered
<1> QED
  BY <1>7, <1>8, <1>9, <1>10, <1>11 DEF Dispatch, h

LEMMA CallOnce ==
  ASSUME OnceInv, NEW m \in Method, Call(m), TypeInv'
  PROVE  OnceInv'
<1> DEFINE e == [method |-> m, id |-> Len(sent')]
<1>1. TypeInv
  BY DEF OnceInv
<1>2. /\ inbox \in Seq(Message) /\ sent \in Seq(Method) /\ Len(sent) \in Nat
      /\ \A k \in DOMAIN inbox : k \in Nat /\ inbox[k].id \in Nat
      /\ \A d \in Open \cup Replied : d \in Nat
  BY <1>1, OnceTypes
<1>3. /\ sent' = Append(sent, m) /\ inbox' = Append(inbox, e)
      /\ UNCHANGED <<slot, dialogs, replies>> /\ Len(sent) < MaxRequests
  BY DEF Call
<1>4. Len(sent') = Len(sent) + 1
  BY <1>2, <1>3, AppendFacts
<1>5. e \in Message /\ e.id = Len(sent) + 1
  BY <1>2, <1>3, <1>4, OnceTypes, SatAssumption DEF Message
<1> HIDE DEF e
<1>6. /\ \A k \in DOMAIN inbox : k < Len(inbox) + 1 /\ inbox'[k] = inbox[k]
      /\ \A k \in DOMAIN inbox' : k \in DOMAIN inbox \/ k = Len(inbox) + 1
      /\ Len(inbox) \in Nat
      /\ inbox'[Len(inbox) + 1] = e
  BY <1>1, <1>3, <1>5, CallAdded
<1>7. /\ \A k \in DOMAIN inbox' :
           \/ k \in DOMAIN inbox /\ k < Len(inbox) + 1 /\ inbox'[k].id = inbox[k].id
           \/ k = Len(inbox) + 1 /\ inbox'[k].id = Len(sent) + 1
  BY <1>5, <1>6
<1>8. InboxSorted'
  <2> SUFFICES ASSUME NEW j \in DOMAIN inbox', NEW k \in DOMAIN inbox', j < k,
                      inbox'[j].id # 0, inbox'[k].id # 0
               PROVE  inbox'[j].id < inbox'[k].id
    BY DEF InboxSorted, IsCommand
  <2>1. j \in DOMAIN inbox /\ j \in Nat /\ inbox'[j].id = inbox[j].id
    BY <1>2, <1>6, <1>7
  <2>2. inbox[j].id <= Len(sent)
    BY <2>1 DEF OnceInv, InboxSent
  <2> QED
    BY <1>2, <1>7, <2>1, <2>2 DEF OnceInv, InboxSorted, IsCommand
<1>9. InboxSent'
  BY <1>2, <1>4, <1>7 DEF OnceInv, InboxSent
<1>10. Open' = Open /\ Replied' = Replied
  BY <1>3 DEF Open, Replied
<1>11. SeenIsOlder'
  <2> SUFFICES ASSUME NEW d \in Open \cup Replied
               PROVE  /\ d <= Len(sent')
                      /\ \A k \in DOMAIN inbox' :
                           inbox'[k].id # 0 => d < inbox'[k].id
    BY <1>10 DEF SeenIsOlder, IsCommand
  <2>1. /\ d <= Len(sent) /\ d \in Nat
        /\ \A k \in DOMAIN inbox : inbox[k].id # 0 => d < inbox[k].id
    BY <1>2 DEF OnceInv, SeenIsOlder, IsCommand
  <2> QED
    BY <1>2, <1>4, <1>7, <2>1
<1> QED
  BY <1>3, <1>8, <1>9, <1>10, <1>11
     DEF OnceInv, SlotUnanswered, AnsweredOnce

\* A step that adds a Cancel or a Release to the inbox.
LEMMA EndOnce ==
  ASSUME OnceInv, TypeInv', NEW e \in Message, e.id = 0,
         inbox' = Append(inbox, e), UNCHANGED <<slot, dialogs, sent, replies>>
  PROVE  OnceInv'
<1>1. TypeInv
  BY DEF OnceInv
<1>2. \A k \in DOMAIN inbox' :
        inbox'[k].id = 0 \/ (k + 0 \in DOMAIN inbox /\ inbox'[k] = inbox[k + 0])
  BY <1>1, CallAdded, OnceTypes
<1>3. Open' = Open /\ Replied' = Replied /\ AnsweredOnce'
  BY DEF Open, Replied, OnceInv, AnsweredOnce
<1> QED
  BY <1>2, <1>3, OnceKeeps DEF OnceInv, SlotUnanswered

LEMMA AnswerOnce ==
  ASSUME OnceInv, TypeInv', NEW i \in Request, SendResponse(i)
  PROVE  OnceInv'
<1>1. TypeInv /\ TypeOK
  BY DEF OnceInv, TypeInv
<1>2. /\ 0 \notin Replied /\ (slot # 0 => slot \in Request)
      /\ i \in 0..MaxRequests
  BY <1>1, OnceTypes DEF Open, Request
<1>3. /\ UNCHANGED <<inbox, sent>> /\ slot' = 0 /\ dialogs' \subseteq dialogs
      /\ IF slot = 0 THEN UNCHANGED replies ELSE Reply(slot, i)
  BY DEF SendResponse, daemon
<1>4. CASE slot = 0
  BY <1>3, <1>4, OnceForgets DEF Open
<1>5. CASE slot # 0
  <2>1. Replied' = Replied \cup {slot} /\ AnsweredOnce'
    BY <1>1, <1>2, <1>3, <1>5, ReplyFacts DEF OnceInv, SlotUnanswered
  <2>2. \A k \in DOMAIN inbox' : k + 0 \in DOMAIN inbox /\ inbox'[k] = inbox[k + 0]
    BY <1>1, <1>3, OnceTypes
  <2>3. \A d \in Open' \cup Replied' : d \in Open \cup Replied
    BY <1>3, <1>5, <2>1 DEF Open
  <2>4. slot' \notin Replied'
    BY <1>2, <1>3, <1>5, <2>1
  <2> QED
    BY <1>3, <2>1, <2>2, <2>3, <2>4, OnceKeeps
<1> QED
  BY <1>4, <1>5

LEMMA OnceStep ==
  ASSUME OnceInv, [Next]_vars
  PROVE  OnceInv'
<1>1. TypeInv /\ TypeInv' /\ MaxRequests \in Nat
  BY TypeStep, SatAssumption DEF OnceInv
<1>2. ASSUME NEW m \in Method, Call(m)
      PROVE  OnceInv'
  BY <1>1, <1>2, CallOnce
<1>3. CASE Cancel
  <2>1. [method |-> "Cancel", id |-> 0] \in Message
    BY <1>1 DEF Message
  <2> QED
    BY <1>1, <1>3, <2>1, EndOnce DEF Cancel
<1>4. CASE Release
  <2>1. [method |-> "Release", id |-> 0] \in Message
    BY <1>1 DEF Message
  <2> QED
    BY <1>1, <1>4, <2>1, EndOnce DEF Release
<1>5. CASE Dispatch
  BY <1>5, DispatchOnce
<1>6. CASE TakeAgent \/ Answered \/ InitAgent \/ AgentRegistered \/ AgentFails
  <2>1. UNCHANGED <<slot, dialogs, inbox, sent, replies>>
    BY <1>6
       DEF TakeAgent, Answered, InitAgent, AgentRegistered, AgentFails, daemon
  <2> QED
    BY <1>1, <2>1, OnceForgets DEF Open
<1>7. CASE Return \/ DeinitAgent
  <2>1. /\ UNCHANGED <<sent, inbox, replies>> /\ slot' \in {0, slot}
        /\ dialogs' \in {{}, dialogs}
    BY <1>7 DEF Return, DeinitAgent, daemon
  <2> QED
    BY <1>1, <2>1, OnceForgets DEF Open
<1>8. ASSUME NEW i \in Request, SendResponse(i)
      PROVE  OnceInv'
  BY <1>1, <1>8, AnswerOnce
<1>9. CASE UNCHANGED vars
  BY <1>1, <1>9, OnceForgets DEF vars, Open
<1> QED
  BY <1>2, <1>3, <1>4, <1>5, <1>6, <1>7, <1>8, <1>9 DEF Next, Respond

LEMMA OnceInit ==
  ASSUME Init
  PROVE  OnceInv
<1>1. TypeInv
  BY TypeInit
<1>2. Replied = {} /\ Open = {} /\ DOMAIN inbox = {} /\ DOMAIN replies = {}
  BY DEF Init, Replied, Open
<1> QED
  BY <1>1, <1>2
     DEF OnceInv, InboxSorted, InboxSent, SeenIsOlder, SlotUnanswered,
         AnsweredOnce

\* However Cancel, Release, answers and the end of the agent cross, and
\* whichever callbacks are set, no invocation is answered a second time.
THEOREM AnsweredOnceCorrect == Spec => []AnsweredOnce
<1>1. OnceInv /\ [Next]_vars => OnceInv'
  BY OnceStep
<1>2. Init => OnceInv
  BY OnceInit
<1>3. OnceInv => AnsweredOnce
  BY DEF OnceInv
<1> QED
  BY <1>1, <1>2, <1>3, PTL DEF Spec

-----------------------------------------------------------------------------
(***************************************************************************)
(* Answers go to the command their dialog shows                            *)
(***************************************************************************)

\* A step that leaves the inbox alone, opens no dialog, and makes the daemon
\* wait for a command of the agent only if it did before.
LEMMA ReachKeeps ==
  ASSUME ReachInv, OnceInv', UNCHANGED inbox,
         BeforeRegistration', HeldByAgent',
         dialogs' \subseteq dialogs, slot' \in {0, slot},
         Open' = {} \/ UNCHANGED replies, AnswerReachesItsCommand',
         pc' = "ending" => pc = "ending",
         pc = "ending" /\ pc' # "ending" => Open' = {},
         \A d \in Open' \cup {inbox[k].id : k \in DOMAIN inbox} :
           d = awaiting \/ ~known => d = awaiting' \/ ~known'
  PROVE  ReachInv'
<1>1. Open' \subseteq Open
  BY DEF Open
<1>2. EndingCloses'
  BY DEF ReachInv, EndingCloses
<1>3. OneShown'
  <2>1. CASE Open' = {}
    BY <2>1 DEF Open, OneShown
  <2>2. CASE UNCHANGED replies
    BY <2>2 DEF ReachInv, OneShown, Replied
  <2> QED
    BY <2>1, <2>2
<1>4. CancelledOrCurrent'
  <2>1. ASSUME NEW k \in DOMAIN inbox, IsCommand(k)
        PROVE  inbox[k].id = awaiting' \/ ~known'
                 \/ \E c \in DOMAIN inbox : k < c /\ IsCancel(c)
    BY <2>1 DEF ReachInv, CancelledOrCurrent, GivenUp
  <2>2. ASSUME pc' # "ending", NEW d \in Open'
        PROVE  d = awaiting' \/ ~known'
                 \/ \E c \in DOMAIN inbox : 0 < c /\ IsCancel(c)
    BY <1>1, <2>2 DEF ReachInv, CancelledOrCurrent, GivenUp
  <2> QED
    BY <2>1, <2>2 DEF CancelledOrCurrent, GivenUp, IsCommand, IsCancel
<1>5. CancelledBetween'
  BY DEF ReachInv, CancelledBetween, IsCommand, IsCancel
<1>6. CancelledBehind'
  BY <1>1 DEF ReachInv, CancelledBehind, IsCommand, IsCancel
<1> QED
  BY <1>2, <1>3, <1>4, <1>5, <1>6 DEF ReachInv

\* A step that takes the oldest call off the inbox.
LEMMA ReachTakes ==
  ASSUME ReachInv, OnceInv', inbox # <<>>, inbox' = Tail(inbox), pc = "idle",
         UNCHANGED <<agent, awaiting, known>>,
         HeldByAgent', EndingCloses', OneShown', AnswerReachesItsCommand',
         \/ pc' = "ending"
         \/ Open' = {}
         \/ Open' = {inbox[1].id} /\ IsCommand(1)
         \/ Open' \subseteq Open /\ ~IsCommand(1) /\ ~IsCancel(1)
  PROVE  ReachInv'
<1>1. /\ 1 \in DOMAIN inbox
      /\ \A k \in DOMAIN inbox' :
           /\ k \in Nat /\ k >= 1
           /\ k + 1 \in DOMAIN inbox /\ inbox'[k] = inbox[k + 1]
      /\ \A k \in DOMAIN inbox :
           k = 1 \/ (k \in Nat /\ k - 1 \in DOMAIN inbox' /\ k - 1 >= 1
                     /\ inbox[k] = inbox'[k - 1])
  BY OldestTaken DEF ReachInv, OnceInv
<1>2. BeforeRegistration'
  BY DEF ReachInv, BeforeRegistration
\* A Cancel that is not the oldest call is still there, one place further on.
<1>3. \A c \in DOMAIN inbox :
        c # 1 /\ IsCancel(c) =>
          /\ c \in Nat /\ c - 1 >= 1
          /\ c - 1 \in DOMAIN inbox' /\ IsCancel(c - 1)'
  BY <1>1 DEF IsCancel
<1>4. ASSUME NEW d, NEW k \in Nat, k >= 1, GivenUp(d, k)
      PROVE  GivenUp(d, k - 1)'
  <2>1. CASE d = awaiting \/ ~known
    BY <2>1 DEF GivenUp
  <2>2. CASE \E c \in DOMAIN inbox : k < c /\ IsCancel(c)
    <3>1. PICK c \in DOMAIN inbox : k < c /\ IsCancel(c)
      BY <2>2
    <3>2. c # 1 /\ c - 1 \in DOMAIN inbox' /\ IsCancel(c - 1)' /\ c \in Nat
      BY <1>3, <1>4, <3>1
    <3>3. k - 1 < c - 1
      BY <1>4, <3>1, <3>2
    <3> QED
      BY <3>2, <3>3 DEF GivenUp
  <2> QED
    BY <1>4, <2>1, <2>2 DEF GivenUp
<1>5. ASSUME NEW k \in DOMAIN inbox', IsCommand(k)',
             NEW d, d = inbox'[k].id
      PROVE  GivenUp(d, k)'
  <2>1. k + 1 \in DOMAIN inbox /\ IsCommand(k + 1)
        /\ d = inbox[k + 1].id
        /\ k + 1 \in Nat /\ k + 1 >= 1 /\ (k + 1) - 1 = k
    BY <1>1, <1>5 DEF IsCommand
  <2>2. GivenUp(d, k + 1)
    BY <2>1 DEF ReachInv, CancelledOrCurrent
  <2>3. GivenUp(d, (k + 1) - 1)'
    BY <1>4, <2>1, <2>2
  <2> QED
    BY <2>1, <2>3 DEF GivenUp
<1>6. ASSUME pc' # "ending", NEW d \in Open'
      PROVE  GivenUp(d, 0)'
  <2>1. CASE d = inbox[1].id /\ IsCommand(1)
    <3>1. GivenUp(d, 1)
      BY <1>1, <2>1 DEF ReachInv, CancelledOrCurrent
    <3>2. GivenUp(d, 1 - 1)'
      BY <1>4, <3>1
    <3> QED
      BY <3>2
  <2>2. CASE d \in Open /\ ~IsCommand(1) /\ ~IsCancel(1)
    <3>1. GivenUp(d, 0)
      BY <2>2 DEF ReachInv, CancelledOrCurrent
    <3>2. CASE d = awaiting \/ ~known
      BY <3>2 DEF GivenUp
    <3>3. CASE \E c \in DOMAIN inbox : IsCancel(c)
      <4>1. PICK c \in DOMAIN inbox : IsCancel(c)
        BY <3>3
      <4>2. c - 1 \in DOMAIN inbox' /\ IsCancel(c - 1)' /\ 0 < c - 1
        BY <1>3, <2>2, <4>1
      <4> QED
        BY <4>2 DEF GivenUp
    <3> QED
      BY <3>1, <3>2, <3>3 DEF GivenUp
  <2> QED
    BY <1>6, <2>1, <2>2
<1>7. CancelledOrCurrent'
  BY <1>5, <1>6 DEF CancelledOrCurrent, GivenUp
<1>8. ASSUME NEW j \in DOMAIN inbox, NEW k \in DOMAIN inbox',
             j >= 1, j < k + 1, IsCommand(j), IsCommand(k)'
      PROVE  \E c \in DOMAIN inbox' : j - 1 < c /\ c < k /\ IsCancel(c)'
  <2>1. k + 1 \in DOMAIN inbox /\ IsCommand(k + 1) /\ k \in Nat
    BY <1>1, <1>8 DEF IsCommand
  <2>2. PICK c \in DOMAIN inbox : j < c /\ c < k + 1 /\ IsCancel(c)
    BY <1>8, <2>1 DEF ReachInv, CancelledBetween
  <2>3. j \in Nat
    BY <1>1
  <2>4. c # 1
    BY <1>8, <2>2, <2>3
  <2>5. c \in Nat /\ c - 1 \in DOMAIN inbox' /\ IsCancel(c - 1)'
    BY <1>3, <2>2, <2>4
  <2>6. j - 1 < c - 1 /\ c - 1 < k
    BY <2>1, <2>2, <2>3, <2>5
  <2> QED
    BY <2>5, <2>6
<1>9. CancelledBetween'
  <2> SUFFICES ASSUME NEW j \in DOMAIN inbox', NEW k \in DOMAIN inbox', j < k,
                      IsCommand(j)', IsCommand(k)'
               PROVE  \E c \in DOMAIN inbox' : j < c /\ c < k /\ IsCancel(c)'
    BY DEF CancelledBetween
  <2>1. j + 1 \in DOMAIN inbox /\ IsCommand(j + 1) /\ j \in Nat /\ k \in Nat
        /\ (j + 1) - 1 = j /\ j + 1 >= 1 /\ j + 1 < k + 1
    BY <1>1 DEF IsCommand
  <2> QED
    BY <1>8, <2>1
<1>10. CancelledBehind'
  <2> SUFFICES ASSUME pc' # "ending", Open' # {},
                      NEW k \in DOMAIN inbox', IsCommand(k)'
               PROVE  \E c \in DOMAIN inbox' : c < k /\ IsCancel(c)'
    BY DEF CancelledBehind
  <2>1. k \in Nat /\ 1 < k + 1 /\ k + 1 \in DOMAIN inbox /\ IsCommand(k + 1)
    BY <1>1 DEF IsCommand
  <2>2. CASE IsCommand(1)
    <3>1. \E c \in DOMAIN inbox' : 1 - 1 < c /\ c < k /\ IsCancel(c)'
      BY <1>1, <1>8, <2>1, <2>2
    <3> QED
      BY <3>1
  <2>3. CASE Open # {} /\ ~IsCommand(1) /\ ~IsCancel(1)
    <3>1. PICK c \in DOMAIN inbox : c < k + 1 /\ IsCancel(c)
      BY <2>1, <2>3 DEF ReachInv, CancelledBehind
    <3>2. c \in Nat /\ c - 1 \in DOMAIN inbox' /\ IsCancel(c - 1)'
      BY <1>3, <2>3, <3>1
    <3>3. c - 1 < k
      BY <2>1, <3>1, <3>2
    <3> QED
      BY <3>2, <3>3
  <2> QED
    BY <2>2, <2>3
<1> QED
  BY <1>2, <1>7, <1>9, <1>10 DEF ReachInv

LEMMA DispatchReach ==
  ASSUME "cancel" \in Supplied, ReachInv, OnceInv', Dispatch
  PROVE  ReachInv'
<1> DEFINE h == Head(inbox)
<1>1. TypeInv /\ TypeOK /\ inbox # <<>> /\ inbox' = Tail(inbox) /\ pc = "idle"
      /\ UNCHANGED <<agent, awaiting, known>>
  BY DEF ReachInv, OnceInv, TypeInv, Dispatch, daemon
<1>2. 1 \in DOMAIN inbox /\ h = inbox[1] /\ h.id \in 0..MaxRequests
      /\ \A k \in DOMAIN inbox : k \in Nat /\ k >= 1
  BY <1>1, OldestTaken, OnceTypes
<1>3. h.id # 0 => /\ Open = {} /\ slot = 0 /\ dialogs = {}
                  /\ h.id \in Request /\ h.id \notin Replied
  <2>1. h.id # 0 => Open = {}
    BY <1>1, <1>2 DEF ReachInv, CancelledBehind, IsCommand
  <2>2. Open = {} => slot = 0 /\ dialogs = {}
    BY DEF Open
  <2>3. h.id # 0 => h.id \in Request
    BY <1>2, SatAssumption DEF Request
  <2>4. h.id # 0 => \A d \in Replied : d < h.id
    BY <1>2 DEF ReachInv, OnceInv, SeenIsOlder, IsCommand
  <2>5. h.id # 0 => h.id \notin Replied
    BY <1>1, <2>4, OnceTypes
  <2> QED
    BY <2>1, <2>2, <2>3, <2>5
<1> HIDE DEF h
<1>4. ASSUME UNCHANGED replies
      PROVE  Replied' = Replied /\ AnswerReachesItsCommand'
  BY <1>4 DEF Replied, ReachInv, AnswerReachesItsCommand
<1>5. CASE h.id = 0
  <2>0. Ended(h) /\ ~IsCommand(1)
    BY <1>2, <1>5 DEF Dispatch, h, IsCommand
  <2>1. UNCHANGED replies
    BY <2>0 DEF Ended
  <2>2. CASE agent # "registered"
    <3>1. Open = {} /\ UNCHANGED <<slot, dialogs, pc>>
      BY <2>0, <2>2 DEF Ended, ReachInv, HeldByAgent
    <3>2. Open' = {} /\ dialogs' = {}
      BY <3>1 DEF Open
    <3> QED
      BY <1>1, <1>4, <2>1, <3>2, ReachTakes
         DEF HeldByAgent, EndingCloses, OneShown
  <2>3. CASE agent = "registered" /\ pc' = "ending" /\ dialogs' = {}
    BY <1>1, <1>4, <2>1, <2>3, ReachTakes
       DEF HeldByAgent, EndingCloses, OneShown
  <2>4. CASE /\ agent = "registered" /\ h.method # "Cancel"
             /\ slot' = 0 /\ UNCHANGED <<pc, dialogs>>
    <3>1. Open' \subseteq Open /\ ~IsCancel(1)
      BY <1>2, <2>4 DEF Open, IsCancel
    <3>2. HeldByAgent' /\ EndingCloses'
      BY <1>1, <2>4 DEF HeldByAgent, EndingCloses
    <3>3. OneShown'
      BY <1>4, <2>1, <2>4 DEF ReachInv, OneShown
    <3> QED
      BY <1>1, <1>4, <2>0, <2>1, <3>1, <3>2, <3>3, ReachTakes
  <2> QED
    BY <2>0, <2>2, <2>3, <2>4 DEF Ended
<1>6. CASE h.id # 0 /\ Shown(h)
  <2>1. /\ slot' \in {0, h.id} /\ dialogs' = {h.id} /\ pc' = "command"
        /\ UNCHANGED replies /\ agent = "registered"
    BY <1>3, <1>6 DEF Shown, SlotFor
  <2>2. Open' = {h.id} /\ IsCommand(1)
    BY <1>2, <1>6, <2>1 DEF Open, IsCommand
  <2>3. HeldByAgent' /\ EndingCloses'
    BY <1>1, <2>1 DEF HeldByAgent, EndingCloses
  <2>4. OneShown'
    BY <1>3, <1>4, <1>6, <2>1 DEF OneShown
  <2> QED
    BY <1>1, <1>2, <1>4, <2>1, <2>2, <2>3, <2>4, ReachTakes
\* Every other command is answered at once, or by nobody.
<1>7. CASE h.id # 0 /\ ~Shown(h)
  <2>1. slot' = 0 /\ dialogs' = {} /\ UNCHANGED pc
        /\ (UNCHANGED replies \/ Reply(h.id, 0))
    BY <1>3, <1>7 DEF Dispatch, h, Refused, Unsupported, Unhandled, SlotFor
  <2>2. 0 \in 0..MaxRequests
    BY SatAssumption
  <2>3. AnswerReachesItsCommand'
    BY <1>1, <1>3, <1>4, <1>7, <2>1, <2>2, ReplyFacts DEF ReachInv
  <2>4. Open' = {} /\ HeldByAgent' /\ EndingCloses' /\ OneShown'
    BY <2>1 DEF Open, HeldByAgent, EndingCloses, OneShown
  <2> QED
    BY <1>1, <2>3, <2>4, ReachTakes
<1> QED
  BY <1>5, <1>6, <1>7

LEMMA CallReach ==
  ASSUME ReachInv, OnceInv', NEW m \in Method, Call(m)
  PROVE  ReachInv'
<1> DEFINE e == [method |-> m, id |-> Len(sent')]
           n == Len(inbox) + 1
<1>1. /\ known /\ awaiting = 0 /\ awaiting' = Len(sent')
      /\ sent' = Append(sent, m) /\ inbox' = Append(inbox, e)
      /\ UNCHANGED <<agent, slot, pc, dialogs, known, replies>>
      /\ Len(sent) < MaxRequests
  BY DEF Call
<1>2. TypeInv
  BY DEF ReachInv, OnceInv
<1>3. Len(sent') = Len(sent) + 1 /\ Len(sent) \in Nat
  BY <1>1, <1>2, OnceTypes, AppendFacts
<1>4. e \in Message /\ e.id = awaiting' /\ e.id # 0
  BY <1>1, <1>2, <1>3, OnceTypes DEF Message
<1> HIDE DEF e
<1>5. /\ \A k \in DOMAIN inbox :
           k \in DOMAIN inbox' /\ k < n /\ inbox'[k] = inbox[k] /\ k \in Nat
      /\ \A k \in DOMAIN inbox' : k \in DOMAIN inbox \/ k = n
      /\ n \in DOMAIN inbox' /\ inbox'[n] = e /\ n \in Nat
  BY <1>1, <1>2, <1>4, CallAdded, OnceTypes
<1> HIDE DEF n
<1>6. \A c \in DOMAIN inbox : IsCancel(c) => c \in DOMAIN inbox' /\ IsCancel(c)'
  BY <1>5 DEF IsCancel
\* What the daemon gave up it gave up by a Cancel.
<1>7. ASSUME NEW d, NEW k, d # 0, GivenUp(d, k)
      PROVE  \E c \in DOMAIN inbox : k < c /\ c < n /\ IsCancel(c)
  BY <1>1, <1>5, <1>7 DEF GivenUp
<1>8. Open' = Open /\ \A d \in Open : d # 0
  BY <1>1, <1>2, OnceTypes DEF Open
<1>9. CancelledOrCurrent'
  <2>1. ASSUME NEW k \in DOMAIN inbox', IsCommand(k)', NEW d, d = inbox'[k].id
        PROVE  GivenUp(d, k)'
    <3>1. CASE k = n
      BY <1>4, <1>5, <2>1, <3>1 DEF GivenUp
    <3>2. CASE k \in DOMAIN inbox
      <4>1. IsCommand(k) /\ d = inbox[k].id /\ d # 0
        BY <1>5, <2>1, <3>2 DEF IsCommand
      <4>2. GivenUp(d, k)
        BY <3>2, <4>1 DEF ReachInv, CancelledOrCurrent
      <4> QED
        BY <1>6, <1>7, <4>1, <4>2 DEF GivenUp
    <3> QED
      BY <1>5, <3>1, <3>2
  <2>2. ASSUME pc' # "ending", NEW d \in Open'
        PROVE  GivenUp(d, 0)'
    <3>1. GivenUp(d, 0) /\ d # 0
      BY <1>1, <1>8, <2>2 DEF ReachInv, CancelledOrCurrent
    <3> QED
      BY <1>6, <1>7, <3>1 DEF GivenUp
  <2> QED
    BY <2>1, <2>2 DEF CancelledOrCurrent, GivenUp
<1>10. CancelledBetween'
  <2> SUFFICES ASSUME NEW j \in DOMAIN inbox', NEW k \in DOMAIN inbox', j < k,
                      IsCommand(j)', IsCommand(k)'
               PROVE  \E c \in DOMAIN inbox' : j < c /\ c < k /\ IsCancel(c)'
    BY DEF CancelledBetween
  <2>1. j \in DOMAIN inbox /\ IsCommand(j)
    BY <1>5 DEF IsCommand
  <2>2. CASE k = n
    <3>1. PICK d : d = inbox[j].id
      OBVIOUS
    <3>2. GivenUp(d, j) /\ d # 0
      BY <2>1, <3>1 DEF ReachInv, CancelledOrCurrent, IsCommand
    <3> QED
      BY <1>6, <1>7, <2>2, <3>2
  <2>3. CASE k \in DOMAIN inbox
    <3>1. IsCommand(k)
      BY <1>5, <2>3 DEF IsCommand
    <3>2. \E c \in DOMAIN inbox : j < c /\ c < k /\ IsCancel(c)
      BY <2>1, <2>3, <3>1 DEF ReachInv, CancelledBetween
    <3> QED
      BY <1>6, <3>2
  <2> QED
    BY <1>5, <2>2, <2>3
<1>11. CancelledBehind'
  <2> SUFFICES ASSUME pc # "ending", NEW d \in Open,
                      NEW k \in DOMAIN inbox', IsCommand(k)'
               PROVE  \E c \in DOMAIN inbox' : c < k /\ IsCancel(c)'
    BY <1>1, <1>8 DEF CancelledBehind
  <2>1. CASE k = n
    <3>1. GivenUp(d, 0) /\ d # 0
      BY <1>8 DEF ReachInv, CancelledOrCurrent
    <3> QED
      BY <1>6, <1>7, <2>1, <3>1
  <2>2. CASE k \in DOMAIN inbox
    <3>1. IsCommand(k)
      BY <1>5, <2>2 DEF IsCommand
    <3>2. \E c \in DOMAIN inbox : c < k /\ IsCancel(c)
      BY <2>2, <3>1 DEF ReachInv, CancelledBehind
    <3> QED
      BY <1>6, <3>2
  <2> QED
    BY <1>5, <2>1, <2>2
<1>12. BeforeRegistration'
  BY <1>1 DEF ReachInv, BeforeRegistration
<1>13. HeldByAgent' /\ EndingCloses' /\ AnswerReachesItsCommand' /\ OneShown'
  BY <1>1, <1>8
     DEF ReachInv, HeldByAgent, EndingCloses, AnswerReachesItsCommand, OneShown,
         Replied
<1> QED
  BY <1>9, <1>10, <1>11, <1>12, <1>13 DEF ReachInv

\* A step that adds a Cancel or a Release to the inbox.
LEMMA EndReach ==
  ASSUME ReachInv, OnceInv', NEW e \in Message, e.id = 0,
         inbox' = Append(inbox, e),
         UNCHANGED <<agent, slot, pc, dialogs, replies>>,
         agent \notin {"none", "offered"},
         e.method = "Cancel" \/ ~known'
  PROVE  ReachInv'
<1>0. PICK n : n = Len(inbox) + 1
  OBVIOUS
<1>1. TypeInv
  BY DEF ReachInv, OnceInv
<1>2. /\ \A k \in DOMAIN inbox :
           k \in DOMAIN inbox' /\ k < n /\ inbox'[k] = inbox[k] /\ k \in Nat
      /\ \A k \in DOMAIN inbox' : k \in DOMAIN inbox \/ k = n
      /\ n \in DOMAIN inbox' /\ inbox'[n] = e /\ n \in Nat /\ n > 0
  BY <1>0, <1>1, CallAdded, OnceTypes
<1>3. \A c \in DOMAIN inbox : IsCancel(c) => c \in DOMAIN inbox' /\ IsCancel(c)'
  BY <1>2 DEF IsCancel
<1>4. \A k \in DOMAIN inbox' : IsCommand(k)' => k \in DOMAIN inbox /\ IsCommand(k)
  BY <1>2 DEF IsCommand
<1>5. ASSUME NEW d, NEW k \in DOMAIN inbox \cup {0}
      PROVE  GivenUp(d, k)'
  <2>1. k < n
    BY <1>2
  <2>2. ~known' \/ IsCancel(n)'
    BY <1>2 DEF IsCancel
  <2> QED
    BY <1>2, <2>1, <2>2 DEF GivenUp
<1>6. CancelledOrCurrent'
  BY <1>4, <1>5 DEF CancelledOrCurrent, GivenUp
<1>7. CancelledBetween'
  BY <1>3, <1>4 DEF ReachInv, CancelledBetween
<1>8. Open' = Open
  BY DEF Open
<1>9. CancelledBehind'
  BY <1>3, <1>4, <1>8 DEF ReachInv, CancelledBehind
<1>10. HeldByAgent' /\ EndingCloses' /\ AnswerReachesItsCommand' /\ OneShown'
  BY <1>8
     DEF ReachInv, HeldByAgent, EndingCloses, AnswerReachesItsCommand, OneShown,
         Replied
<1>11. BeforeRegistration'
  BY DEF BeforeRegistration
<1> QED
  BY <1>6, <1>7, <1>9, <1>10, <1>11 DEF ReachInv

LEMMA ReachStep ==
  ASSUME "cancel" \in Supplied, ReachInv, [Next]_vars
  PROVE  ReachInv'
<1>1. OnceInv' /\ TypeInv /\ TypeOK /\ MaxRequests \in Nat
  BY OnceStep, SatAssumption DEF ReachInv, OnceInv, TypeInv
<1>2. ASSUME UNCHANGED replies
      PROVE  AnswerReachesItsCommand'
  BY <1>2 DEF ReachInv, AnswerReachesItsCommand
<1>3. ASSUME NEW m \in Method, Call(m)
      PROVE  ReachInv'
  BY <1>1, <1>3, CallReach
<1>4. CASE Cancel
  <2>1. [method |-> "Cancel", id |-> 0] \in Message
    BY <1>1 DEF Message
  <2>2. agent \notin {"none", "offered"}
    BY <1>4 DEF Cancel, ReachInv, BeforeRegistration
  <2> QED
    BY <1>1, <1>4, <2>1, <2>2, EndReach DEF Cancel
<1>5. CASE Release
  <2>1. [method |-> "Release", id |-> 0] \in Message
    BY <1>1 DEF Message
  <2>2. agent \notin {"none", "offered"}
    BY <1>5 DEF Release, ReachInv, BeforeRegistration
  <2> QED
    BY <1>1, <1>5, <2>1, <2>2, EndReach DEF Release
<1>6. CASE TakeAgent
  <2>1. /\ inbox = <<>> /\ Open = {}
        /\ UNCHANGED <<slot, pc, dialogs, inbox, replies>>
        /\ agent' = "taken"
    BY <1>6 DEF TakeAgent, ReachInv, BeforeRegistration, HeldByAgent
  <2>2. Open' = {} /\ DOMAIN inbox = {}
    BY <2>1 DEF Open
  <2>3. BeforeRegistration' /\ HeldByAgent'
    BY <2>1, <2>2 DEF BeforeRegistration, HeldByAgent
  <2> QED
    BY <1>1, <1>2, <2>1, <2>2, <2>3, ReachKeeps
\* The command in progress was answered: it is neither open nor in the inbox.
<1>7. CASE Answered
  <2>1. /\ awaiting \in Replied
        /\ UNCHANGED <<agent, slot, pc, dialogs, inbox, known, replies>>
    BY <1>7 DEF Answered, Replied
  <2>2. Open' = Open
    BY <2>1 DEF Open
  <2>3. \A d \in Open : d \notin Replied
    BY <1>1, OnceTypes
       DEF Open, ReachInv, OnceInv, SlotUnanswered, OneShown
  <2>4. \A k \in DOMAIN inbox : inbox[k].id \notin Replied
    <3>1. \A k \in DOMAIN inbox :
            IsCommand(k) => \A d \in Replied : d < inbox[k].id
      BY DEF ReachInv, OnceInv, SeenIsOlder
    <3> QED
      BY <1>1, <3>1, OnceTypes DEF IsCommand
  <2>5. BeforeRegistration' /\ HeldByAgent'
    BY <1>7, <2>1, <2>2
       DEF Answered, ReachInv, BeforeRegistration, HeldByAgent
  <2> QED
    BY <1>1, <1>2, <2>1, <2>2, <2>3, <2>4, <2>5, ReachKeeps
<1>8. CASE Dispatch
  BY <1>1, <1>8, DispatchReach
<1>9. CASE Return
  <2>1. /\ UNCHANGED <<agent, dialogs, inbox, awaiting, known, replies>>
        /\ slot' \in {0, slot} /\ pc' # "ending"
    BY <1>9 DEF Return, daemon
  <2>2. pc = "ending" => Open' = {}
    <3>1. pc = "ending" => dialogs = {}
      BY DEF ReachInv, EndingCloses
    <3>2. pc = "ending" => slot' = 0
      <4>1. agent # "registered" => slot = 0
        BY DEF ReachInv, HeldByAgent, Open
      <4> QED
        BY <1>9, <4>1 DEF Return
    <3> QED
      BY <2>1, <3>1, <3>2 DEF Open
  <2>3. BeforeRegistration'
    BY <2>1 DEF ReachInv, BeforeRegistration
  <2>4. HeldByAgent'
    BY <2>1 DEF ReachInv, HeldByAgent, Open
  <2> QED
    BY <1>1, <1>2, <2>1, <2>2, <2>3, <2>4, ReachKeeps
<1>10. CASE InitAgent \/ AgentRegistered \/ AgentFails
  <2>1. /\ UNCHANGED <<slot, pc, dialogs, inbox, awaiting, known, replies>>
        /\ agent # "registered"
        /\ agent' \in {"offered", "none"} => agent \in {"offered", "none"}
    BY <1>10 DEF InitAgent, AgentRegistered, AgentFails, daemon
  <2>2. Open = {} /\ Open' = Open
    BY <2>1 DEF ReachInv, HeldByAgent, Open
  <2>3. BeforeRegistration' /\ HeldByAgent'
    BY <2>1, <2>2 DEF ReachInv, BeforeRegistration, HeldByAgent
  <2> QED
    BY <1>1, <1>2, <2>1, <2>2, <2>3, ReachKeeps
<1>11. CASE DeinitAgent
  <2>1. /\ UNCHANGED <<pc, inbox, replies>> /\ agent' = "freed"
        /\ slot' = 0 /\ dialogs' = {}
    BY <1>11 DEF DeinitAgent
  <2>2. Open' = {}
    BY <2>1 DEF Open
  <2>3. \A d : d = awaiting \/ ~known => d = awaiting' \/ ~known'
    BY <1>11 DEF DeinitAgent
  <2>4. BeforeRegistration' /\ HeldByAgent'
    BY <2>1, <2>2 DEF BeforeRegistration, HeldByAgent
  <2> QED
    BY <1>1, <1>2, <2>1, <2>2, <2>3, <2>4, ReachKeeps
<1>12. ASSUME NEW i \in Request, SendResponse(i)
       PROVE  ReachInv'
  <2>1. /\ UNCHANGED <<agent, pc, inbox, awaiting, known>>
        /\ slot' = 0 /\ dialogs' = dialogs \ {i} /\ i \in dialogs
        /\ IF slot = 0 THEN UNCHANGED replies ELSE Reply(slot, i)
    BY <1>12 DEF SendResponse, daemon
  <2>2. dialogs = {i} /\ slot \in {0, i}
    BY <2>1 DEF ReachInv, OneShown
  <2>3. Open' = {}
    BY <2>1, <2>2 DEF Open
  <2>4. AnswerReachesItsCommand'
    <3>1. i \in 0..MaxRequests
      BY <1>1 DEF Request
    <3> QED
      BY <1>1, <1>2, <2>1, <2>2, <3>1, ReplyFacts DEF ReachInv
  <2>5. BeforeRegistration' /\ HeldByAgent'
    BY <2>1, <2>3 DEF ReachInv, BeforeRegistration, HeldByAgent
  <2> QED
    BY <1>1, <2>1, <2>3, <2>4, <2>5, ReachKeeps
<1>13. CASE UNCHANGED vars
  <2>1. UNCHANGED <<agent, slot, pc, dialogs, inbox, awaiting, known, replies>>
    BY <1>13 DEF vars
  <2>2. BeforeRegistration' /\ HeldByAgent'
    BY <2>1 DEF ReachInv, BeforeRegistration, HeldByAgent, Open
  <2> QED
    BY <1>1, <1>2, <2>1, <2>2, ReachKeeps
<1> QED
  BY <1>3, <1>4, <1>5, <1>6, <1>7, <1>8, <1>9, <1>10, <1>11, <1>12, <1>13
     DEF Next, Respond

LEMMA ReachInit ==
  ASSUME Init
  PROVE  ReachInv
<1>1. OnceInv
  BY OnceInit
<1>2. /\ Open = {} /\ dialogs = {} /\ inbox = <<>> /\ DOMAIN inbox = {}
      /\ DOMAIN replies = {} /\ pc = "idle" /\ ~known /\ awaiting = 0
  BY DEF Init, Open
<1> QED
  BY <1>1, <1>2
     DEF ReachInv, BeforeRegistration, HeldByAgent, EndingCloses, OneShown,
         CancelledOrCurrent, CancelledBetween, CancelledBehind,
         AnswerReachesItsCommand

\* A client that closes its dialogs when it is told of a Cancel never answers
\* a command other than the one the dialog was opened for. Without a cancel
\* callback it may: the slot then holds the next command.
THEOREM AnswersReachTheirCommands ==
  "cancel" \in Supplied => (Spec => []AnswerReachesItsCommand)
<1> SUFFICES ASSUME "cancel" \in Supplied
             PROVE  Spec => []AnswerReachesItsCommand
  OBVIOUS
<1>1. ReachInv /\ [Next]_vars => ReachInv'
  BY ReachStep
<1>2. Init => ReachInv
  BY ReachInit
<1>3. ReachInv => AnswerReachesItsCommand
  BY DEF ReachInv
<1> QED
  BY <1>1, <1>2, <1>3, PTL DEF Spec

=============================================================================
