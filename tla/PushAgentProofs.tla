-------------------------- MODULE PushAgentProofs --------------------------
(***************************************************************************)
(* Proofs about the push agent: its type invariant, that it watches the    *)
(* interface exactly while somebody listens, and that the daemon has the   *)
(* agent when all is quiet. The code gives up the subscription, the        *)
(* daemon's registration and the object one after the other, with a        *)
(* blocking call in between, and makes them at two places; the handler     *)
(* that makes the object runs only for signals that were accepted while    *)
(* the agent watched, and none of them outlives that (ToldWhileWatching).  *)
(* The second part follows the changes of the interface through the queue  *)
(* to the cache, the object and the daemon (AvailableInv); the third shows *)
(* that messages are passed on as the notification service promises.       *)
(***************************************************************************)
EXTENDS PushAgent, TLAPS

\* A signal that will be passed to the agent is passed while it watches.
ToldWhileWatching ==
  agent = "live" =>
    \A i \in DOMAIN wire : wire[i].kind = "interfaces" /\ wire[i].told => watching

IInv == TypeOK /\ WatchesWhileListening /\ ToldWhileWatching

-----------------------------------------------------------------------------

\* Giving up a subscription or an object keeps the queue, but for whom the
\* things in it are.
LEMMA UntoldQueue ==
  ASSUME NEW kind \in {"interfaces", "push"}, NEW items \in Seq(Item)
  PROVE  /\ Untold(kind, items) \in Seq(Item)
         /\ DOMAIN Untold(kind, items) = DOMAIN items
         /\ \A i \in DOMAIN items :
              /\ Untold(kind, items)[i].kind = items[i].kind
              /\ Untold(kind, items)[i].told =>
                   items[i].told /\ items[i].kind # kind
<1>1. /\ DOMAIN items = 1..Len(items)
      /\ Len(items) \in Nat
      /\ \A i \in 1..Len(items) : items[i] \in Item
  OBVIOUS
<1>2. DOMAIN Untold(kind, items) = DOMAIN items
  BY DEF Untold
<1>3. ASSUME NEW i \in DOMAIN items
      PROVE  /\ Untold(kind, items)[i] \in Item
             /\ Untold(kind, items)[i].kind = items[i].kind
             /\ Untold(kind, items)[i].told =>
                  items[i].told /\ items[i].kind # kind
  <2>1. Untold(kind, items)[i] =
          IF items[i].kind = kind THEN [items[i] EXCEPT !.told = FALSE]
          ELSE items[i]
    BY DEF Untold
  <2>2. items[i] \in Item
    BY <1>1
  <2> QED
    BY <2>1, <2>2 DEF Item
<1>4. Untold(kind, items) \in [1..Len(items) -> Item]
  BY <1>1, <1>2, <1>3 DEF Untold
<1>5. Untold(kind, items) \in Seq(Item)
  BY <1>1, <1>4
<1> QED
  BY <1>2, <1>3, <1>5

\* The queue without its head.
LEMMA TailQueue ==
  ASSUME IInv, wire # <<>>
  PROVE  /\ Tail(wire) \in Seq(Item)
         /\ wire[1] = Head(wire) /\ 1 \in DOMAIN wire
         /\ Head(wire) \in Item
         /\ \A i \in DOMAIN Tail(wire) :
              i + 1 \in DOMAIN wire /\ Tail(wire)[i] = wire[i + 1]
  BY DEF IInv, TypeOK

\* The rest of a queue that is for the agent only while it watches is so too.
LEMMA TailTold ==
  ASSUME IInv, wire # <<>>, wire' = Tail(wire), agent' = agent,
         watching' = watching
  PROVE  ToldWhileWatching' /\ wire' \in Seq(Item)
<1>1. /\ Tail(wire) \in Seq(Item)
      /\ \A i \in DOMAIN Tail(wire) :
           i + 1 \in DOMAIN wire /\ Tail(wire)[i] = wire[i + 1]
  BY TailQueue
<1> QED
  BY <1>1 DEF IInv, ToldWhileWatching

-----------------------------------------------------------------------------

\* Every initial state satisfies the invariant.
LEMMA InitIInv == Init => IInv
<1> SUFFICES ASSUME Init PROVE IInv
  OBVIOUS
<1>1. TypeOK
  <2>1. {object, watching, cache, iface, known, missed, refused} \subseteq BOOLEAN
    BY DEF Init
  <2>2. 0 \in 0..MaxRegister /\ 0 \in 0..MaxEvents
    BY PushAssumption
  <2>3. wire \in Seq(Item)
    BY DEF Init
  <2> QED
    BY <2>1, <2>2, <2>3 DEF Init, TypeOK
<1> QED
  BY <1>1 DEF Init, IInv, WatchesWhileListening, ToldWhileWatching

\* The daemon's events keep the invariant.
LEMMA DaemonStep ==
  ASSUME IInv, ChangeInterface \/ Push
  PROVE  IInv'
<1>1. PICK item \in Item : Send(item) /\ (item.kind = "interfaces" => item.told = watching)
  <2>1. object \in BOOLEAN /\ watching \in BOOLEAN /\ iface \in BOOLEAN
    BY DEF IInv, TypeOK
  <2>2. CASE ChangeInterface
    <3> DEFINE item == [kind |-> "interfaces", on |-> ~iface, told |-> watching]
    <3>1. item \in Item
      BY <2>1 DEF Item
    <3>2. Send(item)
      BY <2>2 DEF ChangeInterface
    <3> QED
      BY <3>1, <3>2
  <2>3. CASE Push
    <3> DEFINE item == [kind |-> "push", on |-> iface, told |-> object]
    <3>1. item \in Item
      BY <2>1 DEF Item
    <3>2. Send(item)
      BY <2>3 DEF Push
    <3> QED
      BY <3>1, <3>2
  <2> QED
    BY <2>2, <2>3
<1>2. wire \in Seq(Item) /\ events \in 0..MaxEvents
  BY DEF IInv, TypeOK
<1>3. /\ wire' \in Seq(Item)
      /\ \A i \in DOMAIN wire' : \/ i \in DOMAIN wire /\ wire'[i] = wire[i]
                                 \/ wire'[i] = item
  BY <1>1, <1>2 DEF Send
<1>4. /\ UNCHANGED <<agent, cells, registers, object, watching, cache, call, pc,
                     cursor, called, missed, refused>>
      /\ iface' \in BOOLEAN /\ known' \in BOOLEAN
      /\ events' \in 0..MaxEvents
  <2>1. UNCHANGED <<list, object, watching, cache, call, walk, missed, refused>>
    BY <1>1 DEF Send
  <2>2. events' \in 0..MaxEvents
    BY <1>1, <1>2, PushAssumption DEF Send
  <2>3. iface' \in BOOLEAN /\ known' \in BOOLEAN
    BY DEF ChangeInterface, Push, IInv, TypeOK
  <2> QED
    BY <2>1, <2>2, <2>3 DEF list, walk
<1>5. TypeOK'
  BY <1>3, <1>4 DEF IInv, TypeOK
<1>6. WatchesWhileListening'
  BY <1>4 DEF IInv, WatchesWhileListening
<1>7. ToldWhileWatching'
  BY <1>1, <1>3, <1>4 DEF IInv, ToldWhileWatching
<1> QED
  BY <1>5, <1>6, <1>7 DEF IInv

\* The return of a call to the daemon keeps the invariant. UnregisterAgent is
\* the call before the object goes.
LEMMA ReturnStep ==
  ASSUME IInv, AgentRegistered \/ AgentRefused \/ AgentUnregistered
  PROVE  IInv'
<1>1. /\ UNCHANGED <<agent, cells, registers, watching, cache, pc, cursor, called,
                     iface, events, missed>>
      /\ call' = "none"
      /\ known' \in BOOLEAN /\ refused' \in BOOLEAN
  BY DEF AgentRegistered, AgentRefused, AgentUnregistered, Answered, list, walk,
         IInv, TypeOK
<1>2. CASE AgentRegistered \/ AgentRefused
  <2>1. call = "RegisterAgent" /\ UNCHANGED <<object, wire>>
    BY <1>2 DEF AgentRegistered, AgentRefused
  <2>2. TypeOK'
    BY <1>1, <2>1 DEF IInv, TypeOK
  <2>3. WatchesWhileListening'
    BY <1>1, <2>1 DEF IInv, WatchesWhileListening
  <2>4. ToldWhileWatching'
    BY <1>1, <2>1 DEF IInv, ToldWhileWatching
  <2> QED
    BY <2>2, <2>3, <2>4 DEF IInv
<1>3. CASE AgentUnregistered
  <2>1. object' = FALSE /\ wire' = Untold("push", wire)
    BY <1>3 DEF AgentUnregistered
  <2>2. /\ wire' \in Seq(Item)
        /\ DOMAIN wire' = DOMAIN wire
        /\ \A i \in DOMAIN wire : /\ wire'[i].kind = wire[i].kind
                                  /\ wire'[i].told => wire[i].told
    BY <2>1, UntoldQueue DEF IInv, TypeOK
  <2>3. TypeOK'
    BY <1>1, <2>1, <2>2 DEF IInv, TypeOK
  <2>4. WatchesWhileListening'
    BY <1>1, <2>1 DEF IInv, WatchesWhileListening
  <2>5. ToldWhileWatching'
    BY <1>1, <2>2 DEF IInv, ToldWhileWatching
  <2> QED
    BY <2>3, <2>4, <2>5 DEF IInv
<1> QED
  BY <1>2, <1>3

\* What asking the daemon to have the agent does.
LEMMA RegisterPushEffect ==
  ASSUME IInv, RegisterPush, call = "none"
  PROVE  /\ object' \in BOOLEAN /\ refused' \in BOOLEAN
         /\ call' \in {"none", "RegisterAgent"}
  BY DEF RegisterPush, IInv, TypeOK

\* A change of the interfaces reaches the cache and the agent: the object is
\* made only while the agent watches.
LEMMA InterfacesStep ==
  ASSUME IInv, DispatchInterfaces
  PROVE  IInv'
<1>1. /\ UNCHANGED <<agent, cells, registers, watching, pc, cursor, called,
                     iface, known, events>>
      /\ wire # <<>> /\ call = "none"
      /\ Head(wire).kind = "interfaces"
      /\ cache' = Head(wire).on
  BY DEF DispatchInterfaces, MainLoopRuns, list, walk, daemon
<1>2. /\ Tail(wire) \in Seq(Item)
      /\ wire[1] = Head(wire) /\ 1 \in DOMAIN wire
      /\ Head(wire).on \in BOOLEAN /\ Head(wire).told \in BOOLEAN
      /\ \A i \in DOMAIN Tail(wire) :
           i + 1 \in DOMAIN wire /\ Tail(wire)[i] = wire[i + 1]
  BY <1>1, TailQueue DEF Item
<1>3. agent = "live" /\ Head(wire).told => watching
  BY <1>1, <1>2 DEF IInv, ToldWhileWatching
<1>4. wire' = Tail(wire) \/ wire' = Untold("push", Tail(wire))
  BY DEF DispatchInterfaces, InterfacesChanged
<1>5. /\ wire' \in Seq(Item)
      /\ DOMAIN wire' = DOMAIN Tail(wire)
      /\ \A i \in DOMAIN wire' : /\ wire'[i].kind = wire[i + 1].kind
                                 /\ wire'[i].told => wire[i + 1].told
  <2>1. CASE wire' = Tail(wire)
    BY <1>2, <2>1
  <2>2. CASE wire' = Untold("push", Tail(wire))
    <3> DEFINE rest == Tail(wire)
    <3>1. rest \in Seq(Item)
      BY <1>2
    <3>2. /\ \A i \in DOMAIN rest : rest[i] = wire[i + 1]
          /\ wire' = Untold("push", rest)
      BY <1>2, <2>2
    <3> HIDE DEF rest
    <3>3. /\ wire' \in Seq(Item)
          /\ DOMAIN wire' = DOMAIN rest
          /\ \A i \in DOMAIN rest : /\ wire'[i].kind = rest[i].kind
                                    /\ wire'[i].told => rest[i].told
      BY <3>1, <3>2, UntoldQueue
    <3> QED
      BY <3>2, <3>3 DEF rest
  <2> QED
    BY <1>4, <2>1, <2>2
<1>6. /\ object' \in BOOLEAN /\ refused' \in BOOLEAN /\ missed' \in BOOLEAN
      /\ call' \in {"none", "RegisterAgent"}
      /\ object' => object \/ Head(wire).told
  BY <1>1, RegisterPushEffect
     DEF DispatchInterfaces, InterfacesChanged, IInv, TypeOK
<1>7. TypeOK'
  BY <1>1, <1>2, <1>5, <1>6 DEF IInv, TypeOK
<1>8. WatchesWhileListening'
  BY <1>1, <1>3, <1>6 DEF IInv, WatchesWhileListening
<1>9. ToldWhileWatching'
  BY <1>1, <1>2, <1>5 DEF IInv, ToldWhileWatching
<1> QED
  BY <1>7, <1>8, <1>9 DEF IInv

\* Messages, the walk of the callbacks and handlers of a freed agent leave
\* everything but the queue, the cache and the walk alone.
LEMMA WalkStep ==
  ASSUME IInv,
         DispatchPush \/ DropPush \/ DispatchDangling \/ WalkNext \/ WalkEnd
           \/ WalkDangling
  PROVE  IInv'
<1>1. /\ UNCHANGED <<agent, cells, registers, object, watching, call, iface,
                     known, events, missed, refused>>
      /\ pc' \in {"idle", "callback", "crashed"}
      /\ UNCHANGED wire \/ (wire # <<>> /\ wire' = Tail(wire))
  BY DEF DispatchPush, DropPush, DispatchDangling, WalkNext, WalkEnd,
         WalkDangling, WalkLeft, MainLoopRuns, list, walk, daemon, IInv, TypeOK
<1>2. cache' \in BOOLEAN
  <2>1. CASE DispatchDangling
    BY <2>1, TailQueue DEF DispatchDangling, MainLoopRuns, Item, IInv, TypeOK
  <2>2. CASE ~DispatchDangling
    BY <2>2 DEF DispatchPush, DropPush, WalkNext, WalkEnd, WalkDangling, WalkLeft,
                IInv, TypeOK
  <2> QED
    BY <2>1, <2>2
<1>3. cursor' \in 0..MaxRegister /\ called' \subseteq 1..MaxRegister
  <2>1. \A c \in cells : c.id \in 1..MaxRegister
    BY DEF IInv, TypeOK, Cell
  <2>2. \/ UNCHANGED <<cursor, called>>
        \/ cursor' = 0 /\ called' = {}
        \/ \E c \in cells : cursor' = c.id /\ called' \in {{c.id}, called \cup {c.id}}
    BY DEF DispatchPush, DropPush, DispatchDangling, WalkNext, WalkEnd,
           WalkDangling, WalkLeft, IsFirst, walk
  <2>3. /\ cursor \in 0..MaxRegister /\ called \subseteq 1..MaxRegister
        /\ 0 \in 0..MaxRegister /\ 1..MaxRegister \subseteq 0..MaxRegister
    BY PushAssumption DEF IInv, TypeOK
  <2> QED
    BY <2>1, <2>2, <2>3
<1>4. ToldWhileWatching' /\ wire' \in Seq(Item)
  <2>1. CASE UNCHANGED wire
    BY <1>1, <2>1 DEF IInv, ToldWhileWatching, TypeOK
  <2>2. CASE wire # <<>> /\ wire' = Tail(wire)
    BY <1>1, <2>2, TailTold
  <2> QED
    BY <1>1, <2>1, <2>2
<1>5. TypeOK'
  BY <1>1, <1>2, <1>3, <1>4 DEF IInv, TypeOK
<1>6. WatchesWhileListening'
  BY <1>1 DEF IInv, WatchesWhileListening
<1> QED
  BY <1>4, <1>5, <1>6 DEF IInv

\* Registering a callback keeps the invariant: when the subscription is not
\* made, there is an object, so that it is there.
LEMMA RegisterStep ==
  ASSUME IInv, NEW cb \in Cb, Register(cb)
  PROVE  IInv'
<1>1. /\ agent = "live" /\ call = "none"
      /\ UNCHANGED <<agent, cache, pc, cursor, called, iface, known, events, wire>>
      /\ registers < MaxRegister
      /\ registers' = registers + 1
      /\ cells' = cells \cup {[id |-> registers', cb |-> cb]}
      /\ \A c \in cells : c.cb # cb
  BY DEF Register, Add, ClientRuns, walk, daemon
<1>2. /\ object' \in BOOLEAN /\ refused' \in BOOLEAN /\ missed' \in BOOLEAN
      /\ call' \in {"none", "RegisterAgent"}
  BY <1>1, RegisterPushEffect
     DEF Register, Attend, ChangeWaits, IInv, TypeOK
<1>3. watching' = TRUE
  <2>1. CASE object
    BY <1>1, <2>1 DEF Register, Attend, IInv, WatchesWhileListening, TypeOK
  <2>2. CASE ~object
    BY <2>2 DEF Register, Attend
  <2> QED
    BY <2>1, <2>2
<1>4. TypeOK'
  <2>1. registers' \in 1..MaxRegister
    BY <1>1, PushAssumption DEF IInv, TypeOK
  <2>2. cells' \subseteq Cell
    BY <1>1, <2>1 DEF IInv, TypeOK, Cell
  <2>3. \A c, d \in cells' : c.cb = d.cb => c = d
    BY <1>1 DEF IInv, TypeOK
  <2> QED
    BY <1>1, <1>2, <1>3, <2>1, <2>2, <2>3 DEF IInv, TypeOK
<1>5. WatchesWhileListening'
  BY <1>1, <1>3 DEF WatchesWhileListening
<1>6. ToldWhileWatching'
  BY <1>3 DEF ToldWhileWatching
<1> QED
  BY <1>4, <1>5, <1>6 DEF IInv

\* Unregistering a callback keeps the invariant: with the last one the
\* subscription goes, no waiting signal is for the agent any more, and the
\* object stays until UnregisterAgent has returned.
LEMMA UnregisterStep ==
  ASSUME IInv, NEW cb \in Cb, Unregister(cb)
  PROVE  IInv'
<1>1. /\ agent = "live" /\ call = "none"
      /\ UNCHANGED <<agent, registers, object, cache, pc, cursor, called, iface,
                     known, events, refused>>
      /\ cells' \subseteq cells
  BY DEF Unregister, ClientRuns, walk, daemon
<1>2. CASE cells' = {}
  <2>1. /\ watching' = FALSE /\ missed' = FALSE
        /\ wire' = Untold("interfaces", wire)
        /\ call' = "UnregisterAgent"
    BY <1>2 DEF Unregister
  <2>2. /\ wire' \in Seq(Item)
        /\ DOMAIN wire' = DOMAIN wire
        /\ \A i \in DOMAIN wire :
             wire'[i].told => wire'[i].kind # "interfaces"
    BY <2>1, UntoldQueue DEF IInv, TypeOK
  <2>3. TypeOK'
    BY <1>1, <2>1, <2>2 DEF IInv, TypeOK
  <2>4. WatchesWhileListening'
    BY <1>2, <2>1 DEF WatchesWhileListening
  <2>5. ToldWhileWatching'
    BY <2>2 DEF ToldWhileWatching
  <2> QED
    BY <2>3, <2>4, <2>5 DEF IInv
<1>3. CASE cells' # {}
  <2>1. UNCHANGED <<watching, missed, wire, call>>
    BY <1>3 DEF Unregister
  <2>2. cells # {}
    BY <1>1, <1>3
  <2>3. TypeOK'
    BY <1>1, <2>1 DEF IInv, TypeOK
  <2>4. WatchesWhileListening'
    BY <1>1, <1>3, <2>1, <2>2 DEF IInv, WatchesWhileListening
  <2>5. ToldWhileWatching'
    BY <1>1, <2>1 DEF IInv, ToldWhileWatching
  <2> QED
    BY <2>3, <2>4, <2>5 DEF IInv
<1> QED
  BY <1>2, <1>3

\* A search that runs off the list, and freeing the agent, keep the invariant.
LEMMA EndStep ==
  ASSUME IInv, Free \/ \E cb \in Cb : UnregisterUnknown(cb)
  PROVE  IInv'
<1>1. CASE Free
  <2>1. TypeOK'
    BY <1>1 DEF Free, walk, daemon, IInv, TypeOK
  <2> QED
    BY <1>1, <2>1 DEF Free, IInv, WatchesWhileListening, ToldWhileWatching
<1>2. CASE \E cb \in Cb : UnregisterUnknown(cb)
  <2>1. /\ UNCHANGED <<agent, cells, registers, object, watching, cache, call,
                       cursor, called, iface, known, events, wire, missed,
                       refused>>
        /\ pc' = "crashed"
    BY <1>2 DEF UnregisterUnknown, list, daemon
  <2>2. TypeOK'
    BY <2>1 DEF IInv, TypeOK
  <2> QED
    BY <2>1, <2>2 DEF IInv, WatchesWhileListening, ToldWhileWatching
<1> QED
  BY <1>1, <1>2

\* Every step keeps the invariant.
LEMMA NextIInv == IInv /\ [Next]_vars => IInv'
<1> SUFFICES ASSUME IInv, [Next]_vars PROVE IInv'
  OBVIOUS
<1>1. CASE UNCHANGED vars
  BY <1>1 DEF vars, IInv, TypeOK, WatchesWhileListening, ToldWhileWatching
<1>2. CASE Next
  BY <1>2, DaemonStep, ReturnStep, InterfacesStep, WalkStep, RegisterStep,
     UnregisterStep, EndStep
     DEF Next, Client, Library
<1> QED
  BY <1>1, <1>2

-----------------------------------------------------------------------------

\* The invariant holds in every reachable state.
THEOREM Invariance == Spec => []IInv
  BY InitIInv, NextIInv, PTL DEF Spec

\* The type invariant: among it, no callback is in the list twice.
THEOREM TypeCorrect == Spec => []TypeOK
<1>1. IInv => TypeOK
  BY DEF IInv
<1> QED
  BY <1>1, Invariance, PTL

\* The agent watches the interface exactly while somebody listens, and has
\* no object otherwise, however registering, unregistering, signals and the
\* blocking calls interleave.
THEOREM WatchesCorrect == Spec => []WatchesWhileListening
<1>1. IInv => WatchesWhileListening
  BY DEF IInv
<1> QED
  BY <1>1, Invariance, PTL

-----------------------------------------------------------------------------
(***************************************************************************)
(* The agent is registered when it should be                               *)
(***************************************************************************)

IsChange(i) == wire[i].kind = "interfaces"

\* Who blocks in which call.
CallShape ==
  agent = "live" =>
    /\ call = "RegisterAgent" => object
    /\ call = "UnregisterAgent" => cells = {}

KnownHasInterface == known => iface

\* The cache is out of date by the changes that wait.
CacheRight ==
  /\ ~ChangeWaits => cache = iface
  /\ \A i \in DOMAIN wire :
       IsChange(i) /\ (\A j \in DOMAIN wire : i < j => ~IsChange(j)) =>
         wire[i].on = iface

\* Behind a change the agent is told of, it is told of all; it is told of all
\* that wait, unless one waited when it began to watch.
ToldInOrder ==
  agent = "live" /\ watching =>
    /\ \A i, j \in DOMAIN wire :
         i < j /\ IsChange(i) /\ IsChange(j) /\ wire[i].told => wire[j].told
    /\ ~missed => \A i \in DOMAIN wire : IsChange(i) => wire[i].told

\* The agent has an object when it knows of an interface.
ObjectFollows ==
  agent = "live" /\ watching /\ ~missed /\ cache => object \/ refused

GoesWaits ==
  \E i \in DOMAIN wire : IsChange(i) /\ ~wire[i].on /\ wire[i].told

\* An agent with an object is known to the daemon, or will be told that the
\* interface went.
ObjectKnown ==
  agent = "live" /\ object /\ call = "none" => known \/ refused \/ GoesWaits

AvailableInv ==
  /\ CallShape
  /\ KnownHasInterface
  /\ CacheRight
  /\ ToldInOrder
  /\ ObjectFollows
  /\ ObjectKnown

-----------------------------------------------------------------------------

\* The queue loses its first n entries; what is left keeps its kind, what it
\* says, and, if it is a change, whether the agent is told.
Shifted(n) ==
  /\ \A i \in DOMAIN wire' :
       /\ i \in Nat /\ i >= 1 /\ i + n \in DOMAIN wire
       /\ wire'[i].kind = wire[i + n].kind
       /\ wire'[i].on = wire[i + n].on
       /\ wire'[i].kind = "interfaces" => wire'[i].told = wire[i + n].told
  /\ \A j \in DOMAIN wire : j \in Nat /\ (j > n => j - n \in DOMAIN wire')

\* Giving up the object, or nothing, leaves the changes as they are.
LEMMA UntoldShape ==
  ASSUME NEW kind \in {"interfaces", "push"}, NEW items \in Seq(Item)
  PROVE  /\ DOMAIN Untold(kind, items) = DOMAIN items
         /\ \A i \in DOMAIN items :
              /\ Untold(kind, items)[i].kind = items[i].kind
              /\ Untold(kind, items)[i].on = items[i].on
              /\ items[i].kind # kind => Untold(kind, items)[i] = items[i]
<1>1. \A i \in DOMAIN items : items[i] \in Item
  OBVIOUS
<1> QED
  BY <1>1 DEF Untold, Item

\* What the queue becomes: a message for the object may be given up, and the
\* head may go.
LEMMA KeptShape ==
  ASSUME TypeOK, wire' = wire \/ wire' = Untold("push", wire)
  PROVE  Shifted(0)
<1>1. \A i \in DOMAIN wire : i \in Nat /\ i >= 1 /\ i + 0 = i /\ i - 0 = i
  BY DEF TypeOK
<1>2. wire \in Seq(Item)
  BY DEF TypeOK
<1>3. CASE wire' = wire
  BY <1>1, <1>3 DEF Shifted
<1>4. CASE wire' = Untold("push", wire)
  BY <1>1, <1>2, <1>4, UntoldShape DEF Shifted
<1> QED
  BY <1>3, <1>4

LEMMA TailShape ==
  ASSUME TypeOK, wire # <<>>,
         wire' = Tail(wire) \/ wire' = Untold("push", Tail(wire))
  PROVE  Shifted(1)
<1> DEFINE rest == Tail(wire)
<1>1. /\ rest \in Seq(Item)
      /\ \A i \in DOMAIN rest :
           i \in Nat /\ i >= 1 /\ i + 1 \in DOMAIN wire /\ rest[i] = wire[i + 1]
      /\ \A j \in DOMAIN wire : j \in Nat /\ (j > 1 => j - 1 \in DOMAIN rest)
  BY DEF TypeOK
<1>2. wire' = rest \/ wire' = Untold("push", rest)
  OBVIOUS
<1> HIDE DEF rest
<1>3. /\ DOMAIN wire' = DOMAIN rest
      /\ \A i \in DOMAIN rest :
           /\ wire'[i].kind = rest[i].kind
           /\ wire'[i].on = rest[i].on
           /\ wire'[i].kind = "interfaces" => wire'[i].told = rest[i].told
  <2>1. CASE wire' = rest
    BY <2>1
  <2>2. CASE wire' = Untold("push", rest)
    BY <1>1, <2>2, UntoldShape
  <2> QED
    BY <1>2, <2>1, <2>2
<1> QED
  BY <1>1, <1>3 DEF Shifted

\* The changes that wait stay what they are when nothing or a message goes.
LEMMA ChangesKept ==
  ASSUME NEW n \in {0, 1}, Shifted(n),
         n = 1 => wire[1].kind # "interfaces",
         \A j \in DOMAIN wire : j >= 1
  PROVE  /\ ChangeWaits' <=> ChangeWaits
         /\ GoesWaits <=> GoesWaits'
         /\ CacheRight /\ UNCHANGED <<cache, iface>> => CacheRight'
         /\ ToldInOrder /\ UNCHANGED <<agent, watching, missed>> => ToldInOrder'
<1>1. \A j \in DOMAIN wire :
        /\ j \in Nat
        /\ IsChange(j) => j > n /\ j - n \in DOMAIN wire' /\ (j - n) + n = j
  BY DEF Shifted, IsChange
<1>2. \A i \in DOMAIN wire' : i \in Nat /\ i + n \in DOMAIN wire
  BY DEF Shifted
<1>3. ChangeWaits' <=> ChangeWaits
  BY <1>1, <1>2 DEF Shifted, ChangeWaits, IsChange
<1>4. GoesWaits <=> GoesWaits'
  BY <1>1, <1>2 DEF Shifted, GoesWaits, IsChange
<1>5. CacheRight /\ UNCHANGED <<cache, iface>> => CacheRight'
  <2> SUFFICES ASSUME CacheRight, UNCHANGED <<cache, iface>> PROVE CacheRight'
    OBVIOUS
  <2>1. ASSUME NEW i \in DOMAIN wire', wire'[i].kind = "interfaces",
               \A j \in DOMAIN wire' : i < j => wire'[j].kind # "interfaces"
        PROVE  wire'[i].on = iface
    <3>1. i + n \in DOMAIN wire /\ IsChange(i + n)
      BY <1>2, <2>1 DEF Shifted, IsChange
    <3>2. ASSUME NEW j \in DOMAIN wire, i + n < j PROVE ~IsChange(j)
      BY <1>1, <1>2, <2>1, <3>2 DEF Shifted, IsChange
    <3> QED
      BY <2>1, <3>1, <3>2 DEF Shifted, CacheRight
  <2>2. ~ChangeWaits' => cache' = iface'
    BY <1>3 DEF CacheRight
  <2> QED
    BY <2>1, <2>2 DEF CacheRight, IsChange
<1>6. ToldInOrder /\ UNCHANGED <<agent, watching, missed>> => ToldInOrder'
  <2> SUFFICES ASSUME ToldInOrder, agent = "live" /\ watching,
                      UNCHANGED <<agent, watching, missed>>
               PROVE  ToldInOrder'
    BY DEF ToldInOrder
  <2>1. ASSUME NEW i \in DOMAIN wire', NEW j \in DOMAIN wire',
               i < j, wire'[i].kind = "interfaces", wire'[j].kind = "interfaces",
               wire'[i].told
        PROVE  wire'[j].told
    <3>1. /\ i + n \in DOMAIN wire /\ IsChange(i + n)
          /\ wire'[i].told = wire[i + n].told
      BY <2>1 DEF Shifted, IsChange
    <3>2. /\ j + n \in DOMAIN wire /\ IsChange(j + n)
          /\ wire'[j].told = wire[j + n].told
      BY <2>1 DEF Shifted, IsChange
    <3>3. i + n < j + n
      BY <1>2, <2>1
    <3> QED
      BY <2>1, <3>1, <3>2, <3>3 DEF ToldInOrder
  <2>2. ASSUME ~missed, NEW i \in DOMAIN wire', wire'[i].kind = "interfaces"
        PROVE  wire'[i].told
    <3>1. /\ i + n \in DOMAIN wire /\ IsChange(i + n)
          /\ wire'[i].told = wire[i + n].told
      BY <1>2, <2>2 DEF Shifted, IsChange
    <3> QED
      BY <2>2, <3>1 DEF ToldInOrder
  <2> QED
    BY <2>1, <2>2 DEF ToldInOrder, IsChange
<1> QED
  BY <1>3, <1>4, <1>5, <1>6

\* Indices of the queue.
LEMMA QueueIndices ==
  ASSUME TypeOK
  PROVE  \A j \in DOMAIN wire : j \in Nat /\ j >= 1 /\ wire[j] \in Item
  BY DEF TypeOK

\* The first state: nothing waits, nobody watches.
LEMMA InitAvailable == Init => AvailableInv
<1> SUFFICES ASSUME Init PROVE AvailableInv
  OBVIOUS
<1>1. DOMAIN wire = {}
  BY DEF Init
<1>2. CacheRight
  BY <1>1 DEF Init, CacheRight
<1>3. CallShape /\ KnownHasInterface
  BY DEF Init, CallShape, KnownHasInterface
<1>4. ToldInOrder /\ ObjectFollows /\ ObjectKnown
  BY DEF Init, ToldInOrder, ObjectFollows, ObjectKnown
<1> QED
  BY <1>2, <1>3, <1>4 DEF AvailableInv

\* What comes in keeps it: an agent with an object watches, so it will be told
\* of an interface that goes and takes the daemon's knowledge with it.
LEMMA SentAvailable ==
  ASSUME IInv, AvailableInv, ChangeInterface \/ Push
  PROVE  AvailableInv'
<1>1. PICK item \in Item :
        /\ wire' = Append(wire, item)
        /\ UNCHANGED <<agent, cells, object, watching, cache, call, missed, refused>>
        /\ \/ /\ item.kind = "interfaces" /\ item.on = iface' /\ item.told = watching
              /\ iface' = ~iface /\ known' = FALSE
           \/ /\ item.kind = "push" /\ UNCHANGED <<iface, known>>
  <2>1. /\ [kind |-> "interfaces", on |-> ~iface, told |-> watching] \in Item
        /\ [kind |-> "push", on |-> iface, told |-> object] \in Item
    BY DEF IInv, TypeOK, Item
  <2>2. CASE ChangeInterface
    BY <2>1, <2>2 DEF ChangeInterface, Send, list
  <2>3. CASE Push
    BY <2>1, <2>3 DEF Push, Send, list
  <2> QED
    BY <2>2, <2>3
<1> DEFINE last == Len(wire) + 1
<1>2. /\ last \in DOMAIN wire' /\ wire'[last] = item
      /\ \A i \in DOMAIN wire : i \in DOMAIN wire' /\ wire'[i] = wire[i] /\ i < last
      /\ \A i \in DOMAIN wire' : i \in DOMAIN wire \/ i = last
  BY <1>1 DEF IInv, TypeOK
<1> HIDE DEF last
<1>3. GoesWaits => GoesWaits'
  BY <1>2 DEF GoesWaits, IsChange
<1>4. CallShape' /\ KnownHasInterface'
  BY <1>1 DEF AvailableInv, CallShape, KnownHasInterface
<1>5. CacheRight'
  <2>1. CASE item.kind = "interfaces"
    <3>1. item.on = iface'
      BY <1>1, <2>1
    <3>2. ASSUME NEW i \in DOMAIN wire',
                 \A j \in DOMAIN wire' : i < j => wire'[j].kind # "interfaces"
          PROVE  wire'[i].on = iface'
      BY <1>2, <2>1, <3>1, <3>2
    <3>3. ChangeWaits'
      BY <1>2, <2>1 DEF ChangeWaits
    <3> QED
      BY <3>2, <3>3 DEF CacheRight, IsChange
  <2>2. CASE item.kind = "push"
    <3>1. UNCHANGED <<cache, iface>>
      BY <1>1, <2>2
    <3>2. ~ChangeWaits' => cache' = iface'
      BY <1>2, <3>1 DEF AvailableInv, CacheRight, ChangeWaits
    <3>3. ASSUME NEW i \in DOMAIN wire', wire'[i].kind = "interfaces",
                 \A j \in DOMAIN wire' : i < j => wire'[j].kind # "interfaces"
          PROVE  wire'[i].on = iface'
      <4>1. i \in DOMAIN wire /\ IsChange(i) /\ wire'[i] = wire[i]
        BY <1>2, <2>2, <3>3 DEF IsChange
      <4>2. \A j \in DOMAIN wire : i < j => ~IsChange(j)
        BY <1>2, <3>3 DEF IsChange
      <4> QED
        BY <3>1, <4>1, <4>2 DEF AvailableInv, CacheRight
    <3> QED
      BY <3>2, <3>3 DEF CacheRight, IsChange
  <2> QED
    BY <1>1, <2>1, <2>2
<1>6. ToldInOrder'
  <2> SUFFICES ASSUME agent = "live", watching PROVE ToldInOrder'
    BY <1>1 DEF ToldInOrder
  <2>0. item.kind = "interfaces" => item.told
    BY <1>1
  <2>1. ASSUME NEW i \in DOMAIN wire', NEW j \in DOMAIN wire', i < j,
               wire'[i].kind = "interfaces", wire'[j].kind = "interfaces",
               wire'[i].told
        PROVE  wire'[j].told
    <3>1. CASE j = last
      BY <1>2, <2>0, <2>1, <3>1
    <3>2. CASE j \in DOMAIN wire
      <4>1. j < last /\ i \in Nat /\ j \in Nat /\ last \in Nat
        BY <1>2, <2>1, <3>2 DEF last, IInv, TypeOK
      <4>2. i \in DOMAIN wire
        BY <1>2, <2>1, <4>1
      <4> QED
        BY <1>2, <2>1, <3>2, <4>2 DEF AvailableInv, ToldInOrder, IsChange
    <3> QED
      BY <1>2, <3>1, <3>2
  <2>2. ASSUME ~missed, NEW i \in DOMAIN wire', wire'[i].kind = "interfaces"
        PROVE  wire'[i].told
    BY <1>2, <2>0, <2>2 DEF AvailableInv, ToldInOrder, IsChange
  <2> QED
    BY <1>1, <2>1, <2>2 DEF ToldInOrder, IsChange
<1>7. ObjectFollows'
  BY <1>1 DEF AvailableInv, ObjectFollows
<1>8. ObjectKnown'
  <2> SUFFICES ASSUME agent = "live", object, call = "none"
               PROVE  known' \/ refused' \/ GoesWaits'
    BY <1>1 DEF ObjectKnown
  <2>1. known \/ refused \/ GoesWaits
    BY DEF AvailableInv, ObjectKnown
  <2>2. CASE known /\ item.kind = "interfaces"
    <3>1. watching /\ ~item.on
      BY <1>1, <2>2 DEF AvailableInv, KnownHasInterface, IInv, WatchesWhileListening
    <3>2. item.told
      BY <1>1, <2>2, <3>1
    <3> QED
      BY <1>2, <2>2, <3>1, <3>2 DEF GoesWaits, IsChange
  <2> QED
    BY <1>1, <1>3, <2>1, <2>2
<1> QED
  BY <1>4, <1>5, <1>6, <1>7, <1>8 DEF AvailableInv

\* The return of a call keeps it. RegisterAgent is called with an object: the
\* daemon has the agent then, or the attempt failed.
LEMMA ReturnAvailable ==
  ASSUME IInv, AvailableInv, AgentRegistered \/ AgentRefused \/ AgentUnregistered
  PROVE  AvailableInv'
<1>1. /\ UNCHANGED <<agent, cells, watching, cache, iface, missed>>
      /\ call' = "none"
      /\ wire' = wire \/ wire' = Untold("push", wire)
  BY DEF AgentRegistered, AgentRefused, AgentUnregistered, Answered, list
<1>2. CallShape' /\ KnownHasInterface'
  BY <1>1 DEF AvailableInv, CallShape, KnownHasInterface, AgentRegistered,
              AgentRefused, AgentUnregistered, Answered
<1>3. CacheRight' /\ ToldInOrder'
  BY <1>1, KeptShape, ChangesKept, QueueIndices DEF IInv, AvailableInv
<1>4. CASE AgentRegistered \/ AgentRefused
  <2>1. /\ UNCHANGED object /\ call = "RegisterAgent"
        /\ known' \/ refused'
    BY <1>4 DEF AgentRegistered, AgentRefused, Answered
  <2>2. agent = "live" => object'
    BY <2>1 DEF AvailableInv, CallShape
  <2> QED
    BY <1>1, <1>2, <1>3, <2>1, <2>2 DEF AvailableInv, ObjectFollows, ObjectKnown
<1>5. CASE AgentUnregistered
  <2>1. object' = FALSE /\ call = "UnregisterAgent"
    BY <1>5 DEF AgentUnregistered
  <2>2. agent = "live" => ~watching
    BY <2>1 DEF AvailableInv, CallShape, IInv, WatchesWhileListening
  <2> QED
    BY <1>1, <1>2, <1>3, <2>1, <2>2 DEF AvailableInv, ObjectFollows, ObjectKnown
<1> QED
  BY <1>4, <1>5

\* A change leaves the queue: the cache is right again if it was the last.
LEMMA ChangeTaken ==
  ASSUME TypeOK, CacheRight, wire # <<>>, Shifted(1), wire[1].kind = "interfaces",
         cache' = wire[1].on, UNCHANGED iface
  PROVE  CacheRight'
<1>1. \A j \in DOMAIN wire : j \in Nat /\ (j = 1 \/ j > 1)
  BY QueueIndices
<1>2. \A j \in DOMAIN wire : j > 1 => j - 1 \in DOMAIN wire' /\ (j - 1) + 1 = j
  BY <1>1 DEF Shifted
<1>3. ASSUME ~ChangeWaits' PROVE cache' = iface'
  <2>1. ASSUME NEW j \in DOMAIN wire, 1 < j PROVE ~IsChange(j)
    BY <1>2, <1>3, <2>1 DEF Shifted, ChangeWaits, IsChange
  <2>2. 1 \in DOMAIN wire
    BY DEF TypeOK
  <2> QED
    BY <2>1, <2>2 DEF CacheRight, IsChange
<1>4. ASSUME NEW i \in DOMAIN wire', wire'[i].kind = "interfaces",
             \A j \in DOMAIN wire' : i < j => wire'[j].kind # "interfaces"
      PROVE  wire'[i].on = iface
  <2>1. i \in Nat /\ i + 1 \in DOMAIN wire /\ IsChange(i + 1)
    BY <1>4 DEF Shifted, IsChange
  <2>2. ASSUME NEW j \in DOMAIN wire, i + 1 < j PROVE ~IsChange(j)
    <3>1. j > 1 /\ i < j - 1
      BY <1>1, <2>1, <2>2
    <3> QED
      BY <1>2, <1>4, <3>1 DEF Shifted, IsChange
  <2> QED
    BY <1>4, <2>1, <2>2 DEF Shifted, CacheRight
<1> QED
  BY <1>3, <1>4 DEF CacheRight, IsChange

\* A change is dispatched. If the agent is told, it is told of all that is
\* behind, and its object follows; the change that something went, which
\* accounts for an object unknown to the daemon, is behind or takes the object.
LEMMA InterfacesAvailable ==
  ASSUME IInv, AvailableInv, DispatchInterfaces
  PROVE  AvailableInv'
<1>1. /\ UNCHANGED <<agent, cells, watching, iface, known>>
      /\ wire # <<>> /\ call = "none"
      /\ wire' = Tail(wire) \/ wire' = Untold("push", Tail(wire))
  BY DEF DispatchInterfaces, InterfacesChanged, MainLoopRuns, list, daemon
<1>2. /\ 1 \in DOMAIN wire /\ wire[1] = Head(wire) /\ wire[1].kind = "interfaces"
      /\ cache' = wire[1].on
      /\ wire[1].on \in BOOLEAN /\ wire[1].told \in BOOLEAN
  BY <1>1, TailQueue DEF DispatchInterfaces, Item
<1>3. Shifted(1)
  BY <1>1, TailShape DEF IInv
<1>4. CASE agent # "live"
  <2>1. CacheRight'
    BY <1>1, <1>2, <1>3, ChangeTaken DEF IInv, AvailableInv
  <2> QED
    BY <1>1, <1>4, <2>1
       DEF AvailableInv, CallShape, KnownHasInterface, ToldInOrder, ObjectFollows,
           ObjectKnown
<1>5. CASE agent = "live"
  <2>1. CacheRight' /\ KnownHasInterface'
    BY <1>1, <1>2, <1>3, ChangeTaken DEF IInv, AvailableInv, KnownHasInterface
  <2>2. CallShape'
    BY <1>1 DEF DispatchInterfaces, InterfacesChanged, RegisterPush, CallShape
  <2>3. ~wire[1].told => UNCHANGED <<object, call, missed, refused>>
    BY <1>2 DEF DispatchInterfaces
  <2>4. wire[1].told => missed' = FALSE
    BY <1>2 DEF DispatchInterfaces
  <2>5. \A j \in DOMAIN wire : j \in Nat /\ (j = 1 \/ j > 1)
    BY QueueIndices DEF IInv
  <2>6. ToldInOrder'
    <3> SUFFICES ASSUME watching PROVE ToldInOrder'
      BY <1>1 DEF ToldInOrder
    <3>1. ASSUME NEW i \in DOMAIN wire', NEW j \in DOMAIN wire', i < j,
                 wire'[i].kind = "interfaces", wire'[j].kind = "interfaces",
                 wire'[i].told
          PROVE  wire'[j].told
      <4>1. /\ i \in Nat /\ i + 1 \in DOMAIN wire /\ IsChange(i + 1)
            /\ wire'[i].told = wire[i + 1].told
        BY <1>3, <3>1 DEF Shifted, IsChange
      <4>2. /\ j \in Nat /\ j + 1 \in DOMAIN wire /\ IsChange(j + 1)
            /\ wire'[j].told = wire[j + 1].told
        BY <1>3, <3>1 DEF Shifted, IsChange
      <4>3. i + 1 < j + 1
        BY <3>1, <4>1, <4>2
      <4> QED
        BY <1>5, <3>1, <4>1, <4>2, <4>3 DEF AvailableInv, ToldInOrder
    <3>2. ASSUME ~missed', NEW i \in DOMAIN wire', wire'[i].kind = "interfaces"
          PROVE  wire'[i].told
      <4>1. /\ i \in Nat /\ i >= 1 /\ i + 1 \in DOMAIN wire /\ IsChange(i + 1)
            /\ wire'[i].told = wire[i + 1].told
        BY <1>3, <3>2 DEF Shifted, IsChange
      <4>2. 1 < i + 1 /\ IsChange(1)
        BY <1>2, <4>1 DEF IsChange
      <4>3. wire[1].told \/ ~missed
        BY <2>3, <3>2
      <4> QED
        BY <1>2, <1>5, <4>1, <4>2, <4>3 DEF AvailableInv, ToldInOrder
    <3> QED
      BY <3>1, <3>2 DEF ToldInOrder, IsChange
  <2>7. ObjectFollows'
    <3>1. CASE wire[1].told
      <4>1. InterfacesChanged(wire[1].on)
        BY <1>2, <3>1 DEF DispatchInterfaces
      <4>2. wire[1].on => object' \/ refused'
        BY <1>2, <4>1 DEF InterfacesChanged, RegisterPush
      <4> QED
        BY <1>2, <4>2 DEF ObjectFollows
    <3>2. CASE ~wire[1].told
      <4>1. watching => missed
        BY <1>2, <1>5, <3>2 DEF AvailableInv, ToldInOrder, IsChange
      <4>2. watching' /\ ~missed' => watching /\ ~missed
        BY <1>1, <2>3, <3>2
      <4> QED
        BY <4>1, <4>2 DEF ObjectFollows
    <3> QED
      BY <3>1, <3>2
  <2>8. ObjectKnown'
    <3> SUFFICES ASSUME object', call' = "none", ~refused', ~known
                 PROVE  GoesWaits'
      BY <1>1 DEF ObjectKnown
    <3>1. /\ UNCHANGED <<object, refused>>
          /\ wire[1].told => wire[1].on
      <4>1. CASE wire[1].told
        <5>1. InterfacesChanged(wire[1].on)
          BY <1>2, <4>1 DEF DispatchInterfaces
        <5> QED
          BY <5>1, <1>2 DEF InterfacesChanged, RegisterPush, IInv, TypeOK
      <4>2. CASE ~wire[1].told
        BY <2>3, <4>2
      <4> QED
        BY <4>1, <4>2
    <3>2. PICK j \in DOMAIN wire : IsChange(j) /\ ~wire[j].on /\ wire[j].told
      BY <1>1, <1>5, <3>1 DEF AvailableInv, ObjectKnown, GoesWaits
    <3>3. j # 1
      BY <3>1, <3>2
    <3>4. j - 1 \in DOMAIN wire' /\ (j - 1) + 1 = j
      BY <1>3, <2>5, <3>3 DEF Shifted
    <3> QED
      BY <1>3, <3>2, <3>4 DEF Shifted, GoesWaits, IsChange
  <2> QED
    BY <2>1, <2>2, <2>6, <2>7, <2>8 DEF AvailableInv
<1> QED
  BY <1>4, <1>5

\* Messages and the walk of the callbacks leave the changes alone; a handler
\* of a freed agent may take one.
LEMMA WalkAvailable ==
  ASSUME IInv, AvailableInv,
         DispatchPush \/ DropPush \/ DispatchDangling \/ WalkNext \/ WalkEnd
           \/ WalkDangling
  PROVE  AvailableInv'
<1>1. UNCHANGED <<agent, cells, object, watching, call, iface, known, missed,
                  refused>>
  BY DEF DispatchPush, DropPush, DispatchDangling, WalkNext, WalkEnd,
         WalkDangling, WalkLeft, list, daemon
<1>2. CallShape' /\ KnownHasInterface'
  BY <1>1 DEF AvailableInv, CallShape, KnownHasInterface
<1>3. \A j \in DOMAIN wire : j >= 1
  BY QueueIndices DEF IInv
<1>4. CASE DispatchDangling
  <2>1. wire # <<>> /\ wire' = Tail(wire) /\ wire[1] = Head(wire) /\ agent = "freed"
    BY <1>4, TailQueue DEF DispatchDangling, MainLoopRuns
  <2>2. Shifted(1)
    BY <2>1, TailShape DEF IInv
  <2>3. CacheRight'
    <3>1. CASE wire[1].kind = "interfaces"
      <4>1. cache' = wire[1].on
        BY <1>4, <2>1, <3>1 DEF DispatchDangling
      <4> QED
        BY <1>1, <2>1, <2>2, <3>1, <4>1, ChangeTaken DEF IInv, AvailableInv
    <3>2. CASE wire[1].kind # "interfaces"
      <4>1. cache' = cache
        BY <1>4, <2>1, <3>2 DEF DispatchDangling
      <4> QED
        BY <1>1, <1>3, <2>2, <3>2, <4>1, ChangesKept DEF AvailableInv
    <3> QED
      BY <3>1, <3>2
  <2> QED
    BY <1>1, <1>2, <2>1, <2>3
       DEF AvailableInv, ToldInOrder, ObjectFollows, ObjectKnown
<1>5. CASE DispatchPush \/ DropPush \/ WalkNext \/ WalkEnd \/ WalkDangling
  <2>1. UNCHANGED cache
    BY <1>5 DEF DispatchPush, DropPush, WalkNext, WalkEnd, WalkDangling, WalkLeft
  <2>2. PICK n \in {0, 1} : Shifted(n) /\ (n = 1 => wire[1].kind # "interfaces")
    <3>1. CASE DispatchPush \/ DropPush
      <4>1. /\ wire # <<>> /\ wire' = Tail(wire) /\ Head(wire).kind = "push"
            /\ wire[1] = Head(wire)
        BY <3>1, TailQueue DEF DispatchPush, DropPush, MainLoopRuns
      <4>2. Shifted(1)
        BY <4>1, TailShape DEF IInv
      <4> QED
        BY <4>1, <4>2
    <3>2. CASE WalkNext \/ WalkEnd \/ WalkDangling
      <4>1. wire' = wire
        BY <3>2 DEF WalkNext, WalkEnd, WalkDangling, WalkLeft
      <4> QED
        BY <4>1, KeptShape DEF IInv
    <3> QED
      BY <1>5, <3>1, <3>2
  <2>3. CacheRight' /\ ToldInOrder' /\ (GoesWaits <=> GoesWaits')
    BY <1>1, <1>3, <2>1, <2>2, ChangesKept DEF AvailableInv
  <2> QED
    BY <1>1, <1>2, <2>1, <2>3 DEF AvailableInv, ObjectFollows, ObjectKnown
<1> QED
  BY <1>4, <1>5

\* Registering keeps it: the agent that begins to watch is told of no change
\* that waits, and takes the interface from the cache.
LEMMA RegisterAvailable ==
  ASSUME IInv, AvailableInv, NEW cb \in Cb, Register(cb)
  PROVE  AvailableInv'
<1>1. /\ agent = "live" /\ call = "none"
      /\ UNCHANGED <<agent, cache, iface, known, wire>>
  BY DEF Register, Add, ClientRuns, daemon
<1>2. CacheRight' /\ KnownHasInterface'
  BY <1>1 DEF AvailableInv, CacheRight, ChangeWaits, IsChange, KnownHasInterface
<1>3. GoesWaits <=> GoesWaits'
  BY <1>1 DEF GoesWaits, IsChange
<1>4. CASE object
  <2>1. UNCHANGED <<object, watching, call, missed, refused>>
    BY <1>4 DEF Register, Attend
  <2> QED
    BY <1>1, <1>2, <1>3, <2>1
       DEF AvailableInv, CallShape, ToldInOrder, IsChange, ObjectFollows, ObjectKnown
<1>5. CASE ~object
  <2>1. /\ watching' = TRUE
        /\ missed' = (missed \/ (~watching /\ ChangeWaits))
        /\ IF cache THEN RegisterPush ELSE UNCHANGED <<object, call, refused>>
    BY <1>5 DEF Register, Attend
  <2>2. CallShape' /\ ObjectFollows' /\ ObjectKnown'
    BY <1>1, <1>5, <2>1 DEF RegisterPush, CallShape, ObjectFollows, ObjectKnown
  <2>3. ToldInOrder'
    <3>1. CASE watching
      <4>1. ~missed' => ~missed
        BY <2>1
      <4> QED
        BY <1>1, <3>1, <4>1 DEF AvailableInv, ToldInOrder, IsChange
    <3>2. CASE ~watching
      <4>1. \A i \in DOMAIN wire : IsChange(i) => ~wire[i].told
        BY <1>1, <3>2 DEF IInv, ToldWhileWatching, IsChange
      <4>2. ~missed' => \A i \in DOMAIN wire : ~IsChange(i)
        BY <2>1, <3>2 DEF ChangeWaits, IsChange
      <4> QED
        BY <1>1, <4>1, <4>2 DEF ToldInOrder, IsChange
    <3> QED
      BY <3>1, <3>2
  <2> QED
    BY <1>2, <2>2, <2>3 DEF AvailableInv
<1> QED
  BY <1>4, <1>5

\* Unregistering keeps it: without callbacks nothing is asked of the agent.
LEMMA UnregisterAvailable ==
  ASSUME IInv, AvailableInv, NEW cb \in Cb, Unregister(cb)
  PROVE  AvailableInv'
<1>1. /\ agent = "live" /\ call = "none"
      /\ UNCHANGED <<agent, object, cache, iface, known, refused>>
  BY DEF Unregister, ClientRuns, daemon
<1>2. CASE cells' = {}
  <2>1. /\ watching' = FALSE /\ call' = "UnregisterAgent"
        /\ wire' = Untold("interfaces", wire)
    BY <1>2 DEF Unregister
  <2>2. /\ DOMAIN wire' = DOMAIN wire
        /\ \A i \in DOMAIN wire : wire'[i].kind = wire[i].kind /\ wire'[i].on = wire[i].on
    BY <2>1, UntoldShape DEF IInv, TypeOK
  <2>3. CacheRight'
    BY <1>1, <2>2 DEF AvailableInv, CacheRight, ChangeWaits, IsChange
  <2> QED
    BY <1>1, <1>2, <2>1, <2>3
       DEF AvailableInv, CallShape, KnownHasInterface, ToldInOrder, ObjectFollows,
           ObjectKnown
<1>3. CASE cells' # {}
  <2>1. UNCHANGED <<watching, missed, wire, call>>
    BY <1>3 DEF Unregister
  <2>2. CacheRight' /\ ToldInOrder' /\ (GoesWaits <=> GoesWaits')
    BY <1>1, <2>1
       DEF AvailableInv, CacheRight, ChangeWaits, IsChange, ToldInOrder, GoesWaits
  <2> QED
    BY <1>1, <2>1, <2>2
       DEF AvailableInv, CallShape, KnownHasInterface, ObjectFollows, ObjectKnown
<1> QED
  BY <1>2, <1>3

\* Every step keeps it.
LEMMA NextAvailable == IInv /\ AvailableInv /\ [Next]_vars => AvailableInv'
<1> SUFFICES ASSUME IInv, AvailableInv, [Next]_vars PROVE AvailableInv'
  OBVIOUS
<1>1. CASE UNCHANGED vars \/ \E cb \in Cb : UnregisterUnknown(cb)
  <2>1. UNCHANGED <<agent, cells, object, watching, cache, call, iface, known, wire,
                    missed, refused>>
    BY <1>1 DEF vars, UnregisterUnknown, list, daemon
  <2> QED
    BY <2>1
       DEF AvailableInv, CallShape, KnownHasInterface, CacheRight, ChangeWaits,
           IsChange, ToldInOrder, ObjectFollows, ObjectKnown, GoesWaits
<1>2. CASE Free
  <2>1. agent' = "freed" /\ UNCHANGED <<cache, iface, known, wire>>
    BY <1>2 DEF Free, daemon
  <2> QED
    BY <2>1
       DEF AvailableInv, CallShape, KnownHasInterface, CacheRight, ChangeWaits,
           IsChange, ToldInOrder, ObjectFollows, ObjectKnown
<1> QED
  BY <1>1, <1>2, SentAvailable, ReturnAvailable, InterfacesAvailable, WalkAvailable,
     RegisterAvailable, UnregisterAvailable
     DEF Next, Client, Library

\* When nothing is under way, the daemon has the agent exactly if there is an
\* interface and somebody listens, or telling it failed: for every number of
\* callbacks and of changes, however they interleave with the calls that block
\* and with signals that wait. Only a change that waited when the agent began
\* to watch may be missed.
THEOREM AvailableCorrect == Spec => []RegisteredWhenAvailable
<1>1. IInv /\ AvailableInv => RegisteredWhenAvailable
  <2> SUFFICES ASSUME IInv, AvailableInv, Quiet, ~missed, ~refused
               PROVE  known /\ object <=> iface /\ cells # {}
    BY DEF RegisteredWhenAvailable, Registered
  <2>1. agent = "live" /\ call = "none" /\ ~GoesWaits /\ cache = iface
    BY DEF Quiet, AvailableInv, CacheRight, ChangeWaits, GoesWaits, IsChange
  <2>2. ASSUME iface, cells # {} PROVE known /\ object
    <3>1. watching
      BY <2>1, <2>2 DEF IInv, WatchesWhileListening
    <3> QED
      BY <2>1, <2>2, <3>1 DEF AvailableInv, ObjectFollows, ObjectKnown
  <2>3. ASSUME known, object PROVE iface /\ cells # {}
    BY <2>1, <2>3 DEF AvailableInv, KnownHasInterface, IInv, WatchesWhileListening
  <2> QED
    BY <2>2, <2>3
<1> QED
  BY <1>1, InitIInv, NextIInv, InitAvailable, NextAvailable, PTL DEF Spec

-----------------------------------------------------------------------------
(***************************************************************************)
(* The callbacks are called as the notification service promises           *)
(***************************************************************************)

\* Callbacks are numbered in the order they were added.
CellsNumbered ==
  /\ \A c \in cells : c.id <= registers
  /\ \A c, d \in cells : c.id = d.id => c = d

\* While a callback runs, it is the last that was called, and what is in front
\* of it in the list was called before.
WalkOnTrack ==
  /\ pc = "idle" => cursor = 0
  /\ pc = "callback" => cursor # 0
  /\ cursor <= registers
  /\ \A i \in called : i <= cursor
  /\ cursor \in Ids => \A c \in cells : c.id <= cursor => c.id \in called

WalkInv == CellsNumbered /\ WalkOnTrack

LEMMA Numbers ==
  ASSUME IInv
  PROVE  /\ registers \in Nat /\ cursor \in Nat /\ called \subseteq Nat
         /\ \A c \in cells : c.id \in Nat \ {0} /\ c.id \in 1..MaxRegister /\ c.cb \in Cb
  BY PushAssumption DEF IInv, TypeOK, Cell

LEMMA InitWalk == Init => WalkInv
  BY DEF Init, WalkInv, CellsNumbered, WalkOnTrack, Ids

\* A cell is added at the end, behind all that were called.
LEMMA AddWalk ==
  ASSUME IInv, WalkInv, NEW cb \in Cb, Register(cb)
  PROVE  WalkInv'
<1>1. /\ registers' = registers + 1
      /\ cells' = cells \cup {[id |-> registers', cb |-> cb]}
      /\ UNCHANGED <<pc, cursor, called>>
  BY DEF Register, Add, walk
<1>2. CellsNumbered'
  <2>1. \A c \in cells' : c \in cells \/ c = [id |-> registers', cb |-> cb]
    BY <1>1
  <2>2. \A c \in cells : c.id <= registers' /\ c.id # registers'
    BY <1>1, Numbers DEF WalkInv, CellsNumbered
  <2>3. registers' <= registers'
    BY <1>1, Numbers
  <2> QED
    BY <2>1, <2>2, <2>3 DEF WalkInv, CellsNumbered
<1>3. WalkOnTrack'
  <2>1. cursor <= registers'
    BY <1>1, Numbers DEF WalkInv, WalkOnTrack
  <2>2. ASSUME cursor \in Ids' PROVE cursor \in Ids \/ cursor = registers'
    BY <1>1, <2>2 DEF Ids
  <2>3. ASSUME cursor \in Ids', NEW c \in cells', c.id <= cursor PROVE c.id \in called
    <3>1. CASE cursor \in Ids
      <4>1. cursor <= registers
        BY <3>1, Numbers DEF WalkInv, CellsNumbered, Ids
      <4>2. c \in cells
        <5>1. registers' # c.id
          BY <1>1, <2>3, <4>1, Numbers
        <5> QED
          BY <1>1, <5>1
      <4> QED
        BY <2>3, <3>1, <4>2 DEF WalkInv, WalkOnTrack
    <3>2. CASE cursor \notin Ids
      <4>1. cursor = registers + 1
        BY <1>1, <2>2, <2>3, <3>2
      <4> QED
        BY <4>1, Numbers DEF WalkInv, WalkOnTrack
    <3> QED
      BY <3>1, <3>2
  <2> QED
    BY <1>1, <2>1, <2>3 DEF WalkInv, WalkOnTrack
<1> QED
  BY <1>2, <1>3 DEF WalkInv

\* The walk goes on to the first cell behind the one whose callback returned;
\* other steps only take cells out of the list.
LEMMA NextWalk == IInv /\ WalkInv /\ [Next]_vars => WalkInv'
<1> SUFFICES ASSUME IInv, WalkInv, [Next]_vars PROVE WalkInv'
  OBVIOUS
<1>1. CASE /\ UNCHANGED <<registers, cursor, called>> /\ cells' \subseteq cells
           /\ pc' = pc \/ pc' = "crashed"
  <2>1. CellsNumbered'
    BY <1>1 DEF WalkInv, CellsNumbered
  <2>2. cursor' \in Ids' => cursor \in Ids
    BY <1>1 DEF Ids
  <2>3. WalkOnTrack'
    BY <1>1, <2>2 DEF WalkInv, WalkOnTrack
  <2> QED
    BY <2>1, <2>3 DEF WalkInv
<1>2. CASE DispatchPush
  <2>1. PICK c \in cells : /\ IsFirst(c, cells) /\ cursor' = c.id /\ called' = {c.id}
                           /\ pc' = "callback" /\ UNCHANGED <<cells, registers>>
    BY <1>2 DEF DispatchPush, list
  <2>2. CellsNumbered'
    BY <2>1 DEF WalkInv, CellsNumbered
  <2>3. c.id # 0 /\ c.id <= registers /\ c.id <= c.id
    BY Numbers DEF WalkInv, CellsNumbered
  <2>4. ASSUME NEW d \in cells, d.id <= c.id PROVE d.id = c.id
    <3>1. c.id <= d.id
      BY <2>1 DEF IsFirst
    <3> QED
      BY <2>4, <3>1, Numbers
  <2>5. WalkOnTrack'
    BY <2>1, <2>3, <2>4 DEF WalkOnTrack
  <2> QED
    BY <2>2, <2>5 DEF WalkInv
<1>3. CASE WalkNext
  <2>1. PICK c \in cells : /\ IsFirst(c, {d \in cells : d.id > cursor})
                           /\ cursor' = c.id /\ called' = called \cup {c.id}
                           /\ UNCHANGED <<pc, cells, registers>>
                           /\ pc = "callback" /\ cursor \in Ids
    BY <1>3 DEF WalkNext, list
  <2>2. CellsNumbered'
    BY <2>1 DEF WalkInv, CellsNumbered
  <2>3. c.id > cursor /\ c.id # 0 /\ c.id <= registers
    BY <2>1, Numbers DEF WalkInv, CellsNumbered, IsFirst
  <2>4. \A i \in called' : i <= c.id
    BY <2>1, <2>3, Numbers DEF WalkInv, WalkOnTrack
  <2>5. ASSUME NEW d \in cells, d.id <= c.id PROVE d.id \in called'
    <3>1. CASE d.id <= cursor
      BY <2>1, <3>1 DEF WalkInv, WalkOnTrack
    <3>2. CASE ~(d.id <= cursor)
      <4>1. d.id > cursor
        BY <3>2, Numbers
      <4>2. c.id <= d.id
        BY <2>1, <4>1 DEF IsFirst
      <4>3. c.id = d.id
        BY <2>5, <4>2, Numbers
      <4> QED
        BY <2>1, <4>3
    <3> QED
      BY <3>1, <3>2
  <2>6. WalkOnTrack'
    BY <2>1, <2>3, <2>4, <2>5 DEF WalkOnTrack
  <2> QED
    BY <2>2, <2>6 DEF WalkInv
<1>4. CASE WalkEnd \/ WalkDangling
  <2>1. /\ cursor' = 0 /\ called' = {} /\ pc' \in {"idle", "crashed"}
        /\ UNCHANGED <<cells, registers>>
    BY <1>4 DEF WalkEnd, WalkDangling, WalkLeft, list
  <2>2. CellsNumbered'
    BY <2>1 DEF WalkInv, CellsNumbered
  <2>3. 0 \notin Ids' /\ 0 <= registers
    BY <2>1, Numbers DEF Ids
  <2>4. WalkOnTrack'
    BY <2>1, <2>3 DEF WalkOnTrack
  <2> QED
    BY <2>2, <2>4 DEF WalkInv
<1>5. CASE UNCHANGED vars
  BY <1>1, <1>5 DEF vars
<1>6. CASE Client
  <2>1. ASSUME NEW cb \in Cb, Unregister(cb) \/ UnregisterUnknown(cb) PROVE WalkInv'
    <3>1. /\ UNCHANGED <<registers, cursor, called>> /\ cells' \subseteq cells
          /\ pc' = pc \/ pc' = "crashed"
      BY <2>1 DEF Unregister, UnregisterUnknown, walk, list
    <3> QED
      BY <1>1, <3>1
  <2>2. CASE Free
    BY <1>1, <2>2 DEF Free, walk
  <2> QED
    BY <1>6, <2>1, <2>2, AddWalk DEF Client
<1>7. CASE ChangeInterface \/ Push
  BY <1>1, <1>7 DEF ChangeInterface, Push, Send, list, walk
<1>8. CASE DispatchInterfaces \/ DropPush \/ AgentRegistered \/ AgentRefused
           \/ AgentUnregistered
  BY <1>1, <1>8 DEF DispatchInterfaces, DropPush, AgentRegistered, AgentRefused,
                    AgentUnregistered, Answered, list, walk
<1>9. CASE DispatchDangling
  <2>1. UNCHANGED <<cells, registers, cursor, called>> /\ pc = "idle"
    BY <1>9 DEF DispatchDangling, MainLoopRuns, list
  <2>2. pc' = pc \/ pc' = "crashed"
    BY <1>9, <2>1 DEF DispatchDangling
  <2> QED
    BY <1>1, <2>1, <2>2
<1> QED
  BY <1>2, <1>3, <1>4, <1>5, <1>6, <1>7, <1>8, <1>9 DEF Next, Library

LEMMA InitRefines == Init => Service!Init
<1> SUFFICES ASSUME Init PROVE Service!Init
  OBVIOUS
<1>1. Registrations = {}
  BY DEF Init, Registrations
<1> QED
  BY <1>1 DEF Init, Service!Init

\* Registering a callback is a registration with the service.
LEMMA RegisterRefines ==
  ASSUME IInv, WalkInv, NEW cb \in Cb, Register(cb)
  PROVE  Service!Next
<1> DEFINE c == [id |-> registers + 1, cb |-> cb]
           r == RegOf(c)
<1>1. /\ cells' = cells \cup {c}
      /\ \A d \in cells : d.cb # cb
      /\ UNCHANGED <<cursor, called>>
      /\ registers + 1 \in 1..MaxRegister
  BY Numbers, PushAssumption DEF Register, Add, walk
<1>2. r.id = registers + 1 /\ r.noti = "push" /\ r.cb = cb
  BY DEF RegOf
<1>3. Registrations' = Registrations \cup {r}
  BY <1>1 DEF Registrations
<1>4. r \in Service!Registration
  BY <1>1 DEF RegOf, Service!Registration
<1> HIDE DEF r
<1>5. \A q \in Registrations : q.id < r.id /\ <<q.noti, q.cb>> # <<r.noti, r.cb>>
  <2> SUFFICES ASSUME NEW d \in cells
               PROVE  /\ RegOf(d).id < r.id
                      /\ <<RegOf(d).noti, RegOf(d).cb>> # <<r.noti, r.cb>>
    BY DEF Registrations
  <2>1. RegOf(d).id = d.id /\ RegOf(d).cb = d.cb
    BY DEF RegOf
  <2>2. d.id < registers + 1
    BY Numbers DEF WalkInv, CellsNumbered
  <2> QED
    BY <1>1, <1>2, <2>1, <2>2
<1>6. \A i \in called : i < r.id
  BY <1>2, Numbers DEF WalkInv, WalkOnTrack
<1>7. Service!Register(r)
  BY <1>1, <1>3, <1>5, <1>6 DEF Service!Register
<1> QED
  BY <1>4, <1>7 DEF Service!Next

\* Unregistering one takes its registration away.
LEMMA UnregisterRefines ==
  ASSUME IInv, WalkInv, NEW cb \in Cb, Unregister(cb)
  PROVE  Service!Next
<1>1. PICK c \in cells : c.cb = cb /\ cells' = cells \ {c}
  BY DEF Unregister
<1>2. UNCHANGED <<cursor, called>>
  BY DEF Unregister, walk
<1>3. \A d \in cells : RegOf(d) = RegOf(c) => d = c
  BY DEF RegOf, WalkInv, CellsNumbered
<1>4. Registrations' = Registrations \ {RegOf(c)}
  BY <1>1, <1>3 DEF Registrations
<1>5. Service!Unregister(RegOf(c)) /\ RegOf(c) \in Registrations
  BY <1>1, <1>2, <1>4 DEF Service!Unregister, Registrations
<1> QED
  BY <1>5 DEF Service!Next

\* The walk begins, goes on and ends as a round of the service.
LEMMA WalkRefines ==
  ASSUME IInv, WalkInv, DispatchPush \/ WalkNext \/ WalkEnd \/ WalkDangling
  PROVE  Service!Next
<1>1. UNCHANGED Registrations
  BY DEF DispatchPush, WalkNext, WalkEnd, WalkDangling, WalkLeft, list,
         Registrations, RegOf
<1>2. /\ \A c \in cells : /\ RegOf(c) \in Registrations
                          /\ RegOf(c).id = c.id /\ RegOf(c).noti = "push"
      /\ \A r \in Registrations : \E c \in cells : r = RegOf(c)
  BY DEF Registrations, RegOf
<1>3. Service!Ids = Ids
  BY <1>2 DEF Service!Ids, Ids
<1>4. CASE DispatchPush
  <2>1. PICK c \in cells : cursor' = c.id /\ called' = {c.id}
    BY <1>4 DEF DispatchPush
  <2>2. cursor = 0 /\ c.id # 0
    BY <1>4, Numbers DEF DispatchPush, MainLoopRuns, WalkInv, WalkOnTrack
  <2>3. Service!Begin(RegOf(c))
    BY <1>1, <1>2, <2>1, <2>2 DEF Service!Begin
  <2> QED
    BY <1>2, <2>3 DEF Service!Next
<1>5. CASE WalkNext
  <2>1. PICK c \in cells : /\ IsFirst(c, {d \in cells : d.id > cursor})
                           /\ cursor' = c.id /\ called' = called \cup {c.id}
    BY <1>5 DEF WalkNext
  <2>2. /\ c.id > cursor /\ c.id # 0 /\ c.id \notin called
        /\ cursor # 0 /\ cursor \in Ids
    BY <1>5, <2>1, Numbers DEF WalkNext, IsFirst, WalkInv, WalkOnTrack
  <2>3. Service!Call(RegOf(c))
    BY <1>1, <1>2, <1>3, <2>1, <2>2 DEF Service!Call
  <2> QED
    BY <1>2, <2>3 DEF Service!Next
<1>6. CASE WalkEnd \/ WalkDangling
  <2>1. cursor' = 0 /\ called' = {} /\ cursor # 0
    BY <1>6 DEF WalkEnd, WalkDangling, WalkLeft, WalkInv, WalkOnTrack
  <2>2. cursor \in Ids => \A c \in cells : c.id \in called
    BY <1>6 DEF WalkEnd, WalkDangling, WalkInv, WalkOnTrack
  <2>3. Service!End
    BY <1>1, <1>2, <1>3, <2>1, <2>2 DEF Service!End
  <2> QED
    BY <2>3 DEF Service!Next
<1> QED
  BY <1>4, <1>5, <1>6

LEMMA NextRefines == IInv /\ WalkInv /\ [Next]_vars => [Service!Next]_(Service!vars)
<1> SUFFICES ASSUME IInv, WalkInv, [Next]_vars
             PROVE  [Service!Next]_(Service!vars)
  OBVIOUS
<1>1. CASE UNCHANGED <<cells, cursor, called>>
  BY <1>1 DEF Service!vars, Registrations, RegOf
<1>2. CASE Free
  <2>1. Registrations' = {} /\ UNCHANGED <<cursor, called>>
    BY <1>2 DEF Free, walk, Registrations
  <2>2. Service!Finalize
    BY <2>1 DEF Service!Finalize
  <2> QED
    BY <2>2 DEF Service!Next
<1>3. CASE Client
  <2>1. ASSUME NEW cb \in Cb, UnregisterUnknown(cb)
        PROVE  UNCHANGED <<cells, cursor, called>>
    BY <2>1 DEF UnregisterUnknown, list
  <2> QED
    BY <1>1, <1>2, <1>3, <2>1, RegisterRefines, UnregisterRefines DEF Client
<1>4. CASE ChangeInterface \/ Push \/ UNCHANGED vars
  BY <1>1, <1>4 DEF ChangeInterface, Push, Send, list, walk, vars
<1>5. CASE Library
  <2>1. CASE DispatchInterfaces \/ DropPush \/ DispatchDangling \/ AgentRegistered
             \/ AgentRefused \/ AgentUnregistered
    BY <1>1, <2>1 DEF DispatchInterfaces, DropPush, DispatchDangling,
                      AgentRegistered, AgentRefused, AgentUnregistered, Answered,
                      list, walk
  <2> QED
    BY <1>5, <2>1, WalkRefines DEF Library
<1> QED
  BY <1>3, <1>4, <1>5 DEF Next

\* The list of callbacks and the walk along it implement the service the
\* library promises: a message is passed to each callback once and in order,
\* although callbacks register and unregister others; only one that had its own
\* cell freed cuts it short.
THEOREM Refinement == Spec => ServiceSpec
<1>1. IInv /\ WalkInv /\ [Next]_vars => [Service!Next]_(Service!vars)
  BY NextRefines
<1> QED
  BY <1>1, InitIInv, NextIInv, InitWalk, NextWalk, InitRefines, PTL
     DEF Spec, ServiceSpec, Service!Spec

=============================================================================
