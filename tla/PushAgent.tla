----------------------------- MODULE PushAgent -----------------------------
(***************************************************************************)
(* The push agent of libofono: an object on the bus by which ofonod hands  *)
(* over push messages, and the list of callbacks they are passed to. The   *)
(* agent is registered with the daemon while the modem has the interface   *)
(* for push notifications and somebody listens. It learns of the interface *)
(* from the modem's cache, when a callback is registered, and then as a    *)
(* client of OFONO_NOTI_INTERFACES_CHANGED.                                *)
(*                                                                         *)
(* RegisterAgent and UnregisterAgent block: the daemon goes on and what it *)
(* sends waits. GDBus fixes at the arrival of a signal which subscriptions *)
(* it is for, at the arrival of a call the object, and drops what is gone  *)
(* when its turn comes. The modem outlives the agent, and no other client  *)
(* of the notification shares its subscription. Messages have no content.  *)
(***************************************************************************)
EXTENDS Naturals, Sequences

CONSTANTS Cb,           \* the callbacks
          MaxRegister,  \* bound: callbacks ever added
          MaxEvents     \* bound: changes of the interface, and messages

ASSUME PushAssumption == MaxRegister \in Nat /\ MaxEvents \in Nat

VARIABLES agent,      \* "live" or "freed"
          cells,      \* agent->push_noti_cb_list, ordered by number
          object,     \* agent->push_registration_id is set
          watching,   \* _ofono_interfaces_changed_cb is registered
          cache,      \* modem->interfaces has the interface
          call,       \* the synchronous call under way, or "none"
          pc,         \* the main loop: "idle", in a "callback", "crashed"
          cursor,     \* the cell whose callback runs, or 0
          called,     \* the cells called for the message
          iface,      \* the daemon offers the interface
          known,      \* the daemon has the agent
          wire,       \* what waits for the main loop, oldest first
          registers,  \* how many callbacks were added
          events,     \* how many events the daemon made
          missed,     \* history: watching began while a change waited
          refused     \* history: the last attempt to tell the daemon failed

vars == <<agent, cells, object, watching, cache, call, pc, cursor, called,
          iface, known, wire, registers, events, missed, refused>>

list == <<agent, cells, registers>>
walk == <<pc, cursor, called>>
daemon == <<iface, known, events>>

\* struct push_noti_cb_data, numbered in the order of g_list_append().
Cell == [id : 1..MaxRegister, cb : Cb]

\* A change of the interfaces, or a call of ReceiveNotification, and whether
\* the subscription or object it is for is still there.
Item == [kind : {"interfaces", "push"}, on : BOOLEAN, told : BOOLEAN]

Init ==
  /\ agent = "live"
  /\ cells = {}
  /\ object = FALSE
  /\ watching = FALSE
  /\ iface \in BOOLEAN
  /\ cache = iface
  /\ call = "none"
  /\ pc = "idle" /\ cursor = 0 /\ called = {}
  /\ known = FALSE
  /\ wire = <<>>
  /\ registers = 0 /\ events = 0
  /\ missed = FALSE /\ refused = FALSE

Ids == {c.id : c \in cells}

IsFirst(c, S) == c \in S /\ \A d \in S : c.id <= d.id

\* What waits, when the subscription or the object is given up.
Untold(kind, items) ==
  [i \in DOMAIN items |-> IF items[i].kind = kind
                            THEN [items[i] EXCEPT !.told = FALSE] ELSE items[i]]

ChangeWaits == \E i \in DOMAIN wire : wire[i].kind = "interfaces"

-----------------------------------------------------------------------------
(***************************************************************************)
(* The daemon                                                              *)
(***************************************************************************)

Send(item) ==
  /\ events < MaxEvents
  /\ events' = events + 1
  /\ wire' = Append(wire, item)
  /\ UNCHANGED <<list, object, watching, cache, call, walk, missed, refused>>

\* The interface comes, or goes and the daemon forgets the agent.
ChangeInterface ==
  /\ iface' = ~iface
  /\ known' = FALSE
  /\ Send([kind |-> "interfaces", on |-> ~iface, told |-> watching])

Push ==
  /\ known
  /\ Send([kind |-> "push", on |-> iface, told |-> object])
  /\ UNCHANGED <<iface, known>>

Answered(effect) ==
  /\ call' = "none"
  /\ known' = effect
  /\ UNCHANGED <<list, watching, cache, walk, iface, events, missed>>

\* RegisterAgent succeeds, unless the daemon has an agent or no interface.
AgentRegistered ==
  /\ call = "RegisterAgent"
  /\ iface /\ ~known
  /\ refused' = FALSE
  /\ Answered(TRUE)
  /\ UNCHANGED <<object, wire>>

\* It fails, or times out and may have been carried out.
AgentRefused ==
  /\ call = "RegisterAgent"
  /\ refused' = TRUE
  /\ Answered(known) \/ Answered(iface)
  /\ UNCHANGED <<object, wire>>

\* UnregisterAgent returns, perhaps in vain; then the object is unregistered.
AgentUnregistered ==
  /\ call = "UnregisterAgent"
  /\ Answered(FALSE) \/ Answered(known)
  /\ refused' = known'
  /\ object' = FALSE
  /\ wire' = Untold("push", wire)

-----------------------------------------------------------------------------
(***************************************************************************)
(* The agent                                                               *)
(***************************************************************************)

\* _ofono_register_push_agent(): the object, then RegisterAgent. Registering
\* the object may fail.
RegisterPush ==
  \/ object' = TRUE /\ call' = "RegisterAgent" /\ UNCHANGED refused
  \/ refused' = TRUE /\ UNCHANGED <<object, call>>

\* Faulty variant of InterfacesChanged: the interface that goes is ignored.
InterfacesChangedOnce(on) ==
  IF on /\ ~object THEN RegisterPush /\ wire' = Tail(wire)
  ELSE wire' = Tail(wire) /\ UNCHANGED <<object, call, refused>>

\* _ofono_interfaces_changed_cb()
InterfacesChanged(on) ==
  \/ /\ on /\ ~object
     /\ RegisterPush
     /\ wire' = Tail(wire)
  \/ /\ ~on /\ object
     /\ object' = FALSE
     /\ refused' = FALSE
     /\ wire' = Untold("push", Tail(wire))
     /\ UNCHANGED call
  \/ /\ on = object
     /\ wire' = Tail(wire)
     /\ UNCHANGED <<object, call, refused>>

MainLoopRuns == pc = "idle" /\ call = "none" /\ wire # <<>>

\* The modem's handlers write the cache, and the agent is notified.
DispatchInterfaces ==
  /\ MainLoopRuns
  /\ Head(wire).kind = "interfaces"
  /\ agent = "live" \/ ~Head(wire).told
  /\ cache' = Head(wire).on
  /\ IF Head(wire).told
       THEN InterfacesChanged(Head(wire).on) /\ missed' = FALSE
       ELSE wire' = Tail(wire) /\ UNCHANGED <<object, call, missed, refused>>
  /\ UNCHANGED <<list, watching, walk, daemon>>

\* ReceiveNotification: the callbacks are called one after the other.
DispatchPush ==
  /\ MainLoopRuns
  /\ Head(wire).kind = "push" /\ Head(wire).told
  /\ agent = "live"
  /\ wire' = Tail(wire)
  /\ \E c \in cells : IsFirst(c, cells) /\ cursor' = c.id /\ called' = {c.id}
  /\ pc' = "callback"
  /\ UNCHANGED <<list, object, watching, cache, call, daemon, missed, refused>>

\* The object is gone: GDBus answers with an error.
DropPush ==
  /\ MainLoopRuns
  /\ Head(wire).kind = "push" /\ ~Head(wire).told
  /\ wire' = Tail(wire)
  /\ UNCHANGED <<list, object, watching, cache, call, walk, daemon, missed,
                 refused>>

\* A handler runs that points to the freed agent.
DispatchDangling ==
  /\ MainLoopRuns
  /\ agent = "freed" /\ Head(wire).told
  /\ wire' = Tail(wire)
  /\ cache' = IF Head(wire).kind = "interfaces" THEN Head(wire).on ELSE cache
  /\ pc' \in {"idle", "crashed"}
  /\ UNCHANGED <<list, object, watching, call, cursor, called, daemon, missed,
                 refused>>

\* The callback returns; the walk goes to the cell behind.
WalkNext ==
  /\ pc = "callback" /\ call = "none"
  /\ cursor \in Ids
  /\ \E c \in cells : /\ IsFirst(c, {d \in cells : d.id > cursor})
                      /\ cursor' = c.id
                      /\ called' = called \cup {c.id}
  /\ UNCHANGED <<list, object, watching, cache, call, pc, daemon, wire, missed,
                 refused>>

WalkLeft(rest) ==
  /\ pc = "callback" /\ call = "none"
  /\ pc' \in rest
  /\ cursor' = 0
  /\ called' = {}
  /\ UNCHANGED <<list, object, watching, cache, call, daemon, wire, missed,
                 refused>>

\* Faulty variant of WalkEnd: only one callback is called.
WalkEndEarly == cursor \in Ids /\ WalkLeft({"idle"})

WalkEnd ==
  /\ cursor \in Ids
  /\ \A c \in cells : c.id <= cursor
  /\ WalkLeft({"idle"})

\* The callback had its own cell freed: the next link is read from freed
\* memory.
WalkDangling == cursor \notin Ids /\ WalkLeft({"idle", "crashed"})

-----------------------------------------------------------------------------
(***************************************************************************)
(* The client                                                              *)
(***************************************************************************)

ClientRuns == agent = "live" /\ pc \in {"idle", "callback"} /\ call = "none"

Add(cb) ==
  /\ ClientRuns
  /\ registers < MaxRegister
  /\ registers' = registers + 1
  /\ cells' = cells \cup {[id |-> registers', cb |-> cb]}
  /\ UNCHANGED <<agent, cache, walk, daemon, wire>>

\* With an object, the agent watches the interface already.
Attend ==
  IF object THEN UNCHANGED <<object, watching, call, missed, refused>>
  ELSE /\ watching' = TRUE
       /\ missed' = (missed \/ (~watching /\ ChangeWaits))
       /\ IF cache THEN RegisterPush ELSE UNCHANGED <<object, call, refused>>

\* Faulty variant of Register: the list is not searched.
RegisterTwice(cb) == Add(cb) /\ Attend

\* Faulty variant of Register: the interface is watched only when it is there.
RegisterUnwatched(cb) ==
  /\ \A c \in cells : c.cb # cb
  /\ Add(cb)
  /\ IF object \/ cache THEN Attend
     ELSE UNCHANGED <<object, watching, call, missed, refused>>

\* ofono_register_push_notification_callback(), for a callback that is not in
\* the list; for another one it does nothing.
Register(cb) ==
  /\ \A c \in cells : c.cb # cb
  /\ Add(cb)
  /\ Attend

\* Faulty variant of Unregister: the notification is kept.
UnregisterWatching(cb) ==
  /\ ClientRuns
  /\ \E c \in cells : c.cb = cb /\ cells' = cells \ {c}
  /\ call' = IF cells' = {} THEN "UnregisterAgent" ELSE call
  /\ UNCHANGED <<agent, registers, object, watching, cache, walk, daemon, wire,
                 missed, refused>>

\* ofono_unregister_push_notification_callback(). With the last callback go
\* the notification, then the agent.
Unregister(cb) ==
  /\ ClientRuns
  /\ \E c \in cells : c.cb = cb /\ cells' = cells \ {c}
  /\ IF cells' = {}
       THEN /\ watching' = FALSE
            /\ missed' = FALSE
            /\ wire' = Untold("interfaces", wire)
            /\ call' = "UnregisterAgent"
       ELSE UNCHANGED <<watching, missed, wire, call>>
  /\ UNCHANGED <<agent, registers, object, cache, walk, daemon, refused>>

\* The callback is not in the list: the search runs off its end.
UnregisterUnknown(cb) ==
  /\ ClientRuns
  /\ \A c \in cells : c.cb # cb
  /\ pc' = "crashed"
  /\ UNCHANGED <<list, object, watching, cache, call, cursor, called, daemon,
                 wire, missed, refused>>

\* ofono_free_push_agent(): the notification and the object stay.
Free ==
  /\ ClientRuns
  /\ agent' = "freed"
  /\ cells' = {}
  /\ UNCHANGED <<registers, object, watching, cache, call, walk, daemon, wire,
                 missed, refused>>

Client ==
  \/ \E cb \in Cb : Register(cb) \/ Unregister(cb) \/ UnregisterUnknown(cb)
  \/ Free

Library ==
  \/ DispatchInterfaces \/ DispatchPush \/ DropPush \/ DispatchDangling
  \/ WalkNext \/ WalkEnd \/ WalkDangling
  \/ AgentRegistered \/ AgentRefused \/ AgentUnregistered

Next == Client \/ ChangeInterface \/ Push \/ Library

Spec == Init /\ [][Next]_vars

\* The main loop runs, callbacks return, and synchronous calls end.
FairSpec == Spec /\ WF_vars(Library)

-----------------------------------------------------------------------------
(***************************************************************************)
(* Properties                                                              *)
(***************************************************************************)

\* The type invariant. No callback is in the list twice.
TypeOK ==
  /\ agent \in {"live", "freed"}
  /\ cells \subseteq Cell
  /\ \A c, d \in cells : c.cb = d.cb => c = d
  /\ {object, watching, cache, iface, known, missed, refused} \subseteq BOOLEAN
  /\ call \in {"none", "RegisterAgent", "UnregisterAgent"}
  /\ pc \in {"idle", "callback", "crashed"}
  /\ cursor \in 0..MaxRegister
  /\ called \subseteq 1..MaxRegister
  /\ wire \in Seq(Item)
  /\ registers \in 0..MaxRegister
  /\ events \in 0..MaxEvents

\* Somebody listens exactly while the agent watches the interface, and it has
\* no object otherwise: so returning early when there is an object, as
\* registering a callback does, never leaves an agent that does not watch.
WatchesWhileListening ==
  agent = "live" =>
    /\ watching <=> cells # {}
    /\ object => watching \/ call = "UnregisterAgent"

\* Nothing about the interface is under way.
Quiet == agent = "live" /\ call = "none" /\ pc # "crashed" /\ ~ChangeWaits

\* The daemon has the agent when there is an interface and somebody listens,
\* and only then, or an attempt to tell it failed.
Registered ==
  \/ refused
  \/ known /\ object <=> iface /\ cells # {}

\* However the interface comes and goes while callbacks are registered and
\* unregistered and the calls that tell the daemon block, the agent is
\* registered when all is quiet. Left out is the case that a change was
\* waiting when the agent began to watch.
RegisteredWhenAvailable == Quiet /\ ~missed => Registered

\* When the daemon rests, the agent gets there.
RegistersInTheEnd ==
  <>[](Registered \/ missed \/ agent = "freed" \/ pc = "crashed")

RegOf(c) == [id |-> c.id, noti |-> "push", cb |-> c.cb]

Registrations == {RegOf(c) : c \in cells}

\* The walk of the callbacks implements the notification service, with
\* messages as its only notification.
Service == INSTANCE NotificationService WITH
  Noti <- {"push"},
  regs <- Registrations,
  serving <- IF cursor = 0 THEN "none" ELSE "push",
  running <- cursor,
  done <- called

\* A message is passed to each callback in order and once, although callbacks
\* register and unregister others; only one that had its own cell freed may
\* cut it short.
ServiceSpec == Service!Spec

=============================================================================
