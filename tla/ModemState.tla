---------------------------- MODULE ModemState ----------------------------
(***************************************************************************)
(* The modem properties libofono caches: powered, online and interfaces of *)
(* struct ofono_modem. ofono_modem_init() subscribes to PropertyChanged,   *)
(* then blocks in GetProperties and copies the answer into the cache; from *)
(* then on three signal handlers write the cache: _modem_property_changed, *)
(* and, while the client has the notification registered,                  *)
(* _modem_status_notify and _modem_interfaces_notify.                      *)
(*                                                                         *)
(* While the call blocks, the connection keeps reading signals, but the    *)
(* main loop does not run: they wait, and are dispatched after the answer  *)
(* has been copied although they are older than it.                        *)
(*                                                                         *)
(* The value of a property is known by its version: the daemon counts the  *)
(* changes of each property. Version 0 is what g_new0() leaves. That the   *)
(* handlers go on to call _notify() is the matter of module Notifications. *)
(***************************************************************************)
EXTENDS Naturals, Sequences

CONSTANT MaxChanges  \* bound: changes of properties by the daemon

ASSUME MaxChangesAssumption == MaxChanges \in Nat

VARIABLES props,    \* the properties, in the daemon
          changes,  \* how many times the daemon changed one
          wire,     \* signals waiting for the main loop, oldest first
          phase,    \* of ofono_modem_init()
          snap,     \* the answer to GetProperties
          old,      \* how many waiting signals the answer is newer than
          watches,  \* the handlers subscribed
          cache     \* the properties, in struct ofono_modem

vars == <<props, changes, wire, phase, snap, old, watches, cache>>

Key == {"Powered", "Online", "Interfaces"}

Handler == {"cache", "status", "interfaces"}

Version == 0..(MaxChanges + 1)

\* PropertyChanged, with the subscriptions that have not been told yet.
Delivery == [key : Key, version : Version, to : SUBSET Handler]

NoAnswer == [k \in {} |-> 0]

\* The daemon has values of its own; the struct is zeroed.
Init ==
  /\ props = [k \in Key |-> 1]
  /\ changes = 0
  /\ wire = <<>>
  /\ phase = "new"
  /\ snap = NoAnswer
  /\ old = 0
  /\ watches = {}
  /\ cache = [k \in Key |-> 0]

-----------------------------------------------------------------------------
(***************************************************************************)
(* The daemon                                                              *)
(***************************************************************************)

\* Faulty variant of Receivers: the modem's own watch counts only from the
\* end of ofono_modem_init(), as if it were taken after GetProperties.
ReceiversLate(key) ==
  {h \in watches : /\ h = "interfaces" => key = "Interfaces"
                   /\ h = "cache" => phase = "ready"}

\* Faulty variant of Receivers: the modem's own watch asks for one property.
ReceiversPowered(key) ==
  {h \in watches : /\ h = "interfaces" => key = "Interfaces"
                   /\ h = "cache" => key = "Powered"}

\* The subscriptions a change of `key` is delivered to. That of the
\* interfaces handler asks for its own property only.
Receivers(key) == {h \in watches : h = "interfaces" => key = "Interfaces"}

\* A property takes its next value, and the change is announced.
Change(key) ==
  /\ changes < MaxChanges
  /\ changes' = changes + 1
  /\ props' = [props EXCEPT ![key] = @ + 1]
  /\ wire' = IF Receivers(key) = {} THEN wire
             ELSE Append(wire, [key |-> key, version |-> props'[key],
                                to |-> Receivers(key)])
  /\ UNCHANGED <<phase, snap, old, watches, cache>>

\* The daemon answers GetProperties. Its answer reaches the connection after
\* the signals it sent before.
Answer ==
  /\ phase = "asking"
  /\ phase' = "answered"
  /\ snap' = props
  /\ old' = Len(wire)
  /\ UNCHANGED <<props, changes, wire, watches, cache>>

\* GetProperties fails, or times out.
Fail ==
  /\ phase = "asking"
  /\ phase' = "answered"
  /\ UNCHANGED <<props, changes, wire, snap, old, watches, cache>>

-----------------------------------------------------------------------------
(***************************************************************************)
(* ofono_modem_init()                                                      *)
(***************************************************************************)

\* Subscribe, then call GetProperties and block.
Subscribe ==
  /\ phase = "new"
  /\ phase' = "asking"
  /\ watches' = {"cache"}
  /\ UNCHANGED <<props, changes, wire, snap, old, cache>>

\* Faulty variant of InitReturns: the answer is used unseen.
InitReturnsUnchecked ==
  /\ phase = "answered"
  /\ phase' = "ready"
  /\ cache' = snap
  /\ UNCHANGED <<props, changes, wire, snap, old, watches>>

\* The call returns: an answer is copied into the cache, an error is logged.
InitReturns ==
  /\ phase = "answered"
  /\ phase' = "ready"
  /\ cache' = IF snap = NoAnswer THEN cache ELSE snap
  /\ UNCHANGED <<props, changes, wire, snap, old, watches>>

-----------------------------------------------------------------------------
(***************************************************************************)
(* The client's notifications, and the main loop                           *)
(***************************************************************************)

\* The client registers its first callback for modem status or interfaces.
Watch(h) ==
  /\ phase = "ready"
  /\ h \notin watches
  /\ watches' = watches \cup {h}
  /\ UNCHANGED <<props, changes, wire, phase, snap, old, cache>>

\* The client unregisters its last callback. What waits for the subscription
\* is not delivered any more.
Unwatch(h) ==
  /\ phase = "ready"
  /\ h \in watches
  /\ watches' = watches \ {h}
  /\ wire' = [i \in DOMAIN wire |-> [wire[i] EXCEPT !.to = @ \ {h}]]
  /\ UNCHANGED <<props, changes, phase, snap, old, cache>>

\* Faulty variant of Store: a value ends up under the next key too.
StoreTwice(sig) ==
  cache' = [k \in Key |->
              IF k = sig.key \/ (k = "Online" /\ sig.key = "Powered")
                THEN sig.version ELSE cache[k]]

\* The handler `h` copies the value into the cache.
Store(sig) == cache' = [cache EXCEPT ![sig.key] = sig.version]

\* The handler `h` runs for the oldest signal.
Handle(h, sig) ==
  IF h = "status" /\ sig.key = "Interfaces" THEN UNCHANGED cache ELSE Store(sig)

\* The oldest signal leaves when nobody is left to tell.
Pop ==
  /\ wire' = Tail(wire)
  /\ old' = IF old = 0 THEN 0 ELSE old - 1

\* The main loop tells one subscription of the oldest signal.
Dispatch ==
  /\ phase = "ready"
  /\ wire # <<>>
  /\ \E h \in Head(wire).to :
       /\ Handle(h, Head(wire))
       /\ IF Head(wire).to = {h} THEN Pop
          ELSE /\ wire' = [wire EXCEPT ![1].to = @ \ {h}]
               /\ UNCHANGED old
  /\ UNCHANGED <<props, changes, phase, snap, watches>>

\* The subscriptions of the oldest signal are all gone.
Discard ==
  /\ phase = "ready"
  /\ wire # <<>>
  /\ Head(wire).to = {}
  /\ Pop
  /\ UNCHANGED <<props, changes, phase, snap, watches, cache>>

Client == \E h \in {"status", "interfaces"} : Watch(h) \/ Unwatch(h)

Library == Subscribe \/ InitReturns \/ Dispatch \/ Discard

Next ==
  \/ \E key \in Key : Change(key)
  \/ Answer \/ Fail
  \/ Client
  \/ Library

Spec == Init /\ [][Next]_vars

\* The main loop runs, and a synchronous call ends, at the latest by timeout.
FairSpec == Spec /\ WF_vars(Library) /\ WF_vars(Answer \/ Fail)

-----------------------------------------------------------------------------
(***************************************************************************)
(* Properties                                                              *)
(***************************************************************************)

TypeOK ==
  /\ props \in [Key -> Version]
  /\ changes \in 0..MaxChanges
  /\ wire \in Seq(Delivery)
  /\ phase \in {"new", "asking", "answered", "ready"}
  /\ snap \in [Key -> Version] \cup {NoAnswer}
  /\ old \in Nat
  /\ watches \subseteq Handler
  /\ cache \in [Key -> Version]

\* The signal at place `i` is the last one waiting about its property.
LastOfKey(i) == \A j \in DOMAIN wire : j > i => wire[j].key # wire[i].key

Waiting(key) == \E i \in DOMAIN wire : wire[i].key = key

\* The cache is never out of date by more than the signals that wait: the
\* last one about a property carries its present value, and a property no
\* signal waits for is cached with its present value, or was never heard of
\* because GetProperties failed. The gap between subscribing and the answer
\* loses no change, however the two interleave.
CacheConverges ==
  phase = "ready" =>
    /\ \A i \in DOMAIN wire :
         LastOfKey(i) => wire[i].version = props[wire[i].key]
    /\ \A key \in Key :
         \/ Waiting(key)
         \/ cache[key] = props[key]
         \/ snap = NoAnswer /\ cache[key] = 0

\* Signals older than the answer are replayed over it, so a cached property
\* may go back to an older value after ofono_modem_init(). Once they have
\* been dispatched it never goes back again, whichever of the three handlers
\* writes it.
CacheNeverGoesBack ==
  [][phase = "ready" /\ old = 0 =>
       \A key \in Key : cache'[key] >= cache[key]]_vars

\* When the daemon stops changing its properties the cache becomes equal to
\* them and stays so, if GetProperties was answered.
CacheCatchesUp ==
  <>[](phase = "ready" /\ (snap # NoAnswer => cache = props))

=============================================================================
