--------------------------- MODULE Notifications ---------------------------
(***************************************************************************)
(* The notification registry of one struct ofono_modem and the delivery of *)
(* D-Bus signals through it: ofono_register_notification_callback(),       *)
(* ofono_unregister_notification_callback(), ofono_modem_deinit(), the     *)
(* signal handlers up to _notify(), and _notify() itself.                  *)
(*                                                                         *)
(* modem->noti_list is a set of notification data records; a record's      *)
(* cb_list is a set of cells. Both lists only ever grow at the end, and a  *)
(* cell carries the number of the call that made it, so list order is the  *)
(* order of those numbers and nothing is lost by using sets.               *)
(*                                                                         *)
(* The client and the main loop are one thread: the client acts between    *)
(* two dispatches or inside a callback, so a round of _notify() is not     *)
(* atomic. Signals arrive at any time, on GDBus's worker thread, which     *)
(* fixes at arrival which subscriptions the signal is for. What GDBus does *)
(* is taken from how the library uses it: first in, first out, a handler   *)
(* is not run once its subscription is gone.                               *)
(***************************************************************************)
EXTENDS Naturals, Sequences, FiniteSets, NotificationTable

CONSTANTS Noti,         \* the notifications the client asks for
          Cb,           \* the client's callbacks
          Signal,       \* the signals the daemon may emit
          MaxRegister,  \* bound: calls of register
          MaxSignals    \* bound: signals emitted

ASSUME NotificationsAssumption ==
  /\ "none" \notin Noti
  /\ MaxRegister \in Nat
  /\ MaxSignals \in Nat
  /\ \A sig \in Signal : sig.origin \in Origin

VARIABLES modem,     \* "live", or "freed" by ofono_modem_deinit()
          notiList,  \* modem->noti_list
          subs,      \* the subscriptions the connection holds for the modem
          queue,     \* signals waiting for the main loop, with the
                     \* subscriptions that have not been told yet
          pc,        \* the main thread: "idle", in a "callback", "crashed"
          round,     \* the locals of _notify() and of the handler above it
          called,    \* the cells called in this round
          calls,     \* how many times register was called
          handed,    \* user data that a register call answering TRUE took
          frees,     \* how many times each user data was freed
          emitted    \* how many signals were emitted

vars == <<modem, notiList, subs, queue, pc, round, called, calls, handed,
          frees, emitted>>

client == <<modem, notiList, subs, calls, handed, frees>>

-----------------------------------------------------------------------------
(***************************************************************************)
(* Types                                                                   *)
(***************************************************************************)

\* struct ofono_noti_data holds the watches of one notification in an array
\* of this size.
MAX_WATCHES_NUM == 2

\* GDBus numbers subscriptions uniquely. The number stands here as the
\* register call it was made in and its place in nd->watches; call 0 is
\* ofono_modem_init().
WatchId == (0..MaxRegister) \X (1..MAX_WATCHES_NUM)

PropWatch == <<0, 1>>

\* struct noti_cb_data. The user data of a cell is known by the same number.
Cell == [id : 1..MaxRegister, cb : Cb]

\* struct ofono_noti_data
NotiData == [noti : Noti, watches : SUBSET WatchId, cbs : SUBSET Cell]

\* A signal waiting in the main context, for the subscriptions `to`.
Delivery == [sig : Signal, to : (SUBSET WatchId) \ {{}}]

NoRound == [noti |-> "none", owner |-> "none", origin |-> "own", cursor |-> 0]

-----------------------------------------------------------------------------
(***************************************************************************)
(* Reading the lists                                                       *)
(***************************************************************************)

\* _find_noti_data()
Find(n) == {nd \in notiList : nd.noti = n}

\* _find_noti_cb_data()
FindCb(nd, cb) == {c \in nd.cbs : c.cb = cb}

Ids(cells) == {c.id : c \in cells}

\* The cells a list walk from the cell numbered `i` still has ahead.
After(nd, i) == {c \in nd.cbs : c.id > i}

IsFirst(c, cells) == c \in cells /\ \A d \in cells : c.id <= d.id

\* The notification on whose behalf a subscription was made.
OwnerOf(w) ==
  IF \E nd \in notiList : w \in nd.watches
    THEN (CHOOSE nd \in notiList : w \in nd.watches).noti
    ELSE "none"

\* The subscriptions _subscribe_notification() makes in register call `i`.
NewSubs(i, n) ==
  {[id |-> <<i, k>>, row |-> Rows(n)[k]] : k \in DOMAIN Rows(n)}

SubIds(S) == {s.id : s \in S}

-----------------------------------------------------------------------------
Init ==
  /\ modem = "live"
  /\ notiList = {}
  /\ subs = {[id |-> PropWatch, row |-> CacheRow]}
  /\ queue = <<>>
  /\ pc = "idle"
  /\ round = NoRound
  /\ called = {}
  /\ calls = 0
  /\ handed = {}
  /\ frees = [i \in 1..MaxRegister |-> 0]
  /\ emitted = 0

-----------------------------------------------------------------------------
(***************************************************************************)
(* The client                                                              *)
(***************************************************************************)

\* The client holds a modem it may use, and runs: between two dispatches or
\* inside the callback it was called through.
ClientRuns == modem = "live" /\ pc \in {"idle", "callback"}

\* A call of ofono_register_notification_callback(). Its new cell has the
\* number of the call.
NewCall ==
  /\ ClientRuns
  /\ calls < MaxRegister
  /\ calls' = calls + 1

\* The callback is in the list already: the new record is thrown away and
\* the call answers TRUE.
RegisterDuplicate(n, cb) ==
  /\ NewCall
  /\ \E nd \in Find(n) : FindCb(nd, cb) # {}
  /\ handed' = handed \cup {calls'}
  /\ UNCHANGED <<modem, notiList, subs, frees>>

\* Faulty variant of RegisterAppend: the list is not searched for the callback.
RegisterAppendUnchecked(n, cb) ==
  /\ NewCall
  /\ \E nd \in Find(n) :
       notiList' = (notiList \ {nd})
         \cup {[nd EXCEPT !.cbs = @ \cup {[id |-> calls', cb |-> cb]}]}
  /\ handed' = handed \cup {calls'}
  /\ UNCHANGED <<modem, subs, frees>>

\* The notification has its subscriptions: the cell goes to the end of its
\* list.
RegisterAppend(n, cb) ==
  /\ NewCall
  /\ \E nd \in Find(n) :
       /\ FindCb(nd, cb) = {}
       /\ notiList' = (notiList \ {nd})
            \cup {[nd EXCEPT !.cbs = @ \cup {[id |-> calls', cb |-> cb]}]}
  /\ handed' = handed \cup {calls'}
  /\ UNCHANGED <<modem, subs, frees>>

\* The first callback of the notification: subscribe, then add a record.
RegisterFirst(n, cb) ==
  /\ NewCall
  /\ Find(n) = {}
  /\ Rows(n) # <<>>
  /\ subs' = subs \cup NewSubs(calls', n)
  /\ notiList' = notiList \cup
       {[noti |-> n, watches |-> SubIds(NewSubs(calls', n)),
         cbs |-> {[id |-> calls', cb |-> cb]}]}
  /\ handed' = handed \cup {calls'}
  /\ UNCHANGED <<modem, frees>>

\* watches[0] is still 0: the call answers FALSE and keeps nothing.
RegisterRefused(n, cb) ==
  /\ NewCall
  /\ Find(n) = {}
  /\ Rows(n) = <<>>
  /\ UNCHANGED <<modem, notiList, subs, handed, frees>>

\* Faulty variant of Shrink: the subscriptions of a record that goes are given
\* up without the last one.
ShrinkLeavesLastWatch(nd, gone) ==
  IF nd.cbs = gone
    THEN /\ notiList' = notiList \ {nd}
         /\ subs' = {s \in subs : s.id \notin nd.watches
                                \/ \E w \in nd.watches : w[2] < s.id[2]}
    ELSE /\ notiList' = (notiList \ {nd})
              \cup {[nd EXCEPT !.cbs = @ \ gone]}
         /\ UNCHANGED subs

\* Faulty variant of Shrink: only a record that goes is taken off its list.
ShrinkKeepsCell(nd, gone) ==
  IF nd.cbs = gone
    THEN /\ notiList' = notiList \ {nd}
         /\ subs' = {s \in subs : s.id \notin nd.watches}
    ELSE UNCHANGED <<notiList, subs>>

\* A record lost the callbacks in `gone`; the record goes too, with its
\* subscriptions, when it holds no other.
Shrink(nd, gone) ==
  IF nd.cbs = gone
    THEN /\ notiList' = notiList \ {nd}
         /\ subs' = {s \in subs : s.id \notin nd.watches}
    ELSE /\ notiList' = (notiList \ {nd})
              \cup {[nd EXCEPT !.cbs = @ \ gone]}
         /\ UNCHANGED subs

\* One call of user_data_free_func for each number in `ids`.
FreeUserData(ids) ==
  frees' = [i \in DOMAIN frees |-> IF i \in ids THEN frees[i] + 1 ELSE frees[i]]

\* ofono_unregister_notification_callback()
Unregister(n, cb) ==
  /\ ClientRuns
  /\ \E nd \in Find(n) : \E c \in FindCb(nd, cb) :
       /\ Shrink(nd, {c})
       /\ FreeUserData({c.id})
  /\ UNCHANGED <<modem, calls, handed>>

\* ofono_modem_deinit()
Deinit ==
  /\ ClientRuns
  /\ modem' = "freed"
  /\ subs' = {s \in subs : /\ s.id # PropWatch
                           /\ \A nd \in notiList : s.id \notin nd.watches}
  /\ FreeUserData(UNION {Ids(nd.cbs) : nd \in notiList})
  /\ notiList' = {}
  /\ UNCHANGED <<calls, handed>>

Client ==
  /\ \/ \E n \in Noti, cb \in Cb :
          \/ RegisterDuplicate(n, cb)
          \/ RegisterAppend(n, cb)
          \/ RegisterFirst(n, cb)
          \/ RegisterRefused(n, cb)
          \/ Unregister(n, cb)
     \/ Deinit
  /\ UNCHANGED <<queue, pc, round, called, emitted>>

-----------------------------------------------------------------------------
(***************************************************************************)
(* Signals                                                                 *)
(***************************************************************************)

\* The daemon emits a signal that some subscription matches. A signal that
\* matches none leaves no trace.
Emit(sig) ==
  LET to == {s.id : s \in {q \in subs : Matches(q.row, sig)}}
  IN /\ emitted < MaxSignals
     /\ to # {}
     /\ emitted' = emitted + 1
     /\ queue' = Append(queue, [sig |-> sig, to |-> to])
     /\ UNCHANGED <<client, pc, round, called>>

\* The subscription `w` has been told of the oldest signal.
Told(w) ==
  LET rest == Head(queue).to \ {w}
  IN queue' = IF rest = {} THEN Tail(queue)
              ELSE <<[Head(queue) EXCEPT !.to = rest]>> \o Tail(queue)

\* The handler of subscription `s` passes the oldest signal to _notify() for
\* notification `n`, and _notify() finds a record with callbacks to walk.
NotifyFinds(s, nd) ==
  /\ HandlerAccepts(s.row, Head(queue).sig)
  /\ nd \in Find(s.row.routed)
  /\ nd.cbs # {}

\* The main loop runs one handler and _notify() calls the first callback.
DispatchNotify ==
  /\ pc = "idle"
  /\ queue # <<>>
  /\ \E w \in Head(queue).to, s \in subs, nd \in notiList :
       /\ s.id = w
       /\ NotifyFinds(s, nd)
       /\ \E c \in nd.cbs :
            /\ IsFirst(c, nd.cbs)
            /\ round' = [noti |-> nd.noti, owner |-> OwnerOf(w),
                         origin |-> Head(queue).sig.origin, cursor |-> c.id]
            /\ called' = {c.id}
       /\ pc' = "callback"
       /\ Told(w)
  /\ UNCHANGED <<client, emitted>>

\* The main loop finds the subscription gone, or its handler drops the
\* signal, or _notify() finds nobody to call.
DispatchDrop ==
  /\ pc = "idle"
  /\ queue # <<>>
  /\ \E w \in Head(queue).to :
       /\ ~ \E s \in subs, nd \in notiList : s.id = w /\ NotifyFinds(s, nd)
       /\ Told(w)
  /\ UNCHANGED <<client, pc, round, called, emitted>>

\* The cell the walk stands on is still in the list.
CursorLinked ==
  \E nd \in Find(round.noti) : round.cursor \in Ids(nd.cbs)

\* The callback returns and the walk steps to the next cell.
NotifyNext ==
  /\ pc = "callback"
  /\ \E nd \in Find(round.noti) :
       /\ round.cursor \in Ids(nd.cbs)
       /\ \E c \in nd.cbs :
            /\ IsFirst(c, After(nd, round.cursor))
            /\ round' = [round EXCEPT !.cursor = c.id]
            /\ called' = called \cup {c.id}
  /\ UNCHANGED <<client, queue, pc, emitted>>

\* Faulty variant of NotifyEnd: the walk may stop after any callback.
NotifyEndEarly ==
  /\ pc = "callback"
  /\ CursorLinked
  /\ pc' = "idle"
  /\ round' = NoRound
  /\ called' = {}
  /\ UNCHANGED <<client, queue, emitted>>

\* The callback returns and the walk is at the end of the list.
NotifyEnd ==
  /\ pc = "callback"
  /\ \E nd \in Find(round.noti) :
       /\ round.cursor \in Ids(nd.cbs)
       /\ After(nd, round.cursor) = {}
  /\ pc' = "idle"
  /\ round' = NoRound
  /\ called' = {}
  /\ UNCHANGED <<client, queue, emitted>>

\* The callback had its own cell freed, by unregistering itself or by
\* ofono_modem_deinit(). Reading its next link is undefined: the walk may
\* read the end of the list or fault.
NotifyDangling ==
  /\ pc = "callback"
  /\ ~CursorLinked
  /\ pc' \in {"idle", "crashed"}
  /\ round' = NoRound
  /\ called' = {}
  /\ UNCHANGED <<client, queue, emitted>>

MainLoop ==
  DispatchNotify \/ DispatchDrop \/ NotifyNext \/ NotifyEnd \/ NotifyDangling

Next ==
  \/ Client
  \/ \E sig \in Signal : Emit(sig)
  \/ MainLoop

Spec == Init /\ [][Next]_vars

\* The main loop keeps running and callbacks return.
FairSpec == Spec /\ WF_vars(MainLoop)

-----------------------------------------------------------------------------
(***************************************************************************)
(* Properties                                                              *)
(***************************************************************************)

\* The type invariant. A waiting signal is always for somebody, and a round
\* walks a notification from a cell that was made.
TypeOK ==
  /\ modem \in {"live", "freed"}
  /\ notiList \subseteq NotiData
  /\ SubIds(subs) \subseteq WatchId
  /\ queue \in Seq(Delivery)
  /\ pc \in {"idle", "callback", "crashed"}
  /\ round \in [noti : Noti \cup {"none"}, owner : Noti \cup {"none"},
                origin : Origin, cursor : 0..MaxRegister]
  /\ called \subseteq 1..MaxRegister
  /\ calls \in 0..MaxRegister
  /\ handed \subseteq 1..MaxRegister
  /\ frees \in [1..MaxRegister -> Nat]
  /\ emitted \in 0..MaxSignals

\* What is subscribed on the bus is exactly what the lists account for: the
\* modem's own watch while it lives, and, for every notification that has a
\* callback, each row of its table once. No subscription outlives the last
\* callback or the modem its handler points to, none is missing, and no two
\* records share one.
SubscriptionsMatchLists ==
  /\ modem = "live" => [id |-> PropWatch, row |-> CacheRow] \in subs
  /\ \A s \in subs :
       \/ modem = "live" /\ s.id = PropWatch
       \/ \E nd \in notiList : s.id \in nd.watches
  /\ \A nd \in notiList :
       \E i \in 1..calls : /\ nd.watches = SubIds(NewSubs(i, nd.noti))
                          /\ NewSubs(i, nd.noti) \subseteq subs
  /\ \A s, t \in subs : s.id = t.id => s = t
  /\ \A nd, md \in notiList : nd.watches \cap md.watches # {} => nd = md

\* The registry is a map from notifications to non-empty sets of callbacks:
\* one record per notification, so that _find_noti_data() finds the only one,
\* no record without a callback, no callback twice, whatever the order of
\* registering and unregistering, inside callbacks or outside.
RegistryIsMap ==
  /\ \A nd, md \in notiList : nd.noti = md.noti => nd = md
  /\ \A nd \in notiList : nd.cbs # {}
  /\ \A nd \in notiList : \A c, d \in nd.cbs : c.cb = d.cb => c = d
  /\ modem = "freed" => notiList = {}

\* User data is freed at most once, never while the cell that passes it to
\* its callback is in a list, and never if the register call refused it.
UserDataFreedOnce ==
  \A i \in 1..MaxRegister :
    /\ frees[i] <= 1
    /\ (\E nd \in notiList : i \in Ids(nd.cbs)) => frees[i] = 0
    /\ frees[i] = 1 => i \in handed

\* A signal of an unrelated modem never reaches a callback, although the
\* subscriptions on calls, messages and contexts see every modem's signals.
ForeignSignalsFiltered == round.origin # "foreign"

\* A signal subscribed to on behalf of a notification is passed to the
\* callbacks of that notification.
RoutedToSubscriber == round.owner = round.noti

\* The cells of the registry as the registrations a client believes in.
Registrations ==
  UNION {{[id |-> c.id, noti |-> nd.noti, cb |-> c.cb] : c \in nd.cbs} :
           nd \in notiList}

Service == INSTANCE NotificationService
             WITH regs <- Registrations, serving <- round.noti,
                  running <- round.cursor, done <- called

\* The lists, watches and the walk implement the service: a round calls the
\* registrations of its notification once each, in order, including those
\* added and except those removed by callbacks of the round, and is cut short
\* only if the running callback had its own registration removed.
ServiceSpec == Service!Spec

Held(i) == \E nd \in notiList : i \in Ids(nd.cbs)

\* A waiting signal is for the callback of cell `i`.
Owed(i) ==
  \E k \in DOMAIN queue : \E s \in subs, nd \in notiList :
    /\ s.id \in queue[k].to
    /\ HandlerAccepts(s.row, queue[k].sig)
    /\ nd.noti = s.row.routed
    /\ i \in Ids(nd.cbs)

\* A signal that waits while a callback is registered for it leads to a call
\* of the callback, or to the callback being unregistered first, unless some
\* callback removes its own registration while it runs.
WaitingSignalServed ==
  \/ <>(pc = "callback" /\ ~CursorLinked)
  \/ \A i \in 1..MaxRegister : Owed(i) ~> (i \in called \/ ~Held(i))

=============================================================================
