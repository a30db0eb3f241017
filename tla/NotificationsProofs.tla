------------------------ MODULE NotificationsProofs ------------------------
(***************************************************************************)
(* Proofs about Notifications for every set of notifications, callbacks    *)
(* and signals, and every bound.                                           *)
(***************************************************************************)
EXTENDS Notifications, TLAPS

(***************************************************************************)
(* The inductive invariant                                                 *)
(***************************************************************************)

\* A cell carries the number of a register call that answered TRUE, and no
\* two cells of the registry carry the same.
CellsNumbered ==
  /\ handed \subseteq 1..calls
  /\ \A nd \in notiList : Ids(nd.cbs) \subseteq handed
  /\ \A nd, md \in notiList : \A c \in nd.cbs, d \in md.cbs :
       c.id = d.id => nd = md /\ c = d

\* The walk has called every cell of its notification that stands at or
\* before the cursor, and none after it; the cursor's number is not reused by
\* another notification.
WalkOnTrack ==
  /\ pc # "callback" => round = NoRound /\ called = {}
  /\ pc = "callback" =>
       /\ round.noti \in Noti
       /\ round.cursor \in called
       /\ round.cursor <= calls
       /\ \A i \in called : i <= round.cursor
       /\ \A nd \in Find(round.noti) : \A c \in nd.cbs :
            c.id <= round.cursor => c.id \in called
       /\ \A nd \in notiList : \A c \in nd.cbs :
            c.id = round.cursor => nd.noti = round.noti

IInv ==
  /\ TypeOK
  /\ SubscriptionsMatchLists
  /\ RegistryIsMap
  /\ UserDataFreedOnce
  /\ CellsNumbered
  /\ WalkOnTrack

-----------------------------------------------------------------------------
(***************************************************************************)
(* Lemmas about the lists                                                  *)
(***************************************************************************)

\* No notification has more subscriptions than nd->watches has places.
LEMMA RowsFit == \A n : DOMAIN Rows(n) \subseteq 1..MAX_WATCHES_NUM
<1>1. \A n \in DOMAIN Table : DOMAIN Table[n] \subseteq 1..2
  BY DEF Table
<1> QED
  BY <1>1 DEF Rows, MAX_WATCHES_NUM

\* What a register call subscribes to: identifiers of its own number.
LEMMA NewSubsIds ==
  ASSUME NEW i \in 1..MaxRegister, NEW n
  PROVE  /\ SubIds(NewSubs(i, n)) \subseteq WatchId
         /\ \A w \in SubIds(NewSubs(i, n)) : w[1] = i
         /\ \A s, t \in NewSubs(i, n) : s.id = t.id => s = t
  BY RowsFit, NotificationsAssumption DEF NewSubs, SubIds, WatchId

\* Changing the callbacks of a record changes nothing else of it.
LEMMA WithCallbacks ==
  ASSUME NEW nd \in NotiData, NEW S \in SUBSET Cell
  PROVE  LET md == [nd EXCEPT !.cbs = S]
         IN  md \in NotiData /\ md.noti = nd.noti /\ md.watches = nd.watches
             /\ md.cbs = S
  BY DEF NotiData

\* The oldest signal, minus one subscription that has been told of it.
LEMMA ToldType ==
  ASSUME TypeOK, queue # <<>>, NEW w, Told(w)
  PROVE  queue' \in Seq(Delivery)
<1> DEFINE rest == Head(queue).to \ {w}
<1>1. queue \in Seq(Delivery)
  BY DEF TypeOK
<1>2. Head(queue) \in Delivery /\ Tail(queue) \in Seq(Delivery)
  BY <1>1
<1>3. CASE rest = {}
  BY <1>2, <1>3 DEF Told
<1>4. CASE rest # {}
  <2>1. [Head(queue) EXCEPT !.to = rest] \in Delivery
    BY <1>2, <1>4 DEF Delivery
  <2>2. queue' = <<[Head(queue) EXCEPT !.to = rest]>> \o Tail(queue)
    BY <1>4 DEF Told
  <2> HIDE DEF rest
  <2> QED
    BY <1>2, <2>1, <2>2
<1> QED
  BY <1>3, <1>4

-----------------------------------------------------------------------------
(***************************************************************************)
(* The invariant is inductive                                              *)
(***************************************************************************)

\* Every initial state satisfies the invariant.
LEMMA InitIInv == Init => IInv
<1> SUFFICES ASSUME Init PROVE IInv
  OBVIOUS
<1> USE NotificationsAssumption
<1>1. TypeOK
  BY DEF Init, TypeOK, SubIds, WatchId, PropWatch, MAX_WATCHES_NUM, NoRound,
         Origin
<1>2. SubscriptionsMatchLists
  BY DEF Init, SubscriptionsMatchLists
<1>3. RegistryIsMap /\ UserDataFreedOnce /\ CellsNumbered
  BY DEF Init, RegistryIsMap, UserDataFreedOnce, CellsNumbered
<1>4. WalkOnTrack
  BY DEF Init, WalkOnTrack
<1> QED
  BY <1>1, <1>2, <1>3, <1>4 DEF IInv

-----------------------------------------------------------------------------

\* The step replaces the callbacks of one record: the subscriptions still
\* match, and the record is still the only one of its notification.
LEMMA Recallback ==
  ASSUME IInv, NEW nd \in notiList, NEW S \in SUBSET Cell, S # {},
         \A c, d \in S : c.cb = d.cb => c = d,
         notiList' = (notiList \ {nd}) \cup {[nd EXCEPT !.cbs = S]},
         UNCHANGED <<modem, subs>>, calls' \in {calls, calls + 1},
         modem = "live"
  PROVE  /\ notiList' \subseteq NotiData
         /\ SubscriptionsMatchLists'
         /\ RegistryIsMap'
<1> DEFINE md == [nd EXCEPT !.cbs = S]
<1>1. /\ notiList \subseteq NotiData
      /\ calls \in Nat
  BY NotificationsAssumption DEF IInv, TypeOK
<1>2. /\ md \in NotiData /\ md.noti = nd.noti /\ md.watches = nd.watches
      /\ md.cbs = S
  BY <1>1, WithCallbacks
<1>3. notiList' = (notiList \ {nd}) \cup {md}
  OBVIOUS
<1> HIDE DEF md
<1>4. SubscriptionsMatchLists'
  <2>1. modem' = "live" => [id |-> PropWatch, row |-> CacheRow] \in subs'
    BY DEF IInv, SubscriptionsMatchLists
  <2>2. \A s \in subs' : \/ modem' = "live" /\ s.id = PropWatch
                         \/ \E d \in notiList' : s.id \in d.watches
    BY <1>2, <1>3 DEF IInv, SubscriptionsMatchLists
  <2>3. \A d \in notiList' :
          \E i \in 1..calls' : /\ d.watches = SubIds(NewSubs(i, d.noti))
                               /\ NewSubs(i, d.noti) \subseteq subs'
    <3>1. \A d \in notiList :
            \E i \in 1..calls' : /\ d.watches = SubIds(NewSubs(i, d.noti))
                                 /\ NewSubs(i, d.noti) \subseteq subs'
      <4>1. 1..calls \subseteq 1..calls'
        BY <1>1
      <4> QED
        BY <4>1 DEF IInv, SubscriptionsMatchLists
    <3> QED
      BY <1>2, <1>3, <3>1
  <2>4. \A s, t \in subs' : s.id = t.id => s = t
    BY DEF IInv, SubscriptionsMatchLists
  <2>5. \A d, e \in notiList' : d.watches \cap e.watches # {} => d = e
    BY <1>2, <1>3 DEF IInv, SubscriptionsMatchLists
  <2> QED
    BY <2>1, <2>2, <2>3, <2>4, <2>5 DEF SubscriptionsMatchLists
<1>5. RegistryIsMap'
  BY <1>2, <1>3 DEF IInv, RegistryIsMap
<1> QED
  BY <1>1, <1>2, <1>3, <1>4, <1>5

\* A client step may remove cells and add one with a new number: the walk,
\* which the step interrupts inside a callback, is not disturbed.
LEMMA WalkUndisturbed ==
  ASSUME IInv, UNCHANGED <<pc, round, called>>,
         calls' \in {calls, calls + 1},
         \A d \in notiList' : \A c \in d.cbs :
           \/ \E nd \in notiList : nd.noti = d.noti /\ c \in nd.cbs
           \/ c.id = calls + 1
  PROVE  WalkOnTrack'
<1>1. CASE pc # "callback"
  BY <1>1 DEF IInv, WalkOnTrack
<1>2. CASE pc = "callback"
  <2>1. /\ round.noti \in Noti
        /\ round.cursor \in called
        /\ round.cursor <= calls
        /\ \A i \in called : i <= round.cursor
        /\ \A nd \in notiList : \A c \in nd.cbs :
             /\ nd.noti = round.noti /\ c.id <= round.cursor => c.id \in called
             /\ c.id = round.cursor => nd.noti = round.noti
    BY <1>2 DEF IInv, WalkOnTrack, Find
  <2>2. calls \in Nat /\ round.cursor \in Nat
    BY NotificationsAssumption DEF IInv, TypeOK
  <2>3. ASSUME NEW d \in notiList', NEW c \in d.cbs
        PROVE  /\ d.noti = round.noti /\ c.id <= round.cursor => c.id \in called
               /\ c.id = round.cursor => d.noti = round.noti
    <3>1. CASE c.id = calls + 1
      BY <2>1, <2>2, <3>1
    <3>2. CASE \E nd \in notiList : nd.noti = d.noti /\ c \in nd.cbs
      BY <2>1, <3>2
    <3> QED
      BY <3>1, <3>2
  <2>4. round.cursor <= calls'
    BY <2>1, <2>2
  <2> QED
    BY <1>2, <2>1, <2>3, <2>4 DEF WalkOnTrack, Find
<1> QED
  BY <1>1, <1>2

\* Appending a cell to a record keeps the invariant.
LEMMA RegisterAppendStep ==
  ASSUME IInv, NEW n \in Noti, NEW cb \in Cb, RegisterAppend(n, cb),
         UNCHANGED <<queue, pc, round, called, emitted>>
  PROVE  IInv'
<1> DEFINE c == [id |-> calls + 1, cb |-> cb]
<1>1. PICK nd \in Find(n) :
        /\ FindCb(nd, cb) = {}
        /\ notiList' = (notiList \ {nd}) \cup {[nd EXCEPT !.cbs = @ \cup {c}]}
  BY DEF RegisterAppend, NewCall
<1> DEFINE S == nd.cbs \cup {c}
           md == [nd EXCEPT !.cbs = S]
<1>2. /\ nd \in notiList
      /\ nd \in NotiData
      /\ calls \in 0..MaxRegister
      /\ calls' = calls + 1
      /\ calls' \in 1..MaxRegister
      /\ c \in Cell
      /\ modem = "live"
      /\ handed' = handed \cup {calls'}
      /\ UNCHANGED <<modem, subs, frees>>
  BY <1>1, NotificationsAssumption
     DEF Find, IInv, TypeOK, RegisterAppend, NewCall, ClientRuns, Cell
<1>3. S \in SUBSET Cell /\ S # {}
  BY <1>2 DEF NotiData
<1>4. \A d, e \in S : d.cb = e.cb => d = e
  BY <1>1, <1>2 DEF FindCb, IInv, RegistryIsMap
<1>5. notiList' = (notiList \ {nd}) \cup {md}
  BY <1>1
<1>6. /\ notiList' \subseteq NotiData
      /\ SubscriptionsMatchLists'
      /\ RegistryIsMap'
  BY <1>2, <1>3, <1>4, <1>5, Recallback
<1>7. /\ md.noti = nd.noti
      /\ md.cbs = S
  BY <1>2, <1>3, WithCallbacks
<1>8. c.id = calls + 1 /\ handed \subseteq 1..calls
  BY DEF IInv, CellsNumbered
<1> HIDE DEF md, c
<1>9. TypeOK'
  BY <1>2, <1>6 DEF IInv, TypeOK, SubIds
<1>10. CellsNumbered'
  <2>1. handed' \subseteq 1..calls'
    BY <1>2, <1>8
  <2>2. \A d \in notiList' : Ids(d.cbs) \subseteq handed'
    BY <1>2, <1>5, <1>7, <1>8 DEF IInv, CellsNumbered, Ids
  <2>3. \A d \in notiList : \A e \in d.cbs : e.id \in 1..calls
    BY DEF IInv, CellsNumbered, Ids
  <2>4. \A d \in notiList : \A e \in d.cbs : e.id # c.id
    BY <1>2, <1>8, <2>3
  <2>5. \A d, e \in notiList' : \A x \in d.cbs, y \in e.cbs :
          x.id = y.id => d = e /\ x = y
    BY <1>2, <1>5, <1>7, <2>4 DEF IInv, CellsNumbered
  <2> QED
    BY <2>1, <2>2, <2>5 DEF CellsNumbered
<1>11. UserDataFreedOnce'
  <2>1. calls' \notin handed
    BY <1>2, <1>8
  <2>2. frees[calls'] = 0
    BY <1>2, <2>1 DEF IInv, UserDataFreedOnce, TypeOK
  <2>3. \A d \in notiList', i \in 1..MaxRegister :
          i \in Ids(d.cbs) => frees[i] = 0
    BY <1>2, <1>5, <1>7, <1>8, <2>2 DEF IInv, UserDataFreedOnce, Ids
  <2> QED
    BY <1>2, <2>3 DEF IInv, UserDataFreedOnce
<1>12. WalkOnTrack'
  BY <1>2, <1>5, <1>7, <1>8, WalkUndisturbed
<1> QED
  BY <1>6, <1>9, <1>10, <1>11, <1>12 DEF IInv

\* The first registration of a notification keeps the invariant.
LEMMA RegisterFirstStep ==
  ASSUME IInv, NEW n \in Noti, NEW cb \in Cb, RegisterFirst(n, cb),
         UNCHANGED <<queue, pc, round, called, emitted>>
  PROVE  IInv'
<1> DEFINE k == calls + 1
           new == NewSubs(k, n)
           c == [id |-> k, cb |-> cb]
           md == [noti |-> n, watches |-> SubIds(new), cbs |-> {c}]
<1>1. /\ calls \in 0..MaxRegister
      /\ calls' = k
      /\ k \in 1..MaxRegister
      /\ modem = "live"
      /\ Find(n) = {}
      /\ subs' = subs \cup new
      /\ notiList' = notiList \cup {md}
      /\ handed' = handed \cup {k}
      /\ UNCHANGED <<modem, frees>>
  BY NotificationsAssumption
     DEF IInv, TypeOK, RegisterFirst, NewCall, ClientRuns
<1>2. /\ SubIds(new) \subseteq WatchId
      /\ \A w \in SubIds(new) : w[1] = k
      /\ \A s, t \in new : s.id = t.id => s = t
  BY <1>1, NewSubsIds
<1>3. md \in NotiData
  BY <1>1, <1>2 DEF NotiData, Cell
<1>4. md.noti = n /\ md.watches = SubIds(new) /\ md.cbs = {c}
      /\ c.id = k /\ c.cb = cb
  OBVIOUS
<1>5. /\ handed \subseteq 1..calls
      /\ \A d \in notiList : \A e \in d.cbs : e.id \in 1..calls
  BY DEF IInv, CellsNumbered, Ids
<1>6. \A d \in notiList : d.noti # n
  BY <1>1 DEF Find
<1>7. \A s \in subs : s.id[1] # k
  <2>1. ASSUME NEW s \in subs, NEW d \in notiList, s.id \in d.watches
        PROVE  s.id[1] # k
    <3>1. PICK i \in 1..calls : d.watches = SubIds(NewSubs(i, d.noti))
      BY <2>1 DEF IInv, SubscriptionsMatchLists
    <3>2. i \in 1..MaxRegister /\ i # k
      <4>1. calls \in Nat /\ k \in 1..MaxRegister
        BY <1>1
      <4> QED
        BY <4>1, NotificationsAssumption
    <3>3. \A w \in SubIds(NewSubs(i, d.noti)) : w[1] = i
      BY <3>2, NewSubsIds
    <3> QED
      BY <2>1, <3>1, <3>2, <3>3
  <2>2. PropWatch[1] # k
    BY <1>1 DEF PropWatch
  <2> QED
    BY <2>1, <2>2 DEF IInv, SubscriptionsMatchLists
<1> HIDE DEF md, c, new
<1>8. TypeOK'
  <2>1. notiList' \subseteq NotiData
    BY <1>1, <1>3 DEF IInv, TypeOK
  <2>2. SubIds(subs)' \subseteq WatchId
    <3>1. SubIds(subs)' = SubIds(subs) \cup SubIds(new)
      BY <1>1 DEF SubIds
    <3> QED
      BY <1>2, <3>1 DEF IInv, TypeOK
  <2>3. /\ modem' \in {"live", "freed"}
        /\ calls' \in 0..MaxRegister
        /\ handed' \subseteq 1..MaxRegister
        /\ frees' \in [1..MaxRegister -> Nat]
    BY <1>1 DEF IInv, TypeOK
  <2> QED
    BY <2>1, <2>2, <2>3 DEF IInv, TypeOK
<1>9. SubscriptionsMatchLists'
  <2>1. modem' = "live" => [id |-> PropWatch, row |-> CacheRow] \in subs'
    BY <1>1 DEF IInv, SubscriptionsMatchLists
  <2>2. \A s \in subs' : \/ modem' = "live" /\ s.id = PropWatch
                         \/ \E d \in notiList' : s.id \in d.watches
    <3>1. \A s \in new : s.id \in md.watches
      BY <1>4 DEF SubIds
    <3> QED
      BY <1>1, <3>1 DEF IInv, SubscriptionsMatchLists
  <2>3. \A d \in notiList' :
          \E i \in 1..calls' : /\ d.watches = SubIds(NewSubs(i, d.noti))
                               /\ NewSubs(i, d.noti) \subseteq subs'
    <3>1. ASSUME NEW d \in notiList
          PROVE  \E i \in 1..calls' :
                   /\ d.watches = SubIds(NewSubs(i, d.noti))
                   /\ NewSubs(i, d.noti) \subseteq subs'
      <4>1. PICK i \in 1..calls : /\ d.watches = SubIds(NewSubs(i, d.noti))
                                  /\ NewSubs(i, d.noti) \subseteq subs
        BY DEF IInv, SubscriptionsMatchLists
      <4>2. i \in 1..calls'
        BY <1>1
      <4> QED
        BY <1>1, <4>1, <4>2
    <3>2. /\ md.watches = SubIds(NewSubs(k, md.noti))
          /\ NewSubs(k, md.noti) \subseteq subs'
      BY <1>1, <1>4 DEF new
    <3>3. k \in 1..calls'
      BY <1>1
    <3> QED
      BY <1>1, <3>1, <3>2, <3>3
  <2>4. \A s, t \in subs' : s.id = t.id => s = t
    <3>1. \A s \in new : s.id[1] = k
      BY <1>2 DEF SubIds
    <3> QED
      BY <1>1, <1>2, <1>7, <3>1 DEF IInv, SubscriptionsMatchLists
  <2>5. \A d \in notiList : d.watches \cap md.watches = {}
    <3>1. SUFFICES ASSUME NEW d \in notiList, NEW w \in d.watches,
                          w \in md.watches
                   PROVE  FALSE
      OBVIOUS
    <3>2. PICK i \in 1..calls : /\ d.watches = SubIds(NewSubs(i, d.noti))
                                /\ NewSubs(i, d.noti) \subseteq subs
      BY DEF IInv, SubscriptionsMatchLists
    <3>3. PICK s \in subs : s.id = w
      BY <3>1, <3>2 DEF SubIds
    <3> QED
      BY <1>2, <1>4, <1>7, <3>1, <3>3
  <2>6. \A d, e \in notiList' : d.watches \cap e.watches # {} => d = e
    BY <1>1, <2>5 DEF IInv, SubscriptionsMatchLists
  <2> QED
    BY <2>1, <2>2, <2>3, <2>4, <2>6 DEF SubscriptionsMatchLists
<1>10. RegistryIsMap'
  BY <1>1, <1>4, <1>6 DEF IInv, RegistryIsMap
<1>11. CellsNumbered'
  <2>1. handed' \subseteq 1..calls'
    BY <1>1, <1>5
  <2>2. \A d \in notiList' : Ids(d.cbs) \subseteq handed'
    BY <1>1, <1>4 DEF IInv, CellsNumbered, Ids
  <2>3. \A d \in notiList : \A e \in d.cbs : e.id # c.id
    BY <1>1, <1>4, <1>5
  <2>4. \A d, e \in notiList' : \A x \in d.cbs, y \in e.cbs :
          x.id = y.id => d = e /\ x = y
    BY <1>1, <1>4, <2>3 DEF IInv, CellsNumbered
  <2> QED
    BY <2>1, <2>2, <2>4 DEF CellsNumbered
<1>12. UserDataFreedOnce'
  <2>1. frees[k] = 0
    <3>1. k \notin handed
      BY <1>1, <1>5
    <3> QED
      BY <1>1, <3>1 DEF IInv, UserDataFreedOnce, TypeOK
  <2>2. \A d \in notiList', i \in 1..MaxRegister :
          i \in Ids(d.cbs) => frees[i] = 0
    BY <1>1, <1>4, <2>1 DEF IInv, UserDataFreedOnce, Ids
  <2> QED
    BY <1>1, <2>2 DEF IInv, UserDataFreedOnce
<1>13. WalkOnTrack'
  BY <1>1, <1>4, WalkUndisturbed
<1> QED
  BY <1>8, <1>9, <1>10, <1>11, <1>12, <1>13 DEF IInv

\* A register call that keeps nothing keeps the invariant.
LEMMA RegisterIdleStep ==
  ASSUME IInv, NEW n \in Noti, NEW cb \in Cb,
         RegisterDuplicate(n, cb) \/ RegisterRefused(n, cb),
         UNCHANGED <<queue, pc, round, called, emitted>>
  PROVE  IInv'
<1>1. /\ calls \in 0..MaxRegister
      /\ calls' = calls + 1
      /\ calls' \in 1..MaxRegister
      /\ handed' \in {handed, handed \cup {calls'}}
      /\ UNCHANGED <<modem, notiList, subs, frees>>
  BY NotificationsAssumption
     DEF IInv, TypeOK, RegisterDuplicate, RegisterRefused, NewCall
<1>2. TypeOK'
  BY <1>1 DEF IInv, TypeOK, SubIds
<1>3. SubscriptionsMatchLists'
  <2>1. 1..calls \subseteq 1..calls'
    BY <1>1
  <2> QED
    BY <1>1, <2>1 DEF IInv, SubscriptionsMatchLists
<1>4. RegistryIsMap'
  BY <1>1 DEF IInv, RegistryIsMap
<1>5. CellsNumbered'
  <2>1. handed' \subseteq 1..calls'
    BY <1>1 DEF IInv, CellsNumbered
  <2> QED
    BY <1>1, <2>1 DEF IInv, CellsNumbered
<1>6. UserDataFreedOnce'
  BY <1>1 DEF IInv, UserDataFreedOnce
<1>7. WalkOnTrack'
  BY <1>1, WalkUndisturbed
<1> QED
  BY <1>2, <1>3, <1>4, <1>5, <1>6, <1>7 DEF IInv

\* Freeing the user data of cells that leave the registry frees none twice.
LEMMA FreeOnce ==
  ASSUME IInv, NEW gone, FreeUserData(gone), UNCHANGED handed,
         gone \subseteq UNION {Ids(nd.cbs) : nd \in notiList},
         \A nd \in notiList' : /\ Ids(nd.cbs) \cap gone = {}
                               /\ \E md \in notiList : nd.cbs \subseteq md.cbs
  PROVE  UserDataFreedOnce' /\ frees' \in [1..MaxRegister -> Nat]
<1>1. /\ frees \in [1..MaxRegister -> Nat]
      /\ handed \subseteq 1..MaxRegister
  BY DEF IInv, TypeOK
<1>2. \A i \in gone : i \in handed /\ frees[i] = 0
  BY <1>1 DEF IInv, CellsNumbered, UserDataFreedOnce
<1>3. \A i \in 1..MaxRegister :
        frees'[i] = IF i \in gone THEN frees[i] + 1 ELSE frees[i]
  BY <1>1 DEF FreeUserData
<1>4. frees' \in [1..MaxRegister -> Nat]
  BY <1>1 DEF FreeUserData
<1>5. \A i \in 1..MaxRegister : frees[i] <= 1
  BY DEF IInv, UserDataFreedOnce
<1>6. ASSUME NEW i \in 1..MaxRegister
      PROVE  /\ frees'[i] <= 1
             /\ frees'[i] = 1 => i \in handed
  BY <1>1, <1>2, <1>3, <1>5 DEF IInv, UserDataFreedOnce
<1>7. ASSUME NEW i \in 1..MaxRegister, NEW nd \in notiList', i \in Ids(nd.cbs)
      PROVE  frees'[i] = 0
  <2>1. i \notin gone
    BY <1>7
  <2>2. PICK md \in notiList : nd.cbs \subseteq md.cbs
    OBVIOUS
  <2>3. i \in Ids(md.cbs)
    BY <1>7, <2>2 DEF Ids
  <2>4. frees[i] = 0
    BY <2>3 DEF IInv, UserDataFreedOnce
  <2> QED
    BY <1>3, <2>1, <2>4
<1> QED
  BY <1>4, <1>6, <1>7 DEF UserDataFreedOnce

\* Unregistering a callback keeps the invariant.
LEMMA UnregisterStep ==
  ASSUME IInv, NEW n \in Noti, NEW cb \in Cb, Unregister(n, cb),
         UNCHANGED <<queue, pc, round, called, emitted>>
  PROVE  IInv'
<1>1. PICK nd \in Find(n) : \E c \in FindCb(nd, cb) :
        Shrink(nd, {c}) /\ FreeUserData({c.id})
  BY DEF Unregister
<1>2. PICK c \in FindCb(nd, cb) : Shrink(nd, {c}) /\ FreeUserData({c.id})
  BY <1>1
<1>3. /\ nd \in notiList
      /\ nd \in NotiData
      /\ c \in nd.cbs
      /\ modem = "live"
      /\ calls \in Nat
      /\ UNCHANGED <<modem, calls, handed>>
  BY NotificationsAssumption
     DEF Find, FindCb, Unregister, ClientRuns, IInv, TypeOK
<1> DEFINE S == nd.cbs \ {c}
           md == [nd EXCEPT !.cbs = S]
<1>4. S \in SUBSET Cell
  BY <1>3 DEF NotiData
<1>5. /\ md.noti = nd.noti
      /\ md.cbs = S
  BY <1>3, <1>4, WithCallbacks
<1>6. \/ S = {} /\ notiList' = notiList \ {nd}
                /\ subs' = {s \in subs : s.id \notin nd.watches}
      \/ S # {} /\ notiList' = (notiList \ {nd}) \cup {md} /\ UNCHANGED subs
  BY <1>2, <1>3 DEF Shrink
<1> HIDE DEF md
<1>7. \A d \in notiList' :
        \/ d \in notiList /\ d # nd
        \/ d.noti = nd.noti /\ d.cbs = S
  BY <1>5, <1>6
<1>8. /\ notiList' \subseteq NotiData
      /\ SubscriptionsMatchLists'
      /\ RegistryIsMap'
  <2>1. CASE S # {}
    <3>1. \A x, y \in S : x.cb = y.cb => x = y
      BY <1>3 DEF IInv, RegistryIsMap
    <3> QED
      BY <1>3, <1>4, <1>6, <2>1, <3>1, Recallback DEF md
  <2>2. CASE S = {}
    <3>1. /\ notiList' = notiList \ {nd}
          /\ subs' = {s \in subs : s.id \notin nd.watches}
      BY <1>6, <2>2
    <3>2. notiList' \subseteq NotiData /\ RegistryIsMap'
      BY <1>3, <3>1 DEF IInv, TypeOK, RegistryIsMap
    <3>3. \A d \in notiList' : d.watches \cap nd.watches = {}
      BY <1>3, <3>1 DEF IInv, SubscriptionsMatchLists
    <3>4. PropWatch \notin nd.watches
      <4>1. PICK i \in 1..calls : nd.watches = SubIds(NewSubs(i, nd.noti))
        BY <1>3 DEF IInv, SubscriptionsMatchLists
      <4>2. i \in 1..MaxRegister /\ i # 0
        BY NotificationsAssumption DEF IInv, TypeOK
      <4>3. \A w \in SubIds(NewSubs(i, nd.noti)) : w[1] = i
        BY <4>2, NewSubsIds
      <4>4. PropWatch[1] = 0
        BY DEF PropWatch
      <4> QED
        BY <4>1, <4>2, <4>3, <4>4
    <3>5. modem' = "live" => [id |-> PropWatch, row |-> CacheRow] \in subs'
      BY <1>3, <3>1, <3>4 DEF IInv, SubscriptionsMatchLists
    <3>6. \A s \in subs' : \/ modem' = "live" /\ s.id = PropWatch
                           \/ \E d \in notiList' : s.id \in d.watches
      BY <1>3, <3>1 DEF IInv, SubscriptionsMatchLists
    <3>7. ASSUME NEW d \in notiList'
          PROVE  \E i \in 1..calls' :
                   /\ d.watches = SubIds(NewSubs(i, d.noti))
                   /\ NewSubs(i, d.noti) \subseteq subs'
      <4>1. d \in notiList
        BY <3>1
      <4>2. PICK i \in 1..calls : /\ d.watches = SubIds(NewSubs(i, d.noti))
                                  /\ NewSubs(i, d.noti) \subseteq subs
        BY <4>1 DEF IInv, SubscriptionsMatchLists
      <4>3. \A s \in NewSubs(i, d.noti) : s.id \in d.watches
        BY <4>2 DEF SubIds
      <4>4. NewSubs(i, d.noti) \subseteq subs'
        BY <3>1, <3>3, <4>2, <4>3
      <4> QED
        BY <1>3, <4>2, <4>4
    <3>8. /\ \A s, t \in subs' : s.id = t.id => s = t
          /\ \A d, e \in notiList' : d.watches \cap e.watches # {} => d = e
      BY <3>1 DEF IInv, SubscriptionsMatchLists
    <3> QED
      BY <3>2, <3>5, <3>6, <3>7, <3>8 DEF SubscriptionsMatchLists
  <2> QED
    BY <2>1, <2>2
<1>9. CellsNumbered'
  <2>1. handed' \subseteq 1..calls'
    BY <1>3 DEF IInv, CellsNumbered
  <2>2. \A d \in notiList' : Ids(d.cbs) \subseteq handed'
    BY <1>3, <1>7 DEF IInv, CellsNumbered, Ids
  <2>3. ASSUME NEW d \in notiList', NEW e \in notiList',
               NEW x \in d.cbs, NEW y \in e.cbs, x.id = y.id
        PROVE  d = e /\ x = y
    <3>1. PICK d0 \in notiList : d0.noti = d.noti /\ x \in d0.cbs
      BY <1>3, <1>7
    <3>2. PICK e0 \in notiList : e0.noti = e.noti /\ y \in e0.cbs
      BY <1>3, <1>7
    <3>3. d0 = e0 /\ x = y
      BY <2>3, <3>1, <3>2 DEF IInv, CellsNumbered
    <3> QED
      BY <1>8, <3>1, <3>2, <3>3 DEF RegistryIsMap
  <2> QED
    BY <2>1, <2>2, <2>3 DEF CellsNumbered
<1>10. UserDataFreedOnce' /\ frees' \in [1..MaxRegister -> Nat]
  <2>1. {c.id} \subseteq UNION {Ids(d.cbs) : d \in notiList}
    BY <1>3 DEF Ids
  <2>2. \A d \in notiList' : Ids(d.cbs) \cap {c.id} = {}
    BY <1>3, <1>7 DEF IInv, CellsNumbered, Ids
  <2>3. \A d \in notiList' : \E e \in notiList : d.cbs \subseteq e.cbs
    BY <1>3, <1>7
  <2> QED
    BY <1>2, <1>3, <2>1, <2>2, <2>3, FreeOnce
<1>11. TypeOK'
  <2>1. SubIds(subs)' \subseteq SubIds(subs)
    BY <1>6 DEF SubIds
  <2> QED
    BY <1>3, <1>8, <1>10, <2>1 DEF IInv, TypeOK
<1>12. WalkOnTrack'
  BY <1>3, <1>7, WalkUndisturbed
<1> QED
  BY <1>8, <1>9, <1>10, <1>11, <1>12 DEF IInv

\* Finalizing the modem keeps the invariant.
LEMMA DeinitStep ==
  ASSUME IInv, Deinit, UNCHANGED <<queue, pc, round, called, emitted>>
  PROVE  IInv'
<1>1. /\ modem' = "freed"
      /\ notiList' = {}
      /\ UNCHANGED <<calls, handed>>
      /\ FreeUserData(UNION {Ids(nd.cbs) : nd \in notiList})
  BY DEF Deinit
<1>2. subs' = {}
  BY DEF Deinit, IInv, SubscriptionsMatchLists
<1>3. UserDataFreedOnce' /\ frees' \in [1..MaxRegister -> Nat]
  BY <1>1, FreeOnce
<1>4. SubscriptionsMatchLists'
  BY <1>1, <1>2 DEF SubscriptionsMatchLists
<1>5. RegistryIsMap'
  BY <1>1 DEF RegistryIsMap
<1>6. CellsNumbered'
  BY <1>1 DEF IInv, CellsNumbered
<1>7. TypeOK'
  BY <1>1, <1>2, <1>3 DEF IInv, TypeOK, SubIds
<1>8. WalkOnTrack'
  BY <1>1, WalkUndisturbed
<1> QED
  BY <1>3, <1>4, <1>5, <1>6, <1>7, <1>8 DEF IInv

\* A cell has the number of a call made so far.
LEMMA CellIds ==
  ASSUME IInv, NEW nd \in notiList, NEW c \in nd.cbs
  PROVE  c.id \in 1..calls /\ c.id \in 1..MaxRegister
<1>1. c.id \in Ids(nd.cbs)
  BY DEF Ids
<1>2. c.id \in handed /\ handed \subseteq 1..calls
  BY <1>1 DEF IInv, CellsNumbered
<1>3. c.id \in 1..calls
  BY <1>2
<1>4. \A i \in 1..calls : i \in 1..MaxRegister
  BY NotificationsAssumption DEF IInv, TypeOK
<1> QED
  BY <1>3, <1>4

\* A step that leaves the registry alone keeps what is said of it.
LEMMA RegistryUntouched ==
  ASSUME IInv, UNCHANGED client
  PROVE  /\ SubscriptionsMatchLists'
         /\ RegistryIsMap'
         /\ UserDataFreedOnce'
         /\ CellsNumbered'
<1>1. UNCHANGED <<modem, notiList, subs, calls, handed, frees>>
  BY DEF client
<1>2. SubscriptionsMatchLists'
  BY <1>1 DEF IInv, SubscriptionsMatchLists
<1>3. RegistryIsMap'
  BY <1>1 DEF IInv, RegistryIsMap
<1>4. UserDataFreedOnce'
  BY <1>1 DEF IInv, UserDataFreedOnce
<1>5. CellsNumbered'
  BY <1>1 DEF IInv, CellsNumbered
<1> QED
  BY <1>2, <1>3, <1>4, <1>5

\* The arrival of a signal keeps the invariant.
LEMMA EmitStep ==
  ASSUME IInv, NEW sig \in Signal, Emit(sig)
  PROVE  IInv'
<1> DEFINE to == {s.id : s \in {q \in subs : Matches(q.row, sig)}}
<1>1. /\ UNCHANGED <<client, pc, round, called>>
      /\ emitted < MaxSignals
      /\ emitted' = emitted + 1
      /\ to # {}
      /\ queue' = Append(queue, [sig |-> sig, to |-> to])
  BY DEF Emit
<1>2. to \subseteq WatchId
  BY DEF IInv, TypeOK, SubIds
<1> HIDE DEF to
<1>3. [sig |-> sig, to |-> to] \in Delivery
  BY <1>1, <1>2 DEF Delivery
<1>4. queue' \in Seq(Delivery)
  BY <1>1, <1>3 DEF IInv, TypeOK
<1>5. emitted' \in 0..MaxSignals
  BY <1>1, NotificationsAssumption DEF IInv, TypeOK
<1>6. TypeOK'
  BY <1>1, <1>4, <1>5 DEF IInv, TypeOK, client, SubIds
<1>7. WalkOnTrack'
  BY <1>1 DEF IInv, WalkOnTrack, client, Find
<1> QED
  BY <1>1, <1>6, <1>7, RegistryUntouched DEF IInv

\* A handler that starts a round keeps the invariant.
LEMMA DispatchNotifyStep ==
  ASSUME IInv, DispatchNotify
  PROVE  IInv'
<1>1. PICK w \in Head(queue).to, s \in subs, nd \in notiList :
        /\ \E c \in nd.cbs :
             /\ IsFirst(c, nd.cbs)
             /\ round' = [noti |-> nd.noti, owner |-> OwnerOf(w),
                          origin |-> Head(queue).sig.origin, cursor |-> c.id]
             /\ called' = {c.id}
        /\ pc' = "callback"
        /\ Told(w)
  BY DEF DispatchNotify
<1>2. PICK c \in nd.cbs :
        /\ IsFirst(c, nd.cbs)
        /\ round' = [noti |-> nd.noti, owner |-> OwnerOf(w),
                     origin |-> Head(queue).sig.origin, cursor |-> c.id]
        /\ called' = {c.id}
  BY <1>1
<1>3. UNCHANGED <<client, emitted>> /\ queue # <<>>
  BY DEF DispatchNotify
<1>4. nd \in NotiData /\ c \in Cell
  BY DEF IInv, TypeOK, NotiData
<1>5. c.id \in 1..calls /\ calls \in 0..MaxRegister
  BY CellIds DEF IInv, TypeOK
<1>6. OwnerOf(w) \in Noti \cup {"none"}
  BY DEF OwnerOf, IInv, TypeOK, NotiData
<1>7. Head(queue).sig.origin \in Origin
  <2>1. Head(queue) \in Delivery
    BY <1>3 DEF IInv, TypeOK
  <2> QED
    BY <2>1, NotificationsAssumption DEF Delivery
<1>8. queue' \in Seq(Delivery)
  BY <1>1, <1>3, ToldType DEF IInv
<1>9. c.id \in 1..MaxRegister
  BY <1>5, NotificationsAssumption
<1>10. TypeOK'
  <2>1. round' \in [noti : Noti \cup {"none"}, owner : Noti \cup {"none"},
                    origin : Origin, cursor : 0..MaxRegister]
    BY <1>2, <1>4, <1>6, <1>7, <1>9 DEF NotiData
  <2> QED
    BY <1>1, <1>2, <1>3, <1>8, <1>9, <2>1
       DEF IInv, TypeOK, client, SubIds
<1>11. WalkOnTrack'
  <2>1. \A d \in Find(nd.noti) : d = nd
    BY DEF IInv, RegistryIsMap, Find
  <2>2. \A d \in nd.cbs : d.id <= c.id => d.id = c.id
    <3>1. ASSUME NEW d \in nd.cbs PROVE d.id \in Nat /\ c.id <= d.id
      BY <1>2, <1>4 DEF IsFirst, NotiData, Cell
    <3> QED
      BY <1>5, <3>1
  <2>3. round'.noti = nd.noti /\ round'.cursor = c.id
    BY <1>2
  <2>4. nd.noti \in Noti
    BY <1>4 DEF NotiData
  <2>5. Find(nd.noti)' = Find(nd.noti)
    BY <1>3 DEF Find, client
  <2>6. c.id <= calls' /\ c.id <= c.id
    BY <1>3, <1>5 DEF client
  <2>7. \A d \in notiList : \A e \in d.cbs : e.id = c.id => d = nd
    BY DEF IInv, CellsNumbered
  <2>8. notiList' = notiList
    BY <1>3 DEF client
  <2> QED
    BY <1>1, <1>2, <2>1, <2>2, <2>3, <2>4, <2>5, <2>6, <2>7, <2>8
       DEF WalkOnTrack, Find
<1> QED
  BY <1>3, <1>10, <1>11, RegistryUntouched DEF IInv

\* A signal that reaches nobody keeps the invariant.
LEMMA DispatchDropStep ==
  ASSUME IInv, DispatchDrop
  PROVE  IInv'
<1>1. /\ UNCHANGED <<client, pc, round, called, emitted>>
      /\ queue # <<>>
      /\ \E w \in Head(queue).to : Told(w)
  BY DEF DispatchDrop
<1>2. queue' \in Seq(Delivery)
  BY <1>1, ToldType DEF IInv
<1>3. TypeOK'
  BY <1>1, <1>2 DEF IInv, TypeOK, client, SubIds
<1>4. WalkOnTrack'
  BY <1>1 DEF IInv, WalkOnTrack, client, Find
<1> QED
  BY <1>1, <1>3, <1>4, RegistryUntouched DEF IInv

\* The walk's step to the next cell keeps the invariant.
LEMMA NotifyNextStep ==
  ASSUME IInv, NotifyNext
  PROVE  IInv'
<1>1. PICK nd \in Find(round.noti) : \E c \in nd.cbs :
        /\ IsFirst(c, After(nd, round.cursor))
        /\ round' = [round EXCEPT !.cursor = c.id]
        /\ called' = called \cup {c.id}
  BY DEF NotifyNext
<1>2. PICK c \in nd.cbs :
        /\ IsFirst(c, After(nd, round.cursor))
        /\ round' = [round EXCEPT !.cursor = c.id]
        /\ called' = called \cup {c.id}
  BY <1>1
<1>3. UNCHANGED <<client, queue, pc, emitted>> /\ pc = "callback"
  BY DEF NotifyNext
<1>4. nd \in notiList /\ nd.noti = round.noti /\ nd \in NotiData
  BY DEF Find, IInv, TypeOK
<1>5. c.id \in 1..calls /\ calls \in 0..MaxRegister
  BY <1>4, CellIds DEF IInv, TypeOK
<1>6. c.id \in 1..MaxRegister
  BY <1>5, NotificationsAssumption
<1>7. /\ round \in [noti : Noti \cup {"none"}, owner : Noti \cup {"none"},
                    origin : Origin, cursor : 0..MaxRegister]
      /\ called \subseteq 1..MaxRegister
  BY DEF IInv, TypeOK
<1>8. /\ round' \in [noti : Noti \cup {"none"}, owner : Noti \cup {"none"},
                     origin : Origin, cursor : 0..MaxRegister]
      /\ round'.noti = round.noti
      /\ round'.cursor = c.id
  BY <1>2, <1>6, <1>7
<1>9. TypeOK'
  BY <1>2, <1>3, <1>6, <1>7, <1>8 DEF IInv, TypeOK, client, SubIds
<1>10. WalkOnTrack'
  <2>1. /\ round.noti \in Noti
        /\ \A i \in called : i <= round.cursor
        /\ \A d \in Find(round.noti) : \A e \in d.cbs :
             e.id <= round.cursor => e.id \in called
    BY <1>3 DEF IInv, WalkOnTrack
  <2>2. round.cursor \in Nat /\ round.cursor < c.id
    BY <1>2, <1>7 DEF IsFirst, After
  <2>3. \A i \in called' : i <= c.id
    <3>1. ASSUME NEW i \in called PROVE i <= c.id
      BY <1>6, <1>7, <2>1, <2>2
    <3> QED
      BY <1>2, <1>6, <3>1
  <2>4. \A d \in Find(round.noti) : d = nd
    BY <1>4 DEF IInv, RegistryIsMap, Find
  <2>5. ASSUME NEW e \in nd.cbs, e.id <= c.id
        PROVE  e.id \in called'
    <3>1. e.id \in Nat
      BY <1>4 DEF NotiData, Cell
    <3>2. CASE e.id <= round.cursor
      BY <1>2, <1>4, <2>1, <3>2 DEF Find
    <3>3. CASE e.id > round.cursor
      <4>1. c.id <= e.id
        BY <1>2, <3>3 DEF IsFirst, After
      <4> QED
        BY <1>2, <1>6, <2>5, <3>1, <4>1
    <3> QED
      BY <2>2, <3>1, <3>2, <3>3
  <2>6. Find(round.noti)' = Find(round.noti)
    BY <1>3, <1>8 DEF Find, client
  <2>7. c.id \in called' /\ c.id <= calls'
    BY <1>2, <1>3, <1>5 DEF client
  <2>8. \A d \in notiList : \A e \in d.cbs : e.id = c.id => d = nd
    BY <1>4 DEF IInv, CellsNumbered
  <2>9. notiList' = notiList
    BY <1>3 DEF client
  <2> QED
    BY <1>3, <1>4, <1>8, <2>1, <2>3, <2>4, <2>5, <2>6, <2>7, <2>8, <2>9
       DEF WalkOnTrack, Find
<1> QED
  BY <1>3, <1>9, <1>10, RegistryUntouched DEF IInv

\* The end of a round keeps the invariant.
LEMMA NotifyEndStep ==
  ASSUME IInv, NotifyEnd \/ NotifyDangling
  PROVE  IInv'
<1>1. /\ UNCHANGED <<client, queue, emitted>>
      /\ pc' \in {"idle", "crashed"}
      /\ round' = NoRound
      /\ called' = {}
  BY DEF NotifyEnd, NotifyDangling
<1>2. TypeOK'
  <2>1. NoRound \in [noti : Noti \cup {"none"}, owner : Noti \cup {"none"},
                     origin : Origin, cursor : 0..MaxRegister]
    BY NotificationsAssumption DEF NoRound, Origin
  <2> QED
    BY <1>1, <2>1 DEF IInv, TypeOK, client, SubIds
<1>3. WalkOnTrack'
  BY <1>1 DEF WalkOnTrack
<1> QED
  BY <1>1, <1>2, <1>3, RegistryUntouched DEF IInv

\* Every step keeps the invariant.
LEMMA NextIInv == IInv /\ [Next]_vars => IInv'
<1> SUFFICES ASSUME IInv, [Next]_vars PROVE IInv'
  OBVIOUS
<1>1. CASE Client
  <2>1. UNCHANGED <<queue, pc, round, called, emitted>>
    BY <1>1 DEF Client
  <2>2. ASSUME NEW n \in Noti, NEW cb \in Cb,
               \/ RegisterDuplicate(n, cb)
               \/ RegisterAppend(n, cb)
               \/ RegisterFirst(n, cb)
               \/ RegisterRefused(n, cb)
               \/ Unregister(n, cb)
        PROVE  IInv'
    BY <2>1, <2>2, RegisterIdleStep, RegisterAppendStep, RegisterFirstStep,
       UnregisterStep
  <2>3. CASE Deinit
    BY <2>1, <2>3, DeinitStep
  <2> QED
    BY <1>1, <2>2, <2>3 DEF Client
<1>2. ASSUME NEW sig \in Signal, Emit(sig)
      PROVE  IInv'
  BY <1>2, EmitStep
<1>3. CASE MainLoop
  BY <1>3, DispatchNotifyStep, DispatchDropStep, NotifyNextStep, NotifyEndStep
     DEF MainLoop
<1>4. CASE UNCHANGED vars
  <2>1. UNCHANGED client /\ UNCHANGED <<queue, pc, round, called, emitted>>
    BY <1>4 DEF vars, client
  <2>2. TypeOK'
    BY <2>1 DEF IInv, TypeOK, client, SubIds
  <2>3. WalkOnTrack'
    BY <2>1 DEF IInv, WalkOnTrack, client, Find
  <2> QED
    BY <2>1, <2>2, <2>3, RegistryUntouched DEF IInv
<1> QED
  BY <1>1, <1>2, <1>3, <1>4 DEF Next

-----------------------------------------------------------------------------
(***************************************************************************)
(* Theorems                                                                *)
(***************************************************************************)

\* The invariant holds in every reachable state.
THEOREM Invariance == Spec => []IInv
  BY InitIInv, NextIInv, PTL DEF Spec

\* Every variable keeps its type, whatever the client does inside its
\* callbacks: no signal waits for nobody, no walk leaves the registry.
THEOREM TypeCorrect == Spec => []TypeOK
  BY Invariance, PTL DEF IInv

\* The subscriptions held on the bus are always the ones the lists account
\* for: ofono_unregister_notification_callback() and ofono_modem_deinit()
\* leave none behind and ofono_register_notification_callback() makes none
\* twice.
THEOREM SubscriptionsCorrect == Spec => []SubscriptionsMatchLists
  BY Invariance, PTL DEF IInv

\* _find_noti_data() and _find_noti_cb_data() always have at most one record
\* and one cell to find.
THEOREM RegistryCorrect == Spec => []RegistryIsMap
  BY Invariance, PTL DEF IInv

\* user_data_free_func is never called twice for a cell, nor for a cell that
\* is still in a list.
THEOREM FreesCorrect == Spec => []UserDataFreedOnce
  BY Invariance, PTL DEF IInv

-----------------------------------------------------------------------------
(***************************************************************************)
(* The registry and the walk implement the service                         *)
(***************************************************************************)

\* The registration a cell stands for.
RegOf(nd, c) == [id |-> c.id, noti |-> nd.noti, cb |-> c.cb]

\* The registrations are the cells, seen with their notification.
LEMMA RegistrationsAre ==
  \A r : r \in Registrations <=>
           \E nd \in notiList : \E c \in nd.cbs : r = RegOf(nd, c)
  BY DEF Registrations, RegOf

\* The same after a step.
LEMMA RegistrationsAreNext ==
  \A r : r \in Registrations' <=>
           \E nd \in notiList' : \E c \in nd.cbs : r = RegOf(nd, c)
  BY DEF Registrations, RegOf

\* Initially nothing is registered.
LEMMA InitRefines == Init => Service!Init
<1> SUFFICES ASSUME Init PROVE Service!Init
  OBVIOUS
<1>1. Registrations = {}
  BY DEF Init, Registrations
<1> QED
  BY <1>1 DEF Init, Service!Init, NoRound

\* A step that leaves the records alone leaves the registrations alone.
LEMMA SameRecords == UNCHANGED notiList => UNCHANGED Registrations
  BY DEF Registrations

\* Adding a cell is a registration of the service, whether the cell opens a
\* record or joins one.
LEMMA AddsRegistration ==
  ASSUME IInv, NEW n \in Noti, NEW cb \in Cb,
         calls + 1 \in 1..MaxRegister,
         \A nd \in Find(n) : FindCb(nd, cb) = {},
         UNCHANGED <<round, called>>,
         \A r : r \in Registrations' <=>
                  \/ r \in Registrations
                  \/ r = [id |-> calls + 1, noti |-> n, cb |-> cb]
  PROVE  Service!Next
<1> DEFINE r == [id |-> calls + 1, noti |-> n, cb |-> cb]
<1>1. r \in Service!Registration
  BY DEF Service!Registration
<1>2. ASSUME NEW q \in Registrations
      PROVE  q.id < r.id /\ <<q.noti, q.cb>> # <<r.noti, r.cb>>
  <2>0. PICK nd \in notiList : \E c \in nd.cbs : q = RegOf(nd, c)
    BY RegistrationsAre
  <2>1. PICK c \in nd.cbs : q = RegOf(nd, c)
    BY <2>0
  <2>2. c.id \in 1..calls /\ q.id = c.id
    BY <2>1, CellIds DEF RegOf
  <2>3. calls \in Nat
    BY NotificationsAssumption DEF IInv, TypeOK
  <2>4. q.id < r.id
    BY <2>2, <2>3
  <2>5. nd.noti = n => c.cb # cb
    BY DEF Find, FindCb
  <2> QED
    BY <2>1, <2>4, <2>5 DEF RegOf
<1>3. \A i \in called : i < r.id
  <2>1. calls \in Nat /\ called \subseteq 1..MaxRegister
    BY NotificationsAssumption DEF IInv, TypeOK
  <2>2. CASE pc = "callback"
    <3>1. /\ round.cursor <= calls /\ round.cursor \in Nat
          /\ \A i \in called : i <= round.cursor
      BY <2>2, NotificationsAssumption DEF IInv, WalkOnTrack, TypeOK
    <3> QED
      BY <2>1, <3>1
  <2>3. CASE pc # "callback"
    BY <2>3 DEF IInv, WalkOnTrack
  <2> QED
    BY <2>2, <2>3
<1>4. Registrations' = Registrations \cup {r}
  BY Zenon
<1> HIDE DEF r
<1>5. Service!Register(r)
  BY <1>2, <1>3, <1>4 DEF Service!Register
<1> QED
  BY <1>1, <1>5 DEF Service!Next

\* A register call is a registration of the service or no step of it.
LEMMA RegisterRefines ==
  ASSUME IInv, NEW n \in Noti, NEW cb \in Cb,
         \/ RegisterDuplicate(n, cb)
         \/ RegisterAppend(n, cb)
         \/ RegisterFirst(n, cb)
         \/ RegisterRefused(n, cb),
         UNCHANGED <<queue, pc, round, called, emitted>>
  PROVE  [Service!Next]_(Service!vars)
<1>1. CASE RegisterDuplicate(n, cb) \/ RegisterRefused(n, cb)
  <2>1. UNCHANGED notiList
    BY <1>1 DEF RegisterDuplicate, RegisterRefused
  <2> QED
    BY <2>1, SameRecords DEF Service!vars
<1>2. CASE RegisterAppend(n, cb)
  <2> DEFINE c == [id |-> calls + 1, cb |-> cb]
  <2>1. PICK nd \in Find(n) :
          /\ FindCb(nd, cb) = {}
          /\ notiList' = (notiList \ {nd})
               \cup {[nd EXCEPT !.cbs = @ \cup {c}]}
    BY <1>2 DEF RegisterAppend, NewCall
  <2> DEFINE md == [nd EXCEPT !.cbs = nd.cbs \cup {c}]
  <2>2. calls + 1 \in 1..MaxRegister
    BY <1>2, NotificationsAssumption
       DEF RegisterAppend, NewCall, IInv, TypeOK
  <2>3. nd \in notiList /\ nd \in NotiData /\ nd.noti = n
    BY DEF Find, IInv, TypeOK
  <2>4. c \in Cell
    BY <2>2 DEF Cell
  <2>5. md.noti = n /\ md.cbs = nd.cbs \cup {c}
    <3>1. nd.cbs \cup {c} \in SUBSET Cell
      BY <2>3, <2>4 DEF NotiData
    <3> QED
      BY <2>3, <3>1, WithCallbacks
  <2>6. notiList' = (notiList \ {nd}) \cup {md}
    BY <2>1
  <2>7. RegOf(md, c) = [id |-> calls + 1, noti |-> n, cb |-> cb]
    BY <2>5 DEF RegOf
  <2> HIDE DEF md, c
  <2>8. \A x : RegOf(md, x) = RegOf(nd, x)
    BY <2>3, <2>5 DEF RegOf
  <2>9. \A r : r \in Registrations' <=>
                 \/ r \in Registrations
                 \/ r = [id |-> calls + 1, noti |-> n, cb |-> cb]
    <3>1. ASSUME NEW r
          PROVE  (\E d \in notiList' : \E x \in d.cbs : r = RegOf(d, x))
                 <=> \/ \E d \in notiList : \E x \in d.cbs : r = RegOf(d, x)
                     \/ r = RegOf(md, c)
      BY <2>3, <2>5, <2>6, <2>8
    <3> QED
      BY <2>7, <3>1, RegistrationsAre, RegistrationsAreNext
  <2>10. \A d \in Find(n) : FindCb(d, cb) = {}
    BY <2>1 DEF Find, IInv, RegistryIsMap
  <2> QED
    BY <2>2, <2>9, <2>10, AddsRegistration
<1>3. CASE RegisterFirst(n, cb)
  <2> DEFINE c == [id |-> calls + 1, cb |-> cb]
             md == [noti |-> n, watches |-> SubIds(NewSubs(calls + 1, n)),
                    cbs |-> {c}]
  <2>1. notiList' = notiList \cup {md} /\ Find(n) = {}
    BY <1>3 DEF RegisterFirst, NewCall
  <2>2. calls + 1 \in 1..MaxRegister
    BY <1>3, NotificationsAssumption DEF RegisterFirst, NewCall, IInv, TypeOK
  <2>3. md.cbs = {c} /\ md.noti = n
    OBVIOUS
  <2>4. RegOf(md, c) = [id |-> calls + 1, noti |-> n, cb |-> cb]
    BY DEF RegOf
  <2> HIDE DEF md, c
  <2>5. \A r : r \in Registrations' <=>
                 \/ r \in Registrations
                 \/ r = [id |-> calls + 1, noti |-> n, cb |-> cb]
    <3>1. ASSUME NEW r
          PROVE  (\E d \in notiList' : \E x \in d.cbs : r = RegOf(d, x))
                 <=> \/ \E d \in notiList : \E x \in d.cbs : r = RegOf(d, x)
                     \/ r = RegOf(md, c)
      BY <2>1, <2>3
    <3> QED
      BY <2>4, <3>1, RegistrationsAre, RegistrationsAreNext
  <2> QED
    BY <2>1, <2>2, <2>5, AddsRegistration
<1> QED
  BY <1>1, <1>2, <1>3

\* Unregistering a callback is a step of the service.
LEMMA UnregisterRefines ==
  ASSUME IInv, NEW n \in Noti, NEW cb \in Cb, Unregister(n, cb),
         UNCHANGED <<queue, pc, round, called, emitted>>
  PROVE  Service!Next
<1>1. PICK nd \in Find(n) : \E c \in FindCb(nd, cb) : Shrink(nd, {c})
  BY DEF Unregister
<1>2. PICK c \in FindCb(nd, cb) : Shrink(nd, {c})
  BY <1>1
<1> DEFINE S == nd.cbs \ {c}
           md == [nd EXCEPT !.cbs = S]
<1>3. nd \in notiList /\ nd \in NotiData /\ c \in nd.cbs
  BY DEF Find, FindCb, IInv, TypeOK
<1>4. md.noti = nd.noti /\ md.cbs = S
  <2>1. S \in SUBSET Cell
    BY <1>3 DEF NotiData
  <2> QED
    BY <1>3, <2>1, WithCallbacks
<1>5. \/ S = {} /\ notiList' = notiList \ {nd}
      \/ notiList' = (notiList \ {nd}) \cup {md}
  BY <1>2, <1>3 DEF Shrink
<1> HIDE DEF md
<1>6. \A x : RegOf(md, x) = RegOf(nd, x)
  BY <1>4 DEF RegOf
<1>7. \A d \in notiList : \A x \in d.cbs :
        RegOf(d, x) = RegOf(nd, c) => d = nd /\ x = c
  BY <1>3 DEF RegOf, IInv, CellsNumbered
<1>8. ASSUME NEW r
      PROVE  (\E d \in notiList' : \E x \in d.cbs : r = RegOf(d, x))
             <=> /\ \E d \in notiList : \E x \in d.cbs : r = RegOf(d, x)
                 /\ r # RegOf(nd, c)
  <2>1. ASSUME NEW d \in notiList', NEW x \in d.cbs, r = RegOf(d, x)
        PROVE  \E e \in notiList : /\ x \in e.cbs
                                   /\ r = RegOf(e, x)
                                   /\ ~(e = nd /\ x = c)
    BY <1>3, <1>4, <1>5, <1>6, <2>1
  <2>2. ASSUME NEW d \in notiList, NEW x \in d.cbs, r = RegOf(d, x),
               r # RegOf(nd, c)
        PROVE  \E e \in notiList' : \E y \in e.cbs : r = RegOf(e, y)
    <3>1. CASE d # nd
      BY <1>5, <2>2, <3>1
    <3>2. CASE d = nd
      <4>1. x \in S
        BY <2>2, <3>2
      <4>2. md \in notiList'
        BY <1>5, <4>1
      <4> QED
        BY <1>4, <1>6, <2>2, <3>2, <4>1, <4>2
    <3> QED
      BY <3>1, <3>2
  <2> QED
    BY <1>7, <2>1, <2>2
<1>9. Registrations' = Registrations \ {RegOf(nd, c)}
  BY <1>8, RegistrationsAre, RegistrationsAreNext
<1>10. RegOf(nd, c) \in Registrations
  BY <1>3, RegistrationsAre
<1>11. Service!Unregister(RegOf(nd, c))
  BY <1>9 DEF Service!Unregister
<1> QED
  BY <1>10, <1>11 DEF Service!Next

\* The first call of a round begins a round of the service.
LEMMA DispatchNotifyRefines ==
  ASSUME IInv, DispatchNotify
  PROVE  Service!Next
<1>1. PICK w \in Head(queue).to, s \in subs, nd \in notiList :
        \E c \in nd.cbs :
          /\ round' = [noti |-> nd.noti, owner |-> OwnerOf(w),
                       origin |-> Head(queue).sig.origin, cursor |-> c.id]
          /\ called' = {c.id}
  BY DEF DispatchNotify
<1>2. PICK c \in nd.cbs :
        /\ round' = [noti |-> nd.noti, owner |-> OwnerOf(w),
                     origin |-> Head(queue).sig.origin, cursor |-> c.id]
        /\ called' = {c.id}
  BY <1>1
<1> DEFINE r == RegOf(nd, c)
<1>3. r \in Registrations
  BY RegistrationsAre
<1>4. round.noti = "none"
  BY DEF DispatchNotify, IInv, WalkOnTrack, NoRound
<1>5. UNCHANGED Registrations
  BY SameRecords DEF DispatchNotify, client
<1>6. r.id = c.id /\ r.noti = nd.noti
  BY DEF RegOf
<1> HIDE DEF r
<1>7. Service!Begin(r)
  BY <1>2, <1>4, <1>5, <1>6 DEF Service!Begin
<1> QED
  BY <1>3, <1>7 DEF Service!Next

\* The walk's step to the next cell is a call of the service.
LEMMA NotifyNextRefines ==
  ASSUME IInv, NotifyNext
  PROVE  Service!Next
<1>1. PICK nd \in Find(round.noti) :
        /\ round.cursor \in Ids(nd.cbs)
        /\ \E c \in nd.cbs :
             /\ IsFirst(c, After(nd, round.cursor))
             /\ round' = [round EXCEPT !.cursor = c.id]
             /\ called' = called \cup {c.id}
  BY DEF NotifyNext
<1>2. PICK c \in nd.cbs :
        /\ IsFirst(c, After(nd, round.cursor))
        /\ round' = [round EXCEPT !.cursor = c.id]
        /\ called' = called \cup {c.id}
  BY <1>1
<1> DEFINE r == RegOf(nd, c)
<1>3. nd \in notiList /\ nd.noti = round.noti
  BY DEF Find
<1>4. r \in Registrations /\ r.id = c.id /\ r.noti = round.noti
  BY <1>3, RegistrationsAre DEF RegOf
<1>5. round.cursor \in Service!Ids
  <2>1. PICK d \in nd.cbs : d.id = round.cursor
    BY <1>1 DEF Ids
  <2>2. RegOf(nd, d) \in Registrations /\ RegOf(nd, d).id = round.cursor
    BY <1>3, <2>1, RegistrationsAre DEF RegOf
  <2> QED
    BY <2>2 DEF Service!Ids
<1>6. c.id > round.cursor
  BY <1>2 DEF IsFirst, After
<1>7. c.id \notin called
  <2>1. \A i \in called : i <= round.cursor
    BY DEF NotifyNext, IInv, WalkOnTrack
  <2>2. round.cursor \in Nat /\ c.id \in Nat
    BY <1>3, CellIds, NotificationsAssumption DEF IInv, TypeOK
  <2> QED
    BY <1>6, <2>1, <2>2
<1>8. /\ round'.noti = round.noti
      /\ round'.cursor = c.id
  BY <1>2 DEF IInv, TypeOK
<1>9. UNCHANGED Registrations
  BY SameRecords DEF NotifyNext, client
<1> HIDE DEF r
<1>10. Service!Call(r)
  BY <1>2, <1>4, <1>5, <1>6, <1>7, <1>8, <1>9 DEF Service!Call
<1> QED
  BY <1>4, <1>10 DEF Service!Next

\* The end of a walk, at the last cell or on a cell that is gone, ends a round
\* of the service.
LEMMA NotifyEndRefines ==
  ASSUME IInv, NotifyEnd \/ NotifyDangling
  PROVE  Service!Next
<1>1. /\ UNCHANGED client
      /\ round' = NoRound
      /\ called' = {}
      /\ pc = "callback"
  BY DEF NotifyEnd, NotifyDangling
<1>2. UNCHANGED Registrations
  BY <1>1, SameRecords DEF client
<1>3. round.noti # "none"
  BY <1>1, NotificationsAssumption DEF IInv, WalkOnTrack
<1>4. ASSUME round.cursor \in Service!Ids, NEW r \in Registrations,
             r.noti = round.noti
      PROVE  r.id \in called
  <2>1. PICK q \in Registrations : q.id = round.cursor
    BY <1>4 DEF Service!Ids
  <2>2. PICK d \in notiList : \E x \in d.cbs : q = RegOf(d, x)
    BY RegistrationsAre
  <2>3. PICK x \in d.cbs : q = RegOf(d, x)
    BY <2>2
  <2>4. x.id = round.cursor
    BY <2>1, <2>3 DEF RegOf
  <2>5. d \in Find(round.noti) /\ round.cursor \in Ids(d.cbs)
    BY <1>1, <2>4 DEF Find, Ids, IInv, WalkOnTrack
  <2>6. NotifyEnd
    BY <2>5 DEF NotifyDangling, CursorLinked
  <2>7. PICK nd \in Find(round.noti) : After(nd, round.cursor) = {}
    BY <2>6 DEF NotifyEnd
  <2>8. PICK e \in notiList : \E y \in e.cbs : r = RegOf(e, y)
    BY RegistrationsAre
  <2>9. PICK y \in e.cbs : r = RegOf(e, y)
    BY <2>8
  <2>10. e.noti = round.noti /\ r.id = y.id
    BY <1>4, <2>9 DEF RegOf
  <2>11. e = nd
    BY <2>10 DEF Find, IInv, RegistryIsMap
  <2>12. y.id \in Nat /\ round.cursor \in Nat
    BY CellIds, NotificationsAssumption DEF IInv, TypeOK
  <2>13. ~(y.id > round.cursor)
    BY <2>7, <2>11 DEF After
  <2>14. y.id <= round.cursor
    BY <2>12, <2>13
  <2>15. e \in Find(round.noti)
    BY <2>10 DEF Find
  <2> QED
    BY <1>1, <2>10, <2>14, <2>15 DEF IInv, WalkOnTrack
<1>5. round'.noti = "none" /\ round'.cursor = 0
  BY <1>1 DEF NoRound
<1>6. Service!End
  BY <1>1, <1>2, <1>3, <1>4, <1>5 DEF Service!End
<1> QED
  BY <1>6 DEF Service!Next

\* Every step of the registry is a step of the service or none.
LEMMA NextRefines == IInv /\ [Next]_vars => [Service!Next]_(Service!vars)
<1> SUFFICES ASSUME IInv, [Next]_vars
             PROVE  [Service!Next]_(Service!vars)
  OBVIOUS
<1>1. ASSUME NEW n \in Noti, NEW cb \in Cb,
             UNCHANGED <<queue, pc, round, called, emitted>>,
             \/ RegisterDuplicate(n, cb)
             \/ RegisterAppend(n, cb)
             \/ RegisterFirst(n, cb)
             \/ RegisterRefused(n, cb)
             \/ Unregister(n, cb)
      PROVE  [Service!Next]_(Service!vars)
  BY <1>1, RegisterRefines, UnregisterRefines
<1>2. CASE Deinit /\ UNCHANGED <<queue, pc, round, called, emitted>>
  <2>1. Registrations' = {}
    BY <1>2 DEF Deinit, Registrations
  <2>2. Service!Finalize
    BY <1>2, <2>1 DEF Service!Finalize
  <2> QED
    BY <2>2 DEF Service!Next
<1>3. CASE UNCHANGED <<client, round, called>>
  BY <1>3, SameRecords DEF client, Service!vars
<1>4. CASE Client
  BY <1>1, <1>2, <1>4 DEF Client
<1>5. CASE \E sig \in Signal : Emit(sig)
  BY <1>3, <1>5 DEF Emit
<1>6. CASE MainLoop
  BY <1>3, <1>6, DispatchNotifyRefines, NotifyNextRefines, NotifyEndRefines
     DEF MainLoop, DispatchDrop
<1>7. CASE UNCHANGED vars
  BY <1>3, <1>7 DEF vars, client
<1> QED
  BY <1>4, <1>5, <1>6, <1>7 DEF Next

\* The registry with its lists, watches and cursor implements the service the
\* library promises: each round calls the registrations of one notification
\* once each and in order, including those made in its callbacks and except
\* those removed in them.
THEOREM Refinement == Spec => ServiceSpec
<1>1. Init => Service!Init
  BY InitRefines
<1>2. []IInv /\ [][Next]_vars => [][Service!Next]_(Service!vars)
  BY NextRefines, PTL
<1> QED
  BY <1>1, <1>2, Invariance, PTL DEF Spec, ServiceSpec, Service!Spec

-----------------------------------------------------------------------------
(***************************************************************************)
(* Signals reach the callbacks they are meant for                          *)
(***************************************************************************)

\* A waiting signal matches the subscriptions it waits for that still exist,
\* and none of those that are made later takes the identifier of another.
QueueMatched ==
  \A k \in DOMAIN queue :
    /\ \A w \in queue[k].to : w[1] <= calls
    /\ \A s \in subs : s.id \in queue[k].to => Matches(s.row, queue[k].sig)

RouteInv == QueueMatched /\ ForeignSignalsFiltered

\* Every subscription is older than the next register call.
LEMMA SubsOlder ==
  ASSUME IInv, NEW s \in subs
  PROVE  s.id[1] \in Nat /\ s.id[1] <= calls /\ calls \in Nat
<1>1. calls \in Nat /\ calls <= MaxRegister /\ MaxRegister \in Nat
  BY NotificationsAssumption DEF IInv, TypeOK
<1>2. CASE s.id = PropWatch
  BY <1>1, <1>2 DEF PropWatch
<1>3. CASE \E nd \in notiList : s.id \in nd.watches
  <2>1. PICK nd \in notiList : s.id \in nd.watches
    BY <1>3
  <2>2. PICK i \in 1..calls : nd.watches = SubIds(NewSubs(i, nd.noti))
    BY DEF IInv, SubscriptionsMatchLists
  <2>3. i \in 1..MaxRegister /\ i <= calls /\ i \in Nat
    BY <1>1
  <2>4. s.id[1] = i
    BY <2>1, <2>2, <2>3, NewSubsIds
  <2> QED
    BY <1>1, <2>3, <2>4
<1> QED
  BY <1>2, <1>3 DEF IInv, SubscriptionsMatchLists

\* A step after which every waiting signal waited before, for no more
\* subscriptions, and every new subscription has the number of a new call.
LEMMA MatchedKeeps ==
  ASSUME IInv, QueueMatched,
         \A k \in DOMAIN queue' : \E j \in DOMAIN queue :
           queue'[k].sig = queue[j].sig /\ queue'[k].to \subseteq queue[j].to,
         \A s \in subs' : s \in subs \/ s.id[1] = calls + 1,
         calls' \in {calls, calls + 1}
  PROVE  QueueMatched'
<1>1. calls \in Nat
  BY NotificationsAssumption DEF IInv, TypeOK
<1> SUFFICES ASSUME NEW k \in DOMAIN queue'
             PROVE  /\ \A w \in queue'[k].to : w[1] <= calls'
                    /\ \A s \in subs' : s.id \in queue'[k].to =>
                                          Matches(s.row, queue'[k].sig)
  BY DEF QueueMatched
<1>2. PICK j \in DOMAIN queue :
        queue'[k].sig = queue[j].sig /\ queue'[k].to \subseteq queue[j].to
  OBVIOUS
<1>3. /\ \A w \in queue[j].to : w \in WatchId /\ w[1] <= calls
      /\ \A s \in subs : s.id \in queue[j].to => Matches(s.row, queue[j].sig)
  <2>1. queue[j] \in Delivery
    BY DEF IInv, TypeOK
  <2> QED
    BY <2>1 DEF QueueMatched, Delivery
<1>4. \A w \in WatchId : w[1] \in Nat
  BY NotificationsAssumption DEF WatchId
<1>5. \A w \in queue'[k].to : w[1] <= calls' /\ w[1] # calls + 1
  BY <1>1, <1>2, <1>3, <1>4
<1>6. ASSUME NEW s \in subs', s.id \in queue'[k].to
      PROVE  Matches(s.row, queue'[k].sig)
  <2>1. s \in subs
    BY <1>5, <1>6
  <2> QED
    BY <1>2, <1>3, <1>6, <2>1
<1> QED
  BY <1>5, <1>6

\* What waits after a subscription was told of the oldest signal.
LEMMA ToldShrinks ==
  ASSUME TypeOK, queue # <<>>, NEW w, Told(w)
  PROVE  \A k \in DOMAIN queue' : \E j \in DOMAIN queue :
           queue'[k].sig = queue[j].sig /\ queue'[k].to \subseteq queue[j].to
<1> DEFINE rest == Head(queue).to \ {w}
           told == [Head(queue) EXCEPT !.to = rest]
<1>1. queue \in Seq(Delivery)
  BY DEF TypeOK
<1>2. /\ Head(queue) \in Delivery /\ Head(queue) = queue[1] /\ 1 \in DOMAIN queue
      /\ DOMAIN queue = 1..Len(queue) /\ Len(queue) \in Nat
      /\ Tail(queue) \in Seq(Delivery)
      /\ Len(Tail(queue)) = Len(queue) - 1
      /\ DOMAIN Tail(queue) = 1..(Len(queue) - 1)
      /\ \A k \in 1..(Len(queue) - 1) : Tail(queue)[k] = queue[k + 1]
  BY <1>1
<1>3. told.sig = queue[1].sig /\ told.to = rest
  BY <1>2 DEF Delivery
<1>4. queue' = IF rest = {} THEN Tail(queue) ELSE <<told>> \o Tail(queue)
  BY DEF Told
<1>5. rest \subseteq queue[1].to
  BY <1>2
<1> HIDE DEF rest, told
<1>6. CASE rest = {}
  <2>1. \A k \in DOMAIN queue' : k + 1 \in DOMAIN queue /\ queue'[k] = queue[k + 1]
    BY <1>2, <1>4, <1>6
  <2> QED
    BY <2>1
<1>7. CASE rest # {}
  <2>1. queue' = <<told>> \o Tail(queue)
    BY <1>4, <1>7
  <2>2. /\ DOMAIN queue' = 1..Len(queue)
        /\ queue'[1] = told
        /\ \A k \in 2..Len(queue) : queue'[k] = Tail(queue)[k - 1]
    <3>1. told \in Delivery
      BY <1>2, <1>5, <1>7 DEF told, Delivery
    <3> QED
      BY <1>2, <2>1, <3>1
  <2>3. \A k \in 2..Len(queue) : k \in DOMAIN queue /\ queue'[k] = queue[k]
    <3>1. \A k \in 2..Len(queue) :
            /\ k - 1 \in 1..(Len(queue) - 1) /\ (k - 1) + 1 = k
            /\ k \in DOMAIN queue
      BY <1>2
    <3> QED
      BY <1>2, <2>2, <3>1
  <2>4. \A k \in DOMAIN queue' : k = 1 \/ k \in 2..Len(queue)
    BY <1>2, <2>2
  <2> QED
    BY <1>2, <1>3, <1>5, <2>2, <2>3, <2>4
<1> QED
  BY <1>6, <1>7

LEMMA EmitMatched ==
  ASSUME IInv, QueueMatched, NEW sig \in Signal, Emit(sig)
  PROVE  QueueMatched'
<1> DEFINE to == {s.id : s \in {q \in subs : Matches(q.row, sig)}}
           e == [sig |-> sig, to |-> to]
<1>1. /\ UNCHANGED client /\ queue' = Append(queue, e) /\ to # {}
  BY DEF Emit
<1>2. UNCHANGED <<subs, calls>>
  BY <1>1 DEF client
<1>3. to \subseteq WatchId
  BY DEF IInv, TypeOK, SubIds
<1>4. e \in Delivery
  BY <1>1, <1>3 DEF Delivery
<1>5. \A w \in to : w[1] <= calls
  BY SubsOlder
<1>6. \A s \in subs : s.id \in to => Matches(s.row, sig)
  BY DEF IInv, SubscriptionsMatchLists
<1>7. e.sig = sig /\ e.to = to
  OBVIOUS
<1> HIDE DEF to, e
<1>8. \A k \in DOMAIN queue' :
        \/ k \in DOMAIN queue /\ queue'[k] = queue[k]
        \/ queue'[k] = e
  <2>1. queue \in Seq(Delivery)
    BY DEF IInv, TypeOK
  <2> QED
    BY <1>1, <1>4, <2>1
<1> QED
  BY <1>2, <1>5, <1>6, <1>7, <1>8 DEF QueueMatched

\* A handler that goes on to _notify() runs for a signal of its modem, or of
\* one whose path continues that of its modem.
LEMMA RoundNotForeign ==
  ASSUME IInv, QueueMatched, DispatchNotify
  PROVE  ForeignSignalsFiltered'
<1>1. PICK w \in Head(queue).to, s \in subs, nd \in notiList :
        /\ s.id = w
        /\ NotifyFinds(s, nd)
        /\ round'.origin = Head(queue).sig.origin
  BY DEF DispatchNotify
<1>2. 1 \in DOMAIN queue /\ Head(queue) = queue[1]
  BY DEF DispatchNotify, IInv, TypeOK
<1>3. Matches(s.row, Head(queue).sig) /\ HandlerAccepts(s.row, Head(queue).sig)
  BY <1>1, <1>2 DEF QueueMatched, NotifyFinds
<1> QED
  BY <1>1, <1>3 DEF Matches, HandlerAccepts, ForeignSignalsFiltered

LEMMA ClientMatched ==
  ASSUME IInv, QueueMatched, Client
  PROVE  QueueMatched'
<1>1. UNCHANGED queue
  BY DEF Client
<1>2. \A k \in DOMAIN queue' : \E j \in DOMAIN queue :
        queue'[k].sig = queue[j].sig /\ queue'[k].to \subseteq queue[j].to
  BY <1>1
<1>3. /\ calls' \in {calls, calls + 1}
      /\ \A s \in subs' : s \in subs \/ s.id[1] = calls + 1
  <2>1. ASSUME NEW n \in Noti, NEW cb \in Cb, RegisterFirst(n, cb)
        PROVE  /\ calls' \in {calls, calls + 1}
               /\ \A s \in subs' : s \in subs \/ s.id[1] = calls + 1
    <3>1. /\ calls' = calls + 1 /\ calls < MaxRegister /\ calls \in Nat
          /\ subs' = subs \cup NewSubs(calls', n)
      BY <2>1, NotificationsAssumption
         DEF RegisterFirst, NewCall, IInv, TypeOK
    <3>2. calls' \in 1..MaxRegister
      BY <3>1, NotificationsAssumption
    <3>3. \A w \in SubIds(NewSubs(calls', n)) : w[1] = calls'
      BY <3>2, NewSubsIds
    <3>4. \A s \in NewSubs(calls', n) : s.id[1] = calls'
      BY <3>3 DEF SubIds
    <3> QED
      BY <3>1, <3>4
  <2>2. ASSUME NEW n \in Noti, NEW cb \in Cb,
               \/ RegisterDuplicate(n, cb)
               \/ RegisterAppend(n, cb)
               \/ RegisterRefused(n, cb)
               \/ Unregister(n, cb)
        PROVE  calls' \in {calls, calls + 1} /\ subs' \subseteq subs
    BY <2>2 DEF RegisterDuplicate, RegisterAppend, RegisterRefused, NewCall,
                Unregister, Shrink
  <2>3. CASE Deinit
    BY <2>3 DEF Deinit
  <2> QED
    BY <2>1, <2>2, <2>3 DEF Client
<1> QED
  BY <1>2, <1>3, MatchedKeeps

LEMMA RouteStep ==
  ASSUME IInv, RouteInv, [Next]_vars
  PROVE  RouteInv'
<1>1. UNCHANGED round => ForeignSignalsFiltered'
  BY DEF RouteInv, ForeignSignalsFiltered
<1>2. UNCHANGED <<client, queue>> => QueueMatched'
  BY DEF RouteInv, QueueMatched, client
<1>3. CASE Client
  BY <1>1, <1>3, ClientMatched DEF RouteInv, Client
<1>4. ASSUME NEW sig \in Signal, Emit(sig)
      PROVE  RouteInv'
  BY <1>1, <1>4, EmitMatched DEF RouteInv, Emit
<1>5. CASE DispatchNotify \/ DispatchDrop
  <2>1. PICK w : Told(w)
    BY <1>5 DEF DispatchNotify, DispatchDrop
  <2>2. queue # <<>> /\ UNCHANGED <<subs, calls>>
    BY <1>5 DEF DispatchNotify, DispatchDrop, client
  <2>3. \A k \in DOMAIN queue' : \E j \in DOMAIN queue :
          queue'[k].sig = queue[j].sig /\ queue'[k].to \subseteq queue[j].to
    BY <2>1, <2>2, ToldShrinks DEF IInv
  <2>4. QueueMatched'
    BY <2>2, <2>3, MatchedKeeps DEF RouteInv
  <2>5. DispatchDrop => UNCHANGED round
    BY DEF DispatchDrop
  <2> QED
    BY <1>1, <1>5, <2>4, <2>5, RoundNotForeign DEF RouteInv
<1>6. CASE NotifyNext \/ NotifyEnd \/ NotifyDangling
  <2>1. UNCHANGED <<client, queue>>
    BY <1>6 DEF NotifyNext, NotifyEnd, NotifyDangling
  <2>2. CASE NotifyNext
    <3>1. PICK i : round' = [round EXCEPT !.cursor = i]
      BY <2>2 DEF NotifyNext
    <3>2. round'.origin = round.origin
      BY <3>1 DEF IInv, TypeOK
    <3> QED
      BY <1>2, <2>1, <3>2 DEF RouteInv, ForeignSignalsFiltered
  <2>3. CASE NotifyEnd \/ NotifyDangling
    <3>1. round'.origin = "own"
      BY <2>3 DEF NotifyEnd, NotifyDangling, NoRound
    <3> QED
      BY <1>2, <2>1, <3>1 DEF RouteInv, ForeignSignalsFiltered
  <2> QED
    BY <1>6, <2>2, <2>3
<1>7. CASE UNCHANGED vars
  BY <1>1, <1>2, <1>7 DEF RouteInv, vars, client
<1> QED
  BY <1>3, <1>4, <1>5, <1>6, <1>7 DEF Next, MainLoop

\* The subscriptions on every path let no signal of an unrelated modem
\* through to a callback: the handler that runs is always the one of a
\* subscription the signal matched, however the client registers and
\* unregisters while the signal waits.
THEOREM ForeignCorrect == Spec => []ForeignSignalsFiltered
<1>1. Init => RouteInv
  BY DEF Init, RouteInv, QueueMatched, ForeignSignalsFiltered, NoRound
<1>2. IInv /\ RouteInv /\ [Next]_vars => RouteInv'
  BY RouteStep
<1>3. RouteInv => ForeignSignalsFiltered
  BY DEF RouteInv
<1> QED
  BY <1>1, <1>2, <1>3, Invariance, PTL DEF Spec

\* Every row of the table, but that of the messages of class 0, names the
\* notification it is made for.
LEMMA RowsRouted ==
  ASSUME NEW n, n # "INCOMING_SMS_CLASS_0", NEW k \in DOMAIN Rows(n)
  PROVE  Rows(n)[k].routed = n
<1>1. \A m \in DOMAIN Table \ {"INCOMING_SMS_CLASS_0"} :
        \A j \in DOMAIN Table[m] : Table[m][j].routed = m
  <2>1. /\ ModemStatusRow.routed = "MODEM_STATUS_CHANGED"
        /\ InterfacesRow.routed = "INTERFACES_CHANGED"
        /\ SignalStrengthRow.routed = "SIGNAL_STRENGTH_CHANGED"
        /\ RegistrationRow.routed = "REGISTRATION_STATUS_CHANGED"
        /\ CallChangedRow.routed = "CALL_STATUS_CHANGED"
        /\ CallAddedRow.routed = "CALL_STATUS_CHANGED"
        /\ DisconnectReasonRow.routed = "CALL_DISCONNECT_REASON"
        /\ IncomingMessageRow.routed = "INCOMING_SMS"
        /\ MessageStatusRow.routed = "MSG_STATUS_CHANGED"
        /\ DeliveryReportRow.routed = "SMS_DELIVERY_REPORT"
        /\ BroadcastRow.routed = "INCOMING_CBS"
        /\ EmergencyBroadcastRow.routed = "EMERGENCY_CBS"
        /\ SimStatusRow.routed = "SIM_STATUS_CHANGED"
        /\ UssdRow("NotificationReceived").routed = "USSD_NOTIFICATION"
        /\ UssdRow("RequestReceived").routed = "USSD_REQ"
        /\ UssdStatusRow.routed = "USSD_STATUS_CHANGED"
        /\ ConnmanStatusRow.routed = "CONNMAN_STATUS"
        /\ ContextActivedRow.routed = "CONNMAN_CONTEXT_ACTIVED"
        /\ IdleModeTextRow.routed = "SAT_IDLE_MODE_TEXT"
        /\ MainMenuRow.routed = "SAT_MAIN_MENU"
    BY DEF OnModem, OnAnyPath, ModemStatusRow, InterfacesRow,
           SignalStrengthRow, RegistrationRow, CallChangedRow, CallAddedRow,
           DisconnectReasonRow, IncomingMessageRow, SmsNotified,
           MessageStatusRow, DeliveryReportRow, BroadcastRow,
           EmergencyBroadcastRow, SimStatusRow, UssdRow, UssdStatusRow,
           ConnmanStatusRow, ContextActivedRow, IdleModeTextRow, MainMenuRow
  <2>2. /\ Table["MODEM_STATUS_CHANGED"] = <<ModemStatusRow>>
        /\ Table["INTERFACES_CHANGED"] = <<InterfacesRow>>
        /\ Table["SIGNAL_STRENGTH_CHANGED"] = <<SignalStrengthRow>>
        /\ Table["REGISTRATION_STATUS_CHANGED"] = <<RegistrationRow>>
        /\ Table["CALL_STATUS_CHANGED"] = <<CallChangedRow, CallAddedRow>>
        /\ Table["CALL_DISCONNECT_REASON"] = <<DisconnectReasonRow>>
        /\ Table["INCOMING_SMS"] = <<IncomingMessageRow>>
        /\ Table["MSG_STATUS_CHANGED"] = <<MessageStatusRow>>
        /\ Table["SMS_DELIVERY_REPORT"] = <<DeliveryReportRow>>
        /\ Table["INCOMING_CBS"] = <<BroadcastRow>>
        /\ Table["EMERGENCY_CBS"] = <<EmergencyBroadcastRow>>
        /\ Table["SIM_STATUS_CHANGED"] = <<SimStatusRow>>
        /\ Table["USSD_NOTIFICATION"] = <<UssdRow("NotificationReceived")>>
        /\ Table["USSD_REQ"] = <<UssdRow("RequestReceived")>>
        /\ Table["USSD_STATUS_CHANGED"] = <<UssdStatusRow>>
        /\ Table["CONNMAN_STATUS"] = <<ConnmanStatusRow>>
        /\ Table["CONNMAN_CONTEXT_ACTIVED"] = <<ContextActivedRow>>
        /\ Table["SAT_IDLE_MODE_TEXT"] = <<IdleModeTextRow>>
        /\ Table["SAT_MAIN_MENU"] = <<MainMenuRow>>
    BY DEF Table
  <2>3. DOMAIN Table = {"MODEM_STATUS_CHANGED", "INTERFACES_CHANGED",
                        "SIGNAL_STRENGTH_CHANGED", "REGISTRATION_STATUS_CHANGED",
                        "CALL_STATUS_CHANGED", "CALL_DISCONNECT_REASON",
                        "INCOMING_SMS_CLASS_0", "INCOMING_SMS",
                        "MSG_STATUS_CHANGED", "SMS_DELIVERY_REPORT",
                        "INCOMING_CBS", "EMERGENCY_CBS",
                        "SIM_STATUS_CHANGED", "USSD_NOTIFICATION",
                        "USSD_REQ", "USSD_STATUS_CHANGED",
                        "CONNMAN_STATUS", "CONNMAN_CONTEXT_ACTIVED",
                        "SAT_IDLE_MODE_TEXT", "SAT_MAIN_MENU"}
    BY DEF Table
  <2> QED
    BY <2>1, <2>2, <2>3
<1> QED
  BY <1>1 DEF Rows

LEMMA RoundRouted ==
  ASSUME "INCOMING_SMS_CLASS_0" \notin Noti, IInv, DispatchNotify
  PROVE  RoutedToSubscriber'
<1>1. PICK w \in Head(queue).to, s \in subs, nd \in notiList :
        /\ s.id = w
        /\ NotifyFinds(s, nd)
        /\ round'.noti = nd.noti /\ round'.owner = OwnerOf(w)
  BY DEF DispatchNotify
<1>2. nd.noti = s.row.routed /\ Head(queue).sig.key \in s.row.keys
  BY <1>1 DEF NotifyFinds, Find, HandlerAccepts
<1>3. ~(modem = "live" /\ s.id = PropWatch)
  <2>1. CacheRow.keys = {}
    BY DEF CacheRow, OnModem
  <2>2. modem = "live" => [id |-> PropWatch, row |-> CacheRow] \in subs
    BY DEF IInv, SubscriptionsMatchLists
  <2>3. modem = "live" /\ s.id = PropWatch =>
          s = [id |-> PropWatch, row |-> CacheRow]
    BY <2>2 DEF IInv, SubscriptionsMatchLists
  <2> QED
    BY <1>2, <2>1, <2>3
<1>4. PICK md \in notiList : w \in md.watches
  BY <1>1, <1>3 DEF IInv, SubscriptionsMatchLists
<1>5. OwnerOf(w) = md.noti
  BY <1>4 DEF OwnerOf, IInv, SubscriptionsMatchLists
<1>6. PICK i \in 1..calls : /\ md.watches = SubIds(NewSubs(i, md.noti))
                           /\ NewSubs(i, md.noti) \subseteq subs
  BY DEF IInv, SubscriptionsMatchLists
<1>7. PICK t \in NewSubs(i, md.noti) : t.id = w
  BY <1>4, <1>6 DEF SubIds
<1>8. s = t
  BY <1>1, <1>6, <1>7 DEF IInv, SubscriptionsMatchLists
<1>9. s.row.routed = md.noti
  <2>1. md.noti \in Noti
    BY DEF IInv, TypeOK, NotiData
  <2>2. PICK k \in DOMAIN Rows(md.noti) : s.row = Rows(md.noti)[k]
    BY <1>7, <1>8 DEF NewSubs
  <2> QED
    BY <2>1, <2>2, RowsRouted
<1> QED
  BY <1>1, <1>2, <1>5, <1>9 DEF RoutedToSubscriber

LEMMA RoutedStep ==
  ASSUME "INCOMING_SMS_CLASS_0" \notin Noti, IInv, RoutedToSubscriber,
         [Next]_vars
  PROVE  RoutedToSubscriber'
<1>1. CASE UNCHANGED round
  BY <1>1 DEF RoutedToSubscriber
<1>2. CASE NotifyNext
  <2>1. PICK i : round' = [round EXCEPT !.cursor = i]
    BY <1>2 DEF NotifyNext
  <2>2. round'.owner = round.owner /\ round'.noti = round.noti
    BY <2>1 DEF IInv, TypeOK
  <2> QED
    BY <2>2 DEF RoutedToSubscriber
<1>3. CASE NotifyEnd \/ NotifyDangling
  BY <1>3 DEF NotifyEnd, NotifyDangling, NoRound, RoutedToSubscriber
<1>4. CASE DispatchNotify
  BY <1>4, RoundRouted
<1> QED
  BY <1>1, <1>2, <1>3, <1>4 DEF Next, vars, Client, Emit, MainLoop, DispatchDrop

\* What is subscribed to for a notification is passed to the callbacks of
\* that notification, for every notification but that of messages of class
\* 0, whose handler passes them on as ordinary messages.
THEOREM RoutedCorrect ==
  "INCOMING_SMS_CLASS_0" \notin Noti => (Spec => []RoutedToSubscriber)
<1> SUFFICES ASSUME "INCOMING_SMS_CLASS_0" \notin Noti
             PROVE  Spec => []RoutedToSubscriber
  OBVIOUS
<1>1. Init => RoutedToSubscriber
  BY DEF Init, RoutedToSubscriber, NoRound
<1>2. IInv /\ RoutedToSubscriber /\ [Next]_vars => RoutedToSubscriber'
  BY RoutedStep
<1> QED
  BY <1>1, <1>2, Invariance, PTL DEF Spec

=============================================================================
