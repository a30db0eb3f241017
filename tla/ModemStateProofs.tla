------------------------- MODULE ModemStateProofs -------------------------
(***************************************************************************)
(* Proofs about ModemState for every number of changes.                    *)
(***************************************************************************)
EXTENDS ModemState, TLAPS

(***************************************************************************)
(* The inductive invariant                                                 *)
(***************************************************************************)

\* What ofono_modem_init() has learnt when.
Phases ==
  /\ phase = "new" => wire = <<>> /\ watches = {}
  /\ phase # "new" => "cache" \in watches
  /\ phase \in {"new", "asking"} => snap = NoAnswer
  /\ phase # "ready" => cache = [k \in Key |-> 0]
  /\ \A key \in Key : props[key] <= changes + 1

\* The last signal waiting about a property carries its present value.
LastsCurrent ==
  \A i \in DOMAIN wire : LastOfKey(i) => wire[i].version = props[wire[i].key]

\* What the cache holds, or is about to hold.
Known(key) == IF phase = "answered" /\ snap # NoAnswer THEN snap[key]
              ELSE cache[key]

\* A property that no signal waits for is known.
RestKnown ==
  phase \in {"answered", "ready"} =>
    \A key \in Key : \/ Waiting(key)
                     \/ Known(key) = props[key]
                     \/ snap = NoAnswer /\ cache[key] = 0

\* Only the oldest signal may have been handled, and then it is cached.
OthersUnhandled ==
  \A i \in DOMAIN wire :
    "cache" \notin wire[i].to =>
      i = 1 /\ phase = "ready" /\ cache[wire[i].key] = wire[i].version

IInv ==
  /\ TypeOK
  /\ Phases
  /\ LastsCurrent
  /\ RestKnown
  /\ OthersUnhandled

-----------------------------------------------------------------------------
(***************************************************************************)
(* The invariant is inductive                                              *)
(***************************************************************************)

\* Every initial state satisfies the invariant.
LEMMA InitIInv == Init => IInv
<1> SUFFICES ASSUME Init PROVE IInv
  OBVIOUS
<1>1. TypeOK
  BY MaxChangesAssumption DEF Init, TypeOK, Version, Handler
<1>2. Phases
  BY DEF Init, Phases
<1>3. LastsCurrent /\ RestKnown /\ OthersUnhandled
  BY DEF Init, LastsCurrent, RestKnown, OthersUnhandled
<1> QED
  BY <1>1, <1>2, <1>3 DEF IInv

\* A change of a property keeps the invariant.
LEMMA ChangeStep ==
  ASSUME IInv, NEW key \in Key, Change(key)
  PROVE  IInv'
<1> DEFINE m == [key |-> key, version |-> props'[key], to |-> Receivers(key)]
<1>1. /\ wire \in Seq(Delivery)
      /\ props \in [Key -> Version]
      /\ changes \in Nat
      /\ UNCHANGED <<phase, snap, old, watches, cache>>
      /\ changes' = changes + 1
      /\ changes' \in 0..MaxChanges
  BY MaxChangesAssumption DEF IInv, TypeOK, Change
<1>2. /\ props'[key] = props[key] + 1
      /\ props[key] <= changes + 1
      /\ \A k \in Key \ {key} : props'[k] = props[k]
  BY <1>1 DEF Change, IInv, Phases
<1>3. props'[key] \in Version
  BY <1>1, <1>2, MaxChangesAssumption DEF Version
<1>4. props' \in [Key -> Version]
  BY <1>1, <1>3 DEF Change
<1>5. Receivers(key) \subseteq Handler
  BY DEF IInv, TypeOK, Receivers
<1>6. phase # "new" => "cache" \in Receivers(key)
  BY DEF IInv, Phases, Receivers
<1>7. m \in Delivery
  BY <1>3, <1>5 DEF Delivery
<1>8. m.key = key /\ m.version = props'[key] /\ m.to = Receivers(key)
  OBVIOUS
<1>9. wire' = IF Receivers(key) = {} THEN wire ELSE Append(wire, m)
  BY DEF Change
<1> HIDE DEF m
<1>10. TypeOK'
  BY <1>1, <1>4, <1>7, <1>9 DEF IInv, TypeOK
<1>11. Phases'
  <2>1. phase = "new" => wire' = <<>>
    BY <1>9 DEF IInv, Phases, Receivers
  <2>2. ASSUME NEW k \in Key PROVE props'[k] <= changes' + 1
    <3>1. props[k] \in Nat /\ props[k] <= changes + 1
      BY <1>1 DEF Version, IInv, Phases
    <3> QED
      BY <1>1, <1>2, <3>1
  <2> QED
    BY <1>1, <2>1, <2>2 DEF IInv, Phases
<1>12. CASE phase = "new"
  <2>1. wire' = <<>> /\ phase' = "new"
    BY <1>1, <1>11, <1>12 DEF Phases
  <2> QED
    BY <1>10, <1>11, <2>1 DEF IInv, LastsCurrent, RestKnown, OthersUnhandled
<1>13. CASE phase # "new"
  <2>1. /\ wire' = Append(wire, m)
        /\ DOMAIN wire' = 1..(Len(wire) + 1)
        /\ DOMAIN wire = 1..Len(wire)
        /\ Len(wire) \in Nat
        /\ \A i \in 1..Len(wire) : wire'[i] = wire[i]
        /\ wire'[Len(wire) + 1] = m
    BY <1>1, <1>6, <1>7, <1>9, <1>13
  <2>2. LastsCurrent'
    <3>1. SUFFICES ASSUME NEW i \in 1..(Len(wire) + 1),
                          \A j \in 1..(Len(wire) + 1) :
                            j > i => wire'[j].key # wire'[i].key
                   PROVE  wire'[i].version = props'[wire'[i].key]
      BY <2>1 DEF LastsCurrent, LastOfKey
    <3>2. CASE i = Len(wire) + 1
      BY <1>8, <2>1, <3>2
    <3>3. CASE i \in 1..Len(wire)
      <4>1. wire[i].key # key
        BY <1>8, <2>1, <3>1, <3>3
      <4>2. LastOfKey(i)
        BY <2>1, <3>1, <3>3 DEF LastOfKey
      <4>3. wire[i].key \in Key
        <5>1. wire[i] \in Delivery
          BY <1>1, <2>1, <3>3
        <5> QED
          BY <5>1 DEF Delivery
      <4> QED
        BY <1>2, <2>1, <3>3, <4>1, <4>2, <4>3 DEF IInv, LastsCurrent
    <3> QED
      BY <2>1, <3>2, <3>3
  <2>3. RestKnown'
    <3>1. ASSUME NEW k \in Key, Waiting(k)
          PROVE  Waiting(k)'
      <4>1. PICK i \in 1..Len(wire) : wire[i].key = k
        BY <2>1, <3>1 DEF Waiting
      <4>2. i \in DOMAIN wire' /\ wire'[i].key = k
        BY <2>1, <4>1
      <4> QED
        BY <4>2 DEF Waiting
    <3>2. Waiting(key)'
      <4>1. Len(wire) + 1 \in DOMAIN wire'
        BY <2>1
      <4> QED
        BY <1>8, <2>1, <4>1 DEF Waiting
    <3>3. \A k \in Key : Known(k)' = Known(k)
      BY <1>1 DEF Known
    <3> QED
      BY <1>1, <1>2, <3>1, <3>2, <3>3 DEF IInv, RestKnown
  <2>4. OthersUnhandled'
    BY <1>1, <1>6, <1>8, <1>13, <2>1 DEF IInv, OthersUnhandled
  <2> QED
    BY <1>10, <1>11, <2>2, <2>3, <2>4 DEF IInv
<1> QED
  BY <1>12, <1>13

\* The call of GetProperties, its answer or failure, and its return keep the
\* invariant.
LEMMA CallStep ==
  ASSUME IInv, Subscribe \/ Answer \/ Fail \/ InitReturns
  PROVE  IInv'
<1>1. UNCHANGED <<props, changes, wire>>
  BY DEF Subscribe, Answer, Fail, InitReturns
<1>2. TypeOK'
  <2>1. /\ phase' \in {"new", "asking", "answered", "ready"}
        /\ snap' \in [Key -> Version] \cup {NoAnswer}
        /\ cache' \in [Key -> Version]
    BY DEF IInv, TypeOK, Subscribe, Answer, Fail, InitReturns
  <2>2. old' \in Nat
    BY DEF IInv, TypeOK, Subscribe, Answer, Fail, InitReturns
  <2>3. watches' \subseteq Handler
    BY DEF IInv, TypeOK, Subscribe, Answer, Fail, InitReturns, Handler
  <2> QED
    BY <1>1, <2>1, <2>2, <2>3 DEF IInv, TypeOK
<1>3. Phases'
  BY <1>1 DEF IInv, Phases, TypeOK, Subscribe, Answer, Fail, InitReturns
<1>4. LastsCurrent'
  BY <1>1 DEF IInv, LastsCurrent, LastOfKey
<1>5. RestKnown'
  <2>1. \A k : Waiting(k)' = Waiting(k)
    BY <1>1 DEF Waiting
  <2>2. CASE Answer
    <3>1. phase' = "answered" /\ snap' = props
      BY <2>2 DEF Answer
    <3>2. cache' = [k \in Key |-> 0] /\ UNCHANGED cache
      BY <2>2 DEF Answer, IInv, Phases
    <3> QED
      BY <1>1, <3>1, <3>2 DEF RestKnown, Known
  <2>3. CASE Fail
    <3>1. snap' = NoAnswer /\ cache' = [k \in Key |-> 0]
      BY <2>3 DEF Fail, IInv, Phases
    <3> QED
      BY <3>1 DEF RestKnown
  <2>4. CASE InitReturns
    <3>1. \A k \in Key : Known(k)' = Known(k)
      BY <2>4 DEF InitReturns, Known
    <3>2. snap = NoAnswer => UNCHANGED cache
      BY <2>4 DEF InitReturns
    <3> QED
      BY <1>1, <2>1, <2>4, <3>1, <3>2 DEF InitReturns, IInv, RestKnown
  <2>5. CASE Subscribe
    BY <2>5 DEF Subscribe, RestKnown
  <2> QED
    BY <2>2, <2>3, <2>4, <2>5
<1>6. OthersUnhandled'
  BY <1>1 DEF IInv, OthersUnhandled, Subscribe, Answer, Fail, InitReturns
<1> QED
  BY <1>2, <1>3, <1>4, <1>5, <1>6 DEF IInv

\* Registering for modem status or interfaces keeps the invariant, and so
\* does unregistering.
LEMMA ClientStep ==
  ASSUME IInv, NEW h \in {"status", "interfaces"}, Watch(h) \/ Unwatch(h)
  PROVE  IInv'
<1>1. /\ UNCHANGED <<props, changes, phase, snap, old, cache>>
      /\ phase = "ready"
      /\ "cache" \in watches' /\ watches' \subseteq Handler
  BY DEF Watch, Unwatch, IInv, Phases, TypeOK, Handler
<1>2. wire \in Seq(Delivery)
  BY DEF IInv, TypeOK
<1>3. /\ DOMAIN wire' = DOMAIN wire
      /\ wire' \in Seq(Delivery)
      /\ \A i \in DOMAIN wire : /\ wire'[i].key = wire[i].key
                                /\ wire'[i].version = wire[i].version
                                /\ "cache" \in wire[i].to => "cache" \in wire'[i].to
  <2>1. CASE Watch(h)
    BY <1>2, <2>1 DEF Watch
  <2>2. CASE Unwatch(h)
    <3>1. wire' = [i \in DOMAIN wire |-> [wire[i] EXCEPT !.to = @ \ {h}]]
      BY <2>2 DEF Unwatch
    <3>2. ASSUME NEW i \in DOMAIN wire
          PROVE  /\ wire'[i] \in Delivery
                 /\ wire'[i].key = wire[i].key
                 /\ wire'[i].version = wire[i].version
                 /\ wire'[i].to = wire[i].to \ {h}
      <4>1. wire[i] \in Delivery
        BY <1>2
      <4> QED
        BY <3>1, <4>1 DEF Delivery
    <3>3. DOMAIN wire = 1..Len(wire) /\ Len(wire) \in Nat
      BY <1>2
    <3>4. wire' \in [1..Len(wire) -> Delivery]
      BY <3>1, <3>2, <3>3
    <3>5. wire' \in Seq(Delivery)
      BY <3>3, <3>4
    <3> QED
      BY <3>1, <3>2, <3>5
  <2> QED
    BY <2>1, <2>2
<1>4. TypeOK'
  BY <1>1, <1>3 DEF IInv, TypeOK
<1>5. Phases'
  BY <1>1 DEF IInv, Phases
<1>6. LastsCurrent'
  BY <1>1, <1>3 DEF IInv, LastsCurrent, LastOfKey
<1>7. RestKnown'
  BY <1>1, <1>3 DEF IInv, RestKnown, Waiting, Known
<1>8. OthersUnhandled'
  BY <1>1, <1>3 DEF IInv, OthersUnhandled
<1> QED
  BY <1>4, <1>5, <1>6, <1>7, <1>8 DEF IInv

\* What a handler does to the cache: it stores the value, or the signal does
\* not concern it and then it is not the modem's own watch.
LEMMA HandleCache ==
  ASSUME IInv, wire # <<>>, NEW h \in Head(wire).to, Handle(h, Head(wire))
  PROVE  /\ \/ /\ cache'[Head(wire).key] = Head(wire).version
               /\ \A k \in Key \ {Head(wire).key} : cache'[k] = cache[k]
            \/ cache' = cache /\ h # "cache"
         /\ cache' \in [Key -> Version]
<1> DEFINE sig == Head(wire)
<1>1. sig \in Delivery /\ cache \in [Key -> Version]
  BY DEF IInv, TypeOK
<1>2. sig.key \in Key /\ sig.version \in Version
  BY <1>1 DEF Delivery
<1> HIDE DEF sig
<1>3. Store(sig) => /\ cache' \in [Key -> Version]
                    /\ cache'[sig.key] = sig.version
                    /\ \A k \in Key \ {sig.key} : cache'[k] = cache[k]
  BY <1>1, <1>2 DEF Store
<1>4. Handle(h, sig)
  BY DEF sig
<1>5. CASE h = "status" /\ sig.key = "Interfaces"
  BY <1>1, <1>4, <1>5 DEF Handle, sig
<1>6. CASE ~(h = "status" /\ sig.key = "Interfaces")
  BY <1>3, <1>4, <1>6 DEF Handle, sig
<1> QED
  BY <1>5, <1>6

\* The oldest signal leaves after its value was cached: the invariant stays.
LEMMA PopStep ==
  ASSUME IInv, phase = "ready", wire # <<>>, Pop,
         UNCHANGED <<props, changes, phase, snap, watches>>,
         cache' \in [Key -> Version],
         cache'[Head(wire).key] = Head(wire).version,
         \A k \in Key \ {Head(wire).key} : cache'[k] = cache[k]
  PROVE  IInv'
<1>1. wire \in Seq(Delivery) /\ old \in Nat
  BY DEF IInv, TypeOK
<1>2. /\ wire' = Tail(wire)
      /\ Len(wire) \in Nat \ {0}
      /\ DOMAIN wire = 1..Len(wire)
      /\ DOMAIN wire' = 1..(Len(wire) - 1)
      /\ \A i \in 1..(Len(wire) - 1) : wire'[i] = wire[i + 1]
      /\ wire[1] = Head(wire)
      /\ wire' \in Seq(Delivery)
  BY <1>1 DEF Pop
<1>3. TypeOK'
  <2>1. old' \in Nat
    BY <1>1 DEF Pop
  <2> QED
    BY <1>2, <2>1 DEF IInv, TypeOK
<1>4. Phases'
  BY DEF IInv, Phases
<1>5. LastsCurrent'
  <2>1. SUFFICES ASSUME NEW i \in 1..(Len(wire) - 1),
                        \A j \in 1..(Len(wire) - 1) :
                          j > i => wire'[j].key # wire'[i].key
                 PROVE  wire'[i].version = props[wire'[i].key]
    BY <1>2 DEF LastsCurrent, LastOfKey
  <2>2. i + 1 \in DOMAIN wire
    BY <1>2
  <2>3. LastOfKey(i + 1)
    <3>1. ASSUME NEW j \in DOMAIN wire, j > i + 1
          PROVE  wire[j].key # wire[i + 1].key
      <4>1. j - 1 \in 1..(Len(wire) - 1) /\ j - 1 > i
        BY <1>2, <3>1
      <4>2. wire'[j - 1] = wire[j]
        BY <1>2, <4>1
      <4> QED
        BY <1>2, <2>1, <4>1, <4>2
    <3> QED
      BY <3>1 DEF LastOfKey
  <2> QED
    BY <1>2, <2>2, <2>3 DEF IInv, LastsCurrent
<1>6. RestKnown'
  <2>1. ASSUME NEW k \in Key, ~Waiting(k)'
        PROVE  cache'[k] = props[k] \/ (snap = NoAnswer /\ cache'[k] = 0)
    <3>1. \A j \in DOMAIN wire : j > 1 => wire[j].key # k
      <4>1. ASSUME NEW j \in DOMAIN wire, j > 1, wire[j].key = k
            PROVE  FALSE
        <5>1. j - 1 \in DOMAIN wire' /\ wire'[j - 1] = wire[j]
          BY <1>2, <4>1
        <5> QED
          BY <2>1, <4>1, <5>1 DEF Waiting
      <4> QED
        BY <4>1
    <3>2. CASE k = Head(wire).key
      <4>1. 1 \in DOMAIN wire /\ LastOfKey(1)
        BY <1>2, <3>1, <3>2 DEF LastOfKey
      <4>2. Head(wire).version = props[k]
        BY <1>2, <3>2, <4>1 DEF IInv, LastsCurrent
      <4> QED
        BY <3>2, <4>2
    <3>3. CASE k # Head(wire).key
      <4>1. ~Waiting(k)
        <5>1. \A j \in DOMAIN wire : j = 1 \/ j > 1
          BY <1>2
        <5> QED
          BY <1>2, <3>1, <3>3, <5>1 DEF Waiting
      <4>2. cache[k] = props[k] \/ (snap = NoAnswer /\ cache[k] = 0)
        BY <4>1 DEF IInv, RestKnown, Known
      <4> QED
        BY <3>3, <4>2
    <3> QED
      BY <3>2, <3>3
  <2> QED
    BY <2>1 DEF RestKnown, Known
<1>7. OthersUnhandled'
  <2>1. \A i \in DOMAIN wire' : i + 1 \in DOMAIN wire /\ i + 1 # 1
    BY <1>2
  <2> QED
    BY <1>2, <2>1 DEF IInv, OthersUnhandled
<1> QED
  BY <1>3, <1>4, <1>5, <1>6, <1>7 DEF IInv

\* A handler leaves others to be told: the invariant stays.
LEMMA TellOneStep ==
  ASSUME IInv, phase = "ready", wire # <<>>, NEW h \in Head(wire).to,
         Handle(h, Head(wire)),
         wire' = [wire EXCEPT ![1].to = @ \ {h}],
         UNCHANGED <<props, changes, phase, snap, watches, old>>
  PROVE  IInv'
<1>1. wire \in Seq(Delivery)
  BY DEF IInv, TypeOK
<1>2. /\ Len(wire) \in Nat \ {0}
      /\ DOMAIN wire = 1..Len(wire)
      /\ 1 \in DOMAIN wire
      /\ wire[1] = Head(wire)
      /\ \A i \in DOMAIN wire : wire[i] \in Delivery
  BY <1>1
<1>3. /\ DOMAIN wire' = DOMAIN wire
      /\ \A i \in DOMAIN wire \ {1} : wire'[i] = wire[i]
      /\ wire'[1] = [wire[1] EXCEPT !.to = @ \ {h}]
  BY <1>2
<1>4. /\ wire'[1].key = wire[1].key
      /\ wire'[1].version = wire[1].version
      /\ wire'[1].to = wire[1].to \ {h}
      /\ wire'[1] \in Delivery
  BY <1>2, <1>3 DEF Delivery
<1>5. wire' \in Seq(Delivery)
  <2>1. \A i \in DOMAIN wire : wire'[i] \in Delivery
    BY <1>2, <1>3, <1>4
  <2>2. wire' = [i \in DOMAIN wire |-> wire'[i]]
    OBVIOUS
  <2>3. wire' \in [1..Len(wire) -> Delivery]
    BY <1>2, <2>1, <2>2
  <2> QED
    BY <1>2, <2>3
<1>6. \A i \in DOMAIN wire : /\ wire'[i].key = wire[i].key
                             /\ wire'[i].version = wire[i].version
  BY <1>3, <1>4
<1>7. /\ \/ /\ cache'[wire[1].key] = wire[1].version
            /\ \A k \in Key \ {wire[1].key} : cache'[k] = cache[k]
         \/ cache' = cache /\ h # "cache"
      /\ cache' \in [Key -> Version]
  BY <1>2, HandleCache
<1>8. TypeOK'
  BY <1>5, <1>7 DEF IInv, TypeOK
<1>9. Phases'
  BY DEF IInv, Phases
<1>10. LastsCurrent'
  BY <1>3, <1>6 DEF IInv, LastsCurrent, LastOfKey
<1>11. RestKnown'
  <2>1. ASSUME NEW k \in Key, ~Waiting(k)'
        PROVE  cache'[k] = props[k] \/ (snap = NoAnswer /\ cache'[k] = 0)
    <3>1. ~Waiting(k)
      BY <1>3, <1>6, <2>1 DEF Waiting
    <3>2. k # wire[1].key
      BY <1>2, <3>1 DEF Waiting
    <3>3. cache'[k] = cache[k]
      BY <1>7, <3>2
    <3> QED
      BY <3>1, <3>3 DEF IInv, RestKnown, Known
  <2> QED
    BY <2>1 DEF RestKnown, Known
<1>12. OthersUnhandled'
  <2>1. ASSUME "cache" \notin wire'[1].to
        PROVE  cache'[wire'[1].key] = wire'[1].version
    <3>1. CASE h = "cache"
      BY <1>4, <1>7, <3>1
    <3>2. CASE h # "cache"
      <4>1. cache[wire[1].key] = wire[1].version
        BY <1>2, <1>4, <2>1, <3>2 DEF IInv, OthersUnhandled
      <4> QED
        BY <1>4, <1>7, <4>1
    <3> QED
      BY <3>1, <3>2
  <2>2. \A i \in DOMAIN wire \ {1} : "cache" \in wire'[i].to
    BY <1>3 DEF IInv, OthersUnhandled
  <2> QED
    BY <1>3, <2>1, <2>2 DEF OthersUnhandled
<1> QED
  BY <1>8, <1>9, <1>10, <1>11, <1>12 DEF IInv

\* A dispatch keeps the invariant.
LEMMA DispatchStep ==
  ASSUME IInv, Dispatch
  PROVE  IInv'
<1>1. PICK h \in Head(wire).to :
        /\ Handle(h, Head(wire))
        /\ IF Head(wire).to = {h} THEN Pop
           ELSE /\ wire' = [wire EXCEPT ![1].to = @ \ {h}]
                /\ UNCHANGED old
  BY DEF Dispatch
<1>2. /\ phase = "ready"
      /\ wire # <<>>
      /\ UNCHANGED <<props, changes, phase, snap, watches>>
  BY DEF Dispatch
<1>3. CASE Head(wire).to # {h}
  BY <1>1, <1>2, <1>3, TellOneStep
<1>4. CASE Head(wire).to = {h}
  <2>1. 1 \in DOMAIN wire /\ wire[1] = Head(wire)
    BY <1>2 DEF IInv, TypeOK
  <2>2. h # "cache" => cache[Head(wire).key] = Head(wire).version
    BY <1>4, <2>1 DEF IInv, OthersUnhandled
  <2>3. /\ \/ /\ cache'[Head(wire).key] = Head(wire).version
              /\ \A k \in Key \ {Head(wire).key} : cache'[k] = cache[k]
           \/ cache' = cache /\ h # "cache"
        /\ cache' \in [Key -> Version]
    BY <1>1, <1>2, HandleCache
  <2> QED
    BY <1>1, <1>2, <1>4, <2>2, <2>3, PopStep
<1> QED
  BY <1>3, <1>4

\* Discarding a signal nobody is subscribed to any more keeps the invariant.
LEMMA DiscardStep ==
  ASSUME IInv, Discard
  PROVE  IInv'
<1>1. /\ phase = "ready" /\ wire # <<>> /\ Pop
      /\ Head(wire).to = {}
      /\ UNCHANGED <<props, changes, phase, snap, watches, cache>>
  BY DEF Discard
<1>2. 1 \in DOMAIN wire /\ wire[1] = Head(wire)
  BY <1>1 DEF IInv, TypeOK
<1>3. cache[Head(wire).key] = Head(wire).version
  BY <1>1, <1>2 DEF IInv, OthersUnhandled
<1> QED
  BY <1>1, <1>3, PopStep DEF IInv, TypeOK

\* Every step keeps the invariant.
LEMMA NextIInv == IInv /\ [Next]_vars => IInv'
<1> SUFFICES ASSUME IInv, [Next]_vars PROVE IInv'
  OBVIOUS
<1>1. CASE UNCHANGED vars
  <2>1. UNCHANGED <<props, changes, wire, phase, snap, old, watches, cache>>
    BY <1>1 DEF vars
  <2>2. TypeOK' /\ Phases'
    BY <2>1 DEF IInv, TypeOK, Phases
  <2>3. LastsCurrent' /\ OthersUnhandled'
    BY <2>1 DEF IInv, LastsCurrent, LastOfKey, OthersUnhandled
  <2>4. RestKnown'
    BY <2>1 DEF IInv, RestKnown, Waiting, Known
  <2> QED
    BY <2>2, <2>3, <2>4 DEF IInv
<1>2. CASE Next
  BY <1>2, ChangeStep, CallStep, ClientStep, DispatchStep, DiscardStep
     DEF Next, Client, Library
<1> QED
  BY <1>1, <1>2

-----------------------------------------------------------------------------
(***************************************************************************)
(* Theorems                                                                *)
(***************************************************************************)

\* The invariant holds in every reachable state.
THEOREM Invariance == Spec => []IInv
  BY InitIInv, NextIInv, PTL DEF Spec

\* The cache of struct ofono_modem keeps its type, whether GetProperties
\* answers or fails and whichever handlers write it.
THEOREM TypeCorrect == Spec => []TypeOK
  BY Invariance, PTL DEF IInv

\* However changes of the properties interleave with ofono_modem_init() and
\* with registering and unregistering, the signals that wait make up exactly
\* for what the cache lacks.
THEOREM CacheCorrect == Spec => []CacheConverges
<1>1. IInv => CacheConverges
  BY DEF IInv, CacheConverges, LastsCurrent, RestKnown, Known
<1> QED
  BY <1>1, Invariance, PTL

-----------------------------------------------------------------------------
(***************************************************************************)
(* The cache never goes back                                               *)
(***************************************************************************)

\* The signals about a property wait in the order of its values.
Sorted ==
  \A i, j \in DOMAIN wire :
    i < j /\ wire[i].key = wire[j].key => wire[i].version < wire[j].version

NotAhead ==
  /\ \A i \in DOMAIN wire : wire[i].version <= props[wire[i].key]
  /\ \A key \in Key : cache[key] <= props[key]
  /\ snap # NoAnswer => \A key \in Key : snap[key] <= props[key]

\* A signal that is not older than the answer is not older than the cache, or
\* than the answer that is about to be cached.
NewerThanCache ==
  \A i \in DOMAIN wire : i > old =>
    /\ phase = "ready" => cache[wire[i].key] <= wire[i].version
    /\ phase = "answered" /\ snap # NoAnswer =>
         snap[wire[i].key] <= wire[i].version

OrderInv == Sorted /\ NotAhead /\ NewerThanCache

LEMMA WireTypes ==
  ASSUME TypeOK
  PROVE  /\ DOMAIN wire = 1..Len(wire) /\ Len(wire) \in Nat
         /\ \A i \in DOMAIN wire :
              /\ i \in Nat /\ i >= 1
              /\ wire[i].key \in Key /\ wire[i].version \in Nat
         /\ \A key \in Key : cache[key] \in Nat /\ props[key] \in Nat
         /\ snap # NoAnswer => \A key \in Key : snap[key] \in Nat
         /\ old \in Nat
<1>1. \A v \in Version : v \in Nat
  BY MaxChangesAssumption DEF Version
<1>2. wire \in Seq(Delivery) /\ old \in Nat
  BY DEF TypeOK
<1>3. DOMAIN wire = 1..Len(wire) /\ Len(wire) \in Nat
      /\ \A i \in DOMAIN wire : wire[i] \in Delivery
  BY <1>2
<1>4. \A d \in Delivery : d.key \in Key /\ d.version \in Version
  BY DEF Delivery
<1>5. \A i \in DOMAIN wire : i \in Nat /\ i >= 1
  BY <1>3
<1>6. \A key \in Key : cache[key] \in Nat /\ props[key] \in Nat
  BY <1>1 DEF TypeOK
<1>7. snap # NoAnswer => \A key \in Key : snap[key] \in Nat
  BY <1>1 DEF TypeOK
<1> QED
  BY <1>1, <1>2, <1>3, <1>4, <1>5, <1>6, <1>7

\* The main loop takes `n` signals off the wire, and a handler may cache the
\* oldest one.
LEMMA OrderKeeps ==
  ASSUME TypeOK, OrderInv, TypeOK', phase = "ready",
         UNCHANGED <<props, phase, snap>>,
         NEW n \in {0, 1},
         \A i \in DOMAIN wire' :
           /\ i + n \in DOMAIN wire
           /\ wire'[i].key = wire[i + n].key
           /\ wire'[i].version = wire[i + n].version,
         \A i \in DOMAIN wire' : i > old' => i + n > old,
         \A key \in Key :
           \/ cache'[key] = cache[key]
           \/ /\ 1 \in DOMAIN wire /\ key = wire[1].key
              /\ cache'[key] = wire[1].version
  PROVE  OrderInv'
<1>1. /\ \A i \in DOMAIN wire :
           /\ i \in Nat /\ i >= 1
           /\ wire[i].key \in Key /\ wire[i].version \in Nat
      /\ \A key \in Key : cache[key] \in Nat /\ props[key] \in Nat
      /\ old \in Nat
      /\ \A i \in DOMAIN wire' : i \in Nat
  <2>1. wire' \in Seq(Delivery)
    BY DEF TypeOK
  <2> QED
    BY <2>1, WireTypes
<1>2. Sorted'
  <2> SUFFICES ASSUME NEW i \in DOMAIN wire', NEW j \in DOMAIN wire',
                      i < j, wire'[i].key = wire'[j].key
               PROVE  wire'[i].version < wire'[j].version
    BY DEF Sorted
  <2>1. i + n < j + n
    BY <1>1
  <2> QED
    BY <2>1 DEF OrderInv, Sorted
<1>3. NotAhead'
  BY DEF OrderInv, NotAhead
<1>4. NewerThanCache'
  <2> SUFFICES ASSUME NEW i \in DOMAIN wire', i > old'
               PROVE  cache'[wire'[i].key] <= wire'[i].version
    BY DEF NewerThanCache
  <2> DEFINE key == wire'[i].key
  <2>1. /\ i + n \in DOMAIN wire /\ i + n > old
        /\ key = wire[i + n].key /\ wire'[i].version = wire[i + n].version
        /\ key \in Key
    BY <1>1
  <2> HIDE DEF key
  <2>2. CASE cache'[key] = cache[key]
    BY <2>1, <2>2 DEF OrderInv, NewerThanCache, key
  <2>3. CASE /\ 1 \in DOMAIN wire /\ key = wire[1].key
             /\ cache'[key] = wire[1].version
    <3>1. CASE i + n = 1
      BY <1>1, <2>1, <2>3, <3>1 DEF key
    <3>2. CASE i + n # 1
      <4>1. 1 < i + n
        BY <1>1, <2>1, <3>2
      <4>2. wire[1].version < wire[i + n].version
        BY <2>1, <2>3, <4>1 DEF OrderInv, Sorted
      <4> QED
        BY <1>1, <2>1, <2>3, <4>2 DEF key
    <3> QED
      BY <3>1, <3>2
  <2> QED
    BY <2>1, <2>2, <2>3
<1> QED
  BY <1>2, <1>3, <1>4 DEF OrderInv

LEMMA ChangeOrder ==
  ASSUME IInv, OrderInv, NEW key \in Key, Change(key)
  PROVE  OrderInv'
<1> DEFINE m == [key |-> key, version |-> props'[key], to |-> Receivers(key)]
<1>1. TypeOK /\ wire \in Seq(Delivery)
      /\ UNCHANGED <<phase, snap, old, watches, cache>>
      /\ props \in [Key -> Version]
  BY DEF IInv, TypeOK, Change
<1>2. /\ \A i \in DOMAIN wire :
           /\ i \in Nat /\ wire[i].key \in Key /\ wire[i].version \in Nat
      /\ \A k \in Key : cache[k] \in Nat /\ props[k] \in Nat
      /\ snap # NoAnswer => \A k \in Key : snap[k] \in Nat
      /\ DOMAIN wire = 1..Len(wire) /\ Len(wire) \in Nat
  BY <1>1, WireTypes
<1>3. /\ props'[key] = props[key] + 1
      /\ \A k \in Key : props'[k] \in Nat /\ props[k] <= props'[k]
  <2>1. props' = [props EXCEPT ![key] = @ + 1]
    BY DEF Change
  <2>2. props'[key] = props[key] + 1 /\ \A k \in Key \ {key} : props'[k] = props[k]
    BY <1>1, <2>1
  <2> QED
    BY <1>2, <2>2
<1>4. m.key = key /\ m.version = props'[key]
  OBVIOUS
<1>5. m \in Delivery
  <2>1. props' \in [Key -> Version]
    BY ChangeStep DEF IInv, TypeOK
  <2>2. props'[key] \in Version
    BY <2>1
  <2>3. Receivers(key) \subseteq Handler
    BY <1>1 DEF TypeOK, Receivers
  <2> QED
    BY <2>2, <2>3 DEF Delivery
<1> HIDE DEF m
<1>6. wire' = wire \/ wire' = Append(wire, m)
  BY DEF Change, m
<1>7. \A i \in DOMAIN wire' :
        \/ i \in DOMAIN wire /\ i <= Len(wire) /\ wire'[i] = wire[i]
        \/ i = Len(wire) + 1 /\ wire'[i] = m
  BY <1>1, <1>2, <1>5, <1>6
<1>8. Sorted'
  <2> SUFFICES ASSUME NEW i \in DOMAIN wire', NEW j \in DOMAIN wire',
                      i < j, wire'[i].key = wire'[j].key
               PROVE  wire'[i].version < wire'[j].version
    BY DEF Sorted
  <2>1. i \in DOMAIN wire /\ wire'[i] = wire[i]
    BY <1>2, <1>7
  <2>2. CASE j \in DOMAIN wire /\ wire'[j] = wire[j]
    BY <2>1, <2>2 DEF OrderInv, Sorted
  <2>3. CASE wire'[j] = m
    <3>1. wire[i].version <= props[key]
      BY <1>4, <2>1, <2>3 DEF OrderInv, NotAhead
    <3> QED
      BY <1>2, <1>3, <1>4, <2>1, <2>3, <3>1
  <2> QED
    BY <1>7, <2>2, <2>3
<1>9. NotAhead'
  <2>1. ASSUME NEW i \in DOMAIN wire'
        PROVE  wire'[i].version <= props'[wire'[i].key]
    <3>1. CASE i \in DOMAIN wire /\ wire'[i] = wire[i]
      BY <1>2, <1>3, <3>1 DEF OrderInv, NotAhead
    <3>2. CASE wire'[i] = m
      BY <1>2, <1>3, <1>4, <3>2
    <3> QED
      BY <1>7, <3>1, <3>2
  <2>2. \A k \in Key : cache'[k] <= props'[k]
    BY <1>1, <1>2, <1>3 DEF OrderInv, NotAhead
  <2>3. snap' # NoAnswer => \A k \in Key : snap'[k] <= props'[k]
    BY <1>1, <1>2, <1>3 DEF OrderInv, NotAhead
  <2> QED
    BY <2>1, <2>2, <2>3 DEF NotAhead
<1>10. NewerThanCache'
  <2> SUFFICES ASSUME NEW i \in DOMAIN wire', i > old
               PROVE  /\ phase = "ready" => cache[wire'[i].key] <= wire'[i].version
                      /\ phase = "answered" /\ snap # NoAnswer =>
                           snap[wire'[i].key] <= wire'[i].version
    BY <1>1 DEF NewerThanCache
  <2>1. CASE i \in DOMAIN wire /\ wire'[i] = wire[i]
    BY <2>1 DEF OrderInv, NewerThanCache
  <2>2. CASE wire'[i] = m
    <3>1. cache[key] <= props[key]
          /\ (snap # NoAnswer => snap[key] <= props[key])
      BY DEF OrderInv, NotAhead
    <3> QED
      BY <1>2, <1>3, <1>4, <2>2, <3>1
  <2> QED
    BY <1>7, <2>1, <2>2
<1> QED
  BY <1>8, <1>9, <1>10 DEF OrderInv

LEMMA CallOrder ==
  ASSUME IInv, OrderInv, Subscribe \/ Answer \/ Fail \/ InitReturns
  PROVE  OrderInv'
<1>1. TypeOK /\ UNCHANGED <<wire, props>>
  BY DEF IInv, Subscribe, Answer, Fail, InitReturns
<1>2. /\ \A i \in DOMAIN wire :
           /\ i \in Nat /\ i <= Len(wire)
           /\ wire[i].key \in Key /\ wire[i].version \in Nat
      /\ \A k \in Key : cache[k] \in Nat /\ props[k] \in Nat
      /\ Len(wire) \in Nat
  <2>1. DOMAIN wire = 1..Len(wire) /\ Len(wire) \in Nat
    BY <1>1, WireTypes
  <2> QED
    BY <1>1, <2>1, WireTypes
<1>3. Sorted'
  BY <1>1 DEF OrderInv, Sorted
<1>4. CASE Subscribe
  BY <1>1, <1>3, <1>4 DEF Subscribe, OrderInv, NotAhead, NewerThanCache
<1>5. CASE Answer
  <2>1. \A i \in DOMAIN wire' : ~(i > old')
    BY <1>1, <1>2, <1>5 DEF Answer
  <2>2. NotAhead'
    BY <1>1, <1>2, <1>5 DEF Answer, OrderInv, NotAhead
  <2> QED
    BY <1>3, <2>1, <2>2 DEF OrderInv, NewerThanCache
<1>6. CASE Fail
  <2>1. snap = NoAnswer
    BY <1>6 DEF Fail, IInv, Phases
  <2> QED
    BY <1>1, <1>3, <1>6, <2>1 DEF Fail, OrderInv, NotAhead, NewerThanCache
<1>7. CASE InitReturns
  <2>1. /\ phase = "answered" /\ phase' = "ready" /\ UNCHANGED <<snap, old>>
        /\ cache' = IF snap = NoAnswer THEN cache ELSE snap
    BY <1>7 DEF InitReturns
  <2>2. \A key \in Key : cache[key] = 0
    BY <2>1 DEF IInv, Phases
  <2>3. NotAhead'
    BY <1>1, <2>1 DEF OrderInv, NotAhead
  <2>4. ASSUME NEW i \in DOMAIN wire, i > old
        PROVE  cache'[wire[i].key] <= wire[i].version
    <3>1. CASE snap = NoAnswer
      BY <1>2, <2>1, <2>2, <3>1
    <3>2. CASE snap # NoAnswer
      BY <2>1, <2>4, <3>2 DEF OrderInv, NewerThanCache
    <3> QED
      BY <3>1, <3>2
  <2> QED
    BY <1>1, <1>3, <2>1, <2>3, <2>4 DEF OrderInv, NewerThanCache
<1> QED
  BY <1>4, <1>5, <1>6, <1>7

LEMMA ClientOrder ==
  ASSUME IInv, OrderInv, NEW h \in {"status", "interfaces"}, Watch(h) \/ Unwatch(h)
  PROVE  OrderInv'
<1>1. TypeOK /\ TypeOK' /\ phase = "ready"
      /\ UNCHANGED <<props, phase, snap, old, cache>>
  BY ClientStep DEF IInv, Watch, Unwatch
<1>2. wire \in Seq(Delivery)
  BY <1>1 DEF TypeOK
<1>3. /\ \A i \in DOMAIN wire' :
           /\ i \in DOMAIN wire
           /\ wire'[i].key = wire[i].key /\ wire'[i].version = wire[i].version
  <2>1. CASE Watch(h)
    BY <2>1 DEF Watch
  <2>2. CASE Unwatch(h)
    <3>1. wire' = [i \in DOMAIN wire |-> [wire[i] EXCEPT !.to = @ \ {h}]]
      BY <2>2 DEF Unwatch
    <3>2. ASSUME NEW i \in DOMAIN wire
          PROVE  wire'[i].key = wire[i].key /\ wire'[i].version = wire[i].version
      <4>1. wire[i] \in Delivery
        BY <1>2
      <4> QED
        BY <3>1, <4>1 DEF Delivery
    <3> QED
      BY <3>1, <3>2
  <2> QED
    BY <2>1, <2>2
<1>4. \A i \in DOMAIN wire' : i + 0 = i
  BY <1>1, <1>3, WireTypes
<1> QED
  BY <1>1, <1>3, <1>4, OrderKeeps

\* The oldest signal leaves, and a handler may cache it.
LEMMA PopOrder ==
  ASSUME IInv, OrderInv, TypeOK', phase = "ready", wire # <<>>, Pop,
         UNCHANGED <<props, phase, snap>>,
         \A key \in Key :
           \/ cache'[key] = cache[key]
           \/ /\ 1 \in DOMAIN wire /\ key = wire[1].key
              /\ cache'[key] = wire[1].version
  PROVE  OrderInv'
<1>1. TypeOK /\ wire \in Seq(Delivery) /\ old \in Nat /\ wire' = Tail(wire)
      /\ old' = IF old = 0 THEN 0 ELSE old - 1
  BY DEF IInv, TypeOK, Pop
<1>2. /\ Len(wire) \in Nat /\ DOMAIN wire = 1..Len(wire)
      /\ DOMAIN wire' = 1..(Len(wire) - 1)
      /\ \A i \in 1..(Len(wire) - 1) : wire'[i] = wire[i + 1]
  BY <1>1
<1>3. \A i \in DOMAIN wire' : i + 1 \in DOMAIN wire /\ wire'[i] = wire[i + 1]
  BY <1>2
<1>4. \A i \in DOMAIN wire' : i > old' => i + 1 > old
  BY <1>1, <1>2
<1> QED
  BY <1>1, <1>3, <1>4, OrderKeeps

LEMMA DispatchOrder ==
  ASSUME IInv, OrderInv, Dispatch
  PROVE  OrderInv' /\ (old = 0 => \A key \in Key : cache'[key] >= cache[key])
<1>1. PICK h \in Head(wire).to :
        /\ Handle(h, Head(wire))
        /\ IF Head(wire).to = {h} THEN Pop
           ELSE /\ wire' = [wire EXCEPT ![1].to = @ \ {h}]
                /\ UNCHANGED old
  BY DEF Dispatch
<1>2. /\ TypeOK /\ TypeOK' /\ phase = "ready" /\ wire # <<>>
      /\ UNCHANGED <<props, phase, snap>>
  BY DispatchStep DEF IInv, Dispatch
<1>3. /\ wire \in Seq(Delivery)
      /\ Head(wire) = wire[1] /\ 1 \in DOMAIN wire
      /\ \A i \in DOMAIN wire : wire[i] \in Delivery /\ i \in Nat
  BY <1>2 DEF TypeOK
<1>4. \A key \in Key :
        \/ cache'[key] = cache[key]
        \/ /\ 1 \in DOMAIN wire /\ key = wire[1].key
           /\ cache'[key] = wire[1].version
  BY <1>1, <1>2, <1>3, HandleCache
<1>5. old = 0 => \A key \in Key : cache'[key] >= cache[key]
  <2>1. old = 0 => cache[wire[1].key] <= wire[1].version
    BY <1>2, <1>3 DEF OrderInv, NewerThanCache
  <2>2. /\ \A key \in Key : cache[key] \in Nat
        /\ wire[1].version \in Nat
    BY <1>2, <1>3, WireTypes
  <2> QED
    BY <1>4, <2>1, <2>2
<1>6. CASE Pop
  BY <1>2, <1>4, <1>5, <1>6, PopOrder
<1>7. CASE wire' = [wire EXCEPT ![1].to = @ \ {h}] /\ UNCHANGED old
  <2>1. /\ DOMAIN wire' = DOMAIN wire
        /\ \A i \in DOMAIN wire \ {1} : wire'[i] = wire[i]
        /\ wire'[1] = [wire[1] EXCEPT !.to = @ \ {h}]
    BY <1>3, <1>7
  <2>2. wire'[1].key = wire[1].key /\ wire'[1].version = wire[1].version
    BY <1>3, <2>1 DEF Delivery
  <2>3. \A i \in DOMAIN wire' :
          /\ i + 0 \in DOMAIN wire
          /\ wire'[i].key = wire[i + 0].key
          /\ wire'[i].version = wire[i + 0].version
          /\ i > old' => i + 0 > old
    BY <1>3, <1>7, <2>1, <2>2
  <2> QED
    BY <1>2, <1>4, <1>5, <2>3, OrderKeeps
<1> QED
  BY <1>1, <1>6, <1>7

\* What a step may do to the cache once the old signals are gone.
Forward == phase = "ready" /\ old = 0 => \A key \in Key : cache'[key] >= cache[key]

LEMMA OrderStep ==
  ASSUME IInv, OrderInv, [Next]_vars
  PROVE  OrderInv' /\ Forward
<1>1. TypeOK /\ \A key \in Key : cache[key] \in Nat
  BY WireTypes DEF IInv
<1>2. UNCHANGED cache => Forward
  BY <1>1 DEF Forward
<1>3. CASE UNCHANGED vars
  <2>1. UNCHANGED <<props, wire, phase, snap, old, cache>>
    BY <1>3 DEF vars
  <2> QED
    BY <1>2, <2>1 DEF OrderInv, Sorted, NotAhead, NewerThanCache
<1>4. ASSUME NEW key \in Key, Change(key)
      PROVE  OrderInv' /\ Forward
  BY <1>2, <1>4, ChangeOrder DEF Change
<1>5. CASE Subscribe \/ Answer \/ Fail \/ InitReturns
  <2>1. UNCHANGED cache \/ phase # "ready"
    BY <1>5 DEF Subscribe, Answer, Fail, InitReturns
  <2> QED
    BY <1>2, <1>5, <2>1, CallOrder DEF Forward
<1>6. ASSUME NEW h \in {"status", "interfaces"}, Watch(h) \/ Unwatch(h)
      PROVE  OrderInv' /\ Forward
  BY <1>2, <1>6, ClientOrder DEF Watch, Unwatch
<1>7. CASE Dispatch
  BY <1>7, DispatchOrder DEF Forward
<1>8. CASE Discard
  <2>1. /\ phase = "ready" /\ wire # <<>> /\ Pop
        /\ UNCHANGED <<props, phase, snap, cache>>
    BY <1>8 DEF Discard
  <2>2. TypeOK'
    BY <1>8, DiscardStep DEF IInv
  <2> QED
    BY <1>2, <2>1, <2>2, PopOrder
<1> QED
  BY <1>3, <1>4, <1>5, <1>6, <1>7, <1>8 DEF Next, Client, Library

\* Once the signals older than the answer to GetProperties are dispatched, no
\* handler, and no order of registering, unregistering and dispatching, puts
\* an older value of a property over a newer one.
THEOREM NeverGoesBack == Spec => CacheNeverGoesBack
<1>1. Init => OrderInv
  <2> SUFFICES ASSUME Init
               PROVE  OrderInv
    OBVIOUS
  <2>1. /\ DOMAIN wire = {} /\ snap = NoAnswer
        /\ \A key \in Key : cache[key] = 0 /\ props[key] = 1
    BY DEF Init
  <2> QED
    BY <2>1 DEF OrderInv, Sorted, NotAhead, NewerThanCache
<1>2. IInv /\ OrderInv /\ [Next]_vars => OrderInv'
  BY OrderStep
<1>3. IInv /\ OrderInv /\ [Next]_vars =>
        [phase = "ready" /\ old = 0 =>
           \A key \in Key : cache'[key] >= cache[key]]_vars
  BY OrderStep DEF Forward
<1> QED
  BY <1>1, <1>2, <1>3, Invariance, PTL DEF Spec, CacheNeverGoesBack

=============================================================================
