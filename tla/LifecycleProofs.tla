-------------------------- MODULE LifecycleProofs --------------------------
(***************************************************************************)
(* Proofs about the life of the library: its type invariant, that the      *)
(* watches the library keeps in mind are those on the bus, and that the    *)
(* program has a modem exactly when the daemon has one.                    *)
(*                                                                         *)
(* WatchesMatch is not inductive: that a finalized modem leaves no watch   *)
(* depends on where it was made (MadeHere), and that a client which starts *)
(* again listens again depends on nothing of the manager's being left on   *)
(* an earlier connection (SubsShaped) and on the program's being connected *)
(* wherever it subscribes (Connected). ProgramFollows needs the order of   *)
(* what waits: a removal behind every addition when no modem is left       *)
(* (RemovedLast), and a signal or a question for each difference between   *)
(* what the program has and what there is (HearsOfLoss, HearsOfGain).      *)
(***************************************************************************)
EXTENDS Lifecycle, TLAPS

\* The program runs only with a connection.
Connected == pc \notin {"off", "crashed"} => conn # 0

\* A modem that is in use, and was made since the library was last closed, is
\* on the open connection.
MadeHere ==
  \A m \in DOMAIN structs \ (freed \cup outlived) :
    structs[m].conn = conn /\ conn # 0

\* A subscription is one of the manager's or that of a modem that was made.
SubsShaped ==
  \A s \in subs :
    \/ s.kind \in Manager /\ s.conn # 0 /\ s = ManagerWatch(s.kind, s.conn)
    \/ s.owner \in DOMAIN structs /\ s = PropertyWatch(s.owner)

IInv == TypeOK /\ WatchesMatch /\ Connected /\ MadeHere /\ SubsShaped

Shape == WatchesMatch /\ MadeHere /\ SubsShaped

-----------------------------------------------------------------------------
(***************************************************************************)
(* The operations of the library                                           *)
(***************************************************************************)

\* A new modem is the last, and the earlier ones keep their numbers.
LEMMA MakeKeeps ==
  ASSUME TypeOK, Shape, conn # 0, Make
  PROVE  /\ Shape'
         /\ structs' \in Seq([path : Path, conn : Nat])
         /\ subs' \subseteq Sub
         /\ gmodem' \in DOMAIN structs'
         /\ DOMAIN structs \subseteq DOMAIN structs'
<1>0. PICK m \in Nat : m = Len(structs) + 1
  BY DEF TypeOK
<1>1. /\ structs \in Seq([path : Path, conn : Nat])
      /\ [path |-> wanted, conn |-> conn] \in [path : Path, conn : Nat]
      /\ conn \in Nat
  BY LifecycleAssumption DEF TypeOK
<1>2. structs' = Append(structs, [path |-> wanted, conn |-> conn])
  BY DEF Make
<1>3. /\ structs' \in Seq([path : Path, conn : Nat])
      /\ DOMAIN structs = 1..(m - 1)
      /\ DOMAIN structs' = 1..m
      /\ m \in Nat \ {0}
      /\ \A i \in DOMAIN structs : structs'[i] = structs[i]
      /\ structs'[m] = [path |-> wanted, conn |-> conn]
  BY <1>0, <1>1, <1>2
<1>4. /\ DOMAIN structs' = DOMAIN structs \cup {m}
      /\ m \notin DOMAIN structs
  BY <1>3
<1>5. /\ subs' = subs \cup {[conn |-> conn, kind |-> "property", owner |-> m]}
      /\ gmodem' = m
      /\ UNCHANGED <<conn, watch, freed, outlived>>
  BY <1>0 DEF Make
<1>6. /\ PropertyWatch(m)' = [conn |-> conn, kind |-> "property", owner |-> m]
      /\ \A i \in DOMAIN structs : PropertyWatch(i)' = PropertyWatch(i)
  BY <1>3 DEF PropertyWatch
<1>7. subs' \subseteq Sub
  BY <1>1, <1>3, <1>5 DEF TypeOK, Sub
<1>8. WatchesMatch'
  <2>1. \A k \in Manager :
          watch'[k] # 0 => watch'[k] = conn' /\ ManagerWatch(k, conn)' \in subs'
    BY <1>5 DEF Shape, WatchesMatch, ManagerWatch
  <2>2. \A s \in subs' : s.kind \in Manager => watch'[s.kind] = s.conn
    BY <1>5 DEF Shape, WatchesMatch, Manager
  <2>3. \A i \in (DOMAIN structs \ freed)' : PropertyWatch(i)' \in subs'
    BY <1>4, <1>5, <1>6 DEF Shape, WatchesMatch
  <2>4. ASSUME NEW i \in (freed \ outlived)'
        PROVE  PropertyWatch(i)' \notin subs'
    <3>1. i \in DOMAIN structs /\ i # m /\ PropertyWatch(i) \notin subs
      BY <1>4, <1>5 DEF TypeOK, Shape, WatchesMatch
    <3>2. PropertyWatch(i).owner = i
      BY DEF PropertyWatch
    <3> QED
      BY <1>5, <1>6, <3>1, <3>2
  <2> QED
    BY <2>1, <2>2, <2>3, <2>4 DEF WatchesMatch
<1>9. MadeHere'
  <2> SUFFICES ASSUME NEW i \in (DOMAIN structs \ (freed \cup outlived))'
               PROVE  structs'[i].conn = conn' /\ conn' # 0
    BY DEF MadeHere
  <2>1. CASE i = m
    BY <1>3, <1>5, <2>1
  <2>2. CASE i # m
    <3>1. i \in DOMAIN structs \ (freed \cup outlived)
      BY <1>4, <1>5, <2>2
    <3> QED
      BY <1>3, <1>5, <3>1 DEF Shape, MadeHere
  <2> QED
    BY <2>1, <2>2
<1>10. SubsShaped'
  <2> SUFFICES ASSUME NEW s \in subs'
               PROVE  \/ /\ s.kind \in Manager
                         /\ s.conn # 0
                         /\ s = ManagerWatch(s.kind, s.conn)
                      \/ /\ s.owner \in DOMAIN structs'
                         /\ s = PropertyWatch(s.owner)'
    BY DEF SubsShaped, ManagerWatch
  <2>1. CASE s \in subs
    BY <1>4, <1>6, <2>1 DEF Shape, SubsShaped
  <2>2. CASE s \notin subs
    BY <1>4, <1>5, <1>6, <2>2
  <2> QED
    BY <2>1, <2>2
<1> QED
  BY <1>3, <1>4, <1>5, <1>7, <1>8, <1>9, <1>10 DEF Shape

\* Finalizing a modem takes away its watch, if it is on the open connection.
LEMMA FreeKeeps ==
  ASSUME TypeOK, Shape, NEW m \in DOMAIN structs, FreeModem(m)
  PROVE  /\ Shape'
         /\ subs' \subseteq Sub
         /\ freed' \subseteq DOMAIN structs'
<1>1. /\ freed' = freed \cup {m}
      /\ subs' = IF structs[m].conn = conn THEN subs \ {PropertyWatch(m)}
                                           ELSE subs
      /\ UNCHANGED <<conn, watch, structs, outlived>>
  BY DEF FreeModem
<1>2. \A i : PropertyWatch(i)' = PropertyWatch(i)
  BY <1>1 DEF PropertyWatch
<1>3. /\ \A i : PropertyWatch(i).kind = "property" /\ PropertyWatch(i).owner = i
      /\ \A k, c : ManagerWatch(k, c).kind = k
      /\ "property" \notin Manager
  BY DEF PropertyWatch, ManagerWatch, Manager
<1>4. WatchesMatch'
  <2>1. ASSUME NEW k \in Manager, watch'[k] # 0
        PROVE  watch'[k] = conn' /\ ManagerWatch(k, conn)' \in subs'
    <3>1. watch[k] = conn /\ ManagerWatch(k, conn) \in subs
      BY <1>1, <2>1 DEF Shape, WatchesMatch
    <3>2. ManagerWatch(k, conn) # PropertyWatch(m)
      BY <1>3
    <3>3. ManagerWatch(k, conn)' = ManagerWatch(k, conn)
      BY <1>1 DEF ManagerWatch
    <3> QED
      BY <1>1, <3>1, <3>2, <3>3
  <2>2. \A s \in subs' : s.kind \in Manager => watch'[s.kind] = s.conn
    BY <1>1 DEF Shape, WatchesMatch
  <2>3. ASSUME NEW i \in (DOMAIN structs \ freed)'
        PROVE  PropertyWatch(i)' \in subs'
    <3>1. i # m /\ PropertyWatch(i) \in subs
      BY <1>1 DEF Shape, WatchesMatch
    <3>2. PropertyWatch(i) # PropertyWatch(m)
      BY <1>3, <3>1
    <3> QED
      BY <1>1, <1>2, <3>1, <3>2
  <2>4. ASSUME NEW i \in (freed \ outlived)'
        PROVE  PropertyWatch(i)' \notin subs'
    <3>1. CASE i \in freed
      BY <1>1, <1>2, <3>1 DEF Shape, WatchesMatch
    <3>2. CASE i \notin freed
      <4>1. i = m /\ m \in DOMAIN structs \ (freed \cup outlived)
        BY <1>1, <3>2
      <4>2. structs[m].conn = conn
        BY <4>1 DEF Shape, MadeHere
      <4> QED
        BY <1>1, <1>2, <4>1, <4>2
    <3> QED
      BY <3>1, <3>2
  <2> QED
    BY <2>1, <2>2, <2>3, <2>4 DEF WatchesMatch
<1>5. MadeHere'
  BY <1>1 DEF Shape, MadeHere
<1>6. SubsShaped'
  <2>1. /\ \A s \in subs' : s \in subs
        /\ \A k, c : ManagerWatch(k, c)' = ManagerWatch(k, c)
    BY <1>1 DEF ManagerWatch
  <2> QED
    BY <1>1, <1>2, <2>1 DEF Shape, SubsShaped, ManagerWatch
<1> QED
  BY <1>1, <1>4, <1>5, <1>6 DEF Shape, TypeOK

\* What is subscribed anew takes the place of nothing.
LEMMA SetCallbackKeeps ==
  ASSUME TypeOK, Shape, conn # 0, SetCallback
  PROVE  /\ Shape'
         /\ subs' \subseteq Sub
         /\ watch' \in [Manager -> Nat]
<1> DEFINE New == {k \in Manager : watch[k] = 0}
<1>1. /\ watch' = [k \in Manager |-> IF k \in New THEN conn ELSE watch[k]]
      /\ subs' = subs \cup {ManagerWatch(k, conn) : k \in New}
      /\ UNCHANGED <<conn, structs, freed, outlived>>
      /\ conn \in Nat
  BY LifecycleAssumption DEF SetCallback, TypeOK
<1>2. /\ \A i : PropertyWatch(i)' = PropertyWatch(i)
      /\ \A i : PropertyWatch(i).kind = "property"
      /\ \A k, c : ManagerWatch(k, c).kind = k /\ ManagerWatch(k, c).conn = c
      /\ "property" \notin Manager
  BY <1>1 DEF PropertyWatch, ManagerWatch, Manager
<1>3. \A k \in New : ManagerWatch(k, conn) \in Sub
  BY <1>1 DEF ManagerWatch, Sub
<1>4. WatchesMatch'
  <2>1. ASSUME NEW k \in Manager
        PROVE  watch'[k] = conn' /\ ManagerWatch(k, conn)' \in subs'
    <3>1. ManagerWatch(k, conn)' = ManagerWatch(k, conn)
      BY <1>1 DEF ManagerWatch
    <3>2. CASE k \in New
      BY <1>1, <3>1, <3>2
    <3>3. CASE k \notin New
      BY <1>1, <3>1, <3>3 DEF Shape, WatchesMatch
    <3> QED
      BY <3>2, <3>3
  <2>2. ASSUME NEW s \in subs', s.kind \in Manager
        PROVE  watch'[s.kind] = s.conn
    <3>1. CASE s \in subs
      <4>1. watch[s.kind] = s.conn /\ s.conn # 0
        BY <1>2, <2>2, <3>1 DEF Shape, WatchesMatch, SubsShaped
      <4> QED
        BY <1>1, <2>2, <4>1
    <3>2. CASE s \notin subs
      <4>1. PICK k \in New : s = ManagerWatch(k, conn)
        BY <1>1, <3>2
      <4> QED
        BY <1>1, <1>2, <4>1
    <3> QED
      BY <3>1, <3>2
  <2>3. \A i \in (DOMAIN structs \ freed)' : PropertyWatch(i)' \in subs'
    BY <1>1, <1>2 DEF Shape, WatchesMatch
  <2>4. \A i \in (freed \ outlived)' : PropertyWatch(i)' \notin subs'
    <3>1. \A i : \A k \in New : PropertyWatch(i) # ManagerWatch(k, conn)
      BY <1>2
    <3> QED
      BY <1>1, <1>2, <3>1 DEF Shape, WatchesMatch
  <2> QED
    BY <2>1, <2>2, <2>3, <2>4 DEF WatchesMatch
<1>5. MadeHere'
  BY <1>1 DEF Shape, MadeHere
<1>6. SubsShaped'
  <2> SUFFICES ASSUME NEW s \in subs'
               PROVE  \/ /\ s.kind \in Manager
                         /\ s.conn # 0
                         /\ s = ManagerWatch(s.kind, s.conn)
                      \/ /\ s.owner \in DOMAIN structs'
                         /\ s = PropertyWatch(s.owner)'
    BY DEF SubsShaped, ManagerWatch
  <2>1. CASE s \in subs
    BY <1>1, <1>2, <2>1 DEF Shape, SubsShaped
  <2>2. CASE s \notin subs
    <3>1. PICK k \in New : s = ManagerWatch(k, conn)
      BY <1>1, <2>2
    <3> QED
      BY <1>2, <3>1
  <2> QED
    BY <2>1, <2>2
<1> QED
  BY <1>1, <1>3, <1>4, <1>5, <1>6 DEF Shape, TypeOK

\* Closing leaves nothing of the manager's, and every modem in use outlives
\* the library.
LEMMA DeinitKeeps ==
  ASSUME TypeOK, Shape, Deinit
  PROVE  /\ Shape'
         /\ subs' \subseteq Sub
         /\ watch' \in [Manager -> Nat]
         /\ outlived' \subseteq DOMAIN structs'
<1>1. /\ subs' = subs \ {ManagerWatch(k, watch[k]) : k \in Manager}
      /\ watch' = [k \in Manager |-> 0]
      /\ outlived' = outlived \cup (DOMAIN structs \ freed)
      /\ UNCHANGED <<structs, freed>>
  BY DEF Deinit, Unwatched
<1>2. /\ \A i : PropertyWatch(i)' = PropertyWatch(i)
      /\ \A i : PropertyWatch(i).kind = "property"
      /\ \A k, c : ManagerWatch(k, c).kind = k
      /\ "property" \notin Manager
  BY <1>1 DEF PropertyWatch, ManagerWatch, Manager
<1>3. ASSUME NEW s \in subs'
      PROVE  s.owner \in DOMAIN structs /\ s = PropertyWatch(s.owner)
  <2>1. SUFFICES ASSUME s.kind \in Manager
                 PROVE  FALSE
    BY <1>1, <1>3 DEF Shape, SubsShaped
  <2>2. s \in subs /\ s # ManagerWatch(s.kind, watch[s.kind])
    BY <1>1, <1>3, <2>1
  <2>3. watch[s.kind] = s.conn
    BY <2>1, <2>2 DEF Shape, WatchesMatch
  <2>4. s = ManagerWatch(s.kind, s.conn)
    BY <1>2, <2>1, <2>2 DEF Shape, SubsShaped
  <2> QED
    BY <2>2, <2>3, <2>4
<1>4. WatchesMatch'
  <2>1. \A k \in Manager : watch'[k] = 0
    BY <1>1
  <2>2. \A s \in subs' : s.kind \notin Manager
    BY <1>2, <1>3
  <2>3. ASSUME NEW i \in (DOMAIN structs \ freed)'
        PROVE  PropertyWatch(i)' \in subs'
    <3>1. PropertyWatch(i) \in subs
      BY <1>1 DEF Shape, WatchesMatch
    <3>2. \A k \in Manager : PropertyWatch(i) # ManagerWatch(k, watch[k])
      BY <1>2
    <3> QED
      BY <1>1, <1>2, <3>1, <3>2
  <2>4. \A i \in (freed \ outlived)' : PropertyWatch(i)' \notin subs'
    BY <1>1, <1>2 DEF Shape, WatchesMatch
  <2> QED
    BY <2>1, <2>2, <2>3, <2>4 DEF WatchesMatch
<1>5. MadeHere'
  BY <1>1 DEF MadeHere
<1>6. SubsShaped'
  BY <1>1, <1>2, <1>3 DEF SubsShaped
<1> QED
  BY <1>1, <1>4, <1>5, <1>6 DEF Shape, TypeOK

\* A new connection finds no watch in mind and no modem of its own.
LEMMA ConnectKeeps ==
  ASSUME TypeOK, Shape, conn = 0,
         UNCHANGED <<subs, watch, structs, freed, outlived>>
  PROVE  Shape'
<1>1. /\ \A i : PropertyWatch(i)' = PropertyWatch(i)
      /\ \A k \in Manager : watch[k] = 0
      /\ DOMAIN structs \ (freed \cup outlived) = {}
  BY DEF PropertyWatch, Shape, WatchesMatch, MadeHere
<1>2. WatchesMatch'
  BY <1>1 DEF Shape, WatchesMatch
<1>3. MadeHere'
  BY <1>1 DEF MadeHere
<1>4. SubsShaped'
  BY <1>1 DEF Shape, SubsShaped, ManagerWatch
<1> QED
  BY <1>2, <1>3, <1>4 DEF Shape

\* Nothing the library keeps changes.
LEMMA StillKeeps ==
  ASSUME Shape, UNCHANGED <<conn, subs, watch, structs, freed, outlived>>
  PROVE  Shape'
BY DEF Shape, WatchesMatch, MadeHere, SubsShaped, PropertyWatch, ManagerWatch

-----------------------------------------------------------------------------
(***************************************************************************)
(* The steps                                                               *)
(***************************************************************************)

LEMMA InitHolds == Init => IInv
<1> SUFFICES ASSUME Init
             PROVE  IInv
  OBVIOUS
<1>1. /\ structs = <<>> /\ DOMAIN structs = {}
      /\ structs \in Seq([path : Path, conn : Nat])
      /\ wire \in Seq(Signal)
  BY DEF Init
<1>2. TypeOK
  <2>1. watch \in [Manager -> Nat]
    BY DEF Init
  <2>2. events \in 0..MaxEvents /\ sessions \in 0..MaxSessions
    BY LifecycleAssumption DEF Init
  <2> QED
    BY <1>1, <2>1, <2>2 DEF Init, TypeOK
<1>3. WatchesMatch /\ Connected /\ MadeHere /\ SubsShaped
  BY <1>1 DEF Init, WatchesMatch, Connected, MadeHere, SubsShaped
<1> QED
  BY <1>2, <1>3 DEF IInv

\* A signal is queued for subscriptions there are.
LEMMA SendKeeps ==
  ASSUME IInv, NEW k \in Manager \cup {"property"}, NEW p \in Path, Send(k, p),
         modems' \subseteq Path, blind' \in BOOLEAN
  PROVE  IInv'
<1>1. UNCHANGED <<library, gmodem, pc, asking, wanted, resume>>
  BY DEF Send
<1>2. events' \in 0..MaxEvents
  BY LifecycleAssumption DEF Send, IInv, TypeOK
<1>3. wire' \in Seq(Signal)
  <2> DEFINE to == {s \in subs : /\ s.conn = conn
                                 /\ s.kind = k
                                 /\ k = "property" => structs[s.owner].path = p}
             sig == [kind |-> k, path |-> p, to |-> to]
  <2>1. wire' = IF to = {} THEN wire ELSE Append(wire, sig)
    BY DEF Send
  <2>2. to \in SUBSET [conn : Nat, kind : {k}, owner : Nat]
    BY DEF IInv, TypeOK, Sub
  <2> HIDE DEF to
  <2>3. sig \in Signal
    BY <2>2 DEF Signal, SignalOf, Manager
  <2> HIDE DEF sig
  <2> QED
    BY <2>1, <2>3 DEF IInv, TypeOK
<1>4. TypeOK'
  BY <1>1, <1>2, <1>3 DEF IInv, TypeOK, library, asking
<1>5. Shape'
  BY <1>1, StillKeeps DEF IInv, Shape, library
<1> QED
  BY <1>1, <1>4, <1>5 DEF IInv, Shape, Connected, library

\* What the main loop takes is a signal.
LEMMA TailKeeps ==
  ASSUME TypeOK, NEW k, MainLoopRuns(k)
  PROVE  /\ wire' \in Seq(Signal)
         /\ Head(wire).path \in Path
         /\ \A s \in Delivered : s \in subs /\ s.kind = k
         /\ UNCHANGED <<modems, events>>
         /\ pc \in {"loop", "off"}
<1>1. wire \in Seq(Signal) /\ wire # <<>> /\ wire' = Tail(wire)
  BY DEF TypeOK, MainLoopRuns
<1>2. Head(wire) \in Signal /\ wire' \in Seq(Signal)
  BY <1>1
<1>3. Head(wire).path \in Path /\ \A s \in Head(wire).to : s.kind = Head(wire).kind
  BY <1>2 DEF Signal, SignalOf
<1> QED
  BY <1>2, <1>3 DEF MainLoopRuns, Delivered

\* A signal of the manager is delivered only while the library is connected.
LEMMA DeliveredConnected ==
  ASSUME IInv, NEW k \in Manager, MainLoopRuns(k), Delivered # {}
  PROVE  conn # 0
<1>1. PICK s \in subs : s.kind = k
  BY TailKeeps DEF IInv
<1>2. s.conn # 0 /\ watch[k] = s.conn
  BY <1>1 DEF IInv, SubsShaped, WatchesMatch, PropertyWatch, Manager
<1> QED
  BY <1>2 DEF IInv, WatchesMatch

\* A step that leaves the library alone keeps the invariant if it keeps types
\* and runs the program only with a connection.
LEMMA QuietKeeps ==
  ASSUME IInv, UNCHANGED library, TypeOK',
         pc' \in {pc, "off", "crashed"} \/ conn # 0
  PROVE  IInv'
<1>1. Shape'
  BY StillKeeps DEF IInv, Shape, library
<1> QED
  BY <1>1 DEF IInv, Shape, Connected, library

LEMMA NextKeeps ==
  ASSUME IInv, [Next]_vars
  PROVE  IInv'
<1> USE DEF IInv
<1>1. ASSUME NEW p \in Path, AddOrRemove(p)
      PROVE  IInv'
  <2>1. modems' \subseteq Path /\ blind' \in BOOLEAN
    BY <1>1 DEF AddOrRemove, TypeOK, InTheGap
  <2>2. Send(IF p \in modems THEN "removed" ELSE "added", p)
    BY <1>1 DEF AddOrRemove
  <2> QED
    BY <2>1, <2>2, SendKeeps DEF Manager
<1>2. ASSUME NEW p \in Path, ChangeProperty(p)
      PROVE  IInv'
  <2>1. modems' \subseteq Path /\ blind' \in BOOLEAN
    BY <1>2 DEF ChangeProperty, TypeOK
  <2>2. Send("property", p)
    BY <1>2 DEF ChangeProperty
  <2> QED
    BY <2>1, <2>2, SendKeeps
<1>3. CASE Answer
  <2>1. TypeOK'
    BY <1>3 DEF Answer, TypeOK, daemon, library
  <2> QED
    BY <1>3, <2>1, QuietKeeps DEF Answer
<1>4. CASE Start
  <2>1. /\ conn = 0 /\ conn' = sessions' /\ sessions' = sessions + 1
        /\ sessions \in Nat /\ sessions < MaxSessions
        /\ UNCHANGED <<subs, watch, structs, freed, outlived>>
    BY <1>4, LifecycleAssumption DEF Start, TypeOK
  <2>2. Shape'
    BY <2>1, ConnectKeeps DEF Shape
  <2>3. sessions' \in 0..MaxSessions /\ conn' \in {0, sessions'} /\ conn' # 0
    BY <2>1, LifecycleAssumption
  <2>4. TypeOK'
    BY <1>4, <2>3 DEF Start, TypeOK, daemon, AskModems
  <2> QED
    BY <2>2, <2>3, <2>4 DEF Connected, Shape
<1>5. CASE StartFails
  <2>1. TypeOK'
    BY <1>5 DEF StartFails, TypeOK, daemon, library, asking
  <2> QED
    BY <1>5, <2>1, QuietKeeps DEF StartFails
<1>6. CASE ListReturns
  <2>1. TypeOK'
    BY <1>6 DEF ListReturns, TypeOK, daemon, library, asking, AskModems
  <2>2. UNCHANGED library /\ pc \notin {"off", "crashed"}
    BY <1>6 DEF ListReturns
  <2>3. conn # 0
    BY <2>2 DEF Connected
  <2> QED
    BY <2>1, <2>2, <2>3, QuietKeeps
<1>7. CASE InitReturns
  <2>1. /\ pc = "choose" /\ pc' = resume /\ resume \in {"loop", "watch"}
        /\ UNCHANGED <<daemon, asking, wanted, resume>>
        /\ conn # 0
    BY <1>7 DEF InitReturns, TypeOK, Connected
  <2>2. CASE Make /\ blind' = (blind /\ resume = "watch")
    <3>1. /\ Shape'
          /\ structs' \in Seq([path : Path, conn : Nat])
          /\ subs' \subseteq Sub
          /\ gmodem' \in DOMAIN structs'
          /\ DOMAIN structs \subseteq DOMAIN structs'
      BY <2>1, <2>2, MakeKeeps DEF Shape
    <3>2. UNCHANGED <<sessions, conn, watch, callback, freed, outlived>>
      BY <2>2 DEF Make
    <3>3. TypeOK'
      BY <2>1, <2>2, <3>1, <3>2 DEF TypeOK, daemon, asking
    <3> QED
      BY <2>1, <3>1, <3>2, <3>3 DEF Connected, Shape
  <2>3. CASE UNCHANGED <<library, gmodem, blind>>
    <3>1. TypeOK'
      BY <2>1, <2>3 DEF TypeOK, daemon, library, asking
    <3>2. UNCHANGED library /\ conn # 0
      BY <2>1, <2>3 DEF Connected
    <3> QED
      BY <3>1, <3>2, QuietKeeps
  <2> QED
    BY <1>7, <2>2, <2>3 DEF InitReturns
<1>8. CASE Listen
  <2>1. /\ pc = "watch" /\ SetCallback /\ pc' = "loop" /\ conn # 0
        /\ UNCHANGED <<daemon, gmodem, asking, wanted, resume, blind>>
    BY <1>8 DEF Listen, Connected
  <2>2. /\ Shape'
        /\ subs' \subseteq Sub
        /\ watch' \in [Manager -> Nat]
    BY <2>1, SetCallbackKeeps DEF Shape
  <2>3. callback' = TRUE /\ UNCHANGED <<sessions, conn, structs, freed, outlived>>
    BY <2>1 DEF SetCallback
  <2>4. TypeOK'
    BY <2>1, <2>2, <2>3 DEF TypeOK, daemon, asking
  <2> QED
    BY <2>1, <2>2, <2>3, <2>4 DEF Connected, Shape
<1>9. CASE OnModemAdded
  <2>1. /\ wire' \in Seq(Signal)
        /\ Head(wire).path \in Path
        /\ UNCHANGED <<modems, events>>
    BY <1>9, TailKeeps DEF OnModemAdded
  <2>2. /\ UNCHANGED <<library, gmodem, blind>>
        /\ \/ /\ wanted' = Head(wire).path
              /\ resume' = "loop"
              /\ pc' = "choose"
              /\ AskModems
              /\ Delivered # {}
           \/ UNCHANGED <<wanted, resume, pc, asking>>
    BY <1>9 DEF OnModemAdded
  <2>3. TypeOK'
    BY <2>1, <2>2 DEF TypeOK, library, asking, AskModems
  <2>4. MainLoopRuns("added") /\ "added" \in Manager
    BY <1>9 DEF OnModemAdded, Manager
  <2>5. pc' = pc \/ conn # 0
    BY <2>2, <2>4, DeliveredConnected
  <2> QED
    BY <2>2, <2>3, <2>5, QuietKeeps
<1>10. CASE OnModemRemoved
  <2>1. /\ wire' \in Seq(Signal)
        /\ UNCHANGED <<modems, events>>
    BY <1>10, TailKeeps DEF OnModemRemoved
  <2>2. /\ UNCHANGED <<library, gmodem, wanted, resume, blind>>
        /\ \/ pc' = "recount" /\ AskModems /\ Delivered # {}
           \/ UNCHANGED <<pc, asking>>
    BY <1>10 DEF OnModemRemoved
  <2>3. TypeOK'
    BY <2>1, <2>2 DEF TypeOK, library, asking, AskModems
  <2>4. MainLoopRuns("removed") /\ "removed" \in Manager
    BY <1>10 DEF OnModemRemoved, Manager
  <2>5. pc' = pc \/ conn # 0
    BY <2>2, <2>4, DeliveredConnected
  <2> QED
    BY <2>2, <2>3, <2>5, QuietKeeps
<1>11. CASE RecountReturns
  <2>1. /\ pc = "recount" /\ pc' = "loop"
        /\ UNCHANGED <<daemon, asking, wanted, resume, blind>>
    BY <1>11 DEF RecountReturns
  <2>2. CASE gmodem # 0 /\ FreeModem(gmodem) /\ gmodem' = 0
    <3>1. gmodem \in DOMAIN structs
      BY <2>2 DEF TypeOK
    <3>2. /\ Shape'
          /\ subs' \subseteq Sub
          /\ freed' \subseteq DOMAIN structs'
      BY <2>2, <3>1, FreeKeeps DEF Shape
    <3>3. UNCHANGED <<sessions, conn, watch, callback, structs, outlived>>
      BY <2>2 DEF FreeModem
    <3>4. TypeOK'
      BY <2>1, <2>2, <3>2, <3>3 DEF TypeOK, daemon, asking
    <3> QED
      BY <2>1, <3>2, <3>3, <3>4 DEF Connected, Shape
  <2>3. CASE UNCHANGED <<library, gmodem>>
    <3>1. TypeOK'
      BY <2>1, <2>3 DEF TypeOK, daemon, library, asking
    <3>2. UNCHANGED library /\ conn # 0
      BY <2>1, <2>3 DEF Connected
    <3> QED
      BY <3>1, <3>2, QuietKeeps
  <2> QED
    BY <1>11, <2>2, <2>3 DEF RecountReturns
<1>12. CASE OnPropertyChanged
  <2>1. /\ wire' \in Seq(Signal)
        /\ UNCHANGED <<modems, events>>
        /\ pc \in {"loop", "off"}
    BY <1>12, TailKeeps DEF OnPropertyChanged
  <2>2. /\ UNCHANGED <<library, gmodem, asking, wanted, resume, blind>>
        /\ pc' \in {pc, "crashed"}
    BY <1>12 DEF OnPropertyChanged
  <2>3. TypeOK'
    BY <2>1, <2>2 DEF TypeOK, library, asking
  <2> QED
    BY <2>2, <2>3, QuietKeeps
<1>13. ASSUME NEW m \in DOMAIN structs, Finalize(m)
       PROVE  IInv'
  <2>1. /\ FreeModem(m)
        /\ gmodem' \in {0, gmodem} /\ blind' \in BOOLEAN
        /\ UNCHANGED <<daemon, pc, asking, wanted, resume>>
    BY <1>13 DEF Finalize, TypeOK
  <2>2. /\ Shape'
        /\ subs' \subseteq Sub
        /\ freed' \subseteq DOMAIN structs'
    BY <2>1, FreeKeeps DEF Shape
  <2>3. UNCHANGED <<sessions, conn, watch, callback, structs, outlived>>
    BY <2>1 DEF FreeModem
  <2>4. TypeOK'
    BY <2>1, <2>2, <2>3 DEF TypeOK, daemon, asking
  <2> QED
    BY <2>1, <2>2, <2>3, <2>4 DEF Connected, Shape
<1>14. CASE Close
  <2>1. /\ Deinit /\ pc' = "off" /\ gmodem' = 0
        /\ UNCHANGED <<daemon, asking, wanted, resume, blind>>
    BY <1>14 DEF Close
  <2>2. /\ Shape'
        /\ subs' \subseteq Sub
        /\ watch' \in [Manager -> Nat]
        /\ outlived' \subseteq DOMAIN structs'
    BY <2>1, DeinitKeeps DEF Shape
  <2>3. conn' = 0 /\ UNCHANGED <<sessions, callback, structs, freed>>
    BY <2>1 DEF Deinit
  <2>4. TypeOK'
    BY <2>1, <2>2, <2>3 DEF TypeOK, daemon, asking
  <2> QED
    BY <2>1, <2>2, <2>3, <2>4 DEF Connected, Shape
<1>15. CASE UNCHANGED vars
  <2>1. TypeOK'
    BY <1>15 DEF vars, TypeOK, daemon, library, asking
  <2>2. UNCHANGED library /\ pc' = pc
    BY <1>15 DEF vars
  <2>3. Shape'
    BY <2>2, StillKeeps DEF Shape, library
  <2> QED
    BY <2>1, <2>2, <2>3 DEF Shape, Connected, library
<1> QED
  BY <1>1, <1>2, <1>3, <1>4, <1>5, <1>6, <1>7, <1>8, <1>9, <1>10, <1>11,
     <1>12, <1>13, <1>14, <1>15 DEF Next, Daemon, Program

-----------------------------------------------------------------------------

THEOREM Invariance == Spec => []IInv
<1>1. IInv /\ [Next]_vars => IInv'
  BY NextKeeps
<1> QED
  BY InitHolds, <1>1, PTL DEF Spec

\* Every variable keeps the kind of value the code gives it.
THEOREM TypeCorrect == Spec => []TypeOK
<1>1. IInv => TypeOK
  BY DEF IInv
<1> QED
  BY Invariance, <1>1, PTL

\* The watches of the manager and of every modem are those on the bus, however
\* often the library is opened and closed and modems are finalized.
THEOREM WatchesCorrect == Spec => []WatchesMatch
<1>1. IInv => WatchesMatch
  BY DEF IInv
<1> QED
  BY Invariance, <1>1, PTL

\* A handler of PropertyChanged writes to freed memory only if a modem was
\* finalized after the library it was made in had been closed.
THEOREM HandlersSafe ==
  Spec => [][OnPropertyChanged /\ pc' # pc => freed \cap outlived # {}]_vars
<1>1. IInv /\ [Next]_vars =>
        [OnPropertyChanged /\ pc' # pc => freed \cap outlived # {}]_vars
  <2> SUFFICES ASSUME IInv, OnPropertyChanged, pc' # pc
               PROVE  freed \cap outlived # {}
    OBVIOUS
  <2>1. PICK s \in Delivered : s.owner \in freed
    BY DEF OnPropertyChanged
  <2>2. s \in subs /\ s.kind = "property"
    BY <2>1, TailKeeps DEF OnPropertyChanged, IInv
  <2>3. s = PropertyWatch(s.owner)
    BY <2>2 DEF IInv, SubsShaped, Manager
  <2>4. s.owner \notin freed \ outlived
    BY <2>2, <2>3 DEF IInv, WatchesMatch
  <2> QED
    BY <2>1, <2>4
<1> QED
  BY Invariance, <1>1, PTL DEF Spec

-----------------------------------------------------------------------------
(***************************************************************************)
(* The program follows the daemon                                          *)
(***************************************************************************)

\* A signal that waits for the manager's watch on the open connection.
Due(i, k) == wire[i].kind = k /\ ManagerWatch(k, conn) \in wire[i].to

RemovalDue == \E i \in DOMAIN wire : Due(i, "removed")

AdditionDue(p) == \E i \in DOMAIN wire : Due(i, "added") /\ wire[i].path = p

\* The program is told when modems come and go.
Listening == pc \in {"loop", "recount"} \/ (pc = "choose" /\ resume = "loop")

\* The two watches come together, and the program listens with both. It is off
\* without a connection, and has no modem then.
ToldOfAll ==
  /\ pc = "off" => conn = 0 /\ gmodem = 0
  /\ watch["added"] = watch["removed"]
  /\ Listening => callback /\ watch["added"] = conn

\* A signal waits for no watch of a later connection, and for none of this one
\* before it is made.
ForTheWatches ==
  \A i \in DOMAIN wire, k \in Manager, c \in Nat :
    ManagerWatch(k, c) \in wire[i].to =>
      c # 0 /\ c <= sessions /\ (c = conn => watch[k] = conn)

\* If no modem is left, a removal is behind every addition.
RemovedLast ==
  modems = {} =>
    \A i \in DOMAIN wire : Due(i, "added") =>
      \E j \in DOMAIN wire : i < j /\ Due(j, "removed")

\* Until it listens, the program has what it listed.
StartsRight ==
  ~blind =>
    /\ pc = "list" => gmodem = 0 /\ (~asked => listed = modems)
    /\ pc = "choose" /\ resume = "watch" =>
         gmodem = 0 /\ wanted \in modems /\ (~asked => listed = modems)
    /\ pc = "watch" => (gmodem # 0 <=> modems # {})

\* If no modem is left, a program that has one, or is about to take one, will
\* hear of a removal, or asks what is left.
HearsOfLoss ==
  Listening /\ modems = {} /\ (pc = "choose" \/ (~blind /\ gmodem # 0)) =>
    \/ RemovalDue
    \/ pc = "recount" /\ (asked \/ listed = {})

\* A program without a modem will hear of each there is, or is about to take
\* it. So will one that gives up its modem because nothing was left.
HearsOfGain ==
  Listening /\ ~blind =>
    /\ gmodem = 0 =>
         \A p \in modems :
           \/ AdditionDue(p)
           \/ pc = "choose" /\ wanted = p /\ (asked \/ p \in listed)
    /\ pc = "recount" /\ ~asked /\ listed = {} =>
         \A p \in modems : AdditionDue(p)

Follows ==
  /\ ToldOfAll
  /\ ForTheWatches
  /\ RemovedLast
  /\ StartsRight
  /\ HearsOfLoss
  /\ HearsOfGain

LEMMA InitFollows == Init => Follows
<1> SUFFICES ASSUME Init PROVE Follows
  OBVIOUS
<1>1. DOMAIN wire = {}
  BY DEF Init
<1>2. ForTheWatches /\ RemovedLast
  BY <1>1 DEF ForTheWatches, RemovedLast
<1>3. ToldOfAll
  BY DEF Init, ToldOfAll, Listening, Manager
<1>4. StartsRight /\ HearsOfLoss /\ HearsOfGain
  BY DEF Init, StartsRight, HearsOfLoss, HearsOfGain, Listening
<1> QED
  BY <1>2, <1>3, <1>4 DEF Follows

\* The queue of signals stays, and the watches of what it holds.
LEMMA SameQueue ==
  ASSUME Follows, UNCHANGED <<wire, modems, sessions, conn>>,
         \A k \in Manager : watch[k] = conn => watch'[k] = watch[k]
  PROVE  /\ ForTheWatches'
         /\ RemovedLast'
         /\ RemovalDue' <=> RemovalDue
         /\ \A p : AdditionDue(p)' <=> AdditionDue(p)
<1>1. \A k, c : ManagerWatch(k, c)' = ManagerWatch(k, c)
  BY DEF ManagerWatch
<1>2. \A i, k : Due(i, k)' <=> Due(i, k)
  BY <1>1 DEF Due, ManagerWatch
<1>3. ForTheWatches'
  BY <1>1 DEF Follows, ForTheWatches, ManagerWatch
<1>4. RemovedLast'
  BY <1>2 DEF Follows, RemovedLast
<1> QED
  BY <1>2, <1>3, <1>4 DEF RemovalDue, AdditionDue

\* What a signal adds to the queue, and that one of the manager's is added if
\* its watch is there.
LEMMA SentQueue ==
  ASSUME IInv, NEW k \in Manager \cup {"property"}, NEW p \in Path, Send(k, p)
  PROVE  /\ \A i \in DOMAIN wire : /\ i \in Nat
                                   /\ i \in DOMAIN wire' /\ wire'[i] = wire[i]
         /\ \A i \in DOMAIN wire' \ DOMAIN wire :
              /\ wire'[i].kind = k /\ wire'[i].path = p /\ wire'[i].to \subseteq subs
              /\ \A j \in DOMAIN wire : j < i
         /\ k \in Manager /\ watch[k] # 0 =>
              \E i \in DOMAIN wire' \ DOMAIN wire : ManagerWatch(k, conn) \in wire'[i].to
<1> DEFINE to == {s \in subs : /\ s.conn = conn
                               /\ s.kind = k
                               /\ k = "property" => structs[s.owner].path = p}
           sig == [kind |-> k, path |-> p, to |-> to]
<1>1. wire' = IF to = {} THEN wire ELSE Append(wire, sig)
  BY DEF Send
<1>2. wire \in Seq(Signal)
  BY DEF IInv, TypeOK
<1>3. k \in Manager /\ watch[k] # 0 => ManagerWatch(k, conn) \in to
  <2> SUFFICES ASSUME k \in Manager, watch[k] # 0 PROVE ManagerWatch(k, conn) \in to
    OBVIOUS
  <2>1. ManagerWatch(k, conn) \in subs
    BY DEF IInv, WatchesMatch
  <2>2. k # "property"
    BY DEF Manager
  <2> QED
    BY <2>1, <2>2 DEF ManagerWatch
<1>4. to \subseteq subs /\ sig.kind = k /\ sig.path = p /\ sig.to = to
  OBVIOUS
<1> HIDE DEF to, sig
<1>5. CASE to = {}
  BY <1>1, <1>2, <1>3, <1>5
<1>6. CASE to # {}
  <2>1. /\ wire' = Append(wire, sig)
        /\ Len(wire) \in Nat
        /\ DOMAIN wire = 1..Len(wire)
        /\ DOMAIN wire' = 1..(Len(wire) + 1)
        /\ wire'[Len(wire) + 1] = sig
        /\ \A i \in DOMAIN wire : wire'[i] = wire[i]
    BY <1>1, <1>2, <1>6
  <2>2. \A i \in DOMAIN wire : i \in Nat /\ i \in DOMAIN wire' /\ i < Len(wire) + 1
    BY <2>1
  <2>3. /\ Len(wire) + 1 \in DOMAIN wire' \ DOMAIN wire
        /\ \A i \in DOMAIN wire' \ DOMAIN wire : i = Len(wire) + 1
    BY <2>1
  <2> QED
    BY <1>3, <1>4, <2>1, <2>2, <2>3
<1> QED
  BY <1>5, <1>6

\* The oldest signal leaves the queue.
LEMMA TakenQueue ==
  ASSUME IInv, NEW k, MainLoopRuns(k)
  PROVE  /\ 1 \in DOMAIN wire /\ wire[1] = Head(wire) /\ wire[1].kind = k
         /\ \A i \in DOMAIN wire' : /\ i \in Nat /\ i + 1 \in DOMAIN wire
                                    /\ wire'[i] = wire[i + 1]
         /\ \A j \in DOMAIN wire : j # 1 => /\ j \in Nat /\ j > 1
                                            /\ j - 1 \in DOMAIN wire'
                                            /\ wire'[j - 1] = wire[j]
<1>1. wire \in Seq(Signal) /\ wire # <<>> /\ wire' = Tail(wire) /\ Head(wire).kind = k
  BY DEF IInv, TypeOK, MainLoopRuns
<1> QED
  BY <1>1

\* The signals that wait for the manager's watches are taken by the program
\* while it listens, and by nobody else.
LEMMA DeliveredDue ==
  ASSUME IInv, Follows, NEW k \in Manager, MainLoopRuns(k)
  PROVE  /\ Delivered # {} => Due(1, k) /\ conn # 0
         /\ Listening /\ Due(1, k) => Delivered # {} /\ callback
<1>1. wire[1] = Head(wire) /\ wire[1].kind = k
  BY TakenQueue
<1>2. ASSUME Delivered # {} PROVE Due(1, k) /\ conn # 0
  <2>1. PICK s \in Delivered : s \in subs /\ s.kind = k
    BY <1>2, TailKeeps DEF IInv
  <2>2. s.conn # 0 /\ s = ManagerWatch(k, s.conn)
    BY <2>1 DEF IInv, SubsShaped, PropertyWatch, Manager
  <2>3. s.conn = conn
    BY <2>1, <2>2 DEF IInv, WatchesMatch
  <2> QED
    BY <1>1, <2>1, <2>2, <2>3 DEF Due, Delivered
<1>3. ASSUME Listening, Due(1, k) PROVE Delivered # {} /\ callback
  <2>1. conn # 0 /\ callback /\ watch[k] = conn
    BY <1>3 DEF IInv, Connected, Listening, Follows, ToldOfAll, Manager
  <2>2. ManagerWatch(k, conn) \in subs
    BY <2>1 DEF IInv, WatchesMatch
  <2> QED
    BY <1>1, <1>3, <2>1, <2>2 DEF Due, Delivered
<1> QED
  BY <1>2, <1>3

\* A modem comes or goes: the program hears of it, and of a loss last.
LEMMA ChangeFollows ==
  ASSUME IInv, Follows, NEW p \in Path, AddOrRemove(p)
  PROVE  Follows'
<1>0. PICK k \in Manager : k = IF p \in modems THEN "removed" ELSE "added"
  BY DEF Manager
<1>1. /\ Send(k, p)
      /\ modems' = IF p \in modems THEN modems \ {p} ELSE modems \cup {p}
      /\ blind' = (blind \/ InTheGap)
      /\ UNCHANGED <<library, gmodem, pc, asking, wanted, resume>>
  BY <1>0 DEF AddOrRemove, Send
<1>2. /\ \A i \in DOMAIN wire : i \in DOMAIN wire' /\ wire'[i] = wire[i]
      /\ \A i \in DOMAIN wire' \ DOMAIN wire :
           /\ wire'[i].kind = k /\ wire'[i].path = p /\ wire'[i].to \subseteq subs
           /\ \A j \in DOMAIN wire : j < i
      /\ watch[k] # 0 =>
           \E i \in DOMAIN wire' \ DOMAIN wire : ManagerWatch(k, conn) \in wire'[i].to
  BY <1>1, SentQueue
<1>3. /\ \A j, c : ManagerWatch(j, c)' = ManagerWatch(j, c)
      /\ UNCHANGED <<conn, sessions, watch, callback, pc, gmodem>>
      /\ Listening' = Listening
  BY <1>1 DEF ManagerWatch, library, Listening
<1>4. \A i \in DOMAIN wire : \A j : Due(i, j) => Due(i, j)'
  BY <1>2, <1>3 DEF Due, ManagerWatch
<1>5. watch[k] # 0 => \E i \in DOMAIN wire' \ DOMAIN wire : Due(i, k)'
  BY <1>2, <1>3 DEF Due, ManagerWatch
<1>6. Listening => watch[k] # 0
  BY <1>1 DEF Follows, ToldOfAll, IInv, Connected, Listening, Manager
<1>7. ToldOfAll'
  BY <1>3 DEF Follows, ToldOfAll
<1>8. ForTheWatches'
  <2> SUFFICES ASSUME NEW i \in DOMAIN wire', NEW j \in Manager, NEW c \in Nat,
                      ManagerWatch(j, c) \in wire'[i].to
               PROVE  c # 0 /\ c <= sessions /\ (c = conn => watch[j] = conn)
    BY <1>3 DEF ForTheWatches, ManagerWatch
  <2>1. CASE i \in DOMAIN wire
    BY <1>2, <2>1 DEF Follows, ForTheWatches
  <2>2. CASE i \notin DOMAIN wire
    <3>1. ManagerWatch(j, c) \in subs
      BY <1>2, <2>2
    <3>2. ManagerWatch(j, c).kind = j /\ ManagerWatch(j, c).conn = c
      BY DEF ManagerWatch
    <3>3. watch[j] = c
      BY <3>1, <3>2 DEF IInv, WatchesMatch
    <3>4. c # 0
      BY <3>1, <3>2 DEF IInv, SubsShaped, PropertyWatch, Manager
    <3>5. c = conn
      BY <3>3, <3>4 DEF IInv, WatchesMatch
    <3>6. c <= sessions
      BY <3>4, <3>5, LifecycleAssumption DEF IInv, TypeOK
    <3> QED
      BY <3>3, <3>4, <3>5, <3>6
  <2> QED
    BY <2>1, <2>2
<1>9. RemovedLast'
  <2> SUFFICES ASSUME modems' = {}, NEW i \in DOMAIN wire', Due(i, "added")'
               PROVE  \E j \in DOMAIN wire' : i < j /\ Due(j, "removed")'
    BY DEF RemovedLast
  <2>1. k = "removed"
    BY <1>0, <1>1
  <2>2. i \in DOMAIN wire
    BY <1>2, <2>1 DEF Due
  <2>3. Due(i, "added")
    BY <1>2, <1>3, <2>2 DEF Due, ManagerWatch
  <2>4. watch["added"] # 0
    <3>1. ManagerWatch("added", conn) \in wire[i].to /\ conn \in Nat
      BY <2>3, LifecycleAssumption DEF Due, IInv, TypeOK
    <3> QED
      BY <2>2, <3>1 DEF Follows, ForTheWatches, Manager
  <2>5. watch[k] # 0
    BY <2>1, <2>4 DEF Follows, ToldOfAll
  <2> QED
    BY <1>2, <1>5, <2>1, <2>2, <2>5
<1>10. StartsRight'
  <2> SUFFICES ASSUME ~blind' PROVE StartsRight'
    BY DEF StartsRight
  <2>1. ~blind /\ ~InTheGap
    BY <1>1
  <2>2. /\ pc # "watch" /\ ~(pc = "choose" /\ resume = "watch")
        /\ pc = "list" => asked
    BY <2>1 DEF InTheGap
  <2> QED
    BY <1>1, <2>1, <2>2 DEF Follows, StartsRight, asking
<1>11. HearsOfLoss'
  <2> SUFFICES ASSUME Listening, modems' = {} PROVE RemovalDue'
    BY <1>3 DEF HearsOfLoss
  <2>1. k = "removed"
    BY <1>0, <1>1
  <2> QED
    BY <1>5, <1>6, <2>1 DEF RemovalDue
<1>12. HearsOfGain'
  <2>1. \A q : AdditionDue(q) => AdditionDue(q)'
    BY <1>2, <1>4 DEF AdditionDue
  <2>2. Listening /\ p \in modems' => AdditionDue(p)'
    BY <1>0, <1>1, <1>2, <1>5, <1>6 DEF AdditionDue
  <2>3. \A q \in modems' : q = p \/ q \in modems
    BY <1>1
  <2>4. ~blind' => ~blind
    BY <1>1
  <2> QED
    BY <1>1, <1>3, <2>1, <2>2, <2>3, <2>4 DEF Follows, HearsOfGain, asking
<1> QED
  BY <1>7, <1>8, <1>9, <1>10, <1>11, <1>12 DEF Follows

\* A property's signal is none of the manager's.
LEMMA PropertyFollows ==
  ASSUME IInv, Follows, NEW p \in Path, ChangeProperty(p)
  PROVE  Follows'
<1>1. /\ Send("property", p)
      /\ UNCHANGED <<modems, blind, library, gmodem, pc, asking, wanted, resume>>
  BY DEF ChangeProperty, Send
<1>2. /\ \A i \in DOMAIN wire : i \in DOMAIN wire' /\ wire'[i] = wire[i]
      /\ \A i \in DOMAIN wire' \ DOMAIN wire :
           wire'[i].kind = "property" /\ wire'[i].to \subseteq subs
  BY <1>1, SentQueue
<1>3. /\ \A j, c : ManagerWatch(j, c)' = ManagerWatch(j, c)
      /\ UNCHANGED <<conn, sessions, watch, callback, gmodem, asked, listed>>
      /\ Listening' = Listening
  BY <1>1 DEF ManagerWatch, library, Listening, asking
<1>4. /\ \A i \in DOMAIN wire : \A j : Due(i, j)' <=> Due(i, j)
      /\ \A i \in DOMAIN wire', j \in Manager : Due(i, j)' => i \in DOMAIN wire
  <2>1. "property" \notin Manager
    BY DEF Manager
  <2> QED
    BY <1>2, <1>3, <2>1 DEF Due, ManagerWatch
<1>5. ForTheWatches'
  <2> SUFFICES ASSUME NEW i \in DOMAIN wire', NEW j \in Manager, NEW c \in Nat,
                      ManagerWatch(j, c) \in wire'[i].to
               PROVE  c # 0 /\ c <= sessions /\ (c = conn => watch[j] = conn)
    BY <1>3 DEF ForTheWatches, ManagerWatch
  <2>1. CASE i \in DOMAIN wire
    BY <1>2, <2>1 DEF Follows, ForTheWatches
  <2>2. CASE i \notin DOMAIN wire
    <3>1. ManagerWatch(j, c) \in subs
      BY <1>2, <2>2
    <3>2. ManagerWatch(j, c).kind = j /\ ManagerWatch(j, c).conn = c
      BY DEF ManagerWatch
    <3>3. watch[j] = c
      BY <3>1, <3>2 DEF IInv, WatchesMatch
    <3>4. c # 0
      BY <3>1, <3>2 DEF IInv, SubsShaped, PropertyWatch, Manager
    <3>5. c = conn
      BY <3>3, <3>4 DEF IInv, WatchesMatch
    <3>6. c <= sessions
      BY <3>4, <3>5, LifecycleAssumption DEF IInv, TypeOK
    <3> QED
      BY <3>3, <3>4, <3>5, <3>6
  <2> QED
    BY <2>1, <2>2
<1>6. RemovedLast'
  BY <1>1, <1>2, <1>4 DEF Follows, RemovedLast, Manager
<1>7. /\ RemovalDue => RemovalDue'
      /\ \A q : AdditionDue(q) => AdditionDue(q)'
  BY <1>2, <1>4 DEF RemovalDue, AdditionDue
<1>8. ToldOfAll' /\ StartsRight'
  BY <1>1, <1>3 DEF Follows, ToldOfAll, StartsRight
<1>9. HearsOfLoss' /\ HearsOfGain'
  BY <1>1, <1>3, <1>7 DEF Follows, HearsOfLoss, HearsOfGain
<1> QED
  BY <1>5, <1>6, <1>8, <1>9 DEF Follows

\* The oldest signal is taken: what is due behind it stays due.
LEMMA TakenFollows ==
  ASSUME IInv, Follows, NEW k, MainLoopRuns(k), UNCHANGED library
  PROVE  /\ ForTheWatches'
         /\ RemovedLast'
         /\ RemovalDue /\ ~Due(1, "removed") => RemovalDue'
         /\ \A p : AdditionDue(p) /\ ~(Due(1, "added") /\ Head(wire).path = p)
                     => AdditionDue(p)'
         /\ modems = {} /\ Due(1, "added") => RemovalDue'
<1>1. /\ 1 \in DOMAIN wire /\ wire[1] = Head(wire)
      /\ \A i \in DOMAIN wire' : /\ i \in Nat /\ i + 1 \in DOMAIN wire
                                 /\ wire'[i] = wire[i + 1]
      /\ \A j \in DOMAIN wire : j # 1 => /\ j \in Nat /\ j > 1
                                         /\ j - 1 \in DOMAIN wire'
                                         /\ wire'[j - 1] = wire[j]
  BY TakenQueue
<1>2. /\ \A j, c : ManagerWatch(j, c)' = ManagerWatch(j, c)
      /\ UNCHANGED <<conn, sessions, watch, modems>>
  BY DEF ManagerWatch, library, MainLoopRuns
<1>3. /\ \A i \in DOMAIN wire' : \A j : Due(i, j)' <=> Due(i + 1, j)
      /\ \A i \in DOMAIN wire : \A j : i # 1 /\ Due(i, j) => Due(i - 1, j)'
  BY <1>1, <1>2 DEF Due, ManagerWatch
<1>4. ForTheWatches'
  <2> SUFFICES ASSUME NEW i \in DOMAIN wire', NEW j \in Manager, NEW c \in Nat,
                      ManagerWatch(j, c) \in wire'[i].to
               PROVE  c # 0 /\ c <= sessions /\ (c = conn => watch[j] = conn)
    BY <1>2 DEF ForTheWatches, ManagerWatch
  <2> QED
    BY <1>1 DEF Follows, ForTheWatches
<1>5. RemovedLast'
  <2> SUFFICES ASSUME modems = {}, NEW i \in DOMAIN wire', Due(i, "added")'
               PROVE  \E j \in DOMAIN wire' : i < j /\ Due(j, "removed")'
    BY <1>2 DEF RemovedLast
  <2>1. i \in Nat /\ i + 1 \in DOMAIN wire /\ Due(i + 1, "added")
    BY <1>1, <1>3
  <2>2. PICK j \in DOMAIN wire : i + 1 < j /\ Due(j, "removed")
    BY <2>1 DEF Follows, RemovedLast
  <2>3. j # 1
    <3>1. CASE j = 1
      BY <2>1, <2>2, <3>1
    <3> QED
      BY <3>1
  <2>4. j \in Nat /\ j - 1 \in DOMAIN wire' /\ i < j - 1
    BY <1>1, <2>1, <2>2, <2>3
  <2> QED
    BY <1>3, <2>2, <2>3, <2>4
<1>6. RemovalDue /\ ~Due(1, "removed") => RemovalDue'
  BY <1>1, <1>3 DEF RemovalDue
<1>7. \A p : AdditionDue(p) /\ ~(Due(1, "added") /\ Head(wire).path = p)
               => AdditionDue(p)'
  BY <1>1, <1>3 DEF AdditionDue
<1>8. modems = {} /\ Due(1, "added") => RemovalDue'
  <2> SUFFICES ASSUME modems = {}, Due(1, "added") PROVE RemovalDue'
    OBVIOUS
  <2>1. PICK j \in DOMAIN wire : 1 < j /\ Due(j, "removed")
    BY <1>1 DEF Follows, RemovedLast
  <2>2. j # 1
    BY <2>1
  <2> QED
    BY <1>1, <1>3, <2>1, <2>2 DEF RemovalDue
<1> QED
  BY <1>4, <1>5, <1>6, <1>7, <1>8

\* The handlers keep it: a signal that was due becomes a question.
LEMMA HandlersFollow ==
  ASSUME IInv, Follows, OnModemAdded \/ OnModemRemoved \/ OnPropertyChanged
  PROVE  Follows'
<1>1. PICK k \in Manager \cup {"property"} : MainLoopRuns(k)
  BY DEF OnModemAdded, OnModemRemoved, OnPropertyChanged, Manager
<1>2. /\ UNCHANGED <<library, gmodem, blind, modems>>
      /\ pc \in {"loop", "off"}
  BY DEF OnModemAdded, OnModemRemoved, OnPropertyChanged, MainLoopRuns
<1>3. ForTheWatches' /\ RemovedLast'
  BY <1>1, <1>2, TakenFollows
<1>4. UNCHANGED <<watch, callback, conn>>
  BY <1>2 DEF library
<1>5. CASE OnModemAdded
  <2>1. MainLoopRuns("added") /\ "added" \in Manager /\ Head(wire).kind = "added"
    BY <1>5 DEF OnModemAdded, Manager, MainLoopRuns
  <2>2. \/ /\ Delivered # {} /\ callback /\ gmodem = 0
           /\ wanted' = Head(wire).path /\ resume' = "loop" /\ pc' = "choose"
           /\ asked' = TRUE
        \/ /\ ~(Delivered # {} /\ callback /\ gmodem = 0)
           /\ UNCHANGED <<wanted, resume, pc, asking>>
    BY <1>5 DEF OnModemAdded, AskModems
  <2>3. ~Due(1, "removed")
    BY <2>1, TakenQueue DEF Due
  <2>4. /\ Delivered # {} => Due(1, "added") /\ conn # 0
        /\ Listening /\ Due(1, "added") => Delivered # {} /\ callback
    BY <2>1, DeliveredDue
  <2>5. /\ RemovalDue => RemovalDue'
        /\ \A p : AdditionDue(p) /\ ~(Due(1, "added") /\ Head(wire).path = p)
                    => AdditionDue(p)'
        /\ modems = {} /\ Due(1, "added") => RemovalDue'
    BY <1>2, <2>1, <2>3, TakenFollows
  <2>6. CASE Delivered # {} /\ callback /\ gmodem = 0
    <3>1. pc = "loop" /\ watch["added"] = conn
      <4>1. Due(1, "added") /\ conn # 0 /\ conn \in Nat
        BY <2>4, <2>6, LifecycleAssumption DEF IInv, TypeOK
      <4>2. pc # "off"
        BY <4>1 DEF Follows, ToldOfAll
      <4> QED
        BY <1>2, <4>2 DEF Follows, ToldOfAll, Listening
    <3>2. ToldOfAll' /\ StartsRight'
      BY <1>4, <2>2, <2>6, <3>1 DEF Follows, ToldOfAll, StartsRight, Listening
    <3>3. HearsOfLoss'
      BY <1>2, <2>4, <2>5, <2>6 DEF HearsOfLoss
    <3>4. HearsOfGain'
      <4>1. ~blind => \A p \in modems : AdditionDue(p)
        BY <2>6, <3>1 DEF Follows, HearsOfGain, Listening
      <4>2. ~blind => \A p \in modems : AdditionDue(p)' \/ wanted' = p
        BY <2>2, <2>5, <2>6, <4>1
      <4> QED
        BY <1>2, <2>2, <2>6, <4>2 DEF HearsOfGain
    <3> QED
      BY <1>3, <3>2, <3>3, <3>4 DEF Follows
  <2>7. CASE ~(Delivered # {} /\ callback /\ gmodem = 0)
    <3>1. UNCHANGED <<wanted, resume, pc, asked, listed>>
      BY <2>2, <2>7 DEF asking
    <3>2. Listening /\ gmodem = 0 => ~Due(1, "added")
      BY <2>4, <2>7
    <3> QED
      BY <1>2, <1>3, <1>4, <2>5, <3>1, <3>2
         DEF Follows, ToldOfAll, StartsRight, HearsOfLoss, HearsOfGain, Listening
  <2> QED
    BY <2>6, <2>7
<1>6. CASE OnModemRemoved
  <2>1. MainLoopRuns("removed") /\ "removed" \in Manager /\ Head(wire).kind = "removed"
    BY <1>6 DEF OnModemRemoved, Manager, MainLoopRuns
  <2>2. \/ /\ Delivered # {} /\ callback
           /\ pc' = "recount" /\ asked' = TRUE
           /\ UNCHANGED <<wanted, resume>>
        \/ /\ ~(Delivered # {} /\ callback)
           /\ UNCHANGED <<wanted, resume, pc, asking>>
    BY <1>6 DEF OnModemRemoved, AskModems
  <2>3. ~Due(1, "added")
    BY <2>1, TakenQueue DEF Due
  <2>4. /\ Delivered # {} => Due(1, "removed") /\ conn # 0
        /\ Listening /\ Due(1, "removed") => Delivered # {} /\ callback
    BY <2>1, DeliveredDue
  <2>5. /\ RemovalDue /\ ~Due(1, "removed") => RemovalDue'
        /\ \A p : AdditionDue(p) => AdditionDue(p)'
    BY <1>2, <2>1, <2>3, TakenFollows
  <2>6. CASE Delivered # {} /\ callback
    <3>1. pc = "loop"
      BY <1>2, <2>4, <2>6 DEF Follows, ToldOfAll
    <3>2. ToldOfAll' /\ StartsRight'
      BY <1>4, <2>2, <2>6, <3>1 DEF Follows, ToldOfAll, StartsRight, Listening
    <3>3. HearsOfLoss'
      BY <2>2, <2>6 DEF HearsOfLoss
    <3>4. HearsOfGain'
      <4>1. ~blind /\ gmodem = 0 => \A p \in modems : AdditionDue(p)
        BY <3>1 DEF Follows, HearsOfGain, Listening
      <4>2. ~blind /\ gmodem = 0 => \A p \in modems : AdditionDue(p)'
        BY <2>5, <4>1
      <4> QED
        BY <1>2, <2>2, <2>6, <4>2 DEF HearsOfGain
    <3> QED
      BY <1>3, <3>2, <3>3, <3>4 DEF Follows
  <2>7. CASE ~(Delivered # {} /\ callback)
    <3>1. UNCHANGED <<wanted, resume, pc, asked, listed>>
      BY <2>2, <2>7 DEF asking
    <3>2. Listening => ~Due(1, "removed")
      BY <2>4, <2>7
    <3> QED
      BY <1>2, <1>3, <1>4, <2>5, <3>1, <3>2
         DEF Follows, ToldOfAll, StartsRight, HearsOfLoss, HearsOfGain, Listening
  <2> QED
    BY <2>6, <2>7
<1>7. CASE OnPropertyChanged
  <2>1. MainLoopRuns("property")
    BY <1>7 DEF OnPropertyChanged
  <2>2. ~Due(1, "added") /\ ~Due(1, "removed")
    BY <2>1, TakenQueue DEF Due
  <2>3. /\ RemovalDue => RemovalDue'
        /\ \A p : AdditionDue(p) => AdditionDue(p)'
    BY <1>2, <2>1, <2>2, TakenFollows
  <2>4. UNCHANGED <<wanted, resume, asked, listed>> /\ pc' \in {pc, "crashed"}
    BY <1>7 DEF OnPropertyChanged, asking
  <2>5. CASE pc' = pc
    BY <1>2, <1>3, <1>4, <2>3, <2>4, <2>5
       DEF Follows, ToldOfAll, StartsRight, HearsOfLoss, HearsOfGain, Listening
  <2>6. CASE pc' = "crashed"
    BY <1>3, <1>4, <2>6
       DEF Follows, ToldOfAll, StartsRight, HearsOfLoss, HearsOfGain, Listening
  <2> QED
    BY <2>4, <2>5, <2>6
<1> QED
  BY <1>5, <1>6, <1>7

\* Opening the library: nothing that waits is for the new connection.
LEMMA StartFollows ==
  ASSUME IInv, Follows, Start
  PROVE  Follows'
<1>1. /\ conn' = sessions + 1 /\ sessions' = sessions + 1
      /\ sessions \in Nat /\ conn = 0 /\ gmodem = 0
      /\ pc' = "list" /\ asked' = TRUE
      /\ UNCHANGED <<daemon, watch, gmodem, wanted, resume>>
  BY LifecycleAssumption DEF Start, IInv, TypeOK, AskModems, Follows, ToldOfAll
<1>2. /\ \A j, c : ManagerWatch(j, c)' = ManagerWatch(j, c)
      /\ UNCHANGED <<wire, modems>>
  BY <1>1 DEF ManagerWatch, daemon
<1>3. ASSUME NEW i \in DOMAIN wire, NEW j \in Manager, NEW c \in Nat,
             ManagerWatch(j, c) \in wire[i].to
      PROVE  c # 0 /\ c <= sessions' /\ c # conn'
  <2>1. c # 0 /\ c <= sessions
    BY <1>3 DEF Follows, ForTheWatches
  <2> QED
    BY <1>1, <2>1
<1>4. ForTheWatches'
  BY <1>2, <1>3 DEF ForTheWatches, ManagerWatch
<1>5. RemovedLast'
  <2>1. conn' \in Nat /\ "added" \in Manager
    BY <1>1 DEF Manager
  <2>2. \A i \in DOMAIN wire : ManagerWatch("added", conn') \notin wire[i].to
    BY <1>3, <2>1
  <2> QED
    BY <1>2, <2>2 DEF RemovedLast, Due, ManagerWatch
<1>6. ToldOfAll'
  BY <1>1 DEF Follows, ToldOfAll, Listening
<1>7. StartsRight' /\ HearsOfLoss' /\ HearsOfGain'
  BY <1>1 DEF StartsRight, HearsOfLoss, HearsOfGain, Listening
<1> QED
  BY <1>4, <1>5, <1>6, <1>7 DEF Follows

\* Closing it: nothing is due any more.
LEMMA CloseFollows ==
  ASSUME IInv, Follows, Close
  PROVE  Follows'
<1>1. /\ conn' = 0 /\ pc' = "off" /\ gmodem' = 0
      /\ watch' = [k \in Manager |-> 0]
      /\ UNCHANGED <<wire, sessions>>
  BY DEF Close, Deinit, Unwatched, daemon
<1>2. \A i \in DOMAIN wire, j \in Manager, c \in Nat :
        ManagerWatch(j, c) \in wire[i].to => c # 0 /\ c <= sessions
  BY DEF Follows, ForTheWatches
<1>3. ForTheWatches'
  BY <1>1, <1>2 DEF ForTheWatches, ManagerWatch
<1>4. RemovedLast'
  <2>1. 0 \in Nat /\ "added" \in Manager
    BY DEF Manager
  <2>2. \A i \in DOMAIN wire : ManagerWatch("added", 0) \notin wire[i].to
    BY <1>2, <2>1
  <2> QED
    BY <1>1, <2>2 DEF RemovedLast, Due, ManagerWatch
<1>5. ToldOfAll'
  BY <1>1 DEF ToldOfAll, Listening, Manager
<1>6. StartsRight' /\ HearsOfLoss' /\ HearsOfGain'
  BY <1>1 DEF StartsRight, HearsOfLoss, HearsOfGain, Listening
<1> QED
  BY <1>3, <1>4, <1>5, <1>6 DEF Follows

\* The steps by which the program asks, takes, gives up and begins to listen.
LEMMA ProgramStepFollows ==
  ASSUME IInv, Follows,
         Answer \/ StartFails \/ ListReturns \/ InitReturns \/ Listen
           \/ RecountReturns \/ (\E m \in DOMAIN structs : Finalize(m))
  PROVE  Follows'
<1>1. UNCHANGED <<wire, modems, sessions, conn>>
  BY DEF Answer, StartFails, ListReturns, InitReturns, Listen, RecountReturns,
         Finalize, Make, SetCallback, FreeModem, daemon, library
<1>2. /\ watch' \in [Manager -> Nat]
      /\ \A k \in Manager :
           \/ watch'[k] = watch[k]
           \/ Listen /\ watch[k] = 0 /\ watch'[k] = conn
  <2>1. CASE Listen
    <3>1. watch' = [k \in Manager |-> IF watch[k] = 0 THEN conn ELSE watch[k]]
      BY <2>1 DEF Listen, SetCallback
    <3>2. watch \in [Manager -> Nat] /\ conn \in Nat
      BY LifecycleAssumption DEF IInv, TypeOK
    <3> QED
      BY <2>1, <3>1, <3>2
  <2>2. CASE ~Listen
    <3>1. watch' = watch
      BY <2>2 DEF Answer, StartFails, ListReturns, InitReturns, RecountReturns,
                  Finalize, Make, FreeModem, library
    <3> QED
      BY <3>1 DEF IInv, TypeOK
  <2> QED
    BY <2>1, <2>2
<1>3. Listen => conn # 0
  BY DEF Listen, IInv, Connected
<1>4. /\ ForTheWatches' /\ RemovedLast'
      /\ RemovalDue' <=> RemovalDue
      /\ \A p : AdditionDue(p)' <=> AdditionDue(p)
  <2>1. \A k \in Manager : watch[k] = conn => watch'[k] = watch[k]
    BY <1>2, <1>3
  <2> QED
    BY <1>1, <2>1, SameQueue
<1>5. CASE Listen
  <2>1. /\ pc = "watch" /\ pc' = "loop" /\ callback' = TRUE /\ conn # 0
        /\ UNCHANGED <<gmodem, blind>>
    BY <1>3, <1>5 DEF Listen, SetCallback
  <2>2. watch'["added"] = conn /\ watch'["removed"] = conn
    <3>1. ASSUME NEW k \in Manager PROVE watch'[k] = conn
      <4>1. watch[k] # 0 => watch[k] = conn
        BY DEF IInv, WatchesMatch
      <4>2. watch' = [j \in Manager |-> IF watch[j] = 0 THEN conn ELSE watch[j]]
        BY <1>5 DEF Listen, SetCallback
      <4> QED
        BY <4>1, <4>2
    <3> QED
      BY <3>1 DEF Manager
  <2>3. ~blind => (gmodem # 0 <=> modems # {})
    BY <2>1 DEF Follows, StartsRight
  <2>4. ToldOfAll' /\ StartsRight'
    BY <1>1, <2>1, <2>2 DEF ToldOfAll, StartsRight, Listening
  <2>5. HearsOfLoss' /\ HearsOfGain'
    BY <1>1, <2>1, <2>3 DEF HearsOfLoss, HearsOfGain, Listening
  <2> QED
    BY <1>4, <2>4, <2>5 DEF Follows
<1>6. CASE ~Listen
  <2>1. UNCHANGED <<watch, callback>>
    BY <1>6 DEF Answer, StartFails, ListReturns, InitReturns, RecountReturns,
                Finalize, Make, FreeModem, library
  <2>2. CASE Answer
    <3>1. /\ asked = TRUE /\ asked' = FALSE /\ UNCHANGED <<pc, wanted, resume, gmodem>>
          /\ \/ listed' = modems /\ UNCHANGED blind
             \/ listed' = {} /\ blind' = TRUE
      BY <2>2 DEF Answer, IInv, TypeOK
    <3>2. ToldOfAll' /\ StartsRight'
      BY <1>1, <2>1, <3>1 DEF Follows, ToldOfAll, StartsRight, Listening
    <3>3. HearsOfLoss'
      BY <1>1, <1>4, <3>1 DEF Follows, HearsOfLoss, Listening
    <3>4. HearsOfGain'
      <4> SUFFICES ASSUME Listening, ~blind' PROVE HearsOfGain'
        BY <3>1 DEF HearsOfGain, Listening
      <4>1. ~blind /\ listed' = modems
        BY <3>1
      <4> QED
        BY <1>1, <1>4, <3>1, <4>1 DEF Follows, HearsOfGain
    <3> QED
      BY <1>4, <3>2, <3>3, <3>4 DEF Follows
  <2>3. CASE StartFails
    <3>1. pc' = "crashed"
      BY <2>3 DEF StartFails
    <3> QED
      BY <1>4, <2>1, <3>1 DEF Follows, ToldOfAll, StartsRight, HearsOfLoss,
                              HearsOfGain, Listening
  <2>4. CASE ListReturns
    <3>1. /\ pc = "list" /\ ~asked /\ UNCHANGED <<gmodem, blind>>
          /\ \/ listed = {} /\ pc' = "watch"
             \/ /\ wanted' \in listed /\ resume' = "watch" /\ pc' = "choose"
                /\ asked' = TRUE
      BY <2>4 DEF ListReturns, AskModems, library
    <3>2. ~blind => gmodem = 0 /\ listed = modems
      BY <3>1 DEF Follows, StartsRight
    <3>3. ToldOfAll' /\ StartsRight'
      BY <1>1, <2>1, <3>1, <3>2 DEF Follows, ToldOfAll, StartsRight, Listening
    <3>4. HearsOfLoss' /\ HearsOfGain'
      BY <3>1 DEF HearsOfLoss, HearsOfGain, Listening
    <3> QED
      BY <1>4, <3>3, <3>4 DEF Follows
  <2>5. CASE InitReturns
    <3>1. /\ pc = "choose" /\ ~asked /\ pc' = resume /\ resume \in {"loop", "watch"}
          /\ UNCHANGED <<asked, listed, wanted, resume>>
          /\ \/ gmodem' # 0 /\ blind' = (blind /\ resume = "watch")
             \/ wanted \notin listed /\ UNCHANGED <<gmodem, blind>>
      <4>1. Len(structs) + 1 # 0
        BY DEF IInv, TypeOK
      <4>2. Make => gmodem' # 0
        BY <4>1 DEF Make
      <4> QED
        BY <2>5, <4>2 DEF InitReturns, asking, IInv, TypeOK
    <3>2. ToldOfAll'
      BY <1>1, <2>1, <3>1 DEF Follows, ToldOfAll, Listening
    <3>3. StartsRight'
      <4> SUFFICES ASSUME ~blind', pc' = "watch" PROVE gmodem' # 0 <=> modems' # {}
        BY <3>1 DEF StartsRight
      <4>1. resume = "watch"
        BY <3>1
      <4>2. ~blind
        BY <3>1, <4>1
      <4>3. wanted \in modems /\ listed = modems
        BY <3>1, <4>1, <4>2 DEF Follows, StartsRight
      <4> QED
        BY <1>1, <3>1, <4>3
    <3>4. HearsOfLoss'
      <4> SUFFICES ASSUME resume = "loop", modems = {} PROVE RemovalDue'
        BY <1>1, <3>1 DEF HearsOfLoss, Listening
      <4> QED
        BY <1>4, <3>1 DEF Follows, HearsOfLoss, Listening
    <3>5. HearsOfGain'
      <4> SUFFICES ASSUME resume = "loop", ~blind', gmodem' = 0
                   PROVE  \A p \in modems : AdditionDue(p)'
        BY <1>1, <3>1 DEF HearsOfGain, Listening
      <4>1. wanted \notin listed /\ ~blind /\ gmodem = 0
        BY <3>1
      <4> QED
        BY <1>4, <3>1, <4>1 DEF Follows, HearsOfGain, Listening
    <3> QED
      BY <1>4, <3>2, <3>3, <3>4, <3>5 DEF Follows
  <2>6. CASE RecountReturns
    <3>1. /\ pc = "recount" /\ ~asked /\ pc' = "loop" /\ UNCHANGED blind
          /\ \/ listed = {} /\ gmodem # 0 /\ gmodem' = 0
             \/ (listed # {} \/ gmodem = 0) /\ UNCHANGED gmodem
      BY <2>6 DEF RecountReturns
    <3>2. ToldOfAll' /\ StartsRight'
      BY <1>1, <2>1, <3>1 DEF Follows, ToldOfAll, StartsRight, Listening
    <3>3. HearsOfLoss'
      <4> SUFFICES ASSUME modems = {}, ~blind, gmodem' # 0 PROVE RemovalDue'
        BY <1>1, <3>1 DEF HearsOfLoss
      <4> QED
        BY <1>4, <3>1 DEF Follows, HearsOfLoss, Listening
    <3>4. HearsOfGain'
      <4> SUFFICES ASSUME ~blind, gmodem' = 0 PROVE \A p \in modems : AdditionDue(p)'
        BY <1>1, <3>1 DEF HearsOfGain
      <4> QED
        BY <1>4, <3>1 DEF Follows, HearsOfGain, Listening
    <3> QED
      BY <1>4, <3>2, <3>3, <3>4 DEF Follows
  <2>7. ASSUME NEW m \in DOMAIN structs, Finalize(m)
        PROVE  Follows'
    <3>1. /\ pc \in {"loop", "off"}
          /\ UNCHANGED <<pc, asked, listed, wanted, resume>>
          /\ \/ gmodem' = 0 /\ blind' = TRUE
             \/ UNCHANGED <<gmodem, blind>>
      <4>1. m = gmodem => gmodem' = 0 /\ blind' = TRUE
        BY <2>7 DEF Finalize
      <4>2. m # gmodem => gmodem' = gmodem /\ (blind' <=> blind)
        BY <2>7 DEF Finalize
      <4>3. blind \in BOOLEAN /\ blind' \in BOOLEAN
        BY <2>7 DEF Finalize, IInv, TypeOK
      <4>4. m # gmodem => UNCHANGED <<gmodem, blind>>
        BY <4>2, <4>3
      <4> QED
        BY <2>7, <4>1, <4>4 DEF Finalize, asking
    <3>2. ToldOfAll' /\ StartsRight'
      BY <1>1, <2>1, <3>1 DEF Follows, ToldOfAll, StartsRight, Listening
    <3>3. HearsOfLoss' /\ HearsOfGain'
      BY <1>1, <1>4, <3>1 DEF Follows, HearsOfLoss, HearsOfGain, Listening
    <3> QED
      BY <1>4, <3>2, <3>3 DEF Follows
  <2> QED
    BY <1>6, <2>2, <2>3, <2>4, <2>5, <2>6, <2>7
<1> QED
  BY <1>5, <1>6

LEMMA NextFollows == IInv /\ Follows /\ [Next]_vars => Follows'
<1> SUFFICES ASSUME IInv, Follows, [Next]_vars PROVE Follows'
  OBVIOUS
<1>1. CASE UNCHANGED vars
  <2>1. UNCHANGED <<wire, modems, sessions, conn, watch, callback, gmodem, pc,
                    asked, listed, wanted, resume, blind>>
    BY <1>1 DEF vars, daemon, library, asking
  <2>2. /\ ForTheWatches' /\ RemovedLast'
        /\ RemovalDue' <=> RemovalDue
        /\ \A p : AdditionDue(p)' <=> AdditionDue(p)
    BY <2>1, SameQueue
  <2>3. ToldOfAll' /\ StartsRight'
    BY <2>1 DEF Follows, ToldOfAll, StartsRight, Listening
  <2>4. HearsOfLoss' /\ HearsOfGain'
    BY <2>1, <2>2 DEF Follows, HearsOfLoss, HearsOfGain, Listening
  <2> QED
    BY <2>2, <2>3, <2>4 DEF Follows
<1> QED
  BY <1>1, ChangeFollows, PropertyFollows, HandlersFollow, StartFollows, CloseFollows,
     ProgramStepFollows
     DEF Next, Daemon, Program

\* Once it has handled what waits, the program has a modem if and only if there
\* is one: for every number of modems, signals and sessions, whenever the list
\* is asked for and answered.
THEOREM ProgramCorrect == Spec => []ProgramFollows
<1>1. IInv /\ Follows => ProgramFollows
  <2> SUFFICES ASSUME Follows, pc = "loop", ~blind,
                      \A i \in DOMAIN wire : wire[i].kind = "property"
               PROVE  gmodem # 0 <=> modems # {}
    BY DEF ProgramFollows
  <2>1. ~RemovalDue /\ \A p : ~AdditionDue(p)
    BY DEF RemovalDue, AdditionDue, Due
  <2> QED
    BY <2>1 DEF Follows, HearsOfLoss, HearsOfGain, Listening
<1> QED
  BY <1>1, InitHolds, NextKeeps, InitFollows, NextFollows, PTL DEF Spec

=============================================================================
