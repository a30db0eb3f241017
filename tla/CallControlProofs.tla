------------------------- MODULE CallControlProofs -------------------------
(***************************************************************************)
(* Proofs about the requests on calls: their types, which include that no  *)
(* list of calls overflows its array, that ofono_call_answer() answers     *)
(* only what it saw ringing alone, and that a look-up sees what the        *)
(* requests before it have done.                                           *)
(*                                                                         *)
(* The last holds because look-up and requests share one ordered           *)
(* connection and the look-up blocks the client: while one is under way it *)
(* is the latest request (LookUpIsLast), the connection holds requests in  *)
(* the order they were made (BusSorted), and behind a look-up that was     *)
(* answered there is no earlier request any more (SeenAfter).              *)
(***************************************************************************)
EXTENDS CallControl, FiniteSetTheorems, TLAPS

LookUpIsLast ==
  \A r \in DOMAIN reqs : reqs[r].state \in {"listing", "listed"} => r = Len(reqs)

BusSorted ==
  \A i, j \in DOMAIN bus : i < j => bus[i].req <= bus[j].req

SeenAfter ==
  \A r \in DOMAIN reqs :
    reqs[r].seen # <<>> => \A i \in DOMAIN bus : r <= bus[i].req

\* A call that was listed is the one that has its id, or an earlier one.
SeenBorn ==
  \A r \in DOMAIN reqs : \A i \in DOMAIN reqs[r].seen :
    reqs[r].seen[i].born <= born[reqs[r].seen[i].id]

\* A request to answer that was sent, or carried out, is for the only call of
\* its list.
ForTheRinging(r) ==
  /\ reqs[r].state \notin {"listing", "listed"}
  /\ reqs[r].method = "Answer" =>
       /\ Len(reqs[r].seen) = 1
       /\ reqs[r].seen[1].status = "incoming"
       /\ reqs[r].seen[1].id = reqs[r].target

SentForTheRinging ==
  \A i \in DOMAIN bus : bus[i].call = "act" => ForTheRinging(bus[i].req)

\* What was done was done by a request that was sent, and to the call the
\* answered request had chosen.
DoneForTheRinging ==
  \A a \in acted :
    /\ ForTheRinging(a.req)
    /\ reqs[a.req].method = "Answer" =>
         /\ a.id = reqs[a.req].target
         /\ reqs[a.req].seen[1].born <= a.born

\* A call that was ended is gone.
EndedIsGone ==
  \A a \in acted :
    /\ a.born <= born[a.id]
    /\ a.made = "none" => a.born < born[a.id] \/ calls[a.id] = "none"

IInv ==
  /\ TypeOK
  /\ EarlierRequestsSeen
  /\ LookUpIsLast
  /\ BusSorted
  /\ SeenAfter
  /\ SeenBorn
  /\ SentForTheRinging
  /\ DoneForTheRinging
  /\ EndedIsGone

-----------------------------------------------------------------------------
(***************************************************************************)
(* Requests that keep their method, list and target                        *)
(***************************************************************************)

\* `rs` are the requests made, further on: none of them looks calls up that
\* did not before.
Alike(rs) ==
  /\ rs \in Seq(Request)
  /\ Len(rs) = Len(reqs)
  /\ \A q \in DOMAIN reqs :
       /\ rs[q].method = reqs[q].method
       /\ rs[q].seen = reqs[q].seen
       /\ rs[q].target = reqs[q].target
       /\ rs[q].state \in {"listing", "listed"} =>
            reqs[q].state \in {"listing", "listed"}

LEMMA ReqsDomain ==
  ASSUME TypeOK
  PROVE  /\ DOMAIN reqs = 1..Len(reqs) /\ Len(reqs) \in Nat
         /\ \A q \in DOMAIN reqs : reqs[q] \in Request
         /\ MaxRequests \in Nat
         /\ DOMAIN reqs \subseteq 1..MaxRequests
<1>1. Turns \in Seq(SUBSET Method)
  BY CallControlAssumption
<1>2. MaxRequests \in Nat
  BY <1>1 DEF MaxRequests
<1> QED
  BY <1>2 DEF TypeOK

LEMMA AlikeRefl ==
  ASSUME TypeOK
  PROVE  Alike(reqs)
BY DEF TypeOK, Alike

\* Whether `new` is what a request may become that was `old`.
Further(new, old) ==
  /\ new \in Request
  /\ new.method = old.method
  /\ new.seen = old.seen
  /\ new.target = old.target
  /\ new.state \in {"listing", "listed"} => old.state \in {"listing", "listed"}

LEMMA AlikePointwise ==
  ASSUME TypeOK, NEW rs, Alike(rs), NEW new,
         new = [q \in DOMAIN rs |-> new[q]],
         \A q \in DOMAIN reqs : Further(new[q], rs[q])
  PROVE  Alike(new)
<1>1. /\ DOMAIN rs = DOMAIN reqs /\ DOMAIN rs = 1..Len(rs) /\ Len(rs) \in Nat
      /\ \A q \in DOMAIN rs : rs[q] \in Request
  BY ReqsDomain DEF Alike
<1>2. new \in [1..Len(rs) -> Request]
  BY <1>1 DEF Further
<1>3. new \in Seq(Request) /\ Len(new) = Len(rs)
  BY <1>1, <1>2
<1> QED
  BY <1>1, <1>3 DEF Alike, Further

LEMMA AlikeElement ==
  ASSUME TypeOK, NEW rs, Alike(rs), NEW q \in DOMAIN reqs
  PROVE  rs[q] \in Request /\ Further(rs[q], rs[q]) /\ DOMAIN rs = DOMAIN reqs
BY ReqsDomain DEF Alike, Further

\* Changes of a request, field by field.
LEMMA AlikeState ==
  ASSUME TypeOK, NEW rs, Alike(rs), NEW r \in DOMAIN reqs,
         NEW s \in {"listing", "listed", "dropped", "pending", "ok", "failed"},
         s \in {"listing", "listed"} => rs[r].state \in {"listing", "listed"}
  PROVE  Alike([rs EXCEPT ![r].state = s])
<1>1. ASSUME NEW q \in DOMAIN reqs
      PROVE  Further([rs EXCEPT ![r].state = s][q], rs[q])
  <2>1. rs[q] \in Request /\ DOMAIN rs = DOMAIN reqs /\ Further(rs[q], rs[q])
    BY AlikeElement
  <2>2. Further([rs[q] EXCEPT !.state = s], rs[q]) \/ q # r
    BY <2>1 DEF Further, Request
  <2> QED
    BY <2>1, <2>2
<1> QED
  BY <1>1, AlikePointwise

LEMMA AlikeTold ==
  ASSUME TypeOK, NEW rs, Alike(rs), NEW r \in DOMAIN reqs, NEW n \in Nat
  PROVE  Alike([rs EXCEPT ![r].told = n])
<1>1. ASSUME NEW q \in DOMAIN reqs
      PROVE  Further([rs EXCEPT ![r].told = n][q], rs[q])
  <2>1. rs[q] \in Request /\ DOMAIN rs = DOMAIN reqs /\ Further(rs[q], rs[q])
    BY AlikeElement
  <2>2. Further([rs[q] EXCEPT !.told = n], rs[q]) \/ q # r
    BY <2>1 DEF Further, Request
  <2> QED
    BY <2>1, <2>2
<1> QED
  BY <1>1, AlikePointwise

LEMMA AlikeStirred ==
  ASSUME TypeOK, NEW rs, Alike(rs), NEW r \in DOMAIN reqs
  PROVE  Alike([rs EXCEPT ![r].stirred = TRUE])
<1>1. ASSUME NEW q \in DOMAIN reqs
      PROVE  Further([rs EXCEPT ![r].stirred = TRUE][q], rs[q])
  <2>1. rs[q] \in Request /\ DOMAIN rs = DOMAIN reqs /\ Further(rs[q], rs[q])
    BY AlikeElement
  <2>2. Further([rs[q] EXCEPT !.stirred = TRUE], rs[q]) \/ q # r
    BY <2>1 DEF Further, Request
  <2> QED
    BY <2>1, <2>2
<1> QED
  BY <1>1, AlikePointwise

LEMMA AlikeStir ==
  ASSUME TypeOK, NEW rs, Alike(rs), NEW except
  PROVE  Alike(Stir(rs, except))
<1>1. ASSUME NEW q \in DOMAIN reqs
      PROVE  Further(Stir(rs, except)[q], rs[q])
  <2>1. rs[q] \in Request /\ DOMAIN rs = DOMAIN reqs /\ Further(rs[q], rs[q])
    BY AlikeElement
  <2>2. Stir(rs, except)[q] \in {rs[q], [rs[q] EXCEPT !.stirred = TRUE]}
    BY <2>1 DEF Stir
  <2> QED
    BY <2>1, <2>2 DEF Further, Request
<1>2. Stir(rs, except) = [q \in DOMAIN rs |-> Stir(rs, except)[q]]
  BY DEF Stir
<1> QED
  BY <1>1, <1>2, AlikePointwise

LEMMA AlikeReply ==
  ASSUME TypeOK, NEW rs, Alike(rs), NEW r \in DOMAIN reqs,
         NEW s \in {"ok", "failed"}
  PROVE  Alike(Reply(rs, r, s))
BY AlikeState DEF Reply

-----------------------------------------------------------------------------
(***************************************************************************)
(* Steps that begin no request, and give and choose no call                *)
(***************************************************************************)

\* A deed of the oldest call to the daemon.
ByTheOldest(a) ==
  /\ bus # <<>> /\ Head(bus).call = "act"
  /\ a.req = Head(bus).req
  /\ reqs[a.req].method = "Answer" =>
       a.id = reqs[a.req].target /\ born[a.id] <= a.born

LEMMA TailFacts ==
  ASSUME NEW S, NEW s \in Seq(S), s # <<>>, NEW t, t = Tail(s)
  PROVE  /\ t \in Seq(S)
         /\ \A i \in DOMAIN t :
              i \in Nat /\ i + 1 \in DOMAIN s /\ t[i] = s[i + 1]
<1>1. t \in Seq(S) /\ Len(t) = Len(s) - 1 /\ Len(s) \in Nat
  OBVIOUS
<1>2. DOMAIN t = 1..(Len(s) - 1) /\ DOMAIN s = 1..Len(s)
  BY <1>1
<1>3. \A i \in 1..(Len(s) - 1) : t[i] = s[i + 1]
  OBVIOUS
<1>4. \A i \in 1..(Len(s) - 1) : i \in Nat /\ i + 1 \in 1..Len(s)
  BY <1>1
<1> QED
  BY <1>1, <1>2, <1>3, <1>4

\* What is left of the calls to the daemon.
LEMMA BusShrinks ==
  ASSUME IInv, bus' = bus \/ (bus # <<>> /\ bus' = Tail(bus))
  PROVE  /\ bus' \in Seq([req : 1..MaxRequests, call : {"GetCalls", "act"}])
         /\ \A i \in DOMAIN bus' :
              \E j \in DOMAIN bus : i <= j /\ bus'[i] = bus[j]
         /\ \A i, j \in DOMAIN bus' : i < j => bus'[i].req <= bus'[j].req
         /\ bus # <<>> => /\ 1 \in DOMAIN bus /\ Head(bus) = bus[1]
                          /\ \A i \in DOMAIN bus : bus[1].req <= bus[i].req
<1> DEFINE Entry == [req : 1..MaxRequests, call : {"GetCalls", "act"}]
<1>1. /\ bus \in Seq(Entry)
      /\ DOMAIN bus = 1..Len(bus) /\ Len(bus) \in Nat
      /\ \A i \in DOMAIN bus : bus[i].req \in Nat
      /\ BusSorted
  BY ReqsDomain DEF IInv, TypeOK
<1> HIDE DEF Entry
<1>2. ASSUME bus # <<>>
      PROVE  /\ 1 \in DOMAIN bus /\ Head(bus) = bus[1]
             /\ \A i \in DOMAIN bus : bus[1].req <= bus[i].req
  <2>1. Len(bus) >= 1 /\ Head(bus) = bus[1]
    BY <1>1, <1>2
  <2>2. 1 \in DOMAIN bus
    BY <1>1, <2>1
  <2>3. \A i \in DOMAIN bus : i = 1 \/ 1 < i
    BY <1>1
  <2> QED
    BY <1>1, <2>1, <2>2, <2>3 DEF BusSorted
<1> SUFFICES
      /\ bus' \in Seq(Entry)
      /\ \A i \in DOMAIN bus' :
           \E j \in DOMAIN bus : i <= j /\ bus'[i] = bus[j]
      /\ \A i, j \in DOMAIN bus' : i < j => bus'[i].req <= bus'[j].req
  BY <1>2 DEF Entry
<1>3. CASE bus' = bus
  BY <1>1, <1>2, <1>3 DEF BusSorted
<1>4. CASE bus # <<>> /\ bus' = Tail(bus)
  <2>a. bus \in Seq(Entry) /\ bus # <<>> /\ bus' = Tail(bus)
    BY <1>1, <1>4, Zenon
  <2>1. bus' \in Seq(Entry)
    BY <2>a, TailFacts, Zenon
  <2>2. \A i \in DOMAIN bus' :
          i \in Nat /\ i + 1 \in DOMAIN bus /\ bus'[i] = bus[i + 1]
    BY <2>a, TailFacts, Zenon
  <2>3. \A i \in DOMAIN bus' : \E j \in DOMAIN bus : i <= j /\ bus'[i] = bus[j]
    BY <2>2
  <2>4. \A i, j \in DOMAIN bus' : i < j => bus'[i].req <= bus'[j].req
    <3> TAKE i, j \in DOMAIN bus'
    <3> HAVE i < j
    <3>1. i + 1 < j + 1
      BY <2>2
    <3> QED
      BY <1>1, <2>2, <3>1 DEF BusSorted
  <2> QED
    BY <2>1, <2>3, <2>4
<1> QED
  BY <1>3, <1>4

LEMMA StepKeeps ==
  ASSUME IInv, Alike(reqs'),
         bus' = bus \/ (bus # <<>> /\ bus' = Tail(bus)),
         calls' \in [CallId -> Status \cup {"none"}],
         born' \in [CallId -> Nat],
         events' \in 0..MaxEvents,
         \A c \in CallId : born[c] <= born'[c],
         acted \subseteq acted', acted' \subseteq Deed,
         \A a \in acted' \ acted : ByTheOldest(a),
         EndedIsGone'
  PROVE  IInv'
<1>1. /\ DOMAIN reqs = 1..Len(reqs) /\ Len(reqs) \in Nat
      /\ DOMAIN reqs' = DOMAIN reqs /\ Len(reqs') = Len(reqs)
      /\ reqs' \in Seq(Request)
      /\ \A q \in DOMAIN reqs :
           /\ reqs'[q].method = reqs[q].method
           /\ reqs'[q].seen = reqs[q].seen
           /\ reqs'[q].target = reqs[q].target
           /\ reqs'[q].state \in {"listing", "listed"} =>
                reqs[q].state \in {"listing", "listed"}
  BY ReqsDomain DEF IInv, Alike
<1>2. /\ bus' \in Seq([req : 1..MaxRequests, call : {"GetCalls", "act"}])
      /\ \A i \in DOMAIN bus' :
           \E j \in DOMAIN bus : i <= j /\ bus'[i] = bus[j]
      /\ BusSorted'
      /\ bus # <<>> => /\ 1 \in DOMAIN bus /\ Head(bus) = bus[1]
                       /\ \A i \in DOMAIN bus : bus[1].req <= bus[i].req
  BY BusShrinks DEF BusSorted
<1>3. \A q \in DOMAIN reqs : reqs[q] \in Request /\ q \in Nat
  BY <1>1, ReqsDomain DEF IInv
<1>4. ASSUME NEW a \in acted' \ acted
      PROVE  /\ bus # <<>> /\ bus[1].req \in DOMAIN reqs /\ a.req = bus[1].req
             /\ ForTheRinging(a.req)
             /\ reqs[a.req].method = "Answer" =>
                  a.id = reqs[a.req].target /\ born[a.id] <= a.born
  BY <1>2 DEF ByTheOldest, IInv, TypeOK, SentForTheRinging
<1>5. TypeOK'
  <2>1. \A r \in DOMAIN reqs' : Len(reqs'[r].seen) <= MAX_CALL_PARTIES
    BY <1>1 DEF IInv, TypeOK
  <2>2. \A i \in DOMAIN bus' : bus'[i].req \in DOMAIN reqs'
    BY <1>1, <1>2 DEF IInv, TypeOK
  <2>3. \A a \in acted' : a.req \in DOMAIN reqs'
    BY <1>1, <1>4 DEF IInv, TypeOK
  <2>4. Len(reqs') <= MaxRequests
    BY <1>1 DEF IInv, TypeOK
  <2> QED
    BY <1>1, <1>2, <2>1, <2>2, <2>3, <2>4 DEF TypeOK
<1>6. EarlierRequestsSeen'
  <2> SUFFICES ASSUME NEW a \in acted', NEW r \in DOMAIN reqs',
                      a.req < r, a.made = "none",
                      NEW i \in DOMAIN reqs'[r].seen
               PROVE  <<reqs'[r].seen[i].id, reqs'[r].seen[i].born>>
                        # <<a.id, a.born>>
    BY DEF EarlierRequestsSeen
  <2>1. r \in DOMAIN reqs /\ reqs'[r].seen = reqs[r].seen
    BY <1>1
  <2>2. CASE a \in acted
    BY <2>1, <2>2 DEF IInv, EarlierRequestsSeen
  <2>3. CASE a \notin acted
    <3>1. a.req = bus[1].req /\ 1 \in DOMAIN bus /\ a.req \in Nat /\ r \in Nat
      BY <1>2, <1>3, <1>4, <2>1, <2>3
    <3>2. reqs[r].seen = <<>>
      BY <2>1, <3>1 DEF IInv, SeenAfter
    <3> QED
      BY <2>1, <3>2
  <2> QED
    BY <2>2, <2>3
<1>7. LookUpIsLast'
  BY <1>1 DEF IInv, LookUpIsLast
<1>8. SeenAfter'
  BY <1>1, <1>2 DEF IInv, SeenAfter
<1>9. SeenBorn'
  <2> SUFFICES ASSUME NEW r \in DOMAIN reqs, NEW i \in DOMAIN reqs[r].seen
               PROVE  reqs[r].seen[i].born <= born'[reqs[r].seen[i].id]
    BY <1>1 DEF SeenBorn
  <2>1. reqs[r].seen \in Seq(CallInfo)
    BY <1>3 DEF Request
  <2>2. reqs[r].seen[i] \in CallInfo
    BY <2>1
  <2>3. reqs[r].seen[i].id \in CallId /\ reqs[r].seen[i].born \in Nat
    BY <2>2 DEF CallInfo
  <2>4. reqs[r].seen[i].born <= born[reqs[r].seen[i].id]
    BY DEF IInv, SeenBorn
  <2> QED
    BY <2>3, <2>4 DEF IInv, TypeOK
<1>10. \A q \in DOMAIN reqs : ForTheRinging(q) => ForTheRinging(q)'
  BY <1>1 DEF ForTheRinging
<1>11. SentForTheRinging'
  BY <1>2, <1>10 DEF IInv, TypeOK, SentForTheRinging
<1>12. DoneForTheRinging'
  <2>a. \A a \in acted' : a.req \in DOMAIN reqs
    BY <1>4 DEF IInv, TypeOK
  <2> SUFFICES ASSUME NEW a \in acted'
               PROVE  /\ ForTheRinging(a.req)'
                      /\ reqs[a.req].method = "Answer" =>
                           /\ a.id = reqs[a.req].target
                           /\ reqs[a.req].seen[1].born <= a.born
    BY <1>1, <2>a DEF DoneForTheRinging
  <2>1. CASE a \in acted
    BY <1>10, <2>1 DEF IInv, TypeOK, DoneForTheRinging
  <2>2. CASE a \notin acted
    <3> SUFFICES ASSUME reqs[a.req].method = "Answer"
                 PROVE  reqs[a.req].seen[1].born <= a.born
      BY <1>4, <1>10, <2>2
    <3>1. /\ a.req \in DOMAIN reqs /\ Len(reqs[a.req].seen) = 1
          /\ reqs[a.req].seen[1].id = a.id /\ born[a.id] <= a.born
      BY <1>4, <2>2 DEF ForTheRinging
    <3>2. reqs[a.req].seen \in Seq(CallInfo)
      BY <1>3, <3>1 DEF Request
    <3>3. 1 \in DOMAIN reqs[a.req].seen /\ reqs[a.req].seen[1] \in CallInfo
      BY <3>1, <3>2
    <3>4. reqs[a.req].seen[1].born <= born[a.id]
      BY <3>1, <3>3 DEF IInv, SeenBorn
    <3>5. reqs[a.req].seen[1].born \in Nat /\ a.id \in CallId /\ a.born \in Nat
      BY <3>1, <3>3 DEF CallInfo, Deed
    <3>6. born[a.id] \in Nat
      BY <3>5 DEF IInv, TypeOK
    <3> QED
      BY <3>1, <3>4, <3>5, <3>6
  <2> QED
    BY <2>1, <2>2
<1> QED
  BY <1>2, <1>5, <1>6, <1>7, <1>8, <1>9, <1>11, <1>12 DEF IInv

\* Calls that end stay ended until their id has a later call.
LEMMA EndedStays ==
  ASSUME IInv,
         born' \in [CallId -> Nat],
         \A c \in CallId :
           \/ born[c] < born'[c]
           \/ born'[c] = born[c] /\ (calls[c] = "none" => calls'[c] = "none"),
         \A a \in acted' \ acted :
           /\ a.born <= born'[a.id]
           /\ a.made = "none" => calls'[a.id] = "none"
  PROVE  EndedIsGone'
<1> SUFFICES ASSUME NEW a \in acted'
             PROVE  /\ a.born <= born'[a.id]
                    /\ a.made = "none" =>
                         a.born < born'[a.id] \/ calls'[a.id] = "none"
  BY DEF EndedIsGone
<1>1. CASE a \in acted
  <2>1. a.id \in CallId /\ a.born \in Nat
    BY <1>1 DEF IInv, TypeOK, Deed
  <2>2. born[a.id] \in Nat /\ born'[a.id] \in Nat
    BY <2>1 DEF IInv, TypeOK
  <2>3. /\ a.born <= born[a.id]
        /\ a.made = "none" => a.born < born[a.id] \/ calls[a.id] = "none"
    BY <1>1 DEF IInv, EndedIsGone
  <2> QED
    BY <2>1, <2>2, <2>3
<1>2. CASE a \notin acted
  BY <1>2
<1> QED
  BY <1>1, <1>2

\* Steps that change requests only, and maybe take a call off the bus.
LEMMA QuietStepKeeps ==
  ASSUME IInv, Alike(reqs'),
         bus' = bus \/ (bus # <<>> /\ bus' = Tail(bus)),
         UNCHANGED <<calls, born, events, acted>>
  PROVE  IInv'
<1>1. \A c \in CallId : born[c] \in Nat
  BY DEF IInv, TypeOK
<1>2. EndedIsGone'
  BY DEF IInv, EndedIsGone
<1> QED
  BY <1>1, <1>2, StepKeeps DEF IInv, TypeOK

LEMMA EventKeeps ==
  ASSUME IInv, NEW c \in CallId, NewCall(c) \/ Move(c) \/ EndCall(c)
  PROVE  IInv'
<1>1. PICK status \in Status \cup {"none"} : Event(status, c)
  BY DEF NewCall, Move, EndCall, Moves, Status
<1>2. /\ events' \in 0..MaxEvents /\ bus' = bus /\ acted' = acted
      /\ calls' = [calls EXCEPT ![c] = status]
      /\ calls' \in [CallId -> Status \cup {"none"}]
      /\ reqs' = Stir(reqs, {})
  BY <1>1, CallControlAssumption DEF IInv, TypeOK, Event
<1>3. Alike(reqs')
  BY <1>2, AlikeRefl, AlikeStir DEF IInv
<1>4. /\ \A d \in CallId : born[d] \in Nat
      /\ \/ born' = [born EXCEPT ![c] = @ + 1]
         \/ born' = born /\ (calls[c] # "none" \/ calls'[c] = "none")
  <2>1. CASE NewCall(c)
    BY <2>1 DEF NewCall, IInv, TypeOK
  <2>2. CASE Move(c)
    BY <2>2 DEF Move, Moves, IInv, TypeOK
  <2>3. CASE EndCall(c)
    BY <2>3 DEF EndCall, Event, IInv, TypeOK
  <2> QED
    BY <2>1, <2>2, <2>3
<1>5. /\ born' \in [CallId -> Nat]
      /\ \A d \in CallId : born[d] <= born'[d]
      /\ \A d \in CallId :
           \/ born[d] < born'[d]
           \/ born'[d] = born[d] /\ (calls[d] = "none" => calls'[d] = "none")
  <2>1. calls \in [CallId -> Status \cup {"none"}] /\ born \in [CallId -> Nat]
    BY DEF IInv, TypeOK
  <2>2. CASE born' = [born EXCEPT ![c] = @ + 1]
    <3>1. \A d \in CallId : born'[d] = born[d] + (IF d = c THEN 1 ELSE 0)
      BY <2>1, <2>2
    <3>2. \A d \in CallId : d # c => calls'[d] = calls[d]
      BY <1>2, <2>1
    <3>3. born' \in [CallId -> Nat]
      BY <2>1, <2>2, <1>4
    <3> QED
      BY <1>4, <3>1, <3>2, <3>3
  <2>3. CASE born' = born /\ (calls[c] # "none" \/ calls'[c] = "none")
    BY <1>2, <1>4, <2>1, <2>3
  <2> QED
    BY <1>4, <2>2, <2>3
<1>6. EndedIsGone'
  BY <1>2, <1>5, EndedStays
<1> QED
  BY <1>2, <1>3, <1>5, <1>6, StepKeeps DEF IInv, TypeOK

\* The oldest call to the daemon is one of a request that was made.
LEMMA HeadFacts ==
  ASSUME IInv, bus # <<>>
  PROVE  /\ Head(bus) = bus[1] /\ 1 \in DOMAIN bus
         /\ Head(bus).req \in DOMAIN reqs
         /\ Head(bus).req \in 1..MaxRequests
         /\ \A i \in DOMAIN bus : Head(bus).req <= bus[i].req
<1>0. /\ bus \in Seq([req : 1..MaxRequests, call : {"GetCalls", "act"}])
      /\ DOMAIN bus = 1..Len(bus) /\ Len(bus) \in Nat
  BY DEF IInv, TypeOK
<1>1. 1 \in DOMAIN bus /\ Head(bus) = bus[1]
  BY <1>0
<1>2. \A i \in DOMAIN bus : i \in Nat /\ (i = 1 \/ 1 < i) /\ bus[i].req \in Nat
  BY ReqsDomain DEF IInv, TypeOK
<1>3. \A i \in DOMAIN bus : bus[1].req <= bus[i].req
  BY <1>1, <1>2 DEF IInv, BusSorted
<1> QED
  BY <1>1, <1>3, ReqsDomain DEF IInv, TypeOK

LEMMA BecomesType ==
  ASSUME IInv, NEW r \in DOMAIN reqs, NEW c \in CallId
  PROVE  /\ Becomes(r, c) \in Status \cup {"none"}
         /\ calls[c] = "none" => Becomes(r, c) = "none"
         /\ reqs[r].method = "Answer" /\ Becomes(r, c) # calls[c] =>
              c = reqs[r].target
<1>1. calls[c] \in Status \cup {"none"}
  BY DEF IInv, TypeOK
<1>2. reqs[r].method \in Method
  BY ReqsDomain DEF IInv, Request
<1>3. CASE reqs[r].method = "Answer"
  BY <1>1, <1>3 DEF Becomes, Status, Ringing
<1>4. CASE reqs[r].method = "Deflect"
  BY <1>1, <1>4 DEF Becomes, Status, Ringing
<1>5. CASE reqs[r].method = "Hangup"
  BY <1>1, <1>5 DEF Becomes, Status, Ringing
<1>6. CASE reqs[r].method = "PrivateChat"
  BY <1>1, <1>6 DEF Becomes, Status, Ringing
<1>7. CASE reqs[r].method \in {"HangupAll", "SwapCalls", "HoldAndAnswer",
                               "ReleaseAndSwap"}
  BY <1>1, <1>7 DEF Becomes, Status, Ringing
<1>8. CASE reqs[r].method \in {"CreateMultiparty", "ReleaseAndAnswer",
                               "HangupMultiparty", "Transfer"}
  BY <1>1, <1>8 DEF Becomes, Status, Ringing
<1>9. CASE reqs[r].method \in {"Dial", "SendTones"}
  BY <1>1, <1>9 DEF Becomes, Status, Ringing
<1> QED
  BY <1>2, <1>3, <1>4, <1>5, <1>6, <1>7, <1>8, <1>9 DEF Method

LEMMA PerformKeeps ==
  ASSUME IInv, Perform
  PROVE  IInv'
<1> DEFINE r == Head(bus).req
           changed == {c \in CallId : Becomes(r, c) # calls[c]}
           Of(c) == [req |-> r, id |-> c, born |-> born[c], made |-> Becomes(r, c)]
<1>1. /\ bus # <<>> /\ Head(bus).call = "act" /\ bus' = Tail(bus)
      /\ r \in DOMAIN reqs /\ r \in 1..MaxRequests
  BY HeadFacts DEF Perform
<1>2. /\ calls' = [c \in CallId |-> Becomes(r, c)]
      /\ acted' = acted \cup {Of(c) : c \in changed}
      /\ reqs' = Reply(IF changed = {} THEN reqs ELSE Stir(reqs, {r}), r, "ok")
      /\ born' = born /\ events' = events
  BY DEF Perform
<1>3. /\ \A c \in CallId : Becomes(r, c) \in Status \cup {"none"}
      /\ \A c \in CallId : calls[c] = "none" => Becomes(r, c) = "none"
      /\ reqs[r].method = "Answer" =>
           \A c \in CallId : Becomes(r, c) # calls[c] => c = reqs[r].target
      /\ \A c \in CallId : born[c] \in Nat
  BY <1>1, BecomesType DEF IInv, TypeOK
<1>4. Alike(reqs')
  BY <1>1, <1>2, AlikeRefl, AlikeStir, AlikeReply DEF IInv
<1>5. calls' \in [CallId -> Status \cup {"none"}]
  BY <1>2, <1>3
<1>6. ASSUME NEW a \in acted' \ acted
      PROVE  /\ a \in Deed /\ ByTheOldest(a)
             /\ a.born <= born'[a.id]
             /\ a.made = "none" => calls'[a.id] = "none"
  <2>1. PICK c \in changed : a = Of(c)
    BY <1>2
  <2>2. /\ c \in CallId /\ Becomes(r, c) # calls[c] /\ calls'[c] = Becomes(r, c)
        /\ born[c] \in Nat
    BY <1>2, <1>3
  <2>3. /\ a.req = r /\ a.id = c /\ a.born = born[c] /\ a.made = Becomes(r, c)
        /\ a \in Deed
    BY <1>1, <1>3, <2>1, <2>2 DEF Deed
  <2> QED
    BY <1>1, <1>2, <1>3, <2>2, <2>3 DEF ByTheOldest
<1>7. EndedIsGone'
  <2>1. \A c \in CallId :
          born'[c] = born[c] /\ (calls[c] = "none" => calls'[c] = "none")
    BY <1>2, <1>3
  <2> QED
    BY <1>2, <1>6, <2>1, EndedStays DEF IInv, TypeOK
<1>8. acted' \subseteq Deed /\ acted \subseteq acted'
  BY <1>2, <1>6 DEF IInv, TypeOK
<1>9. \A c \in CallId : born[c] <= born'[c]
  BY <1>2, <1>3
<1> QED
  BY <1>1, <1>2, <1>4, <1>5, <1>6, <1>7, <1>8, <1>9, StepKeeps DEF IInv, TypeOK

LEMMA PerformDialKeeps ==
  ASSUME IInv, NEW c \in CallId, PerformDial(c)
  PROVE  IInv'
<1> DEFINE r == Head(bus).req
           deed == [req |-> r, id |-> c, born |-> born[c] + 1, made |-> "dialing"]
<1>1. /\ bus # <<>> /\ Head(bus).call = "act" /\ bus' = Tail(bus)
      /\ r \in DOMAIN reqs /\ r \in 1..MaxRequests
  BY HeadFacts DEF PerformDial
<1>2. /\ reqs[r].method = "Dial"
      /\ acted' = acted \cup {deed}
      /\ reqs' = Reply(Stir(reqs, {r}), r, "ok")
      /\ calls' = [calls EXCEPT ![c] = "dialing"]
      /\ born' = [born EXCEPT ![c] = born[c] + 1]
      /\ events' = events
  BY DEF PerformDial
<1>3. /\ \A d \in CallId : born[d] \in Nat
      /\ calls \in [CallId -> Status \cup {"none"}]
      /\ born \in [CallId -> Nat]
  BY DEF IInv, TypeOK
<1>4. Alike(reqs')
  BY <1>1, <1>2, AlikeRefl, AlikeStir, AlikeReply DEF IInv
<1>5. calls' \in [CallId -> Status \cup {"none"}] /\ born' \in [CallId -> Nat]
  BY <1>2, <1>3 DEF Status
<1>6. /\ born'[c] = born[c] + 1
      /\ \A d \in CallId : d = c \/ (born'[d] = born[d] /\ calls'[d] = calls[d])
  BY <1>2, <1>3
<1>7. /\ deed \in Deed /\ ByTheOldest(deed)
      /\ deed.born <= born'[deed.id] /\ deed.made # "none"
  BY <1>1, <1>2, <1>3, <1>6 DEF Deed, Status, ByTheOldest
<1>8. \A d \in CallId :
        /\ born[d] <= born'[d]
        /\ \/ born[d] < born'[d]
           \/ born'[d] = born[d] /\ (calls[d] = "none" => calls'[d] = "none")
  BY <1>3, <1>6
<1>9. /\ acted' \subseteq Deed /\ acted \subseteq acted'
      /\ \A a \in acted' \ acted : a = deed
  BY <1>2, <1>7 DEF IInv, TypeOK
<1>10. EndedIsGone'
  <2> HIDE DEF deed
  <2> QED
    BY <1>5, <1>7, <1>8, <1>9, EndedStays
<1> HIDE DEF deed
<1> QED
  BY <1>1, <1>2, <1>4, <1>5, <1>7, <1>8, <1>9, <1>10, StepKeeps DEF IInv, TypeOK

\* Refused, timed out, dropped, finished, or nothing at all.
LEMMA QuietKeeps ==
  ASSUME IInv,
         \/ Refuse
         \/ \E r \in DOMAIN reqs : GetCallsFails(r) \/ Timeout(r)
                                   \/ Drop(r) \/ Finish(r)
         \/ UNCHANGED vars
  PROVE  IInv'
<1>1. CASE Refuse
  <2> DEFINE r == Head(bus).req
             able == \E c \in CallId : Becomes(r, c) # calls[c]
  <2>1. /\ bus # <<>> /\ bus' = Tail(bus) /\ r \in DOMAIN reqs
        /\ reqs' = Reply(IF able THEN Stir(reqs, {}) ELSE reqs, r, "failed")
        /\ UNCHANGED <<calls, born, events, acted>>
    BY <1>1, HeadFacts DEF Refuse
  <2>2. Alike(reqs')
    BY <2>1, AlikeRefl, AlikeStir, AlikeReply DEF IInv
  <2> QED
    BY <2>1, <2>2, QuietStepKeeps
<1>2. ASSUME NEW r \in DOMAIN reqs, GetCallsFails(r) PROVE IInv'
  <2> DEFINE listed == [reqs EXCEPT ![r].state = "listed"]
  <2>1. /\ reqs' = [reqs EXCEPT ![r].state = "listed", ![r].stirred = TRUE]
        /\ reqs[r].state = "listing"
        /\ UNCHANGED <<bus, calls, born, events, acted>>
    BY <1>2 DEF GetCallsFails
  <2>2. Alike(listed)
    BY <2>1, AlikeRefl, AlikeState DEF IInv
  <2>3. reqs' = [listed EXCEPT ![r].stirred = TRUE]
    BY <2>1
  <2>4. Alike(reqs')
    <3> HIDE DEF listed
    <3> QED
      BY <2>2, <2>3, AlikeStirred DEF IInv
  <2> QED
    BY <2>1, <2>4, QuietStepKeeps
<1>3. ASSUME NEW r \in DOMAIN reqs, Timeout(r) PROVE IInv'
  <2> DEFINE failed == [reqs EXCEPT ![r].state = "failed"]
  <2>1. /\ reqs' = [reqs EXCEPT ![r].state = "failed", ![r].stirred = TRUE]
        /\ UNCHANGED <<bus, calls, born, events, acted>>
    BY <1>3 DEF Timeout
  <2>2. Alike(failed)
    BY AlikeRefl, AlikeState DEF IInv
  <2>3. reqs' = [failed EXCEPT ![r].stirred = TRUE]
    BY <2>1
  <2>4. Alike(reqs')
    <3> HIDE DEF failed
    <3> QED
      BY <2>2, <2>3, AlikeStirred DEF IInv
  <2> QED
    BY <2>1, <2>4, QuietStepKeeps
<1>4. ASSUME NEW r \in DOMAIN reqs, Drop(r) PROVE IInv'
  BY <1>4, AlikeRefl, AlikeState, QuietStepKeeps DEF IInv, Drop
<1>5. ASSUME NEW r \in DOMAIN reqs, Finish(r) PROVE IInv'
  BY <1>5, AlikeRefl, AlikeTold, QuietStepKeeps DEF IInv, Finish
<1>6. CASE UNCHANGED vars
  BY <1>6, AlikeRefl, QuietStepKeeps DEF IInv, vars
<1> QED
  BY <1>1, <1>2, <1>3, <1>4, <1>5, <1>6

-----------------------------------------------------------------------------
(***************************************************************************)
(* Steps that begin a request, and steps that give or choose a call        *)
(***************************************************************************)

BusCall == [req : 1..MaxRequests, call : {"GetCalls", "act"}]

LEMMA AppendFacts ==
  ASSUME NEW S, NEW s \in Seq(S), NEW e \in S, NEW t, t = Append(s, e)
  PROVE  /\ t \in Seq(S) /\ Len(t) = Len(s) + 1 /\ Len(s) \in Nat
         /\ DOMAIN s = 1..Len(s) /\ DOMAIN t = 1..(Len(s) + 1)
         /\ \A i \in DOMAIN s : t[i] = s[i]
         /\ t[Len(s) + 1] = e
         /\ \A i \in DOMAIN t : i \in DOMAIN s \/ i = Len(s) + 1
<1>1. /\ t \in Seq(S) /\ Len(t) = Len(s) + 1 /\ Len(s) \in Nat
      /\ DOMAIN s = 1..Len(s)
  OBVIOUS
<1>2. \A i \in 1..Len(s) : t[i] = s[i]
  OBVIOUS
<1>3. t[Len(s) + 1] = e
  OBVIOUS
<1>4. DOMAIN t = 1..(Len(s) + 1)
  BY <1>1
<1> QED
  BY <1>1, <1>2, <1>3, <1>4

\* How many calls there are, and which rings alone.
LEMMA MadeType ==
  ASSUME IInv, NEW method \in Method, NEW target \in CallId \cup {0},
         NEW state \in {"listing", "listed", "dropped", "pending", "ok", "failed"}
  PROVE  /\ Made(method, target, state) \in Request
         /\ Made(method, target, state).seen = <<>>
         /\ Made(method, target, state).method = method
         /\ Made(method, target, state).state = state
<1>1. Live \subseteq CallId /\ IsFiniteSet(Live)
  BY CallControlAssumption, FS_Subset DEF Live
<1>2. Cardinality(Live) \in Nat
  BY <1>1, FS_CardinalityType
<1>3. LoneRinging \in CallId \cup {0}
  BY <1>1 DEF LoneRinging
<1>4. <<>> \in Seq(CallInfo)
  OBVIOUS
<1> QED
  BY <1>2, <1>3, <1>4 DEF Made, Request

LEMMA AskKeeps ==
  ASSUME IInv, NEW method \in Method, NEW target \in CallId \cup {0},
         NEW state \in {"listing", "pending"}, NEW call \in {"GetCalls", "act"},
         call = "act" => state = "pending" /\ method # "Answer",
         Ask(method, target, state, call)
  PROVE  IInv'
<1> DEFINE new == Made(method, target, state)
<1>0. PICK n : n = Len(reqs) + 1
  OBVIOUS
<1>1. /\ ~Blocked
      /\ Len(reqs) < MaxRequests
      /\ reqs' = Append(reqs, new)
      /\ bus' = Append(bus, [req |-> n, call |-> call])
      /\ UNCHANGED <<calls, born, events, acted>>
  BY <1>0 DEF Ask
<1>2. /\ new \in Request /\ new.seen = <<>>
      /\ new.method = method /\ new.state = state
  BY MadeType
<1> HIDE DEF new
<1>3. /\ reqs' \in Seq(Request) /\ Len(reqs') = n /\ Len(reqs) \in Nat
      /\ DOMAIN reqs = 1..Len(reqs) /\ DOMAIN reqs' = 1..n
      /\ \A q \in DOMAIN reqs : reqs'[q] = reqs[q]
      /\ reqs'[n] = new
      /\ \A q \in DOMAIN reqs' : q \in DOMAIN reqs \/ q = n
  BY <1>0, <1>1, <1>2, AppendFacts DEF IInv, TypeOK
<1>4. bus \in Seq(BusCall) /\ n \in 1..MaxRequests /\ MaxRequests \in Nat
  BY <1>0, <1>1, <1>3, ReqsDomain DEF IInv, TypeOK, BusCall
<1>5. [req |-> n, call |-> call] \in BusCall
  BY <1>4 DEF BusCall
<1>6. /\ bus' \in Seq(BusCall) /\ DOMAIN bus = 1..Len(bus) /\ Len(bus) \in Nat
      /\ \A i \in DOMAIN bus : bus'[i] = bus[i]
      /\ bus'[Len(bus) + 1] = [req |-> n, call |-> call]
      /\ \A i \in DOMAIN bus' : i \in DOMAIN bus \/ i = Len(bus) + 1
  BY <1>1, <1>4, <1>5, AppendFacts
<1>7. /\ \A i \in DOMAIN bus : bus[i].req \in DOMAIN reqs
      /\ \A a \in acted : a.req \in DOMAIN reqs
      /\ n \notin DOMAIN reqs
  BY <1>0, <1>3 DEF IInv, TypeOK
<1>8. TypeOK'
  <2>1. \A q \in DOMAIN reqs' : Len(reqs'[q].seen) <= MAX_CALL_PARTIES
    <3>1. MAX_CALL_PARTIES \in Nat /\ Len(<<>>) = 0
      BY CallControlAssumption
    <3> QED
      BY <1>2, <1>3, <3>1 DEF IInv, TypeOK
  <2>2. \A i \in DOMAIN bus' : bus'[i].req \in DOMAIN reqs'
    <3>1. n \in DOMAIN reqs' /\ \A q \in DOMAIN reqs : q \in DOMAIN reqs'
      BY <1>0, <1>3
    <3> QED
      BY <1>6, <1>7, <3>1
  <2>3. Len(reqs') <= MaxRequests
    BY <1>3, <1>4
  <2>4. \A a \in acted' : a.req \in DOMAIN reqs'
    BY <1>1, <1>3, <1>7
  <2> QED
    BY <1>1, <1>3, <1>6, <2>1, <2>2, <2>3, <2>4 DEF IInv, TypeOK, BusCall
<1>9. EarlierRequestsSeen'
  <2> SUFFICES ASSUME NEW a \in acted', NEW r \in DOMAIN reqs',
                      a.req < r, a.made = "none", NEW i \in DOMAIN reqs'[r].seen
               PROVE  <<reqs'[r].seen[i].id, reqs'[r].seen[i].born>>
                        # <<a.id, a.born>>
    BY DEF EarlierRequestsSeen
  <2>1. r \in DOMAIN reqs
    BY <1>2, <1>3
  <2>2. reqs'[r] = reqs[r] /\ a \in acted /\ i \in DOMAIN reqs[r].seen
    BY <1>1, <1>3, <2>1
  <2>3. <<reqs[r].seen[i].id, reqs[r].seen[i].born>> # <<a.id, a.born>>
    BY <2>1, <2>2 DEF IInv, EarlierRequestsSeen
  <2> QED
    BY <2>2, <2>3
<1>10. LookUpIsLast'
  BY <1>1, <1>3 DEF LookUpIsLast, Blocked
<1>11. BusSorted'
  <2> SUFFICES ASSUME NEW i \in DOMAIN bus', NEW j \in DOMAIN bus', i < j
               PROVE  bus'[i].req <= bus'[j].req
    BY DEF BusSorted
  <2>1. i \in DOMAIN bus
    BY <1>6
  <2>2. CASE j \in DOMAIN bus
    BY <1>6, <2>1, <2>2 DEF IInv, BusSorted
  <2>3. CASE j = Len(bus) + 1
    BY <1>0, <1>3, <1>6, <1>7, <2>1, <2>3
  <2> QED
    BY <1>6, <2>2, <2>3
<1>12. SeenAfter'
  <2> SUFFICES ASSUME NEW r \in DOMAIN reqs', reqs'[r].seen # <<>>,
                      NEW i \in DOMAIN bus'
               PROVE  r <= bus'[i].req
    BY DEF SeenAfter
  <2>1. r \in DOMAIN reqs
    BY <1>2, <1>3
  <2> QED
    BY <1>3, <1>6, <2>1 DEF IInv, SeenAfter
<1>13. SeenBorn'
  <2> SUFFICES ASSUME NEW r \in DOMAIN reqs', NEW i \in DOMAIN reqs'[r].seen
               PROVE  reqs'[r].seen[i].born <= born'[reqs'[r].seen[i].id]
    BY DEF SeenBorn
  <2>1. r \in DOMAIN reqs
    BY <1>2, <1>3
  <2> QED
    BY <1>1, <1>3, <2>1 DEF IInv, SeenBorn
<1>14. \A q \in DOMAIN reqs : ForTheRinging(q) => ForTheRinging(q)'
  BY <1>3 DEF ForTheRinging
<1>15. SentForTheRinging'
  <2>1. call = "act" => ForTheRinging(n)'
    BY <1>2, <1>3 DEF ForTheRinging
  <2> QED
    BY <1>6, <1>7, <1>14, <2>1 DEF IInv, SentForTheRinging
<1>16. DoneForTheRinging'
  BY <1>1, <1>3, <1>7, <1>14 DEF IInv, DoneForTheRinging
<1>17. EndedIsGone'
  BY <1>1 DEF IInv, EndedIsGone
<1> QED
  BY <1>8, <1>9, <1>10, <1>11, <1>12, <1>13, <1>15, <1>16, <1>17 DEF IInv

LEMMA ClientKeeps ==
  ASSUME IInv, Client
  PROVE  IInv'
<1>1. \A method \in {"Answer", "Deflect"} :
        Ask(method, 0, "listing", "GetCalls") => IInv'
  BY AskKeeps DEF Method
<1>2. \A method \in Method \ {"Answer"} : \A target \in CallId \cup {0} :
        Ask(method, target, "pending", "act") => IInv'
  BY AskKeeps
<1> QED
  BY <1>1, <1>2
  DEF Client, Answer, Deflect, ReleaseSpecific, PrivateChat, AskOn, AskManager,
      Dial, ReleaseAll, Swap, ReleaseAndAnswer, ReleaseAndSwap, HoldAndAnswer,
      Transfer, CreateMultiparty, HangupMultiparty, SendTones, Method

LEMMA TargetFacts ==
  ASSUME IInv, NEW r \in DOMAIN reqs, Target(r) # 0
  PROVE  /\ Target(r) \in CallId
         /\ reqs[r].method = "Answer" =>
              /\ Len(reqs[r].seen) = 1
              /\ reqs[r].seen[1].status = "incoming"
              /\ reqs[r].seen[1].id = Target(r)
<1>1. reqs[r] \in Request
  BY ReqsDomain DEF IInv
<1>2. reqs[r].seen \in Seq(CallInfo)
  BY <1>1 DEF Request
<1>3. \A i \in DOMAIN reqs[r].seen : reqs[r].seen[i].id \in CallId
  <2>1. \A i \in DOMAIN reqs[r].seen : reqs[r].seen[i] \in CallInfo
    BY <1>2
  <2> QED
    BY <2>1 DEF CallInfo
<1>4. CASE reqs[r].method = "Answer"
  BY <1>2, <1>3, <1>4 DEF Target, AnswerTarget
<1>5. CASE reqs[r].method # "Answer"
  <2>1. /\ \E i \in DOMAIN reqs[r].seen : Deflectable(reqs[r].seen[i].status)
        /\ Target(r) = DeflectTarget(reqs[r].seen)
    BY <1>5 DEF Target, DeflectTarget
  <2> DEFINE First(i) ==
        /\ Deflectable(reqs[r].seen[i].status)
        /\ \A j \in 1..(i - 1) : ~Deflectable(reqs[r].seen[j].status)
  <2>2. First(1) /\ 1 \in DOMAIN reqs[r].seen
    BY <1>2, <2>1 DEF Deflectable
  <2>3. (CHOOSE i \in DOMAIN reqs[r].seen : First(i)) \in DOMAIN reqs[r].seen
    <3> HIDE DEF First
    <3> QED
      BY <2>2
  <2> QED
    BY <1>3, <1>5, <2>1, <2>3 DEF DeflectTarget
<1> QED
  BY <1>4, <1>5

LEMMA ActKeeps ==
  ASSUME IInv, NEW r \in DOMAIN reqs, Act(r)
  PROVE  IInv'
<1>1. /\ reqs[r].state = "listed" /\ r = Len(reqs)
      /\ DOMAIN reqs = 1..Len(reqs) /\ Len(reqs) \in Nat
      /\ r \in 1..MaxRequests /\ reqs[r] \in Request
  BY ReqsDomain DEF Act, IInv, LookUpIsLast
<1>2. PICK t : t = Target(r)
  OBVIOUS
<1>3. /\ t \in CallId
      /\ reqs[r].method = "Answer" =>
           /\ Len(reqs[r].seen) = 1
           /\ reqs[r].seen[1].status = "incoming"
           /\ reqs[r].seen[1].id = t
      /\ reqs' = [reqs EXCEPT ![r].state = "pending", ![r].target = t]
      /\ bus' = Append(bus, [req |-> r, call |-> "act"])
      /\ UNCHANGED <<calls, born, events, acted>>
  BY <1>2, TargetFacts DEF Act
<1>4. /\ reqs' \in Seq(Request) /\ DOMAIN reqs' = DOMAIN reqs
      /\ Len(reqs') = Len(reqs)
      /\ \A q \in DOMAIN reqs : q # r => reqs'[q] = reqs[q]
      /\ \A q \in DOMAIN reqs : /\ reqs'[q].seen = reqs[q].seen
                                /\ reqs'[q].method = reqs[q].method
      /\ reqs'[r].state = "pending" /\ reqs'[r].target = t
  <2>1. reqs'[r] = [reqs[r] EXCEPT !.state = "pending", !.target = t]
    BY <1>3 DEF IInv, TypeOK
  <2>2. /\ reqs'[r] \in Request /\ reqs'[r].seen = reqs[r].seen
        /\ reqs'[r].method = reqs[r].method
        /\ reqs'[r].state = "pending" /\ reqs'[r].target = t
    BY <1>1, <1>3, <2>1 DEF Request
  <2>3. /\ \A q \in DOMAIN reqs : q # r => reqs'[q] = reqs[q]
        /\ DOMAIN reqs' = DOMAIN reqs
    BY <1>3
  <2>4. reqs' \in [1..Len(reqs) -> Request]
    <3>1. \A q \in DOMAIN reqs : reqs'[q] \in Request
      BY <2>2, <2>3, ReqsDomain DEF IInv
    <3>2. reqs' = [q \in DOMAIN reqs |-> reqs'[q]]
      BY <1>3
    <3> QED
      BY <1>1, <3>1, <3>2
  <2>5. reqs' \in Seq(Request) /\ Len(reqs') = Len(reqs)
    BY <1>1, <2>3, <2>4
  <2> QED
    BY <2>2, <2>3, <2>5
<1>5. bus \in Seq(BusCall) /\ [req |-> r, call |-> "act"] \in BusCall
  BY <1>1 DEF IInv, TypeOK, BusCall
<1>6. /\ bus' \in Seq(BusCall) /\ DOMAIN bus = 1..Len(bus) /\ Len(bus) \in Nat
      /\ \A i \in DOMAIN bus : bus'[i] = bus[i]
      /\ bus'[Len(bus) + 1] = [req |-> r, call |-> "act"]
      /\ \A i \in DOMAIN bus' : i \in DOMAIN bus \/ i = Len(bus) + 1
  BY <1>3, <1>5, AppendFacts
<1>7. /\ \A i \in DOMAIN bus : bus[i].req \in DOMAIN reqs
      /\ \A a \in acted : a.req \in DOMAIN reqs
  BY DEF IInv, TypeOK
<1>8. \A i \in DOMAIN bus' : bus'[i].req \in DOMAIN reqs
  BY <1>6, <1>7
<1>9. TypeOK'
  <2>1. \A q \in DOMAIN reqs' : Len(reqs'[q].seen) <= MAX_CALL_PARTIES
    BY <1>4 DEF IInv, TypeOK
  <2>2. Len(reqs') <= MaxRequests
    BY <1>4 DEF IInv, TypeOK
  <2> QED
    BY <1>3, <1>4, <1>6, <1>7, <1>8, <2>1, <2>2 DEF IInv, TypeOK, BusCall
<1>10. EarlierRequestsSeen'
  <2> SUFFICES ASSUME NEW a \in acted', NEW q \in DOMAIN reqs',
                      a.req < q, a.made = "none", NEW i \in DOMAIN reqs'[q].seen
               PROVE  <<reqs'[q].seen[i].id, reqs'[q].seen[i].born>>
                        # <<a.id, a.born>>
    BY DEF EarlierRequestsSeen
  <2>1. reqs'[q].seen = reqs[q].seen /\ q \in DOMAIN reqs /\ a \in acted
    BY <1>3, <1>4
  <2>2. <<reqs[q].seen[i].id, reqs[q].seen[i].born>> # <<a.id, a.born>>
    BY <2>1 DEF IInv, EarlierRequestsSeen
  <2> QED
    BY <2>1, <2>2
<1>11. LookUpIsLast'
  BY <1>4 DEF IInv, LookUpIsLast
<1>12. BusSorted'
  <2> SUFFICES ASSUME NEW i \in DOMAIN bus', NEW j \in DOMAIN bus', i < j
               PROVE  bus'[i].req <= bus'[j].req
    BY DEF BusSorted
  <2>1. i \in DOMAIN bus
    BY <1>6
  <2>2. CASE j \in DOMAIN bus
    BY <1>6, <2>1, <2>2 DEF IInv, BusSorted
  <2>3. CASE j = Len(bus) + 1
    BY <1>1, <1>6, <1>7, <2>1, <2>3
  <2> QED
    BY <1>6, <2>2, <2>3
<1>13. SeenAfter'
  <2> SUFFICES ASSUME NEW q \in DOMAIN reqs, reqs[q].seen # <<>>,
                      NEW i \in DOMAIN bus'
               PROVE  q <= bus'[i].req
    BY <1>4 DEF SeenAfter
  <2>1. CASE i \in DOMAIN bus
    BY <1>6, <2>1 DEF IInv, SeenAfter
  <2>2. CASE i = Len(bus) + 1
    BY <1>1, <1>6, <2>2
  <2> QED
    BY <1>6, <2>1, <2>2
<1>14. SeenBorn'
  BY <1>3, <1>4 DEF IInv, SeenBorn
<1>15. /\ ~ForTheRinging(r)
       /\ \A q \in DOMAIN reqs : ForTheRinging(q) => ForTheRinging(q)'
  BY <1>1, <1>4 DEF ForTheRinging
<1>16. \A q \in {r} : ForTheRinging(q)'
  BY <1>3, <1>4 DEF ForTheRinging
<1>17. SentForTheRinging'
  <2> SUFFICES ASSUME NEW i \in DOMAIN bus', bus'[i].call = "act"
               PROVE  ForTheRinging(bus[i].req)'
    BY DEF SentForTheRinging
  <2>1. CASE i \in DOMAIN bus
    BY <1>6, <1>7, <1>15, <2>1 DEF IInv, SentForTheRinging
  <2>2. CASE i = Len(bus) + 1
    <3>1. bus'[i].req = r
      BY <1>6, <2>2
    <3> QED
      BY <1>3, <1>4, <3>1 DEF ForTheRinging
  <2> QED
    BY <1>6, <2>1, <2>2
<1>18. DoneForTheRinging'
  <2> SUFFICES ASSUME NEW a \in acted
               PROVE  /\ ForTheRinging(a.req)'
                      /\ reqs'[a.req].method = "Answer" =>
                           /\ a.id = reqs'[a.req].target
                           /\ reqs'[a.req].seen[1].born <= a.born
    BY <1>3 DEF DoneForTheRinging
  <2>1. a.req \in DOMAIN reqs /\ ForTheRinging(a.req)
    BY DEF IInv, TypeOK, DoneForTheRinging
  <2>2. a.req # r
    BY <1>15, <2>1
  <2> QED
    BY <1>4, <1>15, <2>1, <2>2 DEF IInv, DoneForTheRinging
<1>19. EndedIsGone'
  BY <1>3 DEF IInv, EndedIsGone
<1> QED
  BY <1>9, <1>10, <1>11, <1>12, <1>13, <1>14, <1>17, <1>18, <1>19 DEF IInv

LEMMA ListingType ==
  ASSUME IInv, NEW list \in Listings
  PROVE  /\ list \in Seq(CallInfo)
         /\ \A i \in DOMAIN list :
              /\ list[i].id \in Live
              /\ list[i].born = born[list[i].id]
<1>1. Live \subseteq CallId /\ IsFiniteSet(Live)
  BY CallControlAssumption, FS_Subset DEF Live
<1>2. PICK n \in Nat : n = Cardinality(Live)
  BY <1>1, FS_CardinalityType
<1>3. PICK p \in [1..n -> Live] :
        list = [i \in 1..n |->
                  [id |-> p[i], status |-> calls[p[i]], born |-> born[p[i]]]]
  BY <1>2 DEF Listings, Bijection, Injection, Surjection
<1>4. ASSUME NEW i \in 1..n
      PROVE  list[i] \in CallInfo /\ list[i].id \in Live
             /\ list[i].born = born[list[i].id]
  <2>1. p[i] \in Live /\ p[i] \in CallId
    BY <1>1, <1>3
  <2>2. calls[p[i]] \in Status /\ born[p[i]] \in Nat
    BY <2>1 DEF IInv, TypeOK, Live
  <2>3. list[i] = [id |-> p[i], status |-> calls[p[i]], born |-> born[p[i]]]
    BY <1>3
  <2> QED
    BY <2>1, <2>2, <2>3 DEF CallInfo
<1>5. DOMAIN list = 1..n /\ list = [i \in 1..n |-> list[i]]
  BY <1>3
<1>6. list \in [1..n -> CallInfo]
  BY <1>4, <1>5
<1> QED
  BY <1>4, <1>5, <1>6

\* A request that is given its list is a request.
LEMMA GivenSeen ==
  ASSUME NEW old \in Request, NEW seen \in Seq(CallInfo), NEW new,
         new = [old EXCEPT !.state = "listed", !.seen = seen]
  PROVE  new \in Request /\ new.seen = seen /\ new.state = "listed"
<1> DEFINE Lists == Seq(CallInfo)
<1>1. Request =
        [method : Method, seen : Lists, target : CallId \cup {0},
         state : {"listing", "listed", "dropped", "pending", "ok", "failed"},
         told : Nat, had : Nat, rang : CallId \cup {0}, stirred : BOOLEAN]
  BY DEF Request
<1>2. seen \in Lists
  OBVIOUS
<1> HIDE DEF Lists
<1> QED
  BY <1>1, <1>2

LEMMA SameLength ==
  ASSUME NEW S, NEW s \in Seq(S), NEW t,
         t = [i \in DOMAIN s |-> t[i]], \A i \in DOMAIN s : t[i] \in S
  PROVE  t \in Seq(S) /\ Len(t) = Len(s) /\ DOMAIN t = DOMAIN s
<1>1. DOMAIN s = 1..Len(s) /\ Len(s) \in Nat
  OBVIOUS
<1>2. t \in [1..Len(s) -> S]
  BY <1>1
<1>3. t \in Seq(S) /\ Len(t) = Len(s)
  BY <1>1, <1>2
<1> QED
  BY <1>3

LEMMA GetCallsKeeps ==
  ASSUME IInv, GetCalls
  PROVE  IInv'
<1>1. PICK r, list :
        /\ r = Head(bus).req /\ list \in Listings /\ Answers(r, Given(list))
        /\ bus # <<>> /\ bus' = Tail(bus)
        /\ UNCHANGED <<calls, born, events, acted>>
  BY DEF GetCalls
<1>2. /\ r \in DOMAIN reqs /\ r \in 1..MaxRequests
      /\ \A i \in DOMAIN bus : r <= bus[i].req
  BY <1>1, HeadFacts
<1>3. CASE reqs[r].state # "listing"
  <2>1. reqs' = reqs
    BY <1>1, <1>3 DEF Answers
  <2> QED
    BY <1>1, <2>1, AlikeRefl, QuietStepKeeps DEF IInv
<1>4. CASE reqs[r].state = "listing"
  <2>1. PICK seen : seen = Given(list)
    OBVIOUS
  <2>2. /\ seen \in Seq(CallInfo) /\ Len(seen) <= MAX_CALL_PARTIES
        /\ \A i \in DOMAIN seen : /\ seen[i].id \in Live
                                  /\ seen[i].born = born[seen[i].id]
    <3>1. /\ list \in Seq(CallInfo)
          /\ \A i \in DOMAIN list : /\ list[i].id \in Live
                                    /\ list[i].born = born[list[i].id]
      BY <1>1, ListingType
    <3>2. CASE Len(list) > MAX_CALL_PARTIES
      <4>1. seen = <<>> /\ Len(seen) = 0 /\ MAX_CALL_PARTIES \in Nat
        BY <2>1, <3>2, CallControlAssumption DEF Given
      <4> QED
        BY <4>1
    <3>3. CASE ~(Len(list) > MAX_CALL_PARTIES)
      <4>1. seen = list
        BY <2>1, <3>3 DEF Given
      <4>2. Len(list) \in Nat /\ MAX_CALL_PARTIES \in Nat
        BY <3>1, CallControlAssumption
      <4> QED
        BY <3>1, <3>3, <4>1, <4>2
    <3> QED
      BY <3>2, <3>3
  <2>3. /\ reqs' = [reqs EXCEPT ![r].state = "listed", ![r].seen = seen]
        /\ r = Len(reqs) /\ DOMAIN reqs = 1..Len(reqs) /\ Len(reqs) \in Nat
        /\ reqs[r] \in Request
    BY <1>1, <1>2, <1>4, <2>1, ReqsDomain DEF Answers, IInv, LookUpIsLast
  <2>4. /\ reqs' \in Seq(Request) /\ DOMAIN reqs' = DOMAIN reqs
        /\ Len(reqs') = Len(reqs)
        /\ \A q \in DOMAIN reqs : q # r => reqs'[q] = reqs[q]
        /\ reqs'[r].seen = seen /\ reqs'[r].state = "listed"
    <3>1. reqs'[r] = [reqs[r] EXCEPT !.state = "listed", !.seen = seen]
      BY <1>2, <2>3 DEF IInv, TypeOK
    <3>2. /\ reqs'[r] \in Request
          /\ reqs'[r].seen = seen /\ reqs'[r].state = "listed"
      <4>1. reqs[r] \in Request /\ seen \in Seq(CallInfo)
        BY <2>2, <2>3
      <4>2. \A old \in Request : \A new :
              new = [old EXCEPT !.state = "listed", !.seen = seen] =>
                new \in Request /\ new.seen = seen /\ new.state = "listed"
        BY <4>1, GivenSeen
      <4> QED
        BY <3>1, <4>1, <4>2, Zenon
    <3>3. /\ \A q \in DOMAIN reqs : q # r => reqs'[q] = reqs[q]
          /\ DOMAIN reqs' = DOMAIN reqs
          /\ reqs' = [q \in DOMAIN reqs |-> reqs'[q]]
      BY <2>3
    <3>4. \A q \in DOMAIN reqs : reqs'[q] \in Request
      BY <3>2, <3>3, ReqsDomain DEF IInv
    <3>5. reqs' \in Seq(Request) /\ Len(reqs') = Len(reqs)
      BY <3>3, <3>4, SameLength DEF IInv, TypeOK
    <3> QED
      BY <3>2, <3>3, <3>5
  <2>5. /\ bus' \in Seq(BusCall) /\ BusSorted'
        /\ \A i \in DOMAIN bus' :
             \E j \in DOMAIN bus : i <= j /\ bus'[i] = bus[j]
    BY <1>1, BusShrinks DEF BusSorted, BusCall
  <2>6. /\ \A i \in DOMAIN bus' : bus'[i].req \in DOMAIN reqs
        /\ \A i \in DOMAIN bus' : r <= bus'[i].req
        /\ \A a \in acted : a.req \in DOMAIN reqs
    BY <1>2, <2>5 DEF IInv, TypeOK
  <2>7. TypeOK'
    <3>1. \A q \in DOMAIN reqs' : Len(reqs'[q].seen) <= MAX_CALL_PARTIES
      BY <2>2, <2>4 DEF IInv, TypeOK
    <3>2. Len(reqs') <= MaxRequests
      BY <2>4 DEF IInv, TypeOK
    <3> QED
      BY <1>1, <2>4, <2>5, <2>6, <3>1, <3>2 DEF IInv, TypeOK, BusCall
  <2>8. EarlierRequestsSeen'
    <3> SUFFICES ASSUME NEW a \in acted', NEW q \in DOMAIN reqs',
                        a.req < q, a.made = "none", NEW i \in DOMAIN reqs'[q].seen
                 PROVE  <<reqs'[q].seen[i].id, reqs'[q].seen[i].born>>
                          # <<a.id, a.born>>
      BY DEF EarlierRequestsSeen
    <3>1. a \in acted /\ q \in DOMAIN reqs
      BY <1>1, <2>4
    <3>2. CASE q = r
      <4>1. i \in DOMAIN seen /\ reqs'[q].seen[i] = seen[i]
        BY <2>4, <3>2
      <4>2. seen[i].id \in Live /\ seen[i].born = born[seen[i].id]
        BY <2>2, <4>1
      <4>3. a.born < born[a.id] \/ calls[a.id] = "none"
        BY <3>1 DEF IInv, EndedIsGone
      <4>4. a.id \in CallId /\ a.born \in Nat /\ born[a.id] \in Nat
        BY <3>1 DEF IInv, TypeOK, Deed
      <4>5. a.id = seen[i].id => a.born < seen[i].born /\ seen[i].born \in Nat
        BY <4>2, <4>3, <4>4 DEF Live
      <4> QED
        BY <4>1, <4>4, <4>5
    <3>3. CASE q # r
      <4>1. reqs'[q].seen = reqs[q].seen
        BY <2>4, <3>1, <3>3
      <4>2. <<reqs[q].seen[i].id, reqs[q].seen[i].born>> # <<a.id, a.born>>
        BY <3>1, <4>1 DEF IInv, EarlierRequestsSeen
      <4> QED
        BY <4>1, <4>2
    <3> QED
      BY <3>2, <3>3
  <2>9. LookUpIsLast'
    BY <1>4, <2>4 DEF IInv, LookUpIsLast
  <2>10. SeenAfter'
    <3> SUFFICES ASSUME NEW q \in DOMAIN reqs, reqs'[q].seen # <<>>,
                        NEW i \in DOMAIN bus'
                 PROVE  q <= bus'[i].req
      BY <2>4 DEF SeenAfter
    <3>1. CASE q = r
      BY <2>6, <3>1
    <3>2. CASE q # r
      BY <2>4, <2>5, <3>2 DEF IInv, SeenAfter
    <3> QED
      BY <3>1, <3>2
  <2>11. SeenBorn'
    <3> SUFFICES ASSUME NEW q \in DOMAIN reqs', NEW i \in DOMAIN reqs'[q].seen
                 PROVE  reqs'[q].seen[i].born <= born'[reqs'[q].seen[i].id]
      BY DEF SeenBorn
    <3>1. CASE q = r
      <4>1. i \in DOMAIN seen /\ reqs'[q].seen[i] = seen[i] /\ born' = born
        BY <1>1, <2>4, <3>1
      <4>2. seen[i].born = born[seen[i].id] /\ born[seen[i].id] \in Nat
        BY <2>2, <4>1 DEF Live, IInv, TypeOK
      <4> QED
        BY <4>1, <4>2
    <3>2. CASE q # r
      BY <1>1, <2>4, <3>2 DEF IInv, SeenBorn
    <3> QED
      BY <3>1, <3>2
  <2>12. /\ ~ForTheRinging(r)
         /\ \A q \in DOMAIN reqs : ForTheRinging(q) => q # r /\ ForTheRinging(q)'
    BY <1>4, <2>4 DEF ForTheRinging
  <2>13. SentForTheRinging'
    BY <2>5, <2>12 DEF IInv, TypeOK, SentForTheRinging
  <2>14. DoneForTheRinging'
    BY <1>1, <2>4, <2>6, <2>12 DEF IInv, DoneForTheRinging
  <2>15. EndedIsGone'
    BY <1>1 DEF IInv, EndedIsGone
  <2> QED
    BY <2>5, <2>7, <2>8, <2>9, <2>10, <2>11, <2>13, <2>14, <2>15 DEF IInv
<1> QED
  BY <1>3, <1>4

LEMMA InitHolds ==
  ASSUME Init
  PROVE  IInv
<1>1. MaxRequests \in Nat /\ MaxEvents \in Nat
  BY CallControlAssumption DEF MaxRequests
<1>2. TypeOK
  BY <1>1 DEF Init, TypeOK
<1> QED
  BY <1>2 DEF Init, IInv, EarlierRequestsSeen, LookUpIsLast, BusSorted, SeenAfter,
              SeenBorn, SentForTheRinging, DoneForTheRinging, EndedIsGone

LEMMA NextKeeps ==
  ASSUME IInv, [Next]_vars
  PROVE  IInv'
<1>1. CASE \E c \in CallId : NewCall(c) \/ Move(c) \/ EndCall(c)
  BY <1>1, EventKeeps
<1>2. CASE Client
  BY <1>2, ClientKeeps
<1>3. CASE Library
  BY <1>3, ActKeeps, QuietKeeps DEF Library
<1>4. CASE Daemon
  BY <1>4, GetCallsKeeps, PerformKeeps, PerformDialKeeps, QuietKeeps DEF Daemon
<1>5. CASE Limits
  BY <1>5, QuietKeeps DEF Limits
<1>6. CASE UNCHANGED vars
  BY <1>6, QuietKeeps
<1> QED
  BY <1>1, <1>2, <1>3, <1>4, <1>5, <1>6 DEF Next

-----------------------------------------------------------------------------
\* The strengthening is an invariant.
THEOREM Invariance == Spec => []IInv
<1>1. Init => IInv
  BY InitHolds
<1>2. IInv /\ [Next]_vars => IInv'
  BY NextKeeps
<1> QED
  BY <1>1, <1>2, PTL DEF Spec

\* Whatever the daemon lists and however often the calls change, no list that
\* ofono_call_get_calls() gives a request overflows the caller's array, and
\* nothing is under way or done but for requests that were made.
THEOREM TypeCorrect == Spec => []TypeOK
<1>1. IInv => TypeOK
  BY DEF IInv
<1> QED
  BY <1>1, Invariance, PTL

\* ofono_call_answer() answers no call but the one it saw ringing alone, or a
\* later one that was given its id.
THEOREM AnswersCorrect == Spec => []AnswersOnlyTheRinging
<1>1. IInv => AnswersOnlyTheRinging
  BY DEF IInv, DoneForTheRinging, ForTheRinging, AnswersOnlyTheRinging
<1> QED
  BY <1>1, Invariance, PTL

\* A look-up lists no call that an earlier request of the same client ends,
\* whenever the daemon gets round to either.
THEOREM EarlierCorrect == Spec => []EarlierRequestsSeen
<1>1. IInv => EarlierRequestsSeen
  BY DEF IInv
<1> QED
  BY <1>1, Invariance, PTL

=============================================================================
