------------------------------- MODULE Calls -------------------------------
(***************************************************************************)
(* How a client of OFONO_NOTI_CALL_STATUS_CHANGED follows the calls.       *)
(* ofonod announces a new call by CallAdded and each change of a property  *)
(* by PropertyChanged. _call_added_notify() and                            *)
(* _call_status_changed_notify() do not pass on what the signal says: they *)
(* block in GetProperties of the call, which by then may have changed,     *)
(* ended, or been replaced by another call of the same id, and notify a    *)
(* status that is read from the call or taken from the signal.             *)
(*                                                                         *)
(* While a handler blocks no other signal is dispatched, but the daemon    *)
(* goes on. Only the status of a call is modelled; the other properties    *)
(* matter because their changes are announced too.                         *)
(*                                                                         *)
(* Names that module StatusViews has too, which follows SIM and network by *)
(* handlers of the same kind, are told apart by a `Call`.                  *)
(***************************************************************************)
EXTENDS Naturals, Sequences, FiniteSets

CONSTANTS CallId,    \* the ids ofonod gives to calls
          MaxEvents  \* bound: changes of calls

ASSUME CallsAssumption == MaxEvents \in Nat

VARIABLES calls,    \* the calls, in the daemon
          events,   \* how many times the daemon changed one
          ended,    \* how many calls have ended, for each id
          signals,  \* signals waiting for the main loop, oldest first
          reader,   \* the handler that runs
          told,     \* the status last notified, for each id
          doubt,    \* whether the status last notified was read or announced,
                    \* "unread" or "unset"
          farewell  \* how often an announced end was notified, for each id

callVars == <<calls, events, ended, signals, reader, told, doubt, farewell>>

callDaemon == <<calls, events, ended, signals>>

\* enum ofono_call_status. CALL_STATUS_ACTIVE is 0.
Status ==
  {"active", "held", "dialing", "alerting", "incoming", "waiting",
   "disconnected"}

ZeroedStatus == "active"

Live == Status \ {"disconnected"}

\* A signal about a call: CallAdded, PropertyChanged of the state, which
\* carries it, or of another property.
CallSignal == [id : CallId, kind : {"added", "state", "other"},
               status : Status \cup {"none"}]

\* A handler blocked in GetProperties: the signal it runs for, the status it
\* has so far, and the answer.
Reader == [sig : CallSignal, status : Status \cup {"none"},
           answer : Status \cup {"none", "failed"}]

NoReader == [id |-> "none"]

CallsInit ==
  /\ calls = [i \in CallId |-> "none"]
  /\ events = 0
  /\ ended = [i \in CallId |-> 0]
  /\ signals = <<>>
  /\ reader = NoReader
  /\ told = [i \in CallId |-> "none"]
  /\ doubt = [i \in CallId |-> "none"]
  /\ farewell = [i \in CallId |-> 0]

-----------------------------------------------------------------------------
(***************************************************************************)
(* The daemon                                                              *)
(***************************************************************************)

AnnounceCall(id, kind, status) ==
  /\ events < MaxEvents
  /\ events' = events + 1
  /\ signals' = Append(signals, [id |-> id, kind |-> kind, status |-> status])
  /\ UNCHANGED <<reader, told, doubt, farewell>>

\* A call comes in, waits beside another one, or is dialled.
NewCall(id) ==
  /\ calls[id] = "none"
  /\ \E s \in {"incoming", "waiting", "dialing"} :
       /\ s = "incoming" => \A i \in CallId : calls[i] = "none"
       /\ s = "waiting" => \E i \in CallId : calls[i] # "none"
       /\ calls' = [calls EXCEPT ![id] = s]
  /\ AnnounceCall(id, "added", "none")
  /\ UNCHANGED ended

\* What a status may become.
After(s) ==
  CASE s = "dialing"  -> {"alerting", "active"}
    [] s = "alerting" -> {"active"}
    [] s = "incoming" -> {"active"}
    [] s = "waiting"  -> {"active", "incoming"}
    [] s = "active"   -> {"held"}
    [] s = "held"     -> {"active"}

ChangeState(id) ==
  /\ calls[id] # "none"
  /\ \E s \in After(calls[id]) :
       /\ calls' = [calls EXCEPT ![id] = s]
       /\ AnnounceCall(id, "state", s)
  /\ UNCHANGED ended

EndCall(id) ==
  /\ calls[id] # "none"
  /\ calls' = [calls EXCEPT ![id] = "none"]
  /\ ended' = [ended EXCEPT ![id] = @ + 1]
  /\ AnnounceCall(id, "state", "disconnected")

ChangeCall(id) ==
  /\ calls[id] # "none"
  /\ AnnounceCall(id, "other", "none")
  /\ UNCHANGED <<calls, ended>>

\* GetProperties is answered, or fails: the call is gone, the daemon does not
\* answer in time, or the cached interfaces lack the one for calls.
AnswerCall ==
  /\ reader # NoReader
  /\ reader.answer = "none"
  /\ \E answer \in {calls[reader.sig.id], "failed"} \ {"none"} :
       reader' = [reader EXCEPT !.answer = answer]
  /\ UNCHANGED <<callDaemon, told, doubt, farewell>>

-----------------------------------------------------------------------------
(***************************************************************************)
(* The signal handlers                                                     *)
(***************************************************************************)

\* The status a handler goes on with. That of PropertyChanged for another
\* property is never set: it holds whatever the stack held.
FromSignal(sig) ==
  CASE sig.kind = "state" -> {sig.status}
    [] sig.kind = "added" -> {"none"}
    [] sig.kind = "other" -> Status

\* ofono_call_get_call_info() is called, unless the call is known to be gone.
DispatchCall ==
  /\ reader = NoReader
  /\ signals # <<>>
  /\ signals' = Tail(signals)
  /\ \E s \in FromSignal(Head(signals)) :
       reader' = [sig |-> Head(signals), status |-> s,
                  answer |-> IF s = "disconnected" THEN "failed" ELSE "none"]
  /\ UNCHANGED <<calls, events, ended, told, doubt, farewell>>

\* Faulty variant of Notified: the announced status is not put back over the
\* one that was read.
NotifiedReadOnly(h) == IF h.answer = "failed" THEN ZeroedStatus ELSE h.answer

\* The status that is notified: for a new call the one read, which is still
\* zeroed if reading failed, else the one the handler went on with.
Notified(h) ==
  IF h.sig.kind # "added" THEN h.status
  ELSE IF h.answer = "failed" THEN ZeroedStatus ELSE h.answer

\* What is wrong with it, if it was neither read nor announced.
Doubt(h) ==
  CASE h.sig.kind = "other" -> "unset"
    [] h.sig.kind = "added" /\ h.answer = "failed" -> "unread"
    [] OTHER -> "none"

\* Faulty variant of NotifyCall: nothing is notified when reading fails.
NotifyCallKnown ==
  /\ reader # NoReader
  /\ reader.answer # "none"
  /\ reader' = NoReader
  /\ told' = IF reader.answer = "failed" THEN told
             ELSE [told EXCEPT ![reader.sig.id] = Notified(reader)]
  /\ doubt' = [doubt EXCEPT ![reader.sig.id] = "none"]
  /\ UNCHANGED <<callDaemon, farewell>>

\* _notify() calls the client's callback.
NotifyCall ==
  /\ reader # NoReader
  /\ reader.answer # "none"
  /\ reader' = NoReader
  /\ told' = [told EXCEPT ![reader.sig.id] = Notified(reader)]
  /\ doubt' = [doubt EXCEPT ![reader.sig.id] = Doubt(reader)]
  /\ farewell' = IF Notified(reader) = "disconnected" /\ Doubt(reader) = "none"
                   THEN [farewell EXCEPT ![reader.sig.id] = @ + 1]
                   ELSE farewell
  /\ UNCHANGED callDaemon

CallsNext ==
  \/ \E id \in CallId :
       NewCall(id) \/ ChangeState(id) \/ EndCall(id) \/ ChangeCall(id)
  \/ AnswerCall \/ DispatchCall \/ NotifyCall

CallsSpec == CallsInit /\ [][CallsNext]_callVars

\* The main loop runs, and a synchronous call ends.
FairCallsSpec == CallsSpec /\ WF_callVars(AnswerCall \/ DispatchCall \/ NotifyCall)

-----------------------------------------------------------------------------
(***************************************************************************)
(* Properties                                                              *)
(***************************************************************************)

CallsTypeOK ==
  /\ calls \in [CallId -> Live \cup {"none"}]
  /\ events \in 0..MaxEvents
  /\ ended \in [CallId -> Nat]
  /\ signals \in Seq(CallSignal)
  /\ reader \in Reader \cup {NoReader}
  /\ told \in [CallId -> Status \cup {"none"}]
  /\ doubt \in [CallId -> {"none", "unread", "unset"}]
  /\ farewell \in [CallId -> Nat]

\* Nothing about call `id` waits to be notified.
CallQuiet(id) ==
  /\ \A k \in DOMAIN signals : signals[k].id # id
  /\ reader # NoReader => reader.sig.id # id

\* What a client should know of the call that has `id` now.
Right(id) ==
  IF calls[id] = "none" THEN told[id] \in {"none", "disconnected"}
                        ELSE told[id] = calls[id]

\* A client that has been told everything about an id knows the call that has
\* it now, or that the last one is gone: not an earlier status of the call,
\* and not the status of another call that had the id before. Left out are
\* the statuses in doubt; the next announced one heals them.
CallsConverge ==
  \A id \in CallId : CallQuiet(id) /\ doubt[id] = "none" => Right(id)

\* The ends of calls `id` that wait among `sigs`.
EndsIn(sigs, id) ==
  {k \in DOMAIN sigs : sigs[k].id = id /\ sigs[k].status = "disconnected"}

\* The handler that runs does so for the end of a call `id`.
EndHandled(id) ==
  /\ reader # NoReader
  /\ reader.sig.id = id /\ reader.sig.status = "disconnected"

\* The end of a call is notified once, also of a call that was gone before its
\* arrival was handled: the calls that ended are those whose end was notified
\* and those whose end still waits.
EveryEndTold ==
  \A id \in CallId :
    ended[id] = farewell[id] + Cardinality(EndsIn(signals, id))
                  + (IF EndHandled(id) THEN 1 ELSE 0)

\* A call that has ended is not taken for a live one for good: when the daemon
\* rests, the client comes to know the calls as they are, unless the last it
\* was told is in doubt.
CallsCatchUp ==
  <>[](\A id \in CallId : Right(id) \/ (CallQuiet(id) /\ doubt[id] # "none"))

=============================================================================
