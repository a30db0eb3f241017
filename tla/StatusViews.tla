---------------------------- MODULE StatusViews ----------------------------
(***************************************************************************)
(* How a client of OFONO_NOTI_SIM_STATUS_CHANGED and                       *)
(* OFONO_NOTI_REGISTRATION_STATUS_CHANGED follows the SIM and the network. *)
(* Like the handlers of calls (module Calls), _sim_status_notify() and     *)
(* _network_status_notify() do not pass on what the signal says: they call *)
(* ofono_sim_get_info() and ofono_network_get_registration_info(), which   *)
(* block in GetProperties, and notify what they made of the answer, or a   *)
(* zeroed structure if there was none.                                     *)
(*                                                                         *)
(* Both ask only if the cached interfaces of the modem have the one to     *)
(* ask. ofonod announces its interfaces by a signal of the modem, on a way *)
(* of its own: it may come after the first signals of the interface.       *)
(*                                                                         *)
(* Of a SIM is kept what its status depends on: whether it is present,     *)
(* wants a PIN, has told its retries, and has told its IMSI.               *)
(***************************************************************************)
EXTENDS Naturals, Sequences, FiniteSets

CONSTANT MaxChanges  \* bound: changes in the daemon

ASSUME StatusViewsAssumption == MaxChanges \in Nat

VARIABLES ifaces,    \* the interfaces the daemon has
          announced, \* those it has last announced
          sim,       \* the SIM, in the daemon
          network,   \* the registration, in the daemon
          changes,   \* how many times the daemon changed one of these
          wire,      \* signals waiting for the main loop, oldest first
          cache,     \* the interfaces, in struct ofono_modem
          handler,   \* the handler that runs
          view,      \* the status last notified, for each subject
          blind,     \* the subjects last notified without having been read
          spoken     \* those announced since their interface came

vars == <<ifaces, announced, sim, network, changes, wire, cache, handler, view,
          blind, spoken>>

daemon == <<ifaces, announced, sim, network, changes>>

client == <<view, blind, spoken>>

Subject == {"sim", "network"}

Sim == [present : BOOLEAN, locked : BOOLEAN, retries : BOOLEAN, imsi : BOOLEAN]

NoSim == [present |-> FALSE, locked |-> FALSE, retries |-> FALSE, imsi |-> FALSE]

NewSim(locked) ==
  [present |-> TRUE, locked |-> locked, retries |-> FALSE, imsi |-> FALSE]

\* What ofonod calls the states of registration.
Registration ==
  {"unregistered", "registered", "searching", "denied", "roaming", "unknown"}

SimState == {"absent", "locked", "initializing", "ready"}

RegistrationState ==
  {"not_registered", "home", "searching", "denied", "roaming", "unknown"}

\* Properties of the two interfaces; "Other" is any that no handler names.
KeysOf(subject) ==
  IF subject = "sim"
    THEN {"Present", "PinRequired", "Retries", "SubscriberIdentity", "Other"}
    ELSE {"Status", "Strength", "Other"}

-----------------------------------------------------------------------------
(***************************************************************************)
(* What the library makes of an answer                                     *)
(***************************************************************************)

\* Faulty variant of SimStatus: a SIM is ready once its retries are known.
SimStatusEager(s) ==
  CASE ~s.present -> "absent"
    [] s.present /\ s.locked -> "locked"
    [] s.present /\ ~s.locked /\ s.retries -> "ready"
    [] OTHER -> "initializing"

\* The end of ofono_sim_get_info().
SimStatus(s) ==
  CASE ~s.present -> "absent"
    [] s.present /\ s.locked -> "locked"
    [] s.present /\ ~s.locked /\ s.retries /\ s.imsi -> "ready"
    [] OTHER -> "initializing"

\* _str_to_registaration_status()
RegistrationStatus(r) ==
  CASE r = "unregistered" -> "not_registered"
    [] r = "registered" -> "home"
    [] r = "searching" -> "searching"
    [] r = "denied" -> "denied"
    [] r = "roaming" -> "roaming"
    [] OTHER -> "unknown"

\* The status in the structure before the answer is copied into it: the value
\* 0 of the one enumeration, set for the other.
Zeroed(subject) == IF subject = "sim" THEN "absent" ELSE "unknown"

\* Faulty variant of Reread: the locks of the SIM are left out.
RereadUnlocked(subject) ==
  IF subject = "sim" THEN {"Present", "Retries", "SubscriberIdentity"}
                     ELSE {"Status", "Other"}

\* The properties whose change makes the handler read and notify.
Reread(subject) ==
  IF subject = "sim"
    THEN {"Present", "PinRequired", "Retries", "SubscriberIdentity"}
    ELSE {"Status", "Other"}

\* What the library makes of the properties GetProperties tells now.
StatusNow(subject) ==
  IF subject = "sim" THEN SimStatus(sim) ELSE RegistrationStatus(network)

StatusesOf(subject) == IF subject = "sim" THEN SimState ELSE RegistrationState

\* A signal: the change of a property, or of the interfaces of the modem.
Signal == [subject : Subject, key : KeysOf("sim") \cup KeysOf("network")]
            \cup [ifaces : SUBSET Subject]

IsChange(sig) == "key" \in DOMAIN sig

NoHandler == [subject |-> "none"]

NoAnswer == "none"

Failed == "failed"

\* The modem has been initialised and the callbacks are registered.
Init ==
  /\ ifaces \in SUBSET Subject
  /\ announced = ifaces
  /\ sim = NoSim
  /\ network = "unregistered"
  /\ changes = 0
  /\ wire = <<>>
  /\ cache = ifaces
  /\ handler = NoHandler
  /\ view = [s \in Subject |-> "none"]
  /\ blind = {}
  /\ spoken = {}

-----------------------------------------------------------------------------
(***************************************************************************)
(* The daemon                                                              *)
(***************************************************************************)

Changes ==
  /\ changes < MaxChanges
  /\ changes' = changes + 1
  /\ UNCHANGED <<announced, cache, handler, view, blind>>

Say(subject, key) ==
  /\ subject \in ifaces
  /\ wire' = Append(wire, [subject |-> subject, key |-> key])
  /\ spoken' = IF key \in {"Strength", "Other"} THEN spoken
                                                ELSE spoken \cup {subject}
  /\ UNCHANGED ifaces

\* A SIM is inserted, with or without a lock, or taken out.
InsertOrRemove ==
  /\ Changes
  /\ \E locked \in BOOLEAN :
       sim' = IF sim.present THEN NoSim ELSE NewSim(locked)
  /\ Say("sim", "Present")
  /\ UNCHANGED network

\* A SIM is unlocked or locked, tells its retries, or its IMSI.
Proceed ==
  /\ Changes
  /\ sim.present
  /\ \/ /\ sim' = [sim EXCEPT !.locked = ~@]
        /\ Say("sim", "PinRequired")
     \/ /\ ~sim.retries
        /\ sim' = [sim EXCEPT !.retries = TRUE]
        /\ Say("sim", "Retries")
     \/ /\ ~sim.locked /\ ~sim.imsi
        /\ sim' = [sim EXCEPT !.imsi = TRUE]
        /\ Say("sim", "SubscriberIdentity")
  /\ UNCHANGED network

Register ==
  /\ Changes
  /\ network' \in Registration \ {network}
  /\ Say("network", "Status")
  /\ UNCHANGED sim

\* A property no status depends on.
ChangeOther(subject, key) ==
  /\ Changes
  /\ key \in KeysOf(subject) \cap {"Strength", "Other"}
  /\ Say(subject, key)
  /\ UNCHANGED <<sim, network>>

\* An interface comes, with nothing known, or goes, as when the modem is
\* switched on or off. What was said of it before says nothing any more.
ComeOrGo(subject) ==
  /\ Changes
  /\ ifaces' = IF subject \in ifaces THEN ifaces \ {subject}
                                     ELSE ifaces \cup {subject}
  /\ sim' = IF subject = "sim" THEN NoSim ELSE sim
  /\ network' = IF subject = "network" THEN "unregistered" ELSE network
  /\ spoken' = spoken \ {subject}
  /\ UNCHANGED wire

\* The modem announces its interfaces.
Announce ==
  /\ announced # ifaces
  /\ announced' = ifaces
  /\ wire' = Append(wire, [ifaces |-> ifaces])
  /\ UNCHANGED <<ifaces, sim, network, changes, cache, handler, client>>

\* GetProperties is answered, or fails: the interface is gone, or the daemon
\* does not answer in time.
Answer ==
  /\ handler # NoHandler
  /\ handler.answer = NoAnswer
  /\ \/ /\ handler.subject \in ifaces
        /\ handler' = [handler EXCEPT !.answer = StatusNow(handler.subject)]
     \/ handler' = [handler EXCEPT !.answer = Failed]
  /\ UNCHANGED <<daemon, wire, cache, client>>

-----------------------------------------------------------------------------
(***************************************************************************)
(* The signal handlers                                                     *)
(***************************************************************************)

MainLoopRuns ==
  /\ handler = NoHandler
  /\ wire # <<>>
  /\ wire' = Tail(wire)
  /\ UNCHANGED <<daemon, client>>

\* The interfaces are copied into the cache (module ModemState).
DispatchInterfaces ==
  /\ MainLoopRuns
  /\ ~IsChange(Head(wire))
  /\ cache' = Head(wire).ifaces
  /\ UNCHANGED handler

\* A handler asks for the properties, unless the interface is not cached.
DispatchReread ==
  /\ MainLoopRuns
  /\ IsChange(Head(wire))
  /\ Head(wire).key \in Reread(Head(wire).subject)
  /\ handler' = [subject |-> Head(wire).subject,
                 answer |-> IF Head(wire).subject \in cache THEN NoAnswer
                                                            ELSE Failed]
  /\ UNCHANGED cache

\* The property is none of the handler's.
DispatchIgnored ==
  /\ MainLoopRuns
  /\ IsChange(Head(wire))
  /\ Head(wire).key \notin Reread(Head(wire).subject)
  /\ UNCHANGED <<cache, handler>>

\* Faulty variant of Notify: the structure of the last time is notified again
\* when reading fails.
NotifyLast ==
  /\ handler # NoHandler
  /\ handler.answer # NoAnswer
  /\ handler' = NoHandler
  /\ view' = [view EXCEPT ![handler.subject] =
                IF handler.answer = Failed THEN @
                ELSE handler.answer]
  /\ blind' = blind \ {handler.subject}
  /\ UNCHANGED <<daemon, wire, cache, spoken>>

\* _notify() calls the client's callback, whether or not reading failed.
Notify ==
  /\ handler # NoHandler
  /\ handler.answer # NoAnswer
  /\ handler' = NoHandler
  /\ view' = [view EXCEPT ![handler.subject] =
                IF handler.answer = Failed THEN Zeroed(handler.subject)
                ELSE handler.answer]
  /\ blind' = IF handler.answer = Failed THEN blind \cup {handler.subject}
                                         ELSE blind \ {handler.subject}
  /\ UNCHANGED <<daemon, wire, cache, spoken>>

Daemon ==
  \/ InsertOrRemove
  \/ Proceed
  \/ Register
  \/ \E s \in Subject :
       ComeOrGo(s) \/ \E key \in {"Strength", "Other"} : ChangeOther(s, key)

Library ==
  DispatchInterfaces \/ DispatchReread \/ DispatchIgnored \/ Notify

Next == Daemon \/ Announce \/ Answer \/ Library

Spec == Init /\ [][Next]_vars

-----------------------------------------------------------------------------
(***************************************************************************)
(* Properties                                                              *)
(***************************************************************************)

TypeOK ==
  /\ ifaces \subseteq Subject
  /\ announced \subseteq Subject
  /\ sim \in Sim
  /\ network \in Registration
  /\ changes \in 0..MaxChanges
  /\ wire \in Seq(Signal)
  /\ cache \subseteq Subject
  /\ handler \in {NoHandler} \cup
       UNION {[subject : {s}, answer : StatusesOf(s) \cup {NoAnswer, Failed}] :
              s \in Subject}
  /\ view \in [Subject -> SimState \cup RegistrationState \cup {"none"}]
  /\ \A s \in Subject : view[s] \in StatusesOf(s) \cup {"none"}
  /\ blind \subseteq Subject
  /\ spoken \subseteq Subject

\* Nothing about the subject waits to be notified.
Quiet(subject) ==
  /\ \A i \in DOMAIN wire : IsChange(wire[i]) => wire[i].subject # subject
  /\ handler.subject # subject

\* A client that has been told everything of a SIM or of the network knows it
\* as it is: each handler reads after its signal was sent, so what the last of
\* them reads is never older than the last change, however many changes one
\* reading swallows. Left out are a reading that failed or was not tried for
\* want of a cached interface (blind), and an interface that has come or gone
\* without a signal of its own since (spoken): nobody notifies that.
ViewConverges ==
  \A s \in spoken \cap ifaces :
    Quiet(s) /\ s \notin blind => view[s] = StatusNow(s)

\* No failure makes a SIM look better than it is: a client that has been told
\* everything and believes the SIM to be ready has one that is there, is not
\* locked, and has told its IMSI, "pending the SIM ready notification till
\* IMSI has been obtained". A reading that failed needs no exception.
ReadyMeansUsable ==
  "sim" \in spoken \cap ifaces /\ Quiet("sim") /\ view["sim"] = "ready" =>
    sim.present /\ ~sim.locked /\ sim.imsi

=============================================================================
