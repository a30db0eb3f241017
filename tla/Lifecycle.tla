----------------------------- MODULE Lifecycle -----------------------------
(***************************************************************************)
(* The life of the library and of its modems: the connection s_bus_conn,   *)
(* made by ofono_init() and closed by ofono_deinit(); the two watches on   *)
(* the manager behind ofono_set_modems_changed_callback(); and the         *)
(* struct ofono_modem that ofono_modem_init() makes, with the watch each   *)
(* keeps on the connection it was made on.                                 *)
(*                                                                         *)
(* The client is the test program: main() lists the modems, initialises    *)
(* one, and then listens for modems added and removed. As the library      *)
(* allows, it may also finalize modems, close the library and start again, *)
(* in any order. It gives up its modem when it closes the library, as      *)
(* test_deinit() does, but may keep the pointer and finalize it at any     *)
(* later time, also when the library is open again.                        *)
(*                                                                         *)
(* ofono_get_modems() blocks: the daemon goes on, and signals wait for the *)
(* main loop. What a modem caches is the matter of module ModemState.      *)
(***************************************************************************)
EXTENDS Naturals, Sequences, FiniteSets

CONSTANTS Path,        \* object paths of modems
          MaxEvents,   \* bound: signals of the daemon
          MaxSessions  \* bound: connections made

ASSUME LifecycleAssumption == MaxEvents \in Nat /\ MaxSessions \in Nat

VARIABLES modems,   \* the modems the daemon has
          events,   \* how many signals it has sent
          wire,     \* signals waiting for the main loop, oldest first
          sessions, \* connections made so far, which are numbered
          conn,     \* s_bus_conn, 0 for NULL
          subs,     \* what is subscribed, on open and closed connections
          watch,    \* s_modem_added_watch, s_modem_removed_watch: the
                    \* connection each was subscribed on, 0 for none
          callback, \* whether s_modems_changed_cb is set
          structs,  \* each struct ofono_modem ever made
          freed,    \* those of them that are finalized
          outlived, \* those that were not when the library was closed
          gmodem,   \* g_modem of the program, 0 for NULL
          pc,       \* where the program is
          asked,    \* whether ofono_get_modems() waits for its answer
          listed,   \* what it has answered
          wanted,   \* the path given to ofono_modem_init()
          resume,   \* where the program goes on when that returns
          blind     \* whether the program had no chance to follow

daemon == <<modems, events, wire>>

library == <<sessions, conn, subs, watch, callback, structs, freed, outlived>>

asking == <<asked, listed>>

vars == <<daemon, library, gmodem, pc, asking, wanted, resume, blind>>

Manager == {"added", "removed"}

Sub == [conn : Nat, kind : Manager \cup {"property"}, owner : Nat]

\* A signal, with the subscriptions it was sent to.
SignalOf(k) ==
  [kind : {k}, path : Path, to : SUBSET [conn : Nat, kind : {k}, owner : Nat]]

Signal == SignalOf("added") \cup SignalOf("removed") \cup SignalOf("property")

Init ==
  /\ modems \in SUBSET Path
  /\ events = 0
  /\ wire = <<>>
  /\ sessions = 0
  /\ conn = 0
  /\ subs = {}
  /\ watch = [k \in Manager |-> 0]
  /\ callback = FALSE
  /\ structs = <<>>
  /\ freed = {}
  /\ outlived = {}
  /\ gmodem = 0
  /\ pc = "off"
  /\ asked = FALSE
  /\ listed = {}
  /\ wanted \in Path
  /\ resume = "loop"
  /\ blind = FALSE

-----------------------------------------------------------------------------
(***************************************************************************)
(* The daemon                                                              *)
(***************************************************************************)

\* A signal goes to the subscriptions on the open connection.
Send(kind, path) ==
  LET to == {s \in subs : /\ s.conn = conn
                          /\ s.kind = kind
                          /\ kind = "property" => structs[s.owner].path = path}
  IN /\ events < MaxEvents
     /\ events' = events + 1
     /\ wire' = IF to = {} THEN wire
                ELSE Append(wire, [kind |-> kind, path |-> path, to |-> to])
     /\ UNCHANGED <<library, gmodem, pc, asking, wanted, resume>>

\* The program has listed the modems and does not listen yet.
InTheGap ==
  \/ pc = "list" /\ ~asked
  \/ pc = "choose" /\ resume = "watch"
  \/ pc = "watch"

AddOrRemove(p) ==
  /\ modems' = IF p \in modems THEN modems \ {p} ELSE modems \cup {p}
  /\ Send(IF p \in modems THEN "removed" ELSE "added", p)
  /\ blind' = (blind \/ InTheGap)

ChangeProperty(p) ==
  /\ p \in modems
  /\ Send("property", p)
  /\ UNCHANGED <<modems, blind>>

\* GetModems is answered, or fails: then the list is empty too.
Answer ==
  /\ asked
  /\ asked' = FALSE
  /\ \/ listed' = modems /\ UNCHANGED blind
     \/ listed' = {} /\ blind' = TRUE
  /\ UNCHANGED <<daemon, library, gmodem, pc, wanted, resume>>

-----------------------------------------------------------------------------
(***************************************************************************)
(* Operations of the library                                               *)
(***************************************************************************)

PropertyWatch(m) == [conn |-> structs[m].conn, kind |-> "property", owner |-> m]

ManagerWatch(k, c) == [conn |-> c, kind |-> k, owner |-> 0]

\* ofono_modem_init() makes a modem of the path it was given.
Make ==
  LET m == Len(structs) + 1
  IN /\ structs' = Append(structs, [path |-> wanted, conn |-> conn])
     /\ subs' = subs \cup {[conn |-> conn, kind |-> "property", owner |-> m]}
     /\ gmodem' = m
     /\ UNCHANGED <<sessions, conn, watch, callback, freed, outlived>>

\* Faulty variant of FreeModem: the modem's own watch is forgotten.
FreeModemWatched(m) ==
  /\ freed' = freed \cup {m}
  /\ UNCHANGED <<sessions, conn, subs, watch, callback, structs, outlived>>

\* ofono_modem_deinit() unsubscribes from s_bus_conn, where the watch is found
\* only if the modem was made on that connection.
FreeModem(m) ==
  /\ freed' = freed \cup {m}
  /\ subs' = IF structs[m].conn = conn THEN subs \ {PropertyWatch(m)} ELSE subs
  /\ UNCHANGED <<sessions, conn, watch, callback, structs, outlived>>

\* ofono_set_modems_changed_callback() subscribes what is not subscribed.
SetCallback ==
  LET New == {k \in Manager : watch[k] = 0}
  IN /\ callback' = TRUE
     /\ watch' = [k \in Manager |-> IF k \in New THEN conn ELSE watch[k]]
     /\ subs' = subs \cup {ManagerWatch(k, conn) : k \in New}
     /\ UNCHANGED <<sessions, conn, structs, freed, outlived>>

\* Faulty variant of Unwatched: the variables keep the numbers of the watches.
StillWatched == watch

\* What ofono_deinit() leaves of the manager's watches.
Unwatched == [k \in Manager |-> 0]

\* ofono_deinit() keeps the callback, and does not look for modems.
Deinit ==
  /\ subs' = subs \ {ManagerWatch(k, watch[k]) : k \in Manager}
  /\ watch' = Unwatched
  /\ conn' = 0
  /\ outlived' = outlived \cup (DOMAIN structs \ freed)
  /\ UNCHANGED <<sessions, callback, structs, freed>>

AskModems == asked' = TRUE /\ UNCHANGED listed

-----------------------------------------------------------------------------
(***************************************************************************)
(* The program                                                             *)
(***************************************************************************)

\* main() connects, and lists the modems.
Start ==
  /\ pc = "off" /\ conn = 0
  /\ sessions < MaxSessions
  /\ sessions' = sessions + 1
  /\ conn' = sessions'
  /\ pc' = "list"
  /\ AskModems
  /\ blind' = FALSE
  /\ UNCHANGED <<daemon, subs, watch, callback, structs, freed, outlived,
                 gmodem, wanted, resume>>

\* ofono_init() fails; main() does not look, and ofono_get_modems() reads the
\* message of an error that was never set.
StartFails ==
  /\ pc = "off" /\ conn = 0
  /\ pc' = "crashed"
  /\ UNCHANGED <<daemon, library, gmodem, asking, wanted, resume, blind>>

\* The first modem of the list is initialised.
ListReturns ==
  /\ pc = "list" /\ ~asked
  /\ IF listed = {} THEN pc' = "watch" /\ UNCHANGED <<asking, wanted, resume>>
     ELSE /\ wanted' \in listed
          /\ resume' = "watch"
          /\ pc' = "choose"
          /\ AskModems
  /\ UNCHANGED <<daemon, library, gmodem, blind>>

\* ofono_modem_init() has its own list. A path that is not on it is found or
\* not as the uninitialised variable has it.
InitReturns ==
  /\ pc = "choose" /\ ~asked
  /\ \/ /\ listed # {}
        /\ Make
        /\ blind' = (blind /\ resume = "watch")
     \/ /\ wanted \notin listed
        /\ UNCHANGED <<library, gmodem, blind>>
  /\ pc' = resume
  /\ UNCHANGED <<daemon, asking, wanted, resume>>

\* main() listens, and enters the main loop.
Listen ==
  /\ pc = "watch"
  /\ SetCallback
  /\ pc' = "loop"
  /\ UNCHANGED <<daemon, gmodem, asking, wanted, resume, blind>>

\* The main loop takes the oldest signal; what it is delivered to of the
\* subscriptions it was sent to are those still there.
MainLoopRuns(kind) ==
  /\ pc \in {"loop", "off"}
  /\ wire # <<>>
  /\ Head(wire).kind = kind
  /\ wire' = Tail(wire)
  /\ UNCHANGED <<modems, events>>

Delivered == Head(wire).to \cap subs

\* on_modems_changed() takes a modem if the program has none.
OnModemAdded ==
  /\ MainLoopRuns("added")
  /\ IF Delivered # {} /\ callback /\ gmodem = 0
       THEN /\ wanted' = Head(wire).path
            /\ resume' = "loop"
            /\ pc' = "choose"
            /\ AskModems
       ELSE UNCHANGED <<wanted, resume, pc, asking>>
  /\ UNCHANGED <<library, gmodem, blind>>

\* When a modem is gone, on_modems_changed() lists those that are left.
OnModemRemoved ==
  /\ MainLoopRuns("removed")
  /\ IF Delivered # {} /\ callback
       THEN pc' = "recount" /\ AskModems
       ELSE UNCHANGED <<pc, asking>>
  /\ UNCHANGED <<library, gmodem, wanted, resume, blind>>

\* Faulty variant of RecountReturns: the program's modem is taken for the one
\* that was removed.
RecountReturnsAlways ==
  /\ pc = "recount" /\ ~asked
  /\ IF gmodem # 0 THEN FreeModem(gmodem) /\ gmodem' = 0
                   ELSE UNCHANGED <<library, gmodem>>
  /\ pc' = "loop"
  /\ UNCHANGED <<daemon, asking, wanted, resume, blind>>

\* If none is left, the program's modem is finalized, if it has one.
RecountReturns ==
  /\ pc = "recount" /\ ~asked
  /\ IF listed = {} /\ gmodem # 0 THEN FreeModem(gmodem) /\ gmodem' = 0
                                  ELSE UNCHANGED <<library, gmodem>>
  /\ pc' = "loop"
  /\ UNCHANGED <<daemon, asking, wanted, resume, blind>>

\* A handler of PropertyChanged writes to its modem; if that is freed, the
\* program may crash.
OnPropertyChanged ==
  /\ MainLoopRuns("property")
  /\ pc' \in IF \E s \in Delivered : s.owner \in freed THEN {pc, "crashed"}
                                                       ELSE {pc}
  /\ UNCHANGED <<library, gmodem, asking, wanted, resume, blind>>

\* The client is done with a modem: the one it has, or one it kept from before
\* it closed the library.
Finalize(m) ==
  /\ pc \in {"loop", "off"}
  /\ m \notin freed
  /\ FreeModem(m)
  /\ gmodem' = IF m = gmodem THEN 0 ELSE gmodem
  /\ blind' = (blind \/ m = gmodem)
  /\ UNCHANGED <<daemon, pc, asking, wanted, resume>>

\* The client closes the library, and has no modem then.
Close ==
  /\ pc = "loop"
  /\ Deinit
  /\ gmodem' = 0
  /\ pc' = "off"
  /\ UNCHANGED <<daemon, asking, wanted, resume, blind>>

Daemon == (\E p \in Path : AddOrRemove(p) \/ ChangeProperty(p)) \/ Answer

Program ==
  \/ Start \/ StartFails \/ ListReturns \/ InitReturns \/ Listen
  \/ OnModemAdded \/ OnModemRemoved \/ RecountReturns \/ OnPropertyChanged
  \/ (\E m \in DOMAIN structs : Finalize(m)) \/ Close

Next == Daemon \/ Program

Spec == Init /\ [][Next]_vars

-----------------------------------------------------------------------------
(***************************************************************************)
(* Properties                                                              *)
(***************************************************************************)

TypeOK ==
  /\ modems \subseteq Path
  /\ events \in 0..MaxEvents
  /\ wire \in Seq(Signal)
  /\ sessions \in 0..MaxSessions
  /\ conn \in {0, sessions}
  /\ subs \subseteq Sub
  /\ watch \in [Manager -> Nat]
  /\ callback \in BOOLEAN
  /\ structs \in Seq([path : Path, conn : Nat])
  /\ freed \subseteq DOMAIN structs
  /\ outlived \subseteq DOMAIN structs
  /\ gmodem \in {0} \cup DOMAIN structs
  /\ pc \in {"off", "list", "choose", "watch", "loop", "recount", "crashed"}
  /\ asked \in BOOLEAN
  /\ listed \subseteq Path
  /\ wanted \in Path
  /\ resume \in {"loop", "watch"}
  /\ blind \in BOOLEAN

\* No watch outlives what its handler points to, and none is kept in mind that
\* is no longer subscribed. The manager's watches are those of the open
\* connection, so that a client that starts again listens again. A modem that
\* is not finalized has its watch. A finalized one has none, unless the
\* library was closed before it: its watch is then looked for on a connection
\* that is not there, or on a newer one, where it is not, and a signal that
\* waited when the library was closed reaches freed memory.
WatchesMatch ==
  /\ \A k \in Manager :
       watch[k] # 0 => watch[k] = conn /\ ManagerWatch(k, conn) \in subs
  /\ \A s \in subs : s.kind \in Manager => watch[s.kind] = s.conn
  /\ \A m \in DOMAIN structs \ freed : PropertyWatch(m) \in subs
  /\ \A m \in freed \ outlived : PropertyWatch(m) \notin subs

\* Once it has handled what waits, the program has a modem if and only if
\* ofonod has one, also after it has closed the library and started again, and
\* although each handler lists the modems anew, at a later time than its
\* signal. Left out are a list that failed, a modem the client finalized
\* itself, and modems that come or go after main() has listed them and before
\* it listens.
ProgramFollows ==
  pc = "loop" /\ ~blind
      /\ (\A i \in DOMAIN wire : wire[i].kind = "property") =>
    (gmodem # 0 <=> modems # {})

=============================================================================
