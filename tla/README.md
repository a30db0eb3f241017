# A TLA+ model of libofono

libofono is a C library that gives a client access to the telephony daemon
ofonod over D-Bus. It runs on one GLib main loop: signals and replies are
dispatched there one by one, and the client acts between two dispatches or
inside a callback the library calls. What can go wrong is rarely in one
function; it is in the order in which signals, replies, callbacks and the
client's own calls meet. The modules here model that, TLC checks them on small
instances, and TLAPS proves the invariants that carry the design for all
instances.

## Inventory

| Component | State | Operations | Meets | Correct when |
|---|---|---|---|---|
| Notification routing (`ofono-common.c`, handlers and `_subscribe_notification`) | none: a table | one or two bus subscriptions per notification, a filter per handler | ofonod's signals | a signal reaches the callbacks of the notification it was subscribed for, and only for the modem it is about |
| Notification registry (`ofono_register_notification_callback`, `ofono_unregister_notification_callback`, `_notify`, `ofono_modem_deinit`) | `modem->noti_list`, the callback list and watches of each record | register, unregister, walk, finalize | client callbacks run inside the walk and may change the lists | lists and bus subscriptions agree; user data is freed once; a walk calls each registered callback once |
| Modem cache (`ofono_modem_init`, `_modem_update_properties`, three signal handlers) | `powered`, `online`, `interfaces` of `struct ofono_modem` | initial query, updates by signals | signals that wait while the query blocks | the cache catches up with the daemon |
| SIM toolkit agent (`ofono-sat.c`) | the invocation slot, the registered object | daemon's commands, Cancel, Release; client's response | commands, cancels and answers cross | each answer reaches the command of its dialog, once; each command is answered |
| SIM and network status (`_sim_status_notify`, `_network_status_notify`, `ofono_sim_get_info`, `ofono_network_get_registration_info`) | none; reads the daemon, if the cached interfaces let it | re-read on a signal, notify what was read | signals that wait while a read blocks, the cache of interfaces, which lags | the client comes to know SIM and network; no failure makes a SIM look ready |
| Asynchronous requests (`common.h` macros, `common.c`) | one record per request under way | check, call, continue, call back | replies, errors, timeouts, finalizing the modem | the callback is called once; success means every step was accepted |
| Settings and queries (`ofono-ss.c`, `ofono-network.c`, `ofono-netmon.c`, `ofono-sms.c`, `ofono-connman.c`, `ofono-sim.c`, `ofono-modem.c`, `ofono-phonebook.c`, sound in `ofono-call.c`, menu in `ofono-sat.c`) | none; the daemon's properties | about seventy requests that set, ask or act | each other, through the daemon | a client reads what it has set; several steps are carried out in order |
| Voice calls, following (`_call_added_notify`, `_call_status_changed_notify`) | none; reads the daemon's calls | re-read a call on a signal, notify its status | calls that change or end before they are read | the client comes to know the calls and is told each end once |
| Voice calls, acting (`ofono-call.c`) | none | dial, answer, deflect, hang up, hold ... | calls that come, change and go between look-up and action, requests not carried out yet | the call acted on is the one meant; a look-up sees what earlier requests did |
| Push agent (`ofono-sms-agent.c`) | registration id, callback list | register with the daemon, hand on messages | interfaces notification, client callbacks | registered whenever the interface is there and somebody listens |
| Lifecycle (`ofono_init`, `ofono_deinit`, manager signals; `main()` of `test/main.c`) | `s_bus_conn`, manager watches, modems | connect, close, modem added and removed | modems that come and go while lists are asked for, modems that outlive the connection | no watch outlives what its handler points to; a client that follows the signals has a modem when ofonod has one |
| Conversions (`common.c`, parsing in every file) | none | strings and variants to enumerations and back | the requests above | what is set is told back as it was meant |
| Logging (`log.h`), menus of `test/` | - | - | - | read for usage, not modelled |

The hard behaviours are listed one by one, each at its line, under "hazards" in
`PROJECT.json`.

## Modules

| Module | Models | Used by |
|---|---|---|
| `NotificationTable` | the switch of `_subscribe_notification()` and the filter and routing of every handler, as pure operators | `Notifications` |
| `NotificationService` | what a list of callbacks promises: registrations and rounds, without lists and watches (abstract) | refined by `Notifications` and by `PushAgent` |
| `Notifications` | `modem->noti_list`, subscriptions, the walk of `_notify()`, the queue of signals | `MCNotifications`, `NotificationsProofs` |
| `ModemState` | the cache of `struct ofono_modem`, `ofono_modem_init()`, three handlers | `ModemStateProofs` |
| `SatAgent` | the agent object of `ofono-sat.c`, its slot, the daemon, the client's dialogs | `MCSatAgent`, `SatAgentProofs` |
| `RequestService` | what a client is promised about its requests: steps in order, one outcome, and what may still happen after a failure (abstract) | refined by `Requests` |
| `Requests` | any request as a plan of D-Bus calls, the bus, timeouts, the callback | `Settings`, `RequestsProofs` |
| `Settings` | every request of the API but those on calls: its plan, for its arguments; blocking reads; what reply handlers make of the answers | `MCRequests`, `RequestsProofs` |
| `Calls` | the handlers that notify call status, which re-read the call while the daemon goes on | `ViewsProofs` |
| `CallControl` | the requests on calls, with the look-ups of answering and deflecting, beside the daemon's calls | `MCCallControl`, `CallControlProofs` |
| `StatusViews` | the handlers that notify SIM and network status, which re-read it, and the cache of interfaces they ask | `ViewsProofs` |
| `PushAgent` | `ofono-sms-agent.c`, the daemon's push interface, and the cache of interfaces it asks | `PushAgentProofs` |
| `Lifecycle` | the connection, the manager's watches, the modems, and the program of `test/main.c` | `LifecycleProofs` |
| `...Proofs` | theorems and proofs | - |
| `MC...` | values for the constants | TLC |

`Settings` extends `Requests` and composes its actions with the plans and with
blocking. `Notifications` and `PushAgent` both refine `NotificationService`,
`Requests` and `Settings` refine `RequestService`, and `ViewsProofs` extends
`StatusViews` and `Calls`, whose names do not clash. The others stand beside
each other: what they share, the main loop and the bus, is in each of them as far
as it matters there.

### Notifications

`notiList` is the list of `struct ofono_noti_data`; a record has the
notification, its subscriptions (`watches`) and its callbacks. `subs` is what
is really subscribed on the bus. The two are written by different statements
of the code, and `SubscriptionsMatchLists` relates them. A cell is numbered by
the register call that made it, which stands for its address and for its user
data; the list order is the order of the numbers because the code appends.

`_notify()` is not one step: `DispatchNotify` calls the first callback,
`NotifyNext` the next one, `NotifyEnd` returns to the main loop. Between two of
them the client is inside its callback and may take any `Client` action. A
callback that frees its own cell leaves the walk on freed memory;
`NotifyDangling` lets it end or crash. `queue` holds the signals that the main
loop has not dispatched, each with the subscriptions it still goes to; GDBus
does not deliver to a subscription that was given up.

Registering is four actions, one for each path through
`ofono_register_notification_callback()`; `Unregister` and `Deinit` are the
other two operations. `NotificationTable` keeps one row for each subscription
with the interface, the member, the property names the handler looks at, and
the notification its `_notify()` names, which is not always the one it was
subscribed for.

### ModemState

The value of a property is the number of times the daemon changed it, so that
"newer" has a meaning. `ofono_modem_init()` is `Subscribe`, `Answer` or `Fail`
(the daemon's side of the blocking call), and `InitReturns`. Signals that
arrive in between wait in `wire`, with the handlers that are still to be told.
`Dispatch` runs one handler; the order in which handlers of one signal run is
left open.

### SatAgent

A command of the daemon is a number. `slot` is `agent->invocation`. The daemon
has one command in progress (`awaiting`), may `Cancel` it, `Release` the agent,
and ignores an answer it does not wait for. Each path of a handler is an
action: refused by GDBus, shown to the client, answered "go back" for want of a
callback, logged for want of a handler. `InitAgent` blocks in `RegisterAgent`;
the daemon takes the agent (`TakeAgent`) and may call it before the reply
arrives, and the call may fail although it was taken (`AgentFails`). `Ended` and
`Return` are the two halves of `_cancel()` and `_release()`, which forget the
invocation after the client's callback returns.

### Requests

A request is the sequence of its calls of the daemon (`plan`), each with the
properties it sets. `Ask` sends the first call, `Continue` the next one from the
reply handler, `Finish` calls the callback and frees the records, `Refuse` is
`CHECK_PARAMETERS`. The daemon works off `bus` in order and `written` is what it
carried out. A call may be carried out and still fail (`Accept` with "failed"),
or time out and be carried out later. `ContinueDangling` is the reply that finds
the modem freed. `before` and `told` are history variables: which requests were
over when one was made, and how often its callback was called.

`RequestService` has neither calls nor replies nor timeouts: requests with a
number of steps, a log of the steps carried out, and what each client was told.
Its point is what a failure means. The client that is told of one cannot know
whether the step under way will be carried out; the service says that no step
behind it will be, and that none at all is once a step of a request made in
knowledge of the failure was. `Asks` is the mapping: what a request may still
have carried out (`upto`) is what it has sent, once it is over.

### Settings

One operator for each function of the API that sends a call (`SetCallForward`,
`SetNetworkMode`, `GetContextInfo` ...) gives its plan for its arguments: the
interface and method, the property and the string that goes to the daemon, and
what the client meant by it (`meant`); for a read, the properties the reply
handler looks for (`tells`). The empty plan is a request that its checks
refuse. The conversions a read-back setting passes through are operators of
both directions (`NetworkModeString` and `NetworkModeTold`, `BarringValue` and
`BarringTold`). The parameter `has` of a blocking read is the answer of the
cached interfaces.

`SettingsNext` puts the requests of `Requests` under the order the client makes
them in (`Script`), blocks the client and the main loop while a synchronous call
waits (`Blocked`), and lets ofonod refuse what it does not know (`Known`).
`ReadsWhatWasSet` compares what a read tells, at the step it was carried out,
with what the last request before it meant.

`Setters`, `Getters` and `Doers` are the plans of all functions of the API for
all their arguments. The plans of a client are among them (`SettingsAssumption`),
and nothing else is assumed of it. `Text` is the strings a client may give; a
password and a PIN matter by their length.

### Calls

`_call_added_notify()` and `_call_status_changed_notify()` block in
`GetProperties` of the call. `Dispatch` starts the handler, `Answer` ends the
blocking call with the status the call has *then*, `Notify` calls the client.
The daemon may change, end, and re-create calls in between. For a property
other than `State` the local `status` is uninitialised (any value), and decides
whether the call is read at all. `doubt` and `farewell` are history variables.

### CallControl

`calls` and `born` are the daemon's: the status of each id, and how many calls
have had it, so that a call and a later one of the same id are told apart. The
network moves calls (`NewCall`, `Move`, `EndCall`). A request is a record that
goes through `Ask`, for answering and deflecting `GetCalls` and `Act` or `Drop`,
`Perform` or `Refuse` or `Timeout`, and `Finish`. `bus` is the one connection:
what was sent first is carried out first, the blocking look-up too, and this is
why a look-up sees what earlier requests have done (`EarlierRequestsSeen`).
`Given` is the array of `MAX_CALL_PARTIES`. `Drop` is the early return of
`ofono_call_answer()` that neither acts nor calls back; `MayDrop` says when it
may happen. `had`, `rang`, `stirred` and `acted` are history.

What a request does to calls (`Becomes`) is the daemon's, taken from the D-Bus
names of the methods; which request goes where, and when none goes, is the code's.

### StatusViews

The handlers of `Present`, `PinRequired`, `Retries`, `SubscriberIdentity` and of
every property of the registration but `Strength` read all of it again
(`DispatchReread`, `Answer`) and notify what they made of it (`Notify`). The
daemon goes on while a read blocks. Interfaces come and go (`ComeOrGo`) and are
announced later (`Announce`); the cache follows in the order of the main loop.
If the interface is not cached, or the read fails, the handler notifies the
structure as it was zeroed: an absent SIM, an unknown registration. `blind`
remembers that, and `spoken` which interfaces have said anything since they came.

### Lifecycle

`conn` is `s_bus_conn`: connections are numbered, 0 is NULL. `subs` holds what
is subscribed on any connection, also on a closed one, `watch` the two static
variables. `structs` has each `struct ofono_modem` ever made, `freed` those that
are finalized, `outlived` those that were not when the library was closed.
The client is `main()` of `test/main.c` and its `on_modems_changed()`, which asks
for the modems, blocking, three times in different places (`asked`, `resume`);
in addition it may finalize modems and close and reopen the library, in any
order. When it closes the library it gives up its modem (`gmodem`), as
`test_deinit()` does, but it may finalize any modem it ever made later: while the
library is closed, or open on a newer connection (`Finalize`). `blind` is history:
the program had no chance to know.

### PushAgent

The agent's state is three things written by different paths: the callback list
(`cells`), the object on the bus (`object`, the code's
`push_registration_id`), and the subscription to the interfaces (`watching`).
The daemon has two of its own, `iface` and `known`. `Register`, `Unregister` and
`Free` are the three API functions; `RegisterAgent` and `UnregisterAgent` block,
so each has a second action at their return (`AgentRegistered`, `AgentRefused`,
`AgentUnregistered`), and the daemon goes on in between. The handlers of one
`PropertyChanged` are one step, `DispatchInterfaces`: the cache is written, then
the agent is told, if its subscription was there when the signal arrived. A
message starts a walk of the callbacks (`DispatchPush`, `WalkNext`, `WalkEnd`),
during which the client acts inside a callback. The daemon forgets the agent
when the interface goes, which is why the code does not call `UnregisterAgent`
then. A callback that has its own cell freed (`WalkDangling`), a search for a
callback that is not in the list (`UnregisterUnknown`), and a freed agent whose
object or subscription is still there (`DispatchDangling`) may crash.

`missed` and `refused` are history variables. `refused` says that the last
attempt to tell the daemon failed: the code logs that and goes on as if it had
not. `missed` says that a change of the interfaces was waiting in the main loop
when the agent began to watch: `RegisteredWhenAvailable` leaves that case out;
the agent then stays unregistered until the interface goes and comes again.

## Runs and bounds

| Run | Question | Bounds | Result |
|---|---|---|---|
| `registry` | do lists, subscriptions and rounds stay in step while callbacks register, unregister and finalize inside a round? does the walk implement `NotificationService`? | 2 callbacks, 3 notifications (one without rows, one with two), 3 register calls, 2 signals | holds |
| `routing` | does each row of the table route to the callbacks it was subscribed for, and never from an unrelated modem? | every notification but class 0, 2 register calls, 1 signal out of all rows and origins | holds |
| `modem_state` | does the cache catch up with the daemon? | 4 changes | holds |
| `sat_agent` | does each answer reach its command, once, and each command get an answer? | 3 commands | holds |
| `sat_browser` | the same for `ConfirmLaunchBrowser` | 1 command | violated (finding) |
| `requests` | one callback, success only of the whole plan, no overtaken retry: is `RequestService` implemented? does a client read what it has set? | scripts of up to 3 requests: each setting set twice and read, overlapping requests of several steps, every other request before another | holds |
| `calls` | does the client come to know the calls? is it told each end? | 2 ids, 5 changes | holds |
| `call_control` | does a request act on the call it was meant for, and is it called back? | any request, then one that answers or hangs up; 3 ids, an array of 2, 3 changes by the network | holds |
| `sim_status` | does the client come to know SIM and network? | 4 changes of SIM, registration, interfaces and other properties | holds |
| `push_agent` | is the agent registered exactly while there is an interface and a listener? does a message reach every callback? | 2 callbacks, 3 register calls, 3 changes and messages | holds |
| `lifecycle` | do watches match what they point to? has the program a modem when the daemon has one? | 2 paths, 4 signals, 2 connections | holds |
| `deflect` | is the call deflected a ringing one? | as `call_control` | violated (finding) |

The bounds count external events, never the library's own steps. Three register
calls are the fewest in which a round has a callback behind the one that
unregisters and another one is added; two signals let one wait while the other
is served. Four changes let one be older than the answer of `GetProperties`,
one newer, and the others arrive later. Three commands let an answer cross a Cancel and
the next command arrive while the dialog of the first is open. Two requests of
several steps interleave on the bus in every way, and a third reads what they
left; the safety properties of `Requests` and `Settings` are proved for any
number, any plans and any arguments. The strings given are two and the empty
one, enough to tell two settings from each other and from none. Three ids
and an array of two let `GetCalls` overflow; two requests let the first be under
way while the second looks the calls up; three changes let the call that rang
end and its id be given to another. Four changes of the SIM let it be unlocked,
tell its retries and its IMSI and be taken out, or its interface go and come
back, while a read blocks. Two connections let a modem of the first be
finalized on the second, and four signals a modem be added and removed in the
gap between list and subscription. Five changes let
a call be announced, end, and be replaced by another of the same id before the
first handler has read it. Three events of the push daemon are an interface
that goes and comes back and a message. `CHECK_DEADLOCK` is off because a bounded run
ends when its events are used up, and the system rests.

No symmetry is used: the longest runs, `call_control` and `requests`, take about a minute each,
and liveness is checked in most.

## Fairness

* The main loop (`MainLoop`, `Library`, `Dispatch \/ Return`) is weakly fair:
  GLib dispatches what waits, and client callbacks return.
* Blocking calls and requests end: GDBus has a timeout for each (25 s by
  default, 120 s in `ofono_set_property()`). So `Answer \/ Fail` is fair,
  `Timeout(r)` for every request of `Requests`, `Limits` in `CallControl`
  (look-ups that fail, requests that time out), and the returns of
  `RegisterAgent` and `UnregisterAgent` in `PushAgent` and `SatAgent`. In
  `Settings` the main loop does not run while a read blocks, and `Timeout` ends
  the read.
* In `SatAgent` the client answers the dialogs that stay open, and an answer
  that was sent arrives. Cancel, Release and finalizing are never forced.
* The daemon is never forced to do anything else, and clients need not act.

## Proofs

Every theorem is about all values of the constants. The assumptions are the
named ones on constants (bounds are natural numbers, plans are finite
sequences, requests are calls of the API), which TLC evaluates in the runs.

`NotificationsProofs`: `TypeCorrect`, `SubscriptionsCorrect`, `RegistryCorrect`,
`FreesCorrect`, and `Refinement` (`Spec => ServiceSpec`). The invariant `IInv`
adds to the checked invariants that cells carry distinct numbers of calls that
answered TRUE (`CellsNumbered`) and that the walk has called exactly the cells up
to its cursor (`WalkOnTrack`). Without the first, a new cell might collide with a
freed one; without the second, the end of the list does not imply that everyone
was called. `ForeignCorrect` and `RoutedCorrect` follow a signal from the bus to
the round: what waits matches those of its subscriptions that still exist, and
no later subscription takes the identifier of one it waits for (`QueueMatched`);
that each row of the table names its own notification is a lemma over the table
(`RowsRouted`). `RoutedCorrect` assumes that class-0 messages are not among the
notifications (see "Findings").

`ModemStateProofs`: `TypeCorrect`, `CacheCorrect`, `NeverGoesBack`. For each
property, what the daemon has now is the last waiting signal, or else the answer
not yet copied, or else the cache. For `NeverGoesBack` the waiting signals of a
property are sorted by version (`Sorted`), none is ahead of the daemon
(`NotAhead`), and once the old ones are gone, none is older than the cache
(`NewerThanCache`).

`RequestsProofs`, for any set of plans and any number of requests:
`CallbackCorrect`, `SuccessCorrect`, `OrderCorrect`, `RetryCorrect`. None of the
properties is inductive alone. The bus holds at most the latest call of each
request, and none of a request whose latest call succeeded (`BusHoldsLatest`);
a step that was carried out is not on the bus (`WrittenWasSent`); every step
before the latest was carried out (`SentWasWritten`); and no call on the bus
behind a call of `r` is of a request that was over when `r` was made
(`OrderKept`). The last is kept because a request that is over sends nothing.

`Refinement` (`Spec => ServiceSpec`) follows from the same invariant: a call
that is carried out is the next step of its request by `SentWasWritten` and
`WrittenWasSent`, and does not come behind a retry by `OrderKept`; answers,
timeouts, and steps that are sent change nothing the client knows.
`SettingsRefinement` says the same of the functions of the API, and
`RequestsCorrect` states the other properties of the specification that the run
checks. For both, every step of a client that may block is a step of one that
may not, or the crash of `GetContextsFails`.

`SettingsCorrect` (`SettingsSpec => []ReadsWhatWasSet`) has two halves. The first
is about the API, function by function (`SettersAsMeant`, `GettersAsMeant`,
`DoersAsMeant`): what a function sets under a property that is read is turned
back, by the reply handler of the function that reads it, into what the client
meant (`AsMeant`). The exceptions are stated: what no function reads (`Unread`),
forwarding switched off with a number (`OffWithNumber`), and what ofonod refuses
(`Known`), which is why barring needs no inverse here. The second half is about
order. The setter that was over before the reader began was carried out
(`SuccessMeansAll`), before the reader (`RetryNotOvertaken`); what is read was set
by the last step behind or at that one, whose request was not over when the
setter began, again by `RetryNotOvertaken`. `SettingsInv` adds to `IInv` that
calls are of steps of their plans (`StepsExist`), that what was carried out is
known (`WrittenIsKnown`), and that no request is over before itself.

`PushAgentProofs`: `TypeCorrect`, `WatchesCorrect`, `AvailableCorrect`,
`Refinement`. The subscription and the object are made and given up by different
functions with a blocking call in between; no signal that waits for a live agent
was accepted without the agent watching (`ToldWhileWatching`), so the handler
cannot make the object after the last callback has gone. For `AvailableCorrect`
the change of the interface is followed: the last one that waits tells the
truth, and when none waits the cache does (`CacheRight`); an agent that is told
of one change is told of all behind it (`ToldInOrder`); it has an object when it
knows of the interface (`ObjectFollows`); and an object the daemon does not know
of is one whose end is announced already (`ObjectKnown`). The refinement is
shown as in `NotificationsProofs`.

`CallControlProofs`: `TypeCorrect`, `AnswersCorrect`, `EarlierCorrect`. The bus
is one ordered connection (`BusSorted`), and a look-up, for which the client
blocks, is the last thing on it (`LookUpIsLast`): when it is answered, all that
was asked before was carried out. What a request to answer has seen is bound to
the call by its count (`SeenBorn`, `SentForTheRinging`), because its id may be
another call's by the time it is carried out.

`ViewsProofs`, of `StatusViews`: `TypeCorrect`, `ViewCorrect`, `ReadyCorrect`. Each
interface that has spoken since it came will be read again, is being read, or is
known (`Heard`); and what was made of a read that told nothing is the zeroed
structure (`BlindIsZeroed`).

`ViewsProofs`, of `Calls`: `CallsTypeCorrect`, `CallsCorrect`, `EndsCorrect`. The
last signal that waits for an id says what its call is now (`LastSaysNow`); if
none waits, the handler that runs was started by such a signal, and has read the
status the call has now, or failed to (`ReaderSaysNow`). That ids are used again
does no harm because a signal for the new call is behind those for the old one.
`EveryEndTold` counts: the ends that wait, are handled and were told are those
that happened, for which a handler must not read a call that is gone and report
its end too (`ReaderShaped`), and only a change of the state carries a status
(`SignalsShaped`).

`LifecycleProofs`: `TypeCorrect`, `WatchesCorrect`, `ProgramCorrect`,
`HandlersSafe`. A modem in use that was made since the library was last closed
is on the open connection (`MadeHere`), the program is connected wherever it
subscribes (`Connected`), and a subscription is one of the manager's or of a
modem that was made (`SubsShaped`). `HandlersSafe`, which no run states, says
that a property handler meets freed memory only if a modem was finalized after
its library had been closed. `ProgramCorrect` rests on the order of what waits:
if no modem is left, a removal is behind every addition (`RemovedLast`), and for
each difference between what the program has and what there is, a signal waits
or a question is under way (`HearsOfLoss`, `HearsOfGain`).

`SatAgentProofs`: `TypeCorrect`, `AnsweredOnceCorrect`,
`AnswersReachTheirCommands`. What waits from the daemon is ordered
(`InboxSorted`), and the slot holds nothing that was answered
(`SlotUnanswered`). That an answer reaches the command it was meant for needs
that one dialog is open at a time (`OneShown`) and that a command behind the one
in the slot was preceded by a Cancel (`CancelledBetween`), whose handler asks the
client to close the dialog. It assumes that the client supplies a cancel
callback: without one the slot may hold the next command while the client still
answers the last.

Only model-checked: liveness (`WaitingSignalServed`, `CacheCatchesUp`,
`CommandAnswered`, `RequestEnds` of requests and of calls, `CallsCatchUp`,
`RegistersInTheEnd`, `RingingAnswered`), since the prover does not treat
fairness. Every invariant and every action property that a run expects
to hold is proved.

## Findings

Two runs end in a counterexample on purpose; each says where code and header
part (see "findings" in `PROJECT.json`). `deflect`: `ofono_call_deflect()` takes
the first call of any status. `sat_browser`: the command `ConfirmLaunchBrowser`
cannot be answered.

The other disagreements met while modelling have no run of their own. The
modules have the code's behaviour, and a property that it breaks leaves the case
out by name.

Notifications and the modem:

* Class-0 messages are given to the callbacks of normal ones
  (`ofono-common.c:965`). The run `routing` has no class-0 notification.
* A modem whose path begins with another's passes the prefix test
  (`ofono-common.c:717`); origin `sibling` in `NotificationTable`.
* A callback registered twice is accepted, but the user data of the second call
  is neither kept nor released (`ofono-common.c:1552`, `RegisterDuplicate`).
* A modem that is switched off announces `Powered` and then `Online`, so that it
  is notified last as offline, which `ofono-modem.h:38` defines as "offline
  (power on)" (`ofono-common.c:536`).
* `ofono_modem_init()` reads a flag it did not set (`ofono-common.c:284`).
* `ofono_get_modems()` without a connection reads the message of no error
  (`ofono-common.c:137`, `StartFails`).

Calls, SIM and network:

* The status of a call is tested and notified uninitialised when another
  property changes (`ofono-common.c:740`, `doubt` in `Calls`).
* A SIM or network that could not be read is notified as absent or unknown, and
  an interface that goes is not notified (`blind` in `StatusViews`).
* The early returns of answering and deflecting neither call back nor free
  (`ofono-call.c:172`, `MayDrop`).
* A mode of the network that was not in the answer is read uninitialised and
  freed (`ofono-network.c:382`); so are the fields of a cell that were not told
  (`ofono-netmon.c:84`), the iterators of the neighbour cells are freed once too
  often (`:135`), and "umts" is told as 2G (`:34`).

Settings:

* Barring is asked of the interface `CallSettings` (`ofono-ss.c:492`), and
  switching off BOIC switches it on (`:438`).
* CLIR "disabled" falls through to the next case (`:678`).
* Forwarding that is switched off with a number stays on (`:330`,
  `OffWithNumber`).
* `ofono_connman_get_contexts()` takes a failed answer apart
  (`ofono-connman.c:429`, `GetContextsFails`).

Agents and program:

* The push agent misses a change that was waiting when it began to watch
  (`missed`).
* The program keeps a removed modem while others remain (`test/main.c:108`).

## Not modelled

* Payloads: texts, numbers, times and strings are abstracted to what a
  property tells apart. The string tables that no setting or status passes
  through, and the parsing of lists of messages, operators, cells and calls, are
  formatting without a property.
* `log.h`: output only.
* Of `test/`, the menus: they are a list of calls of the API. Their thread uses
  the library beside the main loop; the library has no locks and does not claim
  to support that.
* What ofonod does with a request is its own. `Becomes` of `CallControl` and the
  refusals of `Known` in `Settings` are taken from the names of the methods.

## Plan

Done: the registry and its table, the modem cache, the agents, requests and
settings, calls followed and acted on, status of SIM and network, the lifecycle;
all their invariants and action properties are proved, and three refinements.

Left, in this order:

1. `CallControl` as a refinement of `RequestService`: it needs a record of what
   was carried out, which the deeds on calls are not (tones leave none).
2. `CallControl` with the handlers of `Calls` beside it: the look-up blocks the
   main loop that would notify.
3. `Requests` for several clients of one connection, whose settings meet.
