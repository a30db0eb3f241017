----------------------------- MODULE SatAgent -----------------------------
(***************************************************************************)
(* The SIM toolkit agent: ofonod calls the methods of an object libofono   *)
(* exports, the agent stores the method invocation in its single slot and  *)
(* calls the client's callback, and the client answers later through       *)
(* ofono_sat_send_response(), which answers whatever the slot holds.       *)
(*                                                                         *)
(* ofonod has one command in progress at a time. It gives one up by        *)
(* calling Cancel, which crosses with the answer, and gives the agent up   *)
(* by calling Release. Calls reach the agent in order; GDBus refuses by    *)
(* itself a method that the introspection data does not declare and a call *)
(* for an object that is not registered any more.                          *)
(*                                                                         *)
(* The client opens a dialog for each command its callback is called with, *)
(* answers each dialog at most once, and closes them all in its cancel and *)
(* release callbacks. Answers may be given inside a callback or later. The *)
(* content of commands and answers is abstracted away.                     *)
(***************************************************************************)
EXTENDS Naturals, Sequences

CONSTANTS Method,      \* the commands the daemon calls
          Supplied,    \* the callbacks of sat_agent_callbacks that are set
          MaxRequests  \* bound: commands

ASSUME SatAssumption ==
  /\ MaxRequests \in Nat
  /\ Method \cap {"Cancel", "Release"} = {}

VARIABLES agent,     \* "none"; while RegisterAgent blocks "offered" and, when
                     \* the daemon has taken it, "taken"; then "registered"
                     \* or "failed"; "freed"
          slot,      \* agent->invocation: the number of a command, or 0
          pc,        \* the main loop: "idle", in a callback, "crashed"
          dialogs,   \* the commands the client is showing
          inbox,     \* method calls waiting for the main loop
          sent,      \* the commands the daemon has called
          awaiting,  \* the command it waits for, or 0
          known,     \* whether the daemon has the agent
          replies    \* the answers sent: to which command, given by the
                     \* client in which dialog (0: by the library)

vars == <<agent, slot, pc, dialogs, inbox, sent, awaiting, known, replies>>

daemon == <<sent, awaiting, known>>

Request == 1..MaxRequests

-----------------------------------------------------------------------------
(***************************************************************************)
(* The tables of the agent                                                 *)
(***************************************************************************)

\* The commands introspection_xml declares.
Declared ==
  {"DisplayText", "RequestSelection", "RequestInput", "RequestDigits",
   "RequestKey", "RequestDigit", "RequestQuickDigit", "RequestConformation",
   "ConfirmCallSetup", "PlayTone", "LoopTone", "DisplayActionInformation",
   "ConfirmLaunchBrowser", "DisplayAction", "ConfirmOpenChannel"}

\* The commands of agent_methods, each with the callback its handler calls.
Callback ==
  [ DisplayText              |-> "display_text",
    RequestSelection         |-> "request_selection",
    RequestInput             |-> "request_input",
    RequestDigits            |-> "request_input",
    RequestKey               |-> "request_key",
    RequestDigit             |-> "request_key",
    RequestQuickDigit        |-> "request_key",
    RequestConfirmation      |-> "request_key",
    ConfirmCallSetup         |-> "request_key",
    ConfirmOpenChannel       |-> "request_key",
    PlayTone                 |-> "play_tone",
    LoopTone                 |-> "play_tone",
    DisplayActionInformation |-> "display_action_information",
    ConfirmLaunchBrowser     |-> "confirm_launch_browser",
    DisplayAction            |-> "display_action" ]

\* Whether the handler of `m` stores the invocation it was called with.
Stores(m) == m # "ConfirmLaunchBrowser"

-----------------------------------------------------------------------------
Init ==
  /\ agent = "none"
  /\ slot = 0
  /\ pc = "idle"
  /\ dialogs = {}
  /\ inbox = <<>>
  /\ sent = <<>>
  /\ awaiting = 0
  /\ known = FALSE
  /\ replies = <<>>

-----------------------------------------------------------------------------
(***************************************************************************)
(* The daemon                                                              *)
(***************************************************************************)

Call(m) ==
  /\ known
  /\ awaiting = 0
  /\ Len(sent) < MaxRequests
  /\ sent' = Append(sent, m)
  /\ awaiting' = Len(sent')
  /\ inbox' = Append(inbox, [method |-> m, id |-> Len(sent')])
  /\ UNCHANGED <<agent, slot, pc, dialogs, known, replies>>

\* The command in progress is given up; its answer, if one comes, is ignored.
Cancel ==
  /\ awaiting # 0
  /\ awaiting' = 0
  /\ inbox' = Append(inbox, [method |-> "Cancel", id |-> 0])
  /\ UNCHANGED <<agent, slot, pc, dialogs, sent, known, replies>>

Release ==
  /\ known
  /\ known' = FALSE
  /\ awaiting' = 0
  /\ inbox' = Append(inbox, [method |-> "Release", id |-> 0])
  /\ UNCHANGED <<agent, slot, pc, dialogs, sent, replies>>

\* RegisterAgent is carried out.
TakeAgent ==
  /\ agent = "offered"
  /\ agent' = "taken"
  /\ known' = TRUE
  /\ UNCHANGED <<slot, pc, dialogs, inbox, sent, awaiting, replies>>

\* An answer to the command in progress arrives.
Answered ==
  /\ \E i \in DOMAIN replies : replies[i].to = awaiting
  /\ awaiting' = 0
  /\ UNCHANGED <<agent, slot, pc, dialogs, inbox, sent, known, replies>>

-----------------------------------------------------------------------------
(***************************************************************************)
(* The agent's methods                                                     *)
(***************************************************************************)

Reply(to, dialog) ==
  replies' = Append(replies, [to |-> to, dialog |-> dialog])

\* The slot after the handler of a command has run up to INVOKE_CALLBACK.
SlotFor(call) == IF Stores(call.method) THEN call.id ELSE slot

\* The object is gone or does not declare the method: GDBus answers with an
\* error.
Refused(call) ==
  /\ agent # "registered" \/ call.method \notin Declared
  /\ Reply(call.id, 0)
  /\ UNCHANGED <<slot, pc, dialogs>>

\* INVOKE_CALLBACK with a callback: the client opens a dialog.
Shown(call) ==
  /\ agent = "registered" /\ call.method \in Declared \cap DOMAIN Callback
  /\ Callback[call.method] \in Supplied
  /\ slot' = SlotFor(call)
  /\ pc' = "command"
  /\ dialogs' = dialogs \cup {call.id}
  /\ UNCHANGED replies

\* Faulty variant of Unsupported: the command is not answered.
UnsupportedSilently(call) ==
  /\ agent = "registered" /\ call.method \in Declared \cap DOMAIN Callback
  /\ Callback[call.method] \notin Supplied
  /\ slot' = 0
  /\ UNCHANGED <<pc, dialogs, replies>>

\* INVOKE_CALLBACK without one: the invocation in the slot, if there is one,
\* is answered "go back".
Unsupported(call) ==
  /\ agent = "registered" /\ call.method \in Declared \cap DOMAIN Callback
  /\ Callback[call.method] \notin Supplied
  /\ IF SlotFor(call) = 0 THEN UNCHANGED replies ELSE Reply(SlotFor(call), 0)
  /\ slot' = 0
  /\ UNCHANGED <<pc, dialogs>>

\* Declared, but not in agent_methods: an error is logged and nothing more.
Unhandled(call) ==
  /\ agent = "registered" /\ call.method \in Declared \ DOMAIN Callback
  /\ UNCHANGED <<slot, pc, dialogs, replies>>

\* _cancel() and _release() up to the client's callback, in which it closes
\* its dialogs. They forget the invocation when the callback returns.
Ended(call) ==
  \/ /\ agent # "registered"
     /\ UNCHANGED <<slot, pc, dialogs, replies>>
  \/ /\ agent = "registered"
     /\ IF call.method = "Cancel" THEN "cancel" \in Supplied
                                  ELSE "release" \in Supplied
     /\ pc' = "ending"
     /\ dialogs' = {}
     /\ UNCHANGED <<slot, replies>>
  \/ /\ agent = "registered"
     /\ IF call.method = "Cancel" THEN "cancel" \notin Supplied
                                  ELSE "release" \notin Supplied
     /\ slot' = 0
     /\ UNCHANGED <<pc, dialogs, replies>>

\* The main loop runs the method of the oldest call, unless RegisterAgent
\* blocks it.
Dispatch ==
  /\ pc = "idle" /\ agent \notin {"offered", "taken"}
  /\ inbox # <<>>
  /\ inbox' = Tail(inbox)
  /\ IF Head(inbox).id = 0
       THEN Ended(Head(inbox))
       ELSE \/ Refused(Head(inbox))
            \/ Shown(Head(inbox))
            \/ Unsupported(Head(inbox))
            \/ Unhandled(Head(inbox))
  /\ UNCHANGED <<agent, daemon>>

\* Faulty variant of Return: the slot is left alone.
ReturnKeepsSlot ==
  /\ pc \in {"command", "ending"}
  /\ pc' = "idle"
  /\ UNCHANGED <<agent, slot, dialogs, inbox, daemon, replies>>

\* A callback returns. _cancel() and _release() then write to the agent; if
\* the callback had it freed, what happens is undefined.
Return ==
  /\ \/ /\ pc = "command"
        /\ pc' = "idle"
        /\ UNCHANGED slot
     \/ /\ pc = "ending" /\ agent = "registered"
        /\ pc' = "idle"
        /\ slot' = 0
     \/ /\ pc = "ending" /\ agent = "freed"
        /\ pc' \in {"idle", "crashed"}
        /\ UNCHANGED slot
  /\ UNCHANGED <<agent, dialogs, inbox, daemon, replies>>

-----------------------------------------------------------------------------
(***************************************************************************)
(* The client                                                              *)
(***************************************************************************)

\* ofono_sat_init_agent() registers the object and calls RegisterAgent.
InitAgent ==
  /\ agent = "none"
  /\ agent' = "offered"
  /\ UNCHANGED <<slot, pc, dialogs, inbox, daemon, replies>>

AgentRegistered ==
  /\ agent = "taken"
  /\ agent' = "registered"
  /\ UNCHANGED <<slot, pc, dialogs, inbox, daemon, replies>>

\* RegisterAgent is refused or times out, maybe after the daemon has taken the
\* agent: the object is unregistered, and ofono_sat_init_agent() returns NULL.
AgentFails ==
  /\ agent \in {"offered", "taken"}
  /\ agent' = "failed"
  /\ UNCHANGED <<slot, pc, dialogs, inbox, daemon, replies>>

\* Faulty variant of SendResponse: an empty slot is not noticed.
SendResponseUnchecked(i) ==
  /\ agent = "registered"
  /\ i \in dialogs
  /\ dialogs' = dialogs \ {i}
  /\ Reply(slot, i)
  /\ slot' = 0
  /\ UNCHANGED <<agent, pc, inbox, daemon>>

\* Faulty variant of SendResponse: the invocation stays in the slot.
SendResponseKeepsSlot(i) ==
  /\ agent = "registered"
  /\ i \in dialogs
  /\ dialogs' = dialogs \ {i}
  /\ IF slot = 0 THEN UNCHANGED replies ELSE Reply(slot, i)
  /\ UNCHANGED <<agent, slot, pc, inbox, daemon>>

\* The client answers dialog `i` through ofono_sat_send_response().
SendResponse(i) ==
  /\ agent = "registered"
  /\ i \in dialogs
  /\ dialogs' = dialogs \ {i}
  /\ IF slot = 0 THEN UNCHANGED replies ELSE Reply(slot, i)
  /\ slot' = 0
  /\ UNCHANGED <<agent, pc, inbox, daemon>>

\* ofono_sat_deinit_agent(): UnregisterAgent, then the object goes, also if
\* that failed. The invocation in the slot is neither answered nor released.
DeinitAgent ==
  /\ agent = "registered"
  /\ pc # "crashed"
  /\ agent' = "freed"
  /\ \/ known' = FALSE /\ awaiting' = 0
     \/ UNCHANGED <<known, awaiting>>
  /\ slot' = 0
  /\ dialogs' = {}
  /\ UNCHANGED <<pc, inbox, sent, replies>>

Respond == \E i \in Request : SendResponse(i)

Next ==
  \/ \E m \in Method : Call(m)
  \/ Cancel \/ Release \/ TakeAgent \/ Answered
  \/ Dispatch \/ Return
  \/ InitAgent \/ AgentRegistered \/ AgentFails \/ DeinitAgent
  \/ Respond

Spec == Init /\ [][Next]_vars

\* The main loop runs, callbacks and blocking calls return, sent answers
\* arrive, and the client answers the dialogs it leaves open.
FairSpec ==
  /\ Spec
  /\ WF_vars(Dispatch \/ Return \/ AgentRegistered \/ AgentFails)
  /\ WF_vars(Answered)
  /\ \A i \in Request : WF_vars(SendResponse(i))

-----------------------------------------------------------------------------
(***************************************************************************)
(* Properties                                                              *)
(***************************************************************************)

TypeOK ==
  /\ agent \in {"none", "offered", "taken", "registered", "failed", "freed"}
  /\ slot \in 0..MaxRequests
  /\ pc \in {"idle", "command", "ending", "crashed"}
  /\ dialogs \subseteq Request
  /\ inbox \in Seq([method : Method \cup {"Cancel", "Release"},
                    id : 0..MaxRequests])
  /\ sent \in Seq(Method)
  /\ awaiting \in 0..MaxRequests
  /\ known \in BOOLEAN
  /\ replies \in Seq([to : Request, dialog : 0..MaxRequests])

\* An invocation is answered at most once. GDBus destroys it with the first
\* answer, so a second would use freed memory.
AnsweredOnce ==
  \A i, j \in DOMAIN replies : replies[i].to = replies[j].to => i = j

\* What the client answers in a dialog goes to the command the dialog is for
\* and never to a later or an earlier one, although ofono_sat_send_response()
\* names no command, and Cancel, Release and answers cross on the way.
AnswerReachesItsCommand ==
  \A i \in DOMAIN replies :
    replies[i].dialog # 0 => replies[i].dialog = replies[i].to

Waits(i) == awaiting = i /\ agent # "freed"

\* A command the daemon waits for is answered, or given up, or the agent is
\* finalized: unsupported and refused commands too, and those for an agent
\* whose registration the library took for failed. Left out are the command
\* whose invocation is not stored, and the name that is declared but has no
\* handler.
CommandAnswered ==
  \A i \in Request :
    Waits(i) /\ Stores(sent[i]) /\ sent[i] \in DOMAIN Callback
      ~> ~Waits(i) \/ pc = "crashed"

\* The same for every command: the header says of the browser callback too
\* that a response is sent, "SAT_RESP_TYPE_BOOL (Whether launch browser)".
BrowserAnswered ==
  \A i \in Request : Waits(i) ~> ~Waits(i) \/ pc = "crashed"

=============================================================================
