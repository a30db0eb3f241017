----------------------------- MODULE Settings -----------------------------
(***************************************************************************)
(* What the requests of libofono ask of the daemon, and what they tell the *)
(* client: each function of the API that sends a call is an operator here  *)
(* that gives the plan of the request (module Requests) for its arguments. *)
(* A step of a plan is a call of D-Bus: the properties it sets, as strings *)
(* the daemon stores, and the properties of the answer that are told.      *)
(* D-Bus booleans are written as "true" and "false".                       *)
(*                                                                         *)
(* The functions that return their result block the client until the       *)
(* answer is there; they fail at once when the cached interfaces of the    *)
(* modem (parameter `has`) lack the one they need. Those on calls are in   *)
(* module CallControl.                                                     *)
(***************************************************************************)
EXTENDS Requests, FiniteSets, TLC

CONSTANTS Script,  \* bound: the sequences of requests a client makes
          Text     \* the strings and volumes a client passes

-----------------------------------------------------------------------------
(***************************************************************************)
(* Steps                                                                   *)
(***************************************************************************)

Step(call, puts, tells) ==
  [call |-> call, puts |-> puts, tells |-> tells, blocks |-> FALSE]

\* A method without effect on what is read here.
Do(iface, method) == <<Step(<<iface, method>>, {}, {})>>

\* SetProperty: what goes to the daemon, and which setting the client wants
\* to be what.
PutFor(setting, iface, key, value, meant) ==
  Step(<<iface, "SetProperty">>,
       {[at |-> <<iface, key>>, value |-> value, setting |-> setting,
         meant |-> meant]}, {})

Put(iface, key, value, meant) ==
  PutFor(<<iface, key>>, iface, key, value, meant)

Set(iface, key, value, meant) == <<Put(iface, key, value, meant)>>

\* GetProperties, of which the reply handler picks the properties `keys`.
Get(iface, keys) ==
  <<Step(<<iface, "GetProperties">>, {}, {<<iface, k>> : k \in keys})>>

\* A function that returns what it has read.
Wait(has, plan) == IF has THEN <<[plan[1] EXCEPT !.blocks = TRUE]>> ELSE <<>>

NoString == ""

\* The value of `table` for `k`, or `other`.
LookUp(table, k, other) == IF k \in DOMAIN table THEN table[k] ELSE other

-----------------------------------------------------------------------------
(***************************************************************************)
(* Supplementary services                                                  *)
(***************************************************************************)

SetCallWaiting(enable) ==
  Set("CallSettings", "VoiceCallWaiting",
      IF enable = "true" THEN "enabled" ELSE "disabled", enable)

GetCallWaiting == Get("CallSettings", {"VoiceCallWaiting"})

\* The reply handler fails for any other string.
CallWaitingTold(v) ==
  LookUp([disabled |-> "false", enabled |-> "true"], v, "failed")

\* _check_call_forwarding_setting()
ForwardingAccepted(s) ==
  /\ s.enable => s.num # NoString
  /\ s.enable /\ s.condition = "VoiceNoReply" => s.timeout \in 1..30

\* ofono_ss_set_call_forward(): the number, then, to forward on no reply, the
\* timeout. The number is written as it is to switch forwarding off, too.
SetCallForward(s) ==
  LET number == Put("CallForwarding", s.condition, s.num,
                    IF s.enable THEN s.num ELSE NoString)
      time == ToString(s.timeout)
  IN CASE ~ForwardingAccepted(s) -> <<>>
       [] ForwardingAccepted(s) /\ s.condition = "VoiceNoReply" /\ s.enable ->
            <<number, Put("CallForwarding", "VoiceNoReplyTimeout", time, time)>>
       [] OTHER -> <<number>>

\* A condition is told to be on if there is a number.
GetCallForward ==
  Get("CallForwarding", {"VoiceUnconditional", "VoiceBusy", "VoiceNoReply",
                         "VoiceNotReachable", "VoiceNoReplyTimeout"})

\* What is switched on for each type of barring.
BarringValue ==
  [BAOC |-> <<"VoiceOutgoing", "all">>,
   BOIC |-> <<"VoiceOutgoing", "international">>,
   BOIC_NOT_HC |-> <<"VoiceOutgoing", "internationalnothome">>,
   BAIC |-> <<"VoiceIncoming", "always">>,
   BIC_ROAM |-> <<"VoiceIncoming", "whenroaming">>,
   AG |-> <<"VoiceOutgoing", "disabled">>,
   AC |-> <<"VoiceIncoming", "disabled">>]

\* The types the reply handler makes of the strings.
BarringTold(v) ==
  LookUp([always |-> "BAIC", whenroaming |-> "BIC_ROAM", all |-> "BAOC",
          international |-> "BOIC", internationalnothome |-> "BOIC_NOT_HC"],
         v, "NONE")

\* ofono_ss_set_call_barring(): three types can be switched off, by a method
\* of their own; `enable` is not looked at for the others. It all goes to the
\* interface of call settings, not to that of call barring.
SetCallBarring(enable, type, pwd) ==
  LET off == [AB |-> "DisableAll", BAOC |-> "DisableAllOutgoing",
              BAIC |-> "DisableAllIncoming"]
  IN CASE pwd # 4 -> <<>>
       [] pwd = 4 /\ ~enable /\ type \in DOMAIN off ->
            Do("CallSettings", off[type])
       [] pwd = 4 /\ (enable \/ type \notin DOMAIN off) ->
            IF type \notin DOMAIN BarringValue THEN <<>>
            ELSE LET b == BarringValue[type]
                     meant == IF enable THEN BarringTold(b[2]) ELSE "NONE"
                 IN <<PutFor(<<"CallBarring", b[1]>>, "CallSettings", b[1],
                             b[2], meant)>>

GetCallBarring == Get("CallBarring", {"VoiceIncoming", "VoiceOutgoing"})

ChangeBarringPassword == Do("CallBarring", "ChangePassword")

CliKeys ==
  {"CallingLinePresentation", "CalledLinePresentation",
   "CallingNamePresentation", "ConnectedLinePresentation",
   "ConnectedLineRestriction"}

GetCliStatus == Get("CallSettings", CliKeys)

\* _str_to_cli_status()
CliStatusTold(v) ==
  LookUp([enabled |-> "SS_CLI_STATUS_ENABLED",
          disabled |-> "SS_CLI_STATUS_DISABLED"], v, "SS_CLI_STATUS_UNKNOWN")

GetClir == Get("CallSettings", {"CallingLineRestriction"})

\* The case of "disabled" falls through to "default".
SetClir(status) ==
  Set("CallSettings", "HideCallerId",
      IF status = "enabled" THEN "enabled" ELSE "default", status)

InitiateUssd == Do("SupplementaryServices", "Initiate")
RespondUssd == Do("SupplementaryServices", "Respond")
CancelUssd == Do("SupplementaryServices", "Cancel")

-----------------------------------------------------------------------------
(***************************************************************************)
(* Network                                                                 *)
(***************************************************************************)

\* _network_mode_to_str()
NetworkModeString ==
  [MODE_UNKNOWN |-> NoString, MODE_AUTO |-> "any", MODE_2G |-> "gsm",
   MODE_3G |-> "umts", MODE_4G |-> "lte"]

SetNetworkMode(mode) ==
  Set("RadioSettings", "TechnologyPreference", NetworkModeString[mode], mode)

GetNetworkMode == Get("RadioSettings", {"TechnologyPreference"})

\* Faulty variant of NetworkModeTold: a mode is forgotten.
NetworkModeToldNoLte(v) ==
  LookUp([any |-> "MODE_AUTO", gsm |-> "MODE_2G", umts |-> "MODE_3G"],
         v, "MODE_UNKNOWN")

\* _str_to_network_mode()
NetworkModeTold(v) ==
  LookUp([any |-> "MODE_AUTO", gsm |-> "MODE_2G", umts |-> "MODE_3G",
          lte |-> "MODE_4G"], v, "MODE_UNKNOWN")

\* _str_to_selection_mode()
SelectionModeTold(v) ==
  CASE v = "auto" -> "MODE_AUTO"
    [] v = "auto-only" -> "MODE_AUTO_ONLY"
    [] v = "manual" -> "MODE_MANUAL"
    [] OTHER -> "MODE_UNKNOWN"

NetworkRegister == Do("NetworkOperator", "Register")
NetworkAutoRegister == Do("NetworkRegistration", "Register")
ScanOperators == Do("NetworkRegistration", "Scan")

GetRegistrationInfo(has) ==
  Wait(has, Get("NetworkRegistration",
                {"Status", "LocationAreaCode", "CellId", "Technology",
                 "MobileCountryCode", "MobileNetworkCode"}))
GetOperatorName(has) == Wait(has, Get("NetworkRegistration", {"Name"}))
GetSignalStrength(has) == Wait(has, Get("NetworkRegistration", {"Strength"}))
GetSelectionMode(has) == Wait(has, Get("NetworkRegistration", {"Mode"}))

ServingCell == Do("NetworkMonitor", "GetServingCellInformation")
NeighbouringCells == Do("NetworkMonitor", "GetCellsInformation")

-----------------------------------------------------------------------------
(***************************************************************************)
(* Messages and cell broadcast                                             *)
(***************************************************************************)

GetSca == Get("MessageManager", {"ServiceCenterAddress"})
SetSca(sca) == Set("MessageManager", "ServiceCenterAddress", sca, sca)

GetDeliveryReport == Get("MessageManager", {"UseDeliveryReports"})
SetDeliveryReport(on) == Set("MessageManager", "UseDeliveryReports", on, on)

SendSms == Do("MessageManager", "SendMessage")
SendVcard == Do("SmartMessaging", "SendBusinessCard")
SendVcalendar == Do("SmartMessaging", "SendAppointment")

GetCbsConfig == Get("CellBroadcast", {"Topics", "Powered"})
SetCbsPowered(powered) == Set("CellBroadcast", "Powered", powered, powered)
SetCbsTopics(topics) == Set("CellBroadcast", "Topics", topics, topics)

-----------------------------------------------------------------------------
(***************************************************************************)
(* Connections                                                             *)
(***************************************************************************)

AddContext == Do("ConnectionManager", "AddContext")
RemoveContext == Do("ConnectionManager", "RemoveContext")

\* _context_ip_type_to_str()
ProtocolString == [IPV4 |-> "ip", IPV6 |-> "ipv6", IPV4_IPV6 |-> "dual"]

ContextField ==
  {"AccessPointName", "Username", "Password", "MessageProxy", "MessageCenter"}

\* A field of a context that is given is set.
IfGiven(given, f) ==
  IF f \in DOMAIN given THEN Set("Context", f, given[f], given[f]) ELSE <<>>

\* ofono_connman_set_context(): the protocol, then the fields that are given.
SetContext(protocol, given) ==
  Set("Context", "Protocol", ProtocolString[protocol], protocol)
    \o IfGiven(given, "AccessPointName") \o IfGiven(given, "Username")
    \o IfGiven(given, "Password") \o IfGiven(given, "MessageProxy")
    \o IfGiven(given, "MessageCenter")

ActivateContext == Set("Context", "Active", "true", "true")
DeactivateContext == Set("Context", "Active", "false", "false")

DeactivateAll ==
  <<Step(<<"ConnectionManager", "DeactivateAll">>,
         {[at |-> <<"Context", "Active">>, value |-> "false",
           setting |-> <<"Context", "Active">>, meant |-> "false"]},
         {})>>

GetContextInfo(has) ==
  Wait(has, Get("Context", {"Type", "Active", "Settings", "IPv6.Settings"}))
GetContexts(has) ==
  Wait(has, <<Step(<<"ConnectionManager", "GetContexts">>, {}, {})>>)

GetConnmanPowered(has) == Wait(has, Get("ConnectionManager", {"Powered"}))
SetConnmanPowered(powered) ==
  Set("ConnectionManager", "Powered", powered, powered)

GetRoamingAllowed(has) == Wait(has, Get("ConnectionManager", {"RoamingAllowed"}))
SetRoamingAllowed(allowed) ==
  Set("ConnectionManager", "RoamingAllowed", allowed, allowed)

GetConnmanStatus(has) ==
  Wait(has, Get("ConnectionManager", {"Attached", "Bearer"}))

-----------------------------------------------------------------------------
(***************************************************************************)
(* SIM, modem, sound, phonebook and SIM toolkit                            *)
(***************************************************************************)

\* _check_pin(): of one or two codes only the lengths matter.
CodesAccepted(lengths) == \A i \in DOMAIN lengths : lengths[i] \in 4..8

PinRequest(method, lengths) ==
  IF CodesAccepted(lengths) THEN Do("SimManager", method) ELSE <<>>

EnablePin(pin) == PinRequest("LockPin", <<pin>>)
DisablePin(pin) == PinRequest("UnlockPin", <<pin>>)
EnterPin(pin) == PinRequest("EnterPin", <<pin>>)
ResetPin(puk, pin) == PinRequest("ResetPin", <<puk, pin>>)
ChangePin(old, new) == PinRequest("ChangePin", <<old, new>>)
SimIo == Do("SimManager", "SIMIO")

SetOnline(online) == Set("Modem", "Online", online, online)
SetPowered(powered) == Set("Modem", "Powered", powered, powered)

\* Of a modem no interface is asked for.
GetModemInfo ==
  Wait(TRUE, Get("Modem", {"Manufacturer", "Model", "Revision", "Serial", "Type"}))

GetEcc(has) == Wait(has, Get("VoiceCallManager", {"EmergencyNumbers"}))

GetMute(has) == Wait(has, Get("CallVolume", {"Muted"}))
SetMute(mute) == Set("CallVolume", "Muted", mute, mute)

GetVolume(has, name) == Wait(has, Get("CallVolume", {name}))
GetSpeakerVolume(has) == GetVolume(has, "SpeakerVolume")
SetSpeakerVolume(vol) == Set("CallVolume", "SpeakerVolume", vol, vol)
GetMicrophoneVolume(has) == GetVolume(has, "MicrophoneVolume")

SetMicrophoneVolume(vol) == Set("CallVolume", "MicrophoneVolume", vol, vol)

SetVolumeByAlsa == Do("AudioSettings", "SetVolumeLev")
SetSoundPath == Do("AudioSettings", "EnablePCM")

ImportPhonebook == Do("Phonebook", "Import")

SelectItem == Do("SimToolkit", "SelectItem")

\* The main menu is asked for without a look at the interfaces, too.
GetMainMenu ==
  Wait(TRUE, Get("SimToolkit", {"MainMenuTitle", "MainMenuIcon", "MainMenu"}))

-----------------------------------------------------------------------------
(***************************************************************************)
(* The API: the plans of all its functions, for all arguments. A password  *)
(* and a PIN matter by their length.                                       *)
(***************************************************************************)

Switch == {"true", "false"}

Forwarding ==
  [enable : BOOLEAN, num : Text, timeout : 0..255,
   condition : {"VoiceUnconditional", "VoiceBusy", "VoiceNoReply",
                "VoiceNotReachable"}]

BarringType == DOMAIN BarringValue \cup {"NONE", "AB"}

ContextSetting == UNION {[F -> Text] : F \in SUBSET ContextField}

\* The functions that set what a client may read.
Setters ==
  {SetCallWaiting(on) : on \in Switch}
  \cup {SetCallForward(s) : s \in Forwarding}
  \cup {SetCallBarring(on, type, pwd) :
           on \in BOOLEAN, type \in BarringType, pwd \in 0..5}
  \cup {SetClir(status) : status \in {"default", "enabled", "disabled"}}
  \cup {SetNetworkMode(mode) : mode \in DOMAIN NetworkModeString}
  \cup {SetSca(sca) : sca \in Text} \cup {SetDeliveryReport(on) : on \in Switch}
  \cup {SetCbsPowered(on) : on \in Switch} \cup {SetCbsTopics(t) : t \in Text}
  \cup {SetContext(protocol, given) :
           protocol \in DOMAIN ProtocolString, given \in ContextSetting}
  \cup {ActivateContext, DeactivateContext, DeactivateAll}
  \cup {SetConnmanPowered(on) : on \in Switch}
  \cup {SetRoamingAllowed(on) : on \in Switch}
  \cup {SetOnline(on) : on \in Switch} \cup {SetPowered(on) : on \in Switch}
  \cup {SetMute(on) : on \in Switch}
  \cup {SetSpeakerVolume(vol) : vol \in Text}
  \cup {SetMicrophoneVolume(vol) : vol \in Text}

\* Those that read.
Getters ==
  {GetCallWaiting, GetCallForward, GetCallBarring, GetCliStatus, GetClir,
   GetNetworkMode, GetSca, GetDeliveryReport, GetCbsConfig, GetModemInfo,
   GetMainMenu}
  \cup (UNION {{GetRegistrationInfo(has), GetOperatorName(has),
                GetSignalStrength(has), GetSelectionMode(has),
                GetContextInfo(has), GetContexts(has), GetConnmanPowered(has),
                GetRoamingAllowed(has), GetConnmanStatus(has), GetEcc(has),
                GetMute(has), GetSpeakerVolume(has),
                GetMicrophoneVolume(has)} : has \in BOOLEAN})

\* Those that do something else.
Doers ==
  {ChangeBarringPassword, InitiateUssd, RespondUssd, CancelUssd,
   NetworkRegister, NetworkAutoRegister, ScanOperators, ServingCell,
   NeighbouringCells, SendSms, SendVcard, SendVcalendar, AddContext,
   RemoveContext, SimIo, SetVolumeByAlsa, SetSoundPath, ImportPhonebook,
   SelectItem}
  \cup {EnablePin(pin) : pin \in 0..9} \cup {DisablePin(pin) : pin \in 0..9}
  \cup {EnterPin(pin) : pin \in 0..9}
  \cup {ResetPin(puk, pin) : puk, pin \in 0..9}
  \cup {ChangePin(old, new) : old, new \in 0..9}

ASSUME SettingsAssumption ==
  /\ Script \subseteq Seq(Plan)
  /\ Plan \subseteq Setters \cup Getters \cup Doers

-----------------------------------------------------------------------------
(***************************************************************************)
(* Requests, of which some block                                           *)
(***************************************************************************)

\* What the client may ask for next.
FollowUps ==
  LET n == Len(reqs)
      begun == {s \in Script : Len(s) > n /\ \A r \in 1..n : s[r] = reqs[r].plan}
  IN {s[n + 1] : s \in begun}

\* ofonod knows nothing of barring under the interface of call settings: it
\* refuses what ofono_ss_set_call_barring() sends.
Known(step) ==
  /\ step.call[1] = "CallSettings" =>
       step.call[2] \in {"GetProperties", "SetProperty"}
  /\ \A p \in step.puts :
       p.at \notin {<<"CallSettings", "VoiceIncoming">>,
                   <<"CallSettings", "VoiceOutgoing">>}

\* The client waits for the answer to its last request.
Blocked ==
  /\ reqs # <<>>
  /\ LET q == reqs[Len(reqs)]
     IN q.result = "none" /\ q.plan[1].blocks

\* ofono_connman_get_contexts() does not look whether there is an answer.
AnswerUnchecked ==
  /\ Blocked
  /\ LET q == reqs[Len(reqs)]
     IN q.call = "failed" /\ q.plan[1].call[2] = "GetContexts"

GetContextsFails ==
  /\ ~crashed /\ AnswerUnchecked
  /\ crashed' = TRUE
  /\ UNCHANGED <<modem, reqs, bus, written>>

\* The function that blocks returns.
Return == Blocked /\ ~AnswerUnchecked /\ Finish(Len(reqs))

\* While the client waits, nothing else is dispatched.
SettingsNext ==
  \/ /\ ~Blocked
     /\ \/ \E plan \in FollowUps : Ask(plan) \/ Refuse(plan)
        \/ Deinit
        \/ Library
  \/ Return \/ GetContextsFails
  \/ /\ bus # <<>>
     /\ Known(reqs[Head(bus).req].plan[Head(bus).step])
     /\ Accept
  \/ Reject
  \/ \E r \in Request : Timeout(r)

SettingsSpec == Init /\ [][SettingsNext]_vars

FairSettingsSpec ==
  /\ SettingsSpec
  /\ WF_vars(Library) /\ WF_vars(GetContextsFails)
  /\ \A r \in 1..MaxRequests : WF_vars(r \in Request /\ Timeout(r))

\* The step carried out as the `i`-th.
Done(i) == reqs[written[i].req].plan[written[i].step]

\* The put that property `at` has its value from when the `i`-th step is
\* carried out, if there is one: the set is empty or has one member.
Current(at, i) ==
  LET before == {j \in 1..(i - 1) : \E p \in Done(j).puts : p.at = at}
  IN {p \in UNION {Done(j).puts : j \in {k \in before : \A l \in before : l <= k}} :
        p.at = at}

\* What a reply handler makes of a property.
Told(at, value) ==
  CASE at[2] = "VoiceCallWaiting" -> CallWaitingTold(value)
    [] at[2] = "TechnologyPreference" -> NetworkModeTold(value)
    [] at[1] = "CallBarring" -> BarringTold(value)
    [] at = <<"NetworkRegistration", "Mode">> -> SelectionModeTold(value)
    [] at[2] \in CliKeys -> CliStatusTold(value)
    [] OTHER -> value

-----------------------------------------------------------------------------
(***************************************************************************)
(* Properties                                                              *)
(***************************************************************************)

\* What request `r` meant property `at` to be.
Meant(r, at) ==
  {p.meant : p \in {q \in UNION {reqs[r].plan[k].puts : k \in DOMAIN reqs[r].plan} :
                      q.setting = at}}

\* Forwarding is switched off by a setting that still has a number, which
\* turns it on instead; the property below does not hold of it.
OffWithNumber(p) ==
  p.at[1] = "CallForwarding" /\ p.meant = NoString /\ p.value # NoString

\* A client reads what it has set: a read that succeeds tells, in the terms of
\* the client, what the last request that was told of success before it set,
\* or what a request set that was not over before that one began.
ReadsWhatWasSet ==
  \A i \in DOMAIN written : reqs[written[i].req].result = "ok" =>
    \A at \in Done(i).tells : \A s \in reqs[written[i].req].before :
      reqs[s].result = "ok" /\ Meant(s, at) # {} =>
        \E p \in Current(at, i) :
          \/ OffWithNumber(p)
          \/ \E t \in Request : /\ t \notin reqs[s].before
                                /\ Told(at, p.value) \in Meant(t, at)

=============================================================================
