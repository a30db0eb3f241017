---------------------------- MODULE MCRequests ----------------------------
(***************************************************************************)
(* Settings for TLC: for each setting that can be read, two requests that  *)
(* set it, or its neighbours, and a read; every other request with one     *)
(* that follows; and requests of several steps that overlap.               *)
(***************************************************************************)
EXTENDS Settings

Forward(enable, condition, num, timeout) ==
  SetCallForward([enable |-> enable, condition |-> condition, num |-> num,
                  timeout |-> timeout])

NoReply(num, timeout) == Forward(TRUE, "VoiceNoReply", num, timeout)

Context(given) == SetContext("IPV4_IPV6", given)

ReadBack ==
  {<<SetCallWaiting("true"), SetCallWaiting("false"), GetCallWaiting>>,
   <<SetNetworkMode("MODE_2G"), SetNetworkMode("MODE_4G"), GetNetworkMode>>,
   <<SetNetworkMode("MODE_AUTO"), SetNetworkMode("MODE_3G"), GetNetworkMode>>,
   <<SetMute("true"), SetMute("false"), GetMute(TRUE)>>,
   <<SetMicrophoneVolume("1"), SetSpeakerVolume("2"), GetMicrophoneVolume(TRUE)>>,
   <<SetSpeakerVolume("2"), SetMicrophoneVolume("1"), GetSpeakerVolume(TRUE)>>,
   <<SetSca("1"), SetSca("2"), GetSca>>,
   <<SetDeliveryReport("true"), SetDeliveryReport("false"), GetDeliveryReport>>,
   <<SetCbsPowered("true"), SetCbsTopics("1"), GetCbsConfig>>,
   <<SetConnmanPowered("true"), SetRoamingAllowed("false"),
     GetConnmanPowered(TRUE)>>,
   <<SetRoamingAllowed("true"), SetConnmanPowered("false"),
     GetRoamingAllowed(TRUE)>>,
   <<ActivateContext, DeactivateContext, GetContextInfo(TRUE)>>,
   <<ActivateContext, DeactivateAll, GetContextInfo(TRUE)>>,
   <<NoReply("1", 30), NoReply("2", 1), GetCallForward>>,
   <<NoReply("1", 30), Forward(FALSE, "VoiceNoReply", "", 0), GetCallForward>>,
   <<Forward(TRUE, "VoiceBusy", "1", 0), Forward(FALSE, "VoiceBusy", "2", 0),
     GetCallForward>>}

Overlapping ==
  {<<Context([AccessPointName |-> "1", Password |-> "1"]),
     Context([Password |-> "2"]), SetOnline("true")>>,
   <<Context([Username |-> "2"]), NoReply("1", 30)>>}

Others ==
  {SetClir("enabled"), SetClir("disabled"), SetCallBarring(TRUE, "BAIC", 4),
   SetCallBarring(FALSE, "BOIC", 4), SetCallBarring(FALSE, "AB", 4),
   ChangeBarringPassword, InitiateUssd, RespondUssd, CancelUssd,
   NetworkRegister, NetworkAutoRegister, ScanOperators, ServingCell,
   NeighbouringCells, SendSms, SendVcard, SendVcalendar, AddContext,
   RemoveContext, EnablePin(4), DisablePin(8), EnterPin(5), ResetPin(8, 4),
   ChangePin(4, 8), SimIo, SetPowered("false"), SetVolumeByAlsa, SetSoundPath,
   ImportPhonebook, SelectItem, GetMainMenu, GetCallBarring, GetCliStatus, GetClir,
   GetRegistrationInfo(TRUE), GetOperatorName(TRUE), GetSignalStrength(TRUE),
   GetSelectionMode(TRUE), GetContexts(TRUE), GetConnmanStatus(TRUE),
   GetModemInfo, GetEcc(TRUE), NoReply("1", 31), Forward(TRUE, "VoiceBusy", "", 0),
   SetCallBarring(TRUE, "BAIC", 5), SetCallBarring(TRUE, "AB", 4),
   ChangePin(4, 9), GetMute(FALSE)}

MCScript ==
  ReadBack \cup Overlapping \cup {<<plan, SetOnline("true")>> : plan \in Others}

MCPlan == UNION {{s[i] : i \in DOMAIN s} : s \in MCScript}

MCText == {"", "1", "2"}

MCProperty == UNION {{plan[k] : k \in DOMAIN plan} : plan \in MCPlan}
===========================================================================
