------------------------- MODULE NotificationTable -------------------------
(***************************************************************************)
(* The routing data of libofono's notifications: which D-Bus signals       *)
(* _subscribe_notification() asks for on behalf of each enum ofono_noti,   *)
(* what the handler of each of them lets through, and which notification   *)
(* the handler passes to _notify().                                        *)
(*                                                                         *)
(* A signal is a record: the interface and member it is emitted on, the    *)
(* property it is about (arg0, "" for a signal that carries none) and its  *)
(* origin relative to the modem the watch belongs to:                      *)
(*   "own"     an object of the modem itself;                              *)
(*   "sibling" an object of a modem whose path continues this modem's path *)
(*             ("/ril_1" is a prefix of "/ril_10/voicecall01");            *)
(*   "foreign" an object of any other modem.                               *)
(* Payloads other than the property name are abstracted: no property below *)
(* depends on them.                                                        *)
(***************************************************************************)

EXTENDS Sequences

Origin == {"own", "sibling", "foreign"}

\* arg0 of a subscription that passes NULL: any first argument matches.
AnyArg == "any"

\* The properties the handlers tell apart; "Other" stands for all the rest.
Property ==
  {"", "Online", "Powered", "Interfaces", "Strength", "Status", "State",
   "Present", "PinRequired", "Retries", "SubscriberIdentity", "Attached",
   "Bearer", "Active", "IdleModeText", "MainMenu", "Other"}

\* A subscription on modem->path, whose handler notifies for the properties
\* in `keys`.
OnModem(iface, member, arg0, keys, noti) ==
  [iface |-> iface, member |-> member, arg0 |-> arg0, anyPath |-> FALSE,
   keys |-> keys, routed |-> noti]

\* A subscription on every path: the handler itself drops the signals of
\* other modems.
OnAnyPath(iface, member, arg0, noti) ==
  [iface |-> iface, member |-> member, arg0 |-> arg0, anyPath |-> TRUE,
   keys |-> Property, routed |-> noti]

\* The watch ofono_modem_init() takes for the cached properties. It notifies
\* nobody.
CacheRow == OnModem("Modem", "PropertyChanged", AnyArg, {}, "none")

ModemStatusRow ==
  OnModem("Modem", "PropertyChanged", AnyArg, {"Online", "Powered"},
          "MODEM_STATUS_CHANGED")

InterfacesRow ==
  OnModem("Modem", "PropertyChanged", "Interfaces", Property,
          "INTERFACES_CHANGED")

SignalStrengthRow ==
  OnModem("NetworkRegistration", "PropertyChanged", "Strength", Property,
          "SIGNAL_STRENGTH_CHANGED")

RegistrationRow ==
  OnModem("NetworkRegistration", "PropertyChanged", AnyArg,
          Property \ {"Strength"}, "REGISTRATION_STATUS_CHANGED")

CallChangedRow ==
  OnAnyPath("VoiceCall", "PropertyChanged", AnyArg, "CALL_STATUS_CHANGED")

CallAddedRow ==
  OnModem("VoiceCallManager", "CallAdded", AnyArg, Property,
          "CALL_STATUS_CHANGED")

DisconnectReasonRow ==
  OnAnyPath("VoiceCall", "DisconnectReason", AnyArg,
            "CALL_DISCONNECT_REASON")

\* Both kinds of message end in _sms_notify(), which passes INCOMING_SMS to
\* _notify().
SmsNotified == "INCOMING_SMS"

ImmediateMessageRow ==
  OnModem("MessageManager", "ImmediateMessage", AnyArg, Property, SmsNotified)

IncomingMessageRow ==
  OnModem("MessageManager", "IncomingMessage", AnyArg, Property, SmsNotified)

MessageStatusRow ==
  OnAnyPath("Message", "PropertyChanged", "State", "MSG_STATUS_CHANGED")

DeliveryReportRow ==
  OnModem("MessageManager", "SendStatusReport", AnyArg, Property,
          "SMS_DELIVERY_REPORT")

BroadcastRow ==
  OnModem("CellBroadcast", "IncomingBroadcast", AnyArg, Property,
          "INCOMING_CBS")

EmergencyBroadcastRow ==
  OnModem("CellBroadcast", "EmergencyBroadcast", AnyArg, Property,
          "EMERGENCY_CBS")

SimStatusRow ==
  OnModem("SimManager", "PropertyChanged", AnyArg,
          {"Present", "PinRequired", "Retries", "SubscriberIdentity"},
          "SIM_STATUS_CHANGED")

\* Faulty variant of UssdRow: the two notifications are swapped.
UssdRowSwapped(member) ==
  OnModem("SupplementaryServices", member, AnyArg, Property,
          IF member = "NotificationReceived" THEN "USSD_REQ"
                                             ELSE "USSD_NOTIFICATION")

\* _ussd_notify() serves both USSD signals and tells them apart by name.
UssdRow(member) ==
  OnModem("SupplementaryServices", member, AnyArg, Property,
          IF member = "NotificationReceived" THEN "USSD_NOTIFICATION"
                                             ELSE "USSD_REQ")

UssdStatusRow ==
  OnModem("SupplementaryServices", "PropertyChanged", "State", Property,
          "USSD_STATUS_CHANGED")

ConnmanStatusRow ==
  OnModem("ConnectionManager", "PropertyChanged", AnyArg,
          {"Attached", "Bearer"}, "CONNMAN_STATUS")

ContextActivedRow ==
  OnAnyPath("ConnectionContext", "PropertyChanged", "Active",
            "CONNMAN_CONTEXT_ACTIVED")

IdleModeTextRow ==
  OnModem("SimToolkit", "PropertyChanged", "IdleModeText", Property,
          "SAT_IDLE_MODE_TEXT")

MainMenuRow ==
  OnModem("SimToolkit", "PropertyChanged", "MainMenu", Property,
          "SAT_MAIN_MENU")

\* The switch of _subscribe_notification().
Table ==
  [ MODEM_STATUS_CHANGED        |-> <<ModemStatusRow>>,
    INTERFACES_CHANGED          |-> <<InterfacesRow>>,
    SIGNAL_STRENGTH_CHANGED     |-> <<SignalStrengthRow>>,
    REGISTRATION_STATUS_CHANGED |-> <<RegistrationRow>>,
    CALL_STATUS_CHANGED         |-> <<CallChangedRow, CallAddedRow>>,
    CALL_DISCONNECT_REASON      |-> <<DisconnectReasonRow>>,
    INCOMING_SMS_CLASS_0        |-> <<ImmediateMessageRow>>,
    INCOMING_SMS                |-> <<IncomingMessageRow>>,
    MSG_STATUS_CHANGED          |-> <<MessageStatusRow>>,
    SMS_DELIVERY_REPORT         |-> <<DeliveryReportRow>>,
    INCOMING_CBS                |-> <<BroadcastRow>>,
    EMERGENCY_CBS               |-> <<EmergencyBroadcastRow>>,
    SIM_STATUS_CHANGED          |-> <<SimStatusRow>>,
    USSD_NOTIFICATION           |-> <<UssdRow("NotificationReceived")>>,
    USSD_REQ                    |-> <<UssdRow("RequestReceived")>>,
    USSD_STATUS_CHANGED         |-> <<UssdStatusRow>>,
    CONNMAN_STATUS              |-> <<ConnmanStatusRow>>,
    CONNMAN_CONTEXT_ACTIVED     |-> <<ContextActivedRow>>,
    SAT_IDLE_MODE_TEXT          |-> <<IdleModeTextRow>>,
    SAT_MAIN_MENU               |-> <<MainMenuRow>> ]

\* Faulty variant of Rows: one watch more than the array has room for.
RowsOverflow(noti) ==
  IF noti \in DOMAIN Table THEN Table[noti] \o <<CacheRow, CacheRow>> ELSE <<>>

\* The rows _subscribe_notification() subscribes to for `noti`: none for a
\* value outside the switch.
Rows(noti) == IF noti \in DOMAIN Table THEN Table[noti] ELSE <<>>

\* Whether the bus delivers `sig` to a subscription made with `row`.
Matches(row, sig) ==
  /\ sig.iface = row.iface
  /\ sig.member = row.member
  /\ row.arg0 \in {AnyArg, sig.key}
  /\ row.anyPath \/ sig.origin = "own"

\* Faulty variant of HandlerAccepts: the object path is not looked at.
HandlerAcceptsAnyPath(row, sig) == sig.key \in row.keys

\* Whether the handler of `row` goes on to _notify() for `sig`: the test on
\* the property name, and strncmp(object_path, modem->path,
\* strlen(modem->path)) for the subscriptions that see every path.
HandlerAccepts(row, sig) ==
  /\ sig.key \in row.keys
  /\ row.anyPath => sig.origin \in {"own", "sibling"}
=============================================================================
