-------------------------- MODULE MCNotifications --------------------------
(***************************************************************************)
(* Instances of Notifications for TLC. The notifications chosen cover the  *)
(* cases of the table: one subscription that shares its signal with the    *)
(* modem's own watch, two subscriptions, one of them on every path, and a  *)
(* value the switch does not know.                                         *)
(***************************************************************************)
EXTENDS Notifications

ModemSignal(key) == [iface |-> "Modem", member |-> "PropertyChanged",
                     key |-> key, origin |-> "own"]

CallSignal(origin) == [iface |-> "VoiceCall", member |-> "PropertyChanged",
                       key |-> "State", origin |-> origin]

CallAdded == [iface |-> "VoiceCallManager", member |-> "CallAdded",
              key |-> "", origin |-> "own"]

MCNoti == {"MODEM_STATUS_CHANGED", "CALL_STATUS_CHANGED", "UNKNOWN"}

MCSignal == {ModemSignal("Online"), ModemSignal("Interfaces"),
             CallSignal("own"), CallSignal("foreign"), CallAdded}

\* Every notification of the table but the one whose signals are passed to
\* another notification's callbacks.
RoutedNoti == DOMAIN Table \ {"INCOMING_SMS_CLASS_0"}

\* For every row of the table, the signals it lets through and one about a
\* property it does not know, from every origin: the modem, one that shares
\* the beginning of its path, and an unrelated one.
RowSignals(row) ==
  {[iface |-> row.iface, member |-> row.member, key |-> key, origin |-> o] :
     key \in (row.keys \cap {"Online", "Interfaces", "Strength", "Status",
                             "State", "Present", "Attached", "Active",
                             "IdleModeText", "MainMenu"}) \cup {"Other"},
     o \in IF row.anyPath THEN {"own", "sibling", "foreign"} ELSE {"own"}}

RoutedSignal ==
  UNION {UNION {RowSignals(Rows(n)[k]) : k \in DOMAIN Rows(n)} :
           n \in RoutedNoti}

===========================================================================
