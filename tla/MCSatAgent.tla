---------------------------- MODULE MCSatAgent ----------------------------
(***************************************************************************)
(* Instances of SatAgent for TLC: a command with a callback, one without,  *)
(* one the introspection data spells differently, the other spelling, and  *)
(* the one whose invocation is not stored.                                 *)
(***************************************************************************)
EXTENDS SatAgent

MCMethod == {"DisplayText", "RequestKey", "RequestConfirmation",
             "RequestConformation", "ConfirmLaunchBrowser"}

BrowserMethod == {"ConfirmLaunchBrowser"}

\* A client that closes its dialogs when it is told to, and does not ask to be
\* told that the agent is released.
MCSupplied == {"display_text", "confirm_launch_browser", "cancel"}
===========================================================================
