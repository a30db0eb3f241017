--------------------------- MODULE MCCallControl ---------------------------
(***************************************************************************)
(* CallControl for TLC: any request, and then one that looks calls up to   *)
(* answer or hangs one up. There may be one call more than the array holds.*)
(***************************************************************************)
EXTENDS CallControl

MCTurns == <<Method, {"Answer", "Hangup"}>>
============================================================================
