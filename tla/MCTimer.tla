------------------------------- MODULE MCTimer -------------------------------
(***************************************************************************)
(* Instance of Timer for TLC: handlers nest three deep, the quiet device's *)
(* alarms take three to the mask or one, the poll's always one.            *)
(***************************************************************************)
EXTENDS Timer
=============================================================================
