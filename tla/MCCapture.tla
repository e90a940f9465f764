----------------------------- MODULE MCCapture -----------------------------
(***************************************************************************)
(* The remote and another device, backlogs of one connection, two battery  *)
(* levels and a report without one, a queue of one element that fills.     *)
(***************************************************************************)
EXTENDS Capture
=============================================================================
