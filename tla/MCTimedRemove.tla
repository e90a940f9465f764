--------------------------- MODULE MCTimedRemove ---------------------------
(***************************************************************************)
(* A second of twelve units and waits of three: every phase of the clock,  *)
(* with up to two wakeups in a call.                                       *)
(***************************************************************************)
EXTENDS TimedRemove
=============================================================================
