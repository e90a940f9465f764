------------------------------ MODULE MCDaemon ------------------------------
(***************************************************************************)
(* One device, one report in the socket and one in the queue: everything   *)
(* that can block is full or empty after a few steps.                      *)
(***************************************************************************)
EXTENDS Daemon
=============================================================================
