----------------------------- MODULE MCStartup -----------------------------
(***************************************************************************)
(* Every option with a string, given or not, a timeout that is accepted    *)
(* and one that is not.                                                    *)
(***************************************************************************)
EXTENDS Startup
=============================================================================
