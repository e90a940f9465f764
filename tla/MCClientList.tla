---------------------------- MODULE MCClientList ----------------------------
(***************************************************************************)
(* Three slots, and five descriptors, one of them too large for select:    *)
(* the list fills and overflows, a removed client's descriptor comes back, *)
(* and several accepts can fail.                                           *)
(***************************************************************************)
EXTENDS ClientList
=============================================================================
