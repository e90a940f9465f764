---------------------------- MODULE MCKeyRepeat ----------------------------
(***************************************************************************)
(* Three keys of the remote, two of which have the same event code, and a  *)
(* code it may report that is not in the table; a second of six            *)
(* milliseconds, so that several seconds begin while a key is held.        *)
(***************************************************************************)
EXTENDS KeyRepeat, TLC

CONSTANTS k1, k2, k3

event_codes == (k1 :> 0) @@ (k2 :> 0) @@ (k3 :> 1) @@ (undef :> 2)
=============================================================================
