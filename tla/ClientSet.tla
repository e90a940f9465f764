------------------------------ MODULE ClientSet ------------------------------
(***************************************************************************)
(* What the LIRC server promises its clients (src/src/lirc_srv.c,          *)
(* src/src/lirc_thr.c), with no array, lock, index or reused descriptor:   *)
(* a set of at most MAX_CLIENTS clients.  A broadcast serves each client   *)
(* that belongs to it when it begins once, or drops it for a write that    *)
(* fails; nobody joins or is dropped otherwise until the server closes.    *)
(***************************************************************************)
EXTENDS Integers, FiniteSets

CONSTANTS Fds, MAX_CLIENTS

VARIABLES
  clients,   \* who is connected and listed
  pending,   \* who has been accepted and not yet listed or refused
  sending,   \* a broadcast is under way
  todo       \* the clients it has yet to serve

setVars == <<clients, pending, sending, todo>>

Init ==
  /\ clients = {} /\ pending = {}
  /\ sending = FALSE
  /\ todo = {}

\* A connection is accepted: its descriptor is nobody else's.
Connect(f) ==
  /\ pending = {}
  /\ f \notin clients
  /\ pending' = {f}
  /\ UNCHANGED <<clients, sending, todo>>

Refuse(f) ==
  /\ pending = {f}
  /\ pending' = {}
  /\ UNCHANGED <<clients, sending, todo>>

\* There is room, and no broadcast under way.
Join(f) ==
  /\ pending = {f}
  /\ ~sending
  /\ Cardinality(clients) < MAX_CLIENTS
  /\ clients' = clients \cup {f}
  /\ pending' = {}
  /\ UNCHANGED <<sending, todo>>

Begin ==
  /\ ~sending
  /\ sending' = TRUE
  /\ todo' = clients
  /\ UNCHANGED <<clients, pending>>

Serve(f) ==
  /\ sending /\ f \in todo
  /\ todo' = todo \ {f}
  /\ UNCHANGED <<clients, pending, sending>>

\* A client that cannot be written to is dropped.
Drop(f) ==
  /\ sending /\ f \in todo
  /\ clients' = clients \ {f}
  /\ todo' = todo \ {f}
  /\ UNCHANGED <<pending, sending>>

\* A broadcast ends when it has served or dropped everybody.
End ==
  /\ sending /\ todo = {}
  /\ sending' = FALSE
  /\ UNCHANGED <<clients, pending, todo>>

\* The server closes every client, between two broadcasts.
Close ==
  /\ ~sending /\ pending = {}
  /\ clients' = {}
  /\ UNCHANGED <<pending, sending, todo>>

Next ==
  \/ \E f \in Fds : Connect(f) \/ Refuse(f) \/ Join(f) \/ Serve(f) \/ Drop(f)
  \/ Begin \/ End \/ Close

Spec == Init /\ [][Next]_setVars
=============================================================================
