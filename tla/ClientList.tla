----------------------------- MODULE ClientList -----------------------------
(***************************************************************************)
(* The list of LIRC clients: the main thread accepts them                  *)
(* (src/src/lirc_srv.c), the LIRC thread writes every key to them and      *)
(* removes those it cannot write to (src/src/lirc_thr.c), both under       *)
(* dataMutex, except for two reads of clin that take no lock.  The kernel  *)
(* gives a closed descriptor away again at once, so a number may name      *)
(* another client between the close and the end of remove_client.          *)
(***************************************************************************)
EXTENDS Integers, FiniteSets

CONSTANTS
  MAX_CLIENTS,   \* slots of the array: 16 in lirc_srv.h
  Fds,           \* the descriptors accept can return
  FD_SETSIZE

FAIL == -1       \* what a failed accept returns

ASSUME ClientAssumption ==
  /\ MAX_CLIENTS \in Nat \ {0}
  /\ Fds \subseteq Nat
  /\ FD_SETSIZE \in Nat

VARIABLES
  clis, clin,    \* the client sockets and their number
  open,          \* the client descriptors that are open in the kernel
  mutex,         \* dataMutex: the thread that holds it, or "none"
  mainPc, fd,    \* where the main thread is; fd of add_client, else FAIL
  lircPc, i,     \* where the LIRC thread is; i of broadcastToLirc, else 0
  audience,      \* the clients in the list when the broadcast began
  written,       \* the clients this broadcast has written to
  removed,       \* the clients this broadcast has removed
  canceled,      \* __io_canceled
  aborted        \* an assertion failed: the process is gone

mainVars == <<mainPc, fd>>
lircVars == <<lircPc, i, audience, written, removed>>
vars == <<clis, clin, open, mutex, mainPc, fd, lircPc, i, audience, written,
          removed, canceled, aborted>>

Slots == 0 .. MAX_CLIENTS - 1

\* The descriptors in the slots from a to b - 1.
Entries(a, b) == {clis[k] : k \in {s \in Slots : a <= s /\ s < b}}

Init ==
  /\ clis = [k \in Slots |-> 0]
  /\ clin = 0
  /\ open = {}
  /\ mutex = "none"
  /\ mainPc = "loop" /\ fd = FAIL
  /\ lircPc = "loop" /\ i = 0
  /\ audience = {} /\ written = {} /\ removed = {}
  /\ canceled = FALSE
  /\ aborted = FALSE

-----------------------------------------------------------------------------
(* The main thread: lirc_server and add_client.                            *)

Poll ==
  /\ mainPc = "loop"
  /\ ~canceled
  /\ mainPc' = "poll"
  /\ UNCHANGED <<clis, clin, open, mutex, fd, lircVars, canceled, aborted>>

\* ppoll is interrupted by a signal.
Interrupted ==
  /\ mainPc = "poll"
  /\ mainPc' = "loop"
  /\ UNCHANGED <<clis, clin, open, mutex, fd, lircVars, canceled, aborted>>

\* ppoll returns an event, of whatever kind since p.events is tested, and
\* accept returns any free descriptor.
Accept ==
  /\ mainPc = "poll"
  /\ \E f \in Fds \ open : fd' = f /\ open' = open \cup {f}
  /\ mainPc' = "check"
  /\ UNCHANGED <<clis, clin, mutex, lircVars, canceled, aborted>>

\* accept fails: the failure is reported and add_client goes on with -1.
AcceptFails ==
  /\ mainPc = "poll"
  /\ fd' = FAIL
  /\ mainPc' = "check"
  /\ UNCHANGED <<clis, clin, open, mutex, lircVars, canceled, aborted>>

\* No room, as far as an unlocked look at clin can tell.
Reject ==
  /\ mainPc = "check"
  /\ fd >= FD_SETSIZE \/ clin >= MAX_CLIENTS
  /\ open' = open \ {fd}
  /\ fd' = FAIL
  /\ mainPc' = "loop"
  /\ UNCHANGED <<clis, clin, mutex, lircVars, canceled, aborted>>

\* Faulty variant of Admit: one client too many gets through.
AdmitTooMany ==
  /\ mainPc = "check"
  /\ fd < FD_SETSIZE /\ clin <= MAX_CLIENTS
  /\ mainPc' = "append"
  /\ UNCHANGED <<clis, clin, open, mutex, fd, lircVars, canceled, aborted>>

Admit ==
  /\ mainPc = "check"
  /\ fd < FD_SETSIZE /\ clin < MAX_CLIENTS
  /\ mainPc' = "append"
  /\ UNCHANGED <<clis, clin, open, mutex, fd, lircVars, canceled, aborted>>

\* Faulty variant of AppendClient: the mutex is not taken.
AppendClientUnlocked ==
  /\ mainPc = "append"
  /\ clis' = [clis EXCEPT ![clin] = fd]
  /\ clin' = clin + 1
  /\ fd' = FAIL
  /\ mainPc' = "loop"
  /\ UNCHANGED <<open, mutex, lircVars, canceled, aborted>>

AppendClient ==
  /\ mainPc = "append"
  /\ mutex = "none"
  /\ clis' = [clis EXCEPT ![clin] = fd]
  /\ clin' = clin + 1
  /\ fd' = FAIL
  /\ mainPc' = "loop"
  /\ UNCHANGED <<open, mutex, lircVars, canceled, aborted>>

\* Faulty variant of Drain: the last client is left open.
DrainAllButOne ==
  /\ mainPc = "loop"
  /\ canceled
  /\ mutex = "none"
  /\ open' = open \ Entries(0, clin - 1)
  /\ clin' = 0
  /\ mainPc' = "done"
  /\ UNCHANGED <<clis, mutex, fd, lircVars, canceled, aborted>>

\* The loop ends: every client is closed and the list emptied, then the
\* listening socket is closed.
Drain ==
  /\ mainPc = "loop"
  /\ canceled
  /\ mutex = "none"
  /\ open' = open \ Entries(0, clin)
  /\ clin' = 0
  /\ mainPc' = "done"
  /\ UNCHANGED <<clis, mutex, fd, lircVars, canceled, aborted>>

-----------------------------------------------------------------------------
(* The LIRC thread: broadcastToLirc and remove_client.                     *)

LircPoll ==
  /\ lircPc = "loop"
  /\ lircPc' = IF canceled THEN "done" ELSE "poll"
  /\ UNCHANGED <<clis, clin, open, mutex, mainVars, i, audience, written,
                 removed, canceled, aborted>>

\* The poll times out, or the report has nothing to broadcast.
NothingToSend ==
  /\ lircPc = "poll"
  /\ lircPc' = "loop"
  /\ UNCHANGED <<clis, clin, open, mutex, mainVars, i, audience, written,
                 removed, canceled, aborted>>

\* assert(_ld->clin < MAX_CLIENTS), read without the lock.
AssertHolds ==
  /\ lircPc = "poll"
  /\ clin < MAX_CLIENTS
  /\ lircPc' = "lock"
  /\ UNCHANGED <<clis, clin, open, mutex, mainVars, i, audience, written,
                 removed, canceled, aborted>>

AssertFails ==
  /\ lircPc = "poll"
  /\ clin >= MAX_CLIENTS
  /\ aborted' = TRUE
  /\ UNCHANGED <<clis, clin, open, mutex, mainVars, lircVars, canceled>>

Lock ==
  /\ lircPc = "lock"
  /\ mutex = "none"
  /\ mutex' = "lirc"
  /\ i' = 0
  /\ audience' = Entries(0, clin) /\ written' = {} /\ removed' = {}
  /\ lircPc' = "write"
  /\ UNCHANGED <<clis, clin, open, mainVars, canceled, aborted>>

WriteSucceeds ==
  /\ lircPc = "write"
  /\ i < clin
  /\ clis[i] \in open
  /\ written' = written \cup {clis[i]}
  /\ i' = i + 1
  /\ UNCHANGED <<clis, clin, open, mutex, mainVars, lircPc, audience, removed,
                 canceled, aborted>>

\* The client is gone or its buffer is full, or there is no such socket.
WriteFails ==
  /\ lircPc = "write"
  /\ i < clin
  /\ lircPc' = "close"
  /\ UNCHANGED <<clis, clin, open, mutex, mainVars, i, audience, written,
                 removed, canceled, aborted>>

\* The slot in which remove_client finds the descriptor it is called with.
FirstSlot(f) ==
  CHOOSE k \in Slots : clis[k] = f /\ \A l \in Slots : l < k => clis[l] # f

\* Faulty variant of CloseClient: only the list forgets the client.
CloseClientNever ==
  /\ lircPc = "close"
  /\ removed' = removed \cup {clis[i]}
  /\ lircPc' = "shift"
  /\ UNCHANGED <<clis, clin, open, mutex, mainVars, i, audience, written,
                 canceled, aborted>>

CloseClient ==
  /\ lircPc = "close"
  /\ open' = open \ {clis[i]}
  /\ removed' = removed \cup {clis[i]}
  /\ lircPc' = "shift"
  /\ UNCHANGED <<clis, clin, mutex, mainVars, i, audience, written, canceled,
                 aborted>>

\* Faulty variant of ShiftClients: the caller does not step back, and passes
\* over the client that moved into the free slot.
ShiftClientsSkip ==
  /\ lircPc = "shift"
  /\ clis' = [k \in Slots |->
                IF FirstSlot(clis[i]) <= k /\ k < clin - 1
                THEN clis[k + 1] ELSE clis[k]]
  /\ clin' = clin - 1
  /\ i' = i + 1
  /\ lircPc' = "write"
  /\ UNCHANGED <<open, mutex, mainVars, audience, written, removed, canceled,
                 aborted>>

\* Faulty variant of ShiftClients: clin is not decreased.
ShiftClientsKeep ==
  /\ lircPc = "shift"
  /\ clis' = [k \in Slots |->
                IF FirstSlot(clis[i]) <= k /\ k < clin - 1
                THEN clis[k + 1] ELSE clis[k]]
  /\ lircPc' = "write"
  /\ UNCHANGED <<clin, open, mutex, mainVars, i, audience, written, removed,
                 canceled, aborted>>

\* The clients behind move up and the broadcast goes on in the same slot.
ShiftClients ==
  /\ lircPc = "shift"
  /\ clis' = [k \in Slots |->
                IF FirstSlot(clis[i]) <= k /\ k < clin - 1
                THEN clis[k + 1] ELSE clis[k]]
  /\ clin' = clin - 1
  /\ lircPc' = "write"
  /\ UNCHANGED <<open, mutex, mainVars, i, audience, written, removed,
                 canceled, aborted>>

Unlock ==
  /\ lircPc = "write"
  /\ i >= clin
  /\ mutex' = "none"
  /\ i' = 0
  /\ audience' = {} /\ written' = {} /\ removed' = {}
  /\ lircPc' = "loop"
  /\ UNCHANGED <<clis, clin, open, mainVars, canceled, aborted>>

-----------------------------------------------------------------------------
\* SIGTERM or SIGINT.
Cancel ==
  /\ ~canceled
  /\ canceled' = TRUE
  /\ UNCHANGED <<clis, clin, open, mutex, mainVars, lircVars, aborted>>

Main == Poll \/ Interrupted \/ Accept \/ AcceptFails \/ Reject \/ Admit
        \/ AppendClient \/ Drain

Lirc == LircPoll \/ NothingToSend \/ AssertHolds \/ AssertFails \/ Lock
        \/ WriteSucceeds \/ WriteFails \/ CloseClient \/ ShiftClients \/ Unlock

\* Both threads have returned, or the process was aborted.
Terminated ==
  /\ aborted \/ (mainPc = "done" /\ lircPc = "done")
  /\ UNCHANGED vars

Next ==
  \/ ~aborted /\ (Main \/ Lirc \/ Cancel)
  \/ Terminated

Spec == Init /\ [][Next]_vars

\* The LIRC thread is scheduled, and gets the mutex it asks for.
FairSpec == Spec /\ SF_vars(~aborted /\ Lock) /\ WF_vars(~aborted /\ Lirc)

-----------------------------------------------------------------------------
TypeOK ==
  /\ clis \in [Slots -> Fds \cup {FAIL, 0}]
  /\ clin \in 0 .. MAX_CLIENTS
  /\ open \subseteq Fds
  /\ mutex \in {"none", "lirc"}
  /\ mainPc \in {"loop", "poll", "check", "append", "done"}
  /\ fd \in Fds \cup {FAIL}
  /\ lircPc \in {"loop", "poll", "lock", "write", "close", "shift", "done"}
  /\ i \in 0 .. MAX_CLIENTS
  /\ audience \subseteq Fds \cup {FAIL}
  /\ written \subseteq Fds
  /\ removed \subseteq Fds \cup {FAIL}
  /\ canceled \in BOOLEAN
  /\ aborted \in BOOLEAN

\* The array never overflows, although add_client looks at clin before it
\* takes the mutex: only the main thread adds, and the LIRC thread can only
\* make more room in between (lirc_srv.c:214, 229-231).
NoOverflow == mainPc = "append" => clin < MAX_CLIENTS

Broadcasting == lircPc \in {"write", "close", "shift"}

\* The inductive invariant: the LIRC thread shrinks the list only under the
\* mutex, only from a slot it found in it, and what is in the list was returned
\* by accept (lirc_srv.c:200-254, lirc_thr.c:371-392).
ClientInv ==
  /\ TypeOK
  /\ NoOverflow
  /\ Broadcasting <=> mutex = "lirc"
  /\ Broadcasting => i <= clin
  /\ lircPc \in {"close", "shift"} => i < clin
  /\ mainPc = "done" => clin = 0
  /\ \A k \in Slots : k < clin => clis[k] \in Fds \cup {FAIL}

\* The slots that hold a client of their own: all but the one whose client
\* remove_client has closed and not yet taken out of the list.
OwnSlots == {k \in Slots : k < clin /\ (lircPc = "shift" => k # i)}

\* The client add_client has accepted and not yet listed or rejected.
Pending == {f \in {fd} : mainPc \in {"check", "append"} /\ f # FAIL}

\* The list and the kernel agree at every step: each open client is in one
\* slot or in add_client's hands, and no slot names a closed descriptor, nor
\* one that the kernel has given to another client since (lirc_srv.c:205-253).
NoStaleFd ==
  LET listed == {clis[k] : k \in OwnSlots} \ {FAIL} IN
  /\ open = listed \cup Pending
  /\ listed \cap Pending = {}
  /\ \A k, l \in {s \in Slots : s < clin} :
       clis[k] = clis[l] => k = l \/ clis[k] = FAIL

\* While a broadcast walks the list and shrinks it under its own feet, every
\* client that was listed when it began has been written to, once, or has been
\* removed, or is still ahead (lirc_thr.c:375-381, lirc_srv.c:238-252).
BroadcastReachesAll ==
  Broadcasting =>
    /\ i <= clin
    /\ written = Entries(0, i) /\ Cardinality(written) = i
    /\ audience = written \cup removed \cup Entries(i, clin)

\* When the server has returned no client is listed and none is left open,
\* whatever the LIRC thread was doing: what destroyLircData asserts
\* (lirc_srv.c:105, 148-155).
Drained == mainPc = "done" => clin = 0 /\ open = {}

\* A broadcast ends, however many of its writes fail: its loop index steps
\* back for each client it removes (lirc_thr.c:375-381).
BroadcastEnds == (lircPc = "lock") ~> (lircPc = "loop")

\* What is left of a broadcast: three steps at most for each slot ahead, the
\* write, the close and the shift of remove_client, and the unlock.
StepsLeft ==
  3 * (clin - i) + CASE lircPc = "write" -> 2
                     [] lircPc = "close" -> 1
                     [] OTHER -> 0

\* Why a broadcast ends: every step of its own is one step less to go, although
\* its index does not move when it removes a client, and nobody else makes it
\* longer, although clients are accepted meanwhile (lirc_thr.c:373-392,
\* lirc_srv.c:229-231, 245-250).
BroadcastShrinks == [][
  Broadcasting =>
    \/ StepsLeft' < StepsLeft
    \/ ~Broadcasting'
    \/ UNCHANGED <<lircPc, i, clin>>]_vars

\* The clients of the list: who is in a slot, without the failed accepts and
\* the one that is being removed; and those the broadcast has yet to serve.
Listed == {clis[k] : k \in OwnSlots} \ {FAIL}
Ahead == {clis[k] : k \in {s \in OwnSlots : Broadcasting /\ i <= s}} \ {FAIL}

Abstract == INSTANCE ClientSet WITH
  clients <- Listed, pending <- Pending, sending <- Broadcasting, todo <- Ahead

\* The array that two threads grow, shrink and walk is to its clients a set of
\* at most MAX_CLIENTS (lirc_srv.c:111-254, lirc_thr.c:356-393).
ImplementsClientSet == Abstract!Spec

\* "The number of LIRC clients that can connect at the same time."
\* (lirc_srv.h:54): the daemon serves MAX_CLIENTS clients.
NeverAborts == ~aborted
=============================================================================
