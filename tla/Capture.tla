------------------------------- MODULE Capture -------------------------------
(***************************************************************************)
(* The bluetooth thread (src/src/capture/capture_bluez.c) and the          *)
(* callbacks it makes (src/src/lirc_callback.c).  It accepts the control   *)
(* and then the interrupt channel of a device, checks the address of the   *)
(* first, reads reports from the second until the device is gone or silent *)
(* for too long, and hands each report to the queue of ThreadQueue, which  *)
(* is only a number of elements here.                                      *)
(*                                                                         *)
(* The devices connect, disconnect and send as they like, and a connection *)
(* that is dropped before it was accepted leaves the backlog.  Both        *)
(* accepts block: only a signal to this thread makes one of them fail.     *)
(* A label of pc that names a system call is also the place just before    *)
(* it: a signal handled there interrupts nothing.  "loop" is the test of   *)
(* run_server, "poll" its ppoll of one second.                             *)
(***************************************************************************)
EXTENDS Integers, Sequences, SequencesExt

CONSTANTS
  Devices,    \* bluetooth devices
  Remote,     \* the one with the address dest_address
  Bytes,      \* the values of byte 12 of a report, the battery level if <= 5
  timeout,    \* config->disconnect_timeout, in seconds
  QUEUESIZE,
  BACKLOG,    \* pending connections of a listening socket: 10 in the code
  MaxUnread   \* bound of the reports in a socket's receive queue

CONSTANTS FAIL, None   \* no socket, and no call of the script yet

ASSUME CaptureAssumption ==
  /\ Remote \in Devices
  /\ Bytes \subseteq Nat
  /\ timeout \in Nat
  /\ QUEUESIZE \in Nat \ {0}
  /\ BACKLOG \in Nat \ {0}
  /\ MaxUnread \in Nat \ {0}
  /\ FAIL \notin [dev : Devices, up : BOOLEAN]
  /\ None \notin Nat \X Nat

VARIABLES
  pc,
  csk, isk,          \* the backlogs of the two listening sockets
  ncsk, nisk,        \* the accepted channels: their device, and whether it
                     \* is still connected
  unread,            \* what nisk has received and recv has not returned
  numberOfSeconds,
  quiet,             \* seconds since the session began or the last report came
  stat,              \* how the last session ended, readFromSocket's result
  connected,         \* RemoteConnected called, RemoteDisconnected not yet
  charge_percent, charge_percent_set,
  told,              \* <prev> and <now> of the last call of the script
  queued,            \* elements in the queue
  canceled,          \* __io_canceled
  killed             \* main has sent its signal to this thread

channels == <<csk, isk, ncsk, nisk, unread>>
session == <<numberOfSeconds, quiet, stat, connected>>
battery == <<charge_percent, charge_percent_set, told>>
vars == <<pc, csk, isk, ncsk, nisk, unread, numberOfSeconds, quiet, stat,
          connected, charge_percent, charge_percent_set, told, queued,
          canceled, killed>>

Channel == [dev : Devices, up : BOOLEAN]

Init ==
  /\ pc = "start"
  /\ csk = <<>> /\ isk = <<>>
  /\ ncsk = FAIL /\ nisk = FAIL
  /\ unread = <<>>
  /\ numberOfSeconds = 0 /\ quiet = 0
  /\ stat = -1
  /\ connected = FALSE
  /\ charge_percent = 100 /\ charge_percent_set = FALSE
  /\ told = None
  /\ queued = 0
  /\ canceled = FALSE
  /\ killed = FALSE

-----------------------------------------------------------------------------
(* run_server                                                              *)

ParseAddress ==
  /\ pc = "start"
  /\ pc' = "loop"
  /\ UNCHANGED <<channels, session, battery, queued, canceled, killed>>

\* str2ba cannot parse dest_address: there is no loop, and nobody is told.
BadAddress ==
  /\ pc = "start"
  /\ csk' = <<>> /\ isk' = <<>>
  /\ pc' = "done"
  /\ UNCHANGED <<ncsk, nisk, unread, session, battery, queued, canceled, killed>>

TestServer ==
  /\ pc = "loop"
  /\ ~canceled
  /\ pc' = "poll"
  /\ UNCHANGED <<channels, session, battery, queued, canceled, killed>>

\* One of the listening sockets is readable: __io_canceled may have been set
\* since it was tested.
PollClients ==
  /\ pc = "poll"
  /\ csk # <<>> \/ isk # <<>>
  /\ pc' = "acceptCtrl"
  /\ UNCHANGED <<channels, session, battery, queued, canceled, killed>>

\* The poll times out or is interrupted.
PollNobody ==
  /\ pc = "poll"
  /\ csk = <<>> /\ isk = <<>>
  /\ pc' = "loop"
  /\ UNCHANGED <<channels, session, battery, queued, canceled, killed>>

\* The loop ends and captureLoop closes the listening sockets.
StopServer ==
  /\ pc = "loop"
  /\ canceled
  /\ csk' = <<>> /\ isk' = <<>>
  /\ pc' = "done"
  /\ UNCHANGED <<ncsk, nisk, unread, session, battery, queued, canceled, killed>>

AcceptCtrl ==
  /\ pc = "acceptCtrl"
  /\ csk # <<>>
  /\ ncsk' = [dev |-> Head(csk), up |-> TRUE]
  /\ csk' = Tail(csk)
  /\ pc' = "acceptIntr"
  /\ UNCHANGED <<isk, nisk, unread, session, battery, queued, canceled, killed>>

AcceptIntr ==
  /\ pc = "acceptIntr"
  /\ isk # <<>>
  /\ nisk' = [dev |-> Head(isk), up |-> TRUE]
  /\ isk' = Tail(isk)
  /\ pc' = "check"
  /\ UNCHANGED <<csk, ncsk, unread, session, battery, queued, canceled, killed>>

\* l2cap_checkSource: 1 and 0 for the remote and another device, and -1 when
\* the channel has no peer any more.
checkSource(sk) ==
  IF sk = FAIL \/ (sk # FAIL /\ ~sk.up) THEN -1
  ELSE IF sk.dev = Remote THEN 1 ELSE 0

\* Every result but 0 begins a session.
KnownDevice ==
  /\ pc = "check"
  /\ checkSource(ncsk) # 0
  /\ connected' = TRUE
  /\ numberOfSeconds' = 0 /\ quiet' = 0
  /\ pc' = "read"
  /\ UNCHANGED <<channels, stat, battery, queued, canceled, killed>>

UnknownDevice ==
  /\ pc = "check"
  /\ checkSource(ncsk) = 0
  /\ pc' = "close"
  /\ UNCHANGED <<channels, session, battery, queued, canceled, killed>>

\* close(nisk); what it had received is gone.
CloseIntr ==
  /\ pc = "close"
  /\ nisk' = FAIL
  /\ unread' = <<>>
  /\ pc' = "sleep"
  /\ UNCHANGED <<csk, isk, ncsk, session, battery, queued, canceled, killed>>

\* The control channel is closed a second later.
CloseCtrl ==
  /\ pc = "sleep"
  /\ ncsk' = FAIL
  /\ pc' = "loop"
  /\ UNCHANGED <<csk, isk, nisk, unread, session, battery, queued, canceled,
                 killed>>

-----------------------------------------------------------------------------
(* readFromSocket                                                          *)

\* It returns r, and RemoteDisconnected is called.
EndSession(r) ==
  /\ stat' = r
  /\ connected' = FALSE
  /\ pc' = "close"

ReadCanceled ==
  /\ pc = "read"
  /\ canceled
  /\ EndSession(0)
  /\ UNCHANGED <<channels, numberOfSeconds, quiet, battery, queued, canceled,
                 killed>>

ReadExpired ==
  /\ pc = "read"
  /\ ~canceled
  /\ numberOfSeconds > timeout
  /\ EndSession(2)
  /\ UNCHANGED <<channels, numberOfSeconds, quiet, battery, queued, canceled,
                 killed>>

\* Faulty variant of ReadPoll: the loop of a session does not look at
\* __io_canceled.
ReadPollOn ==
  /\ pc = "read"
  /\ numberOfSeconds <= timeout
  /\ pc' = "readPoll"
  /\ UNCHANGED <<channels, session, battery, queued, canceled, killed>>

ReadPoll ==
  /\ pc = "read"
  /\ ~canceled
  /\ numberOfSeconds <= timeout
  /\ pc' = "readPoll"
  /\ UNCHANGED <<channels, session, battery, queued, canceled, killed>>

\* ppoll reports data, or that the device is gone.
Readable == nisk # FAIL /\ (unread # <<>> \/ ~nisk.up)

\* Faulty variant of PollTimeout: the second is not counted.
PollTimeoutFree ==
  /\ pc = "readPoll"
  /\ ~Readable
  /\ quiet' = quiet + 1
  /\ pc' = "read"
  /\ UNCHANGED <<channels, numberOfSeconds, stat, connected, battery, queued,
                 canceled, killed>>

\* Nothing for a second, or no socket at all to wait for.
PollTimeout ==
  /\ pc = "readPoll"
  /\ ~Readable
  /\ numberOfSeconds' = numberOfSeconds + 1
  /\ quiet' = quiet + 1
  /\ pc' = "read"
  /\ UNCHANGED <<channels, stat, connected, battery, queued, canceled, killed>>

\* ppoll is interrupted by the signal of main: this counts as a second, too.
PollInterrupted ==
  /\ pc = "readPoll"
  /\ killed
  /\ numberOfSeconds' = numberOfSeconds + 1
  /\ pc' = "read"
  /\ UNCHANGED <<channels, quiet, stat, connected, battery, queued, canceled,
                 killed>>

\* Faulty variant of RemoteBatteryCharge: every charge is taken for the first.
RemoteBatteryChargeUnset(val) ==
  /\ charge_percent' = val
  /\ told' = <<val, val>>
  /\ UNCHANGED charge_percent_set

\* The script is called for the first charge and for each change.
RemoteBatteryCharge(val) ==
  /\ charge_percent_set' = TRUE
  /\ charge_percent' = val
  /\ told' = IF charge_percent_set /\ charge_percent = val THEN told
             ELSE <<IF charge_percent_set THEN charge_percent ELSE val, val>>

\* Faulty variant of Recv: numberOfSeconds is only reset by a report that
\* carries a battery level.
RecvStaysLate ==
  /\ pc = "readPoll"
  /\ nisk # FAIL /\ unread # <<>>
  /\ numberOfSeconds' = IF Head(unread) <= 5 THEN 0 ELSE numberOfSeconds
  /\ unread' = Tail(unread)
  /\ IF Head(unread) <= 5 THEN RemoteBatteryCharge(Head(unread) * 20)
                          ELSE UNCHANGED battery
  /\ pc' = "add"
  /\ UNCHANGED <<csk, isk, ncsk, nisk, quiet, stat, connected, queued,
                 canceled, killed>>

\* recv returns a report.  One that is too short to hold a battery level
\* stands with the levels the switch has no case for.
Recv ==
  /\ pc = "readPoll"
  /\ nisk # FAIL /\ unread # <<>>
  /\ numberOfSeconds' = 0
  /\ unread' = Tail(unread)
  /\ IF Head(unread) <= 5 THEN RemoteBatteryCharge(Head(unread) * 20)
                          ELSE UNCHANGED battery
  /\ pc' = "add"
  /\ UNCHANGED <<csk, isk, ncsk, nisk, quiet, stat, connected, queued,
                 canceled, killed>>

\* Faulty variant of RecvGone: a hangup ends the session before what was
\* received ahead of it has been read.
RecvGoneFirst ==
  /\ pc = "readPoll"
  /\ nisk # FAIL /\ ~nisk.up
  /\ numberOfSeconds' = 0
  /\ EndSession(1)
  /\ UNCHANGED <<channels, quiet, battery, queued, canceled, killed>>

\* Faulty variant of RecvGone: recv_len = 0 is not taken for the end.
RecvGoneGoesOn ==
  /\ pc = "readPoll"
  /\ nisk # FAIL /\ ~nisk.up /\ unread = <<>>
  /\ numberOfSeconds' = 0
  /\ pc' = "read"
  /\ UNCHANGED <<channels, quiet, stat, connected, battery, queued, canceled,
                 killed>>

\* recv returns 0, or fails.
RecvGone ==
  /\ pc = "readPoll"
  /\ nisk # FAIL /\ ~nisk.up /\ unread = <<>>
  /\ numberOfSeconds' = 0
  /\ EndSession(1)
  /\ UNCHANGED <<channels, quiet, battery, queued, canceled, killed>>

\* DataInd: queueAdd blocks while the queue is full.
DataInd ==
  /\ pc = "add"
  /\ queued < QUEUESIZE
  /\ queued' = queued + 1
  /\ pc' = "read"
  /\ UNCHANGED <<channels, session, battery, canceled, killed>>

-----------------------------------------------------------------------------
(* The devices, the LIRC thread, and the signals.                          *)

Connect(d) ==
  /\ pc # "done"
  /\ \/ Len(csk) < BACKLOG /\ csk' = Append(csk, d) /\ UNCHANGED isk
     \/ Len(isk) < BACKLOG /\ isk' = Append(isk, d) /\ UNCHANGED csk
  /\ UNCHANGED <<pc, ncsk, nisk, unread, session, battery, queued, canceled,
                 killed>>

\* A device drops a connection that nobody has accepted yet.
DropPending ==
  /\ \/ \E k \in DOMAIN csk : csk' = RemoveAt(csk, k) /\ UNCHANGED isk
     \/ \E k \in DOMAIN isk : isk' = RemoveAt(isk, k) /\ UNCHANGED csk
  /\ UNCHANGED <<pc, ncsk, nisk, unread, session, battery, queued, canceled,
                 killed>>

\* A device drops an accepted channel; an error on the link discards what the
\* socket had received.
DropCtrl ==
  /\ ncsk # FAIL
  /\ ncsk.up
  /\ ncsk' = [ncsk EXCEPT !.up = FALSE]
  /\ UNCHANGED <<pc, csk, isk, nisk, unread, session, battery, queued,
                 canceled, killed>>

DropIntr ==
  /\ nisk # FAIL
  /\ nisk.up
  /\ nisk' = [nisk EXCEPT !.up = FALSE]
  /\ unread' \in {unread, <<>>}
  /\ UNCHANGED <<pc, csk, isk, ncsk, session, battery, queued, canceled, killed>>

Send(b) ==
  /\ nisk # FAIL
  /\ nisk.up
  /\ Len(unread) < MaxUnread
  /\ unread' = Append(unread, b)
  /\ quiet' = 0
  /\ UNCHANGED <<pc, csk, isk, ncsk, nisk, numberOfSeconds, stat, connected,
                 battery, queued, canceled, killed>>

\* The LIRC thread takes an element out.
LircRemove ==
  /\ queued > 0
  /\ queued' = queued - 1
  /\ UNCHANGED <<pc, channels, session, battery, canceled, killed>>

\* SIGTERM or SIGINT, handled by another thread.
Cancel ==
  /\ ~canceled
  /\ canceled' = TRUE
  /\ UNCHANGED <<pc, channels, session, battery, queued, killed>>

\* pthread_kill by main: an accept fails if the thread is already in it; a
\* poll or a sleep only ends earlier, and a wait for the queue goes on.  A
\* thread that has ended runs no handler; one that has left run_server and has
\* not yet ended still does.
Kill ==
  /\ ~killed
  /\ killed' = TRUE
  /\ canceled' \in IF pc = "done" THEN {canceled, TRUE} ELSE {TRUE}
  /\ \/ UNCHANGED pc
     \/ pc = "acceptCtrl" /\ pc' = "acceptIntr"
     \/ pc = "acceptIntr" /\ pc' = "check"
  /\ UNCHANGED <<channels, session, battery, queued>>

RunServer ==
  \/ ParseAddress \/ BadAddress \/ TestServer \/ PollClients \/ PollNobody
  \/ StopServer \/ AcceptCtrl \/ AcceptIntr \/ KnownDevice \/ UnknownDevice
  \/ CloseIntr \/ CloseCtrl

ReadFromSocket == ReadCanceled \/ ReadExpired \/ ReadPoll \/ PollTimeout
                  \/ PollInterrupted \/ Recv \/ RecvGone \/ DataInd

BtThread == RunServer \/ ReadFromSocket

Environment ==
  \/ \E d \in Devices : Connect(d)
  \/ \E b \in Bytes : Send(b)
  \/ DropPending \/ DropCtrl \/ DropIntr

Terminated == pc = "done" /\ UNCHANGED vars

Next == BtThread \/ Environment \/ LircRemove \/ Cancel \/ Kill \/ Terminated

Spec == Init /\ [][Next]_vars

\* The thread goes on whenever it is not blocked.
FairSpec == Spec /\ WF_vars(BtThread)

-----------------------------------------------------------------------------
InSession == pc \in {"read", "readPoll", "add"}

TypeOK ==
  /\ pc \in {"start", "loop", "poll", "acceptCtrl", "acceptIntr", "check",
             "read", "readPoll", "add", "close", "sleep", "done"}
  /\ csk \in Seq(Devices) /\ Len(csk) <= BACKLOG
  /\ isk \in Seq(Devices) /\ Len(isk) <= BACKLOG
  /\ ncsk \in Channel \cup {FAIL}
  /\ nisk \in Channel \cup {FAIL}
  /\ unread \in Seq(Bytes) /\ Len(unread) <= MaxUnread
  /\ numberOfSeconds \in Nat
  /\ quiet \in Nat
  /\ stat \in {-1, 0, 1, 2}
  /\ connected \in BOOLEAN
  /\ charge_percent \in Nat
  /\ charge_percent_set \in BOOLEAN
  /\ told \in (Nat \X Nat) \cup {None}
  /\ queued \in 0 .. QUEUESIZE
  /\ canceled \in BOOLEAN
  /\ killed \in BOOLEAN

\* The inductive invariant: a channel is accepted only between its accept and
\* its close, so that none is leaked or closed twice; the count of the loop is
\* at most one second past its limit and behind the real silence unless a
\* signal added to it; the signal of main cancels a thread that has not ended;
\* and the remembered charge is what the script was last told
\* (capture_bluez.c:278-347, 389-441, bdremoteng.c:263, lirc_callback.c:73-95).
CaptureInv ==
  /\ TypeOK
  /\ connected <=> InSession
  /\ pc \in {"start", "loop", "poll", "acceptCtrl", "done"} => ncsk = FAIL
  /\ ~InSession /\ pc \notin {"check", "close"} => nisk = FAIL
  /\ nisk = FAIL => unread = <<>>
  /\ killed => canceled \/ pc = "done"
  /\ pc = "readPoll" => numberOfSeconds <= timeout
  /\ pc = "add" => numberOfSeconds = 0
  /\ numberOfSeconds <= timeout + 1
  /\ InSession /\ ~killed /\ (nisk # FAIL => nisk.up /\ unread = <<>>) =>
       numberOfSeconds <= quiet
  /\ charge_percent_set <=> told # None
  /\ told # None => told[2] = charge_percent

\* A session is not given up while its device sends: a timeout means more
\* than timeout seconds of silence, unless something arrived after the last
\* poll (capture_bluez.c:280-297).
TimeoutJustified == [][
  ReadExpired => quiet > timeout \/ (nisk # FAIL /\ (unread # <<>> \/ ~nisk.up))
  ]_vars

\* A silent device is disconnected: the session never outlasts its last
\* report by more than timeout + 1 polls (capture_bluez.c:280-296).
SilenceBound == InSession => quiet <= timeout + 1

\* The reports that the socket of a session holds are handed to the queue
\* before the session ends, also behind a hangup; only a timeout that races a
\* late report and the end of the daemon leave any unread.  What a failing link
\* discards is gone before the thread can see it (capture_bluez.c:291-345, 438).
NoReportLost == [][
  connected /\ ~connected' /\ unread # <<>> => stat' = 2 \/ canceled ]_vars

\* Across sessions the calls of the script form a chain: each begins with the
\* charge the one before ended with, and tells of a change
\* (lirc_callback.c:73-95).
BatteryChain == [][
  told' # told =>
    IF told = None THEN told'[1] = told'[2]
    ELSE told'[1] = told[2] /\ told'[2] # told[2] ]_vars

\* A session goes on only as long as reports come: it ends, or another report
\* is handed over (capture_bluez.c:278-347).
SessionsEnd == connected ~> (~connected \/ pc = "add")

\* An accept that the signal of main made fail yields -1 for a descriptor, and
\* the check of such a control channel is passed by whoever holds the interrupt
\* channel: a session begins.  Nothing is read in it, because the flag that came
\* with that signal ends it at its first test.  What is read has come through
\* two accepts that succeeded, behind a control channel that is the remote's or
\* whose peer has hung up (capture_bluez.c:278, 405-417).
ReadsOnlyAccepted ==
  pc \in {"readPoll", "add"} =>
    /\ ncsk # FAIL /\ nisk # FAIL
    /\ ncsk.dev = Remote \/ ~ncsk.up
=============================================================================
