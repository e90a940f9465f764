------------------------------- MODULE Daemon -------------------------------
(***************************************************************************)
(* The life of the daemon (src/src/bdremoteng.c): main creates the         *)
(* bluetooth thread, which is that of Capture, and the LIRC thread, serves *)
(* LIRC clients until a signal arrives, stops the two and joins them.      *)
(*                                                                         *)
(* A SIGTERM or SIGINT to the process is handled by the main thread, which *)
(* never blocks it.  A label of mainPc that names a system call is also    *)
(* the place just before it.  What the threads do to the list of clients   *)
(* is in ClientList.                                                       *)
(***************************************************************************)
EXTENDS Capture

VARIABLES
  mainPc,     \* where main is; "exited", "aborted", "crashed" and "terminated"
              \* are ends
  lircPc,     \* where the LIRC thread is, "failed" if it was not created
  sockinet,   \* "none" is BDREMOTE_FAIL, "closed" a descriptor that was closed
  knocking    \* a LIRC client waits to be accepted

mainVars == <<mainPc, sockinet, knocking>>
daemonVars == <<vars, mainPc, lircPc, sockinet, knocking>>

Ended == mainPc \in {"exited", "aborted", "crashed", "terminated"}

DaemonInit ==
  /\ Init
  /\ mainPc = "sigaction"
  /\ lircPc = "none"
  /\ sockinet = "none"
  /\ knocking = FALSE

-----------------------------------------------------------------------------
(* main and lirc_server.  The bluetooth thread runs from the beginning.    *)

MainGoes(from, to) == mainPc = from /\ mainPc' = to

Sigaction ==
  /\ MainGoes("sigaction", "start")
  /\ UNCHANGED <<vars, lircPc, sockinet, knocking>>

\* The result of pthread_create is not looked at.
StartLircThread ==
  /\ MainGoes("start", "listen")
  /\ lircPc' \in {"test", "failed"}
  /\ UNCHANGED <<vars, sockinet, knocking>>

CreateListener ==
  /\ MainGoes("listen", "test")
  /\ sockinet' = "open"
  /\ UNCHANGED <<vars, lircPc, knocking>>

\* socket fails, or bind does: then the descriptor is closed and kept.
\* Either way lirc_server returns and main goes on to its end.
CreateListenerFails ==
  /\ MainGoes("listen", "kill")
  /\ sockinet' \in {"none", "closed"}
  /\ UNCHANGED <<vars, lircPc, knocking>>

TestCanceled ==
  /\ MainGoes("test", IF canceled THEN "drain" ELSE "ppoll")
  /\ UNCHANGED <<vars, lircPc, sockinet, knocking>>

\* ppoll returns and add_client accepts.
AddClient ==
  /\ MainGoes("ppoll", "test")
  /\ knocking
  /\ knocking' = FALSE
  /\ UNCHANGED <<vars, lircPc, sockinet>>

CloseAll ==
  /\ MainGoes("drain", "kill")
  /\ sockinet' = "none"
  /\ knocking' = FALSE
  /\ UNCHANGED <<vars, lircPc>>

\* Faulty variant of KillBt: main waits for the thread without a signal.
KillBtNot ==
  /\ MainGoes("kill", "joinBt")
  /\ UNCHANGED <<vars, lircPc, sockinet, knocking>>

\* pthread_kill: the thread may be blocked, and after a failed start its
\* handler is also what sets __io_canceled, unless the thread has ended.
KillBt ==
  /\ MainGoes("kill", "joinBt")
  /\ Kill
  /\ UNCHANGED <<lircPc, sockinet, knocking>>

\* Faulty variant of JoinBt: the thread is not waited for.
JoinBtNot ==
  /\ MainGoes("joinBt", "joinLirc")
  /\ UNCHANGED <<vars, lircPc, sockinet, knocking>>

JoinBt ==
  /\ MainGoes("joinBt", "joinLirc")
  /\ pc = "done"
  /\ UNCHANGED <<vars, lircPc, sockinet, knocking>>

\* Without a thread, the id that is joined was never written: the call may
\* return, crash, or wait for good.
JoinLirc ==
  /\ \/ lircPc = "done" /\ MainGoes("joinLirc", "destroy")
     \/ lircPc = "failed"
        /\ \E to \in {"destroy", "crashed", "waiting"} : MainGoes("joinLirc", to)
  /\ UNCHANGED <<vars, lircPc, sockinet, knocking>>

\* destroyLircData asserts that the listener is BDREMOTE_FAIL.
Destroy ==
  /\ MainGoes("destroy", IF sockinet = "none" THEN "exited" ELSE "aborted")
  /\ UNCHANGED <<vars, lircPc, sockinet, knocking>>

Main ==
  \/ Sigaction \/ StartLircThread \/ CreateListener \/ CreateListenerFails
  \/ TestCanceled \/ AddClient \/ CloseAll \/ KillBt \/ JoinBt \/ JoinLirc
  \/ Destroy

-----------------------------------------------------------------------------
(* The LIRC thread.                                                        *)

LircTest ==
  /\ lircPc = "test"
  /\ lircPc' = IF canceled THEN "done" ELSE "remove"
  /\ UNCHANGED <<vars, mainVars>>

\* queueRemNonBlock returns an element, which is handled.
LircTakes ==
  /\ lircPc = "remove"
  /\ LircRemove
  /\ lircPc' = "test"
  /\ UNCHANGED mainVars

LircTimeout ==
  /\ lircPc = "remove"
  /\ lircPc' = "test"
  /\ UNCHANGED <<vars, mainVars>>

Lirc == LircTest \/ LircTakes \/ LircTimeout

-----------------------------------------------------------------------------
\* SIGTERM or SIGINT.  Before the handler is there it ends the process; the
\* ppoll of main is interrupted only when it has begun.
Sigterm ==
  \/ /\ MainGoes("sigaction", "terminated")
     /\ UNCHANGED <<vars, lircPc, sockinet, knocking>>
  \/ /\ mainPc # "sigaction"
     /\ ~Ended
     /\ canceled' = TRUE
     /\ mainPc' \in {mainPc} \cup (IF mainPc = "ppoll" THEN {"test"} ELSE {})
     /\ UNCHANGED <<pc, channels, session, battery, queued, killed, lircPc,
                    sockinet, knocking>>

ClientKnocks ==
  /\ sockinet = "open"
  /\ ~knocking
  /\ knocking' = TRUE
  /\ UNCHANGED <<vars, mainPc, lircPc, sockinet>>

Bluetooth == ~Ended /\ BtThread /\ UNCHANGED <<lircPc, mainVars>>

BtDevices == ~Ended /\ Environment /\ UNCHANGED <<lircPc, mainVars>>

DaemonTerminated == Ended /\ UNCHANGED daemonVars

DaemonNext ==
  Main \/ Lirc \/ Bluetooth \/ BtDevices \/ Sigterm \/ ClientKnocks
  \/ DaemonTerminated

DaemonSpec == DaemonInit /\ [][DaemonNext]_daemonVars

\* Each thread goes on whenever it is not blocked.
DaemonFairSpec ==
  /\ DaemonSpec
  /\ WF_daemonVars(Main)
  /\ WF_daemonVars(Lirc)
  /\ WF_daemonVars(Bluetooth)

-----------------------------------------------------------------------------
DaemonTypeOK ==
  /\ mainPc \in {"sigaction", "start", "listen", "test", "ppoll", "drain", "kill",
                 "joinBt", "joinLirc", "waiting", "destroy", "exited", "aborted",
                 "crashed", "terminated"}
  /\ lircPc \in {"none", "failed", "test", "remove", "done"}
  /\ sockinet \in {"none", "open", "closed"}
  /\ knocking \in BOOLEAN

\* Main and the two threads agree on how far the shutdown has come, and the
\* listener is open exactly while it is served (bdremoteng.c:230-270,
\* lirc_srv.c:117-162).
LifeInv ==
  /\ DaemonTypeOK
  /\ sockinet = "open" <=> mainPc \in {"test", "ppoll", "drain"}
  /\ knocking => sockinet = "open"
  /\ mainPc = "drain" => canceled
  /\ lircPc = "none" <=> mainPc \in {"sigaction", "start", "terminated"}
  /\ lircPc = "done" => canceled
  /\ killed <=> mainPc \in {"joinBt", "joinLirc", "waiting", "destroy", "exited",
                             "aborted", "crashed"}
  /\ mainPc \in {"joinLirc", "waiting", "destroy", "exited", "aborted", "crashed"} =>
       pc = "done"
  /\ mainPc \in {"destroy", "exited", "aborted"} => lircPc \in {"done", "failed"}
  /\ mainPc \in {"waiting", "crashed"} => lircPc = "failed"
  /\ mainPc = "exited" => sockinet = "none"

\* The inductive invariant: the life cycle together with what Capture keeps
\* (bdremoteng.c:230-270, capture_bluez.c:278-441).
DaemonInv == CaptureInv /\ LifeInv

\* The handler ran after main had tested __io_canceled and before its ppoll.
SignalMissed == mainPc = "ppoll" /\ canceled

\* The signal of main came before the accept it was to interrupt.
StuckInAccept == killed /\ pc \in {"acceptCtrl", "acceptIntr"}

\* The queue is full and no LIRC thread takes from it: queueAdd never returns.
StuckInAdd == pc = "add" /\ queued = QUEUESIZE /\ lircPc \in {"done", "failed"}

\* Main joins a thread that was never created, and nothing ends the wait.
StuckInJoin == mainPc = "waiting"

\* Main joins a LIRC thread that nobody has canceled: the listener failed, and
\* the bluetooth thread had ended before main sent its signal.
NobodyCanceled == mainPc = "joinLirc" /\ lircPc \in {"test", "remove"} /\ ~canceled

\* A signal has arrived, or main has left lirc_server without one.
Stopping == canceled \/ killed \/ mainPc = "kill"

\* The five places: main in its poll for LIRC clients or the bluetooth thread in
\* an accept, if the signal came just before it blocked there; queueAdd, if the
\* queue was full; the join of a LIRC thread that was never created, and that
\* of one nobody has canceled.
Stuck == SignalMissed \/ StuckInAccept \/ StuckInAdd \/ StuckInJoin \/ NobodyCanceled

\* Once it is stopping, for a signal or a failed listener, the daemon ends, or
\* it is left in one of these places for good; the last of them takes a
\* bluetooth thread that had ended on an address it could not parse
\* (lirc_srv.c:132-135, bdremoteng.c:259-266, lirc_thr.c:85-93,
\* capture_bluez.c:278-291, 363-408, q.c:118-126).
ShutdownEnds == Stopping ~> (Ended \/ []Stuck)

\* What is left to do in each thread once the daemon is canceled: the labels on
\* the longest way to its end.
MainLeft(label) ==
  CASE label = "sigaction" -> 10
    [] label = "start"     -> 9
    [] label = "listen"    -> 8
    [] label = "ppoll"     -> 7
    [] label = "test"      -> 6
    [] label = "drain"     -> 5
    [] label = "kill"      -> 4
    [] label = "joinBt"    -> 3
    [] label = "joinLirc"  -> 2
    [] label = "destroy"   -> 1
    [] OTHER               -> 0

LircLeft(label) ==
  CASE label = "none"   -> 3
    [] label = "remove" -> 2
    [] label = "test"   -> 1
    [] OTHER            -> 0

BtLeft(label) ==
  CASE label = "poll"             -> 8
    [] label = "acceptCtrl"       -> 7
    [] label = "acceptIntr"       -> 6
    [] label = "readPoll"         -> 6
    [] label \in {"check", "add"} -> 5
    [] label = "read"             -> 4
    [] label = "close"            -> 3
    [] label \in {"start", "sleep"} -> 2
    [] label = "loop"             -> 1
    [] OTHER                      -> 0

\* Once it is canceled no thread begins another round of a loop: it finishes the
\* round it is in, in which the bluetooth thread may still accept a device that
\* connects while it polls.  Whatever the others do meanwhile, each step of a
\* thread brings it nearer to its end, so that a handful of steps is left and
\* the daemon can stay only in a call that blocks (lirc_srv.c:132-151,
\* lirc_thr.c:149-162, capture_bluez.c:278-347, 389-441).
ShutdownDescends == [][canceled =>
  /\ mainPc' # mainPc => MainLeft(mainPc') < MainLeft(mainPc)
  /\ lircPc' # lircPc => LircLeft(lircPc') < LircLeft(lircPc)
  /\ pc' # pc => BtLeft(pc') < BtLeft(pc)
  ]_daemonVars

\* What stops each thread of a daemon that is stopping: no step of its own is
\* possible, or, for the LIRC thread, no end is in sight.
MainBlocked ==
  \/ mainPc = "ppoll" /\ ~knocking
  \/ mainPc = "joinBt" /\ pc # "done"
  \/ mainPc = "joinLirc" /\ lircPc \notin {"done", "failed"}
  \/ mainPc = "waiting"
  \/ Ended

LircStays == lircPc \in {"none", "failed", "done"} \/ ~canceled

BtBlocked ==
  \/ pc = "acceptCtrl" /\ csk = <<>>
  \/ pc = "acceptIntr" /\ isk = <<>>
  \/ pc = "add" /\ queued = QUEUESIZE
  \/ pc = "done"

\* The places named in ShutdownEnds are all there are: a daemon that is
\* stopping and in which no thread comes any further has ended or stands in one
\* of them, so that no join waits for a thread that waits for something else
\* (lirc_srv.c:132-135, bdremoteng.c:259-266, capture_bluez.c:389-408,
\* q.c:118-126).
SticksOnlyThere ==
  Stopping /\ MainBlocked /\ LircStays /\ BtBlocked =>
    Ended \/ Stuck

\* A daemon that exits has nothing left open and nobody running: the threads
\* it had have returned, the session they were in has told its end to the callbacks,
\* and every channel and the listener are closed (bdremoteng.c:263-270).
CleanExit ==
  mainPc = "exited" =>
    /\ pc = "done" /\ lircPc \in {"done", "failed"}
    /\ ~connected
    /\ ncsk = FAIL /\ nisk = FAIL
    /\ sockinet = "none" /\ ~knocking

\* "assert(_ld->sockinet == BDREMOTE_FAIL)" (lirc_srv.c:106)
AssertionHolds == mainPc # "aborted"
=============================================================================
