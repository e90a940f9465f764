---------------------------- MODULE DaemonProofs ----------------------------
(***************************************************************************)
(* Proofs about Daemon: its bluetooth thread is the one of Capture, whose  *)
(* theorem therefore holds in the daemon, and what is left at its end.     *)
(***************************************************************************)
EXTENDS Daemon, CaptureProofs

\* What a step of the daemon is to Capture.
LEMMA DaemonStep ==
  ASSUME DaemonNext
  PROVE  Next \/ UNCHANGED vars
<1>1. CASE Main
  <2>1. CASE KillBt BY <2>1 DEF KillBt, Next
  <2> QED BY <1>1, <2>1 DEF Main, Sigaction, StartLircThread, CreateListener,
             CreateListenerFails, TestCanceled, AddClient, CloseAll, JoinBt,
             JoinLirc, Destroy
<1>2. CASE Lirc
  BY <1>2 DEF Lirc, LircTest, LircTakes, LircTimeout, Next
<1>3. CASE Bluetooth \/ BtDevices
  BY <1>3 DEF Bluetooth, BtDevices, Next
<1>4. CASE Sigterm
  <2>1. CASE UNCHANGED vars BY <2>1
  <2>2. CASE /\ canceled' = TRUE
             /\ UNCHANGED <<pc, channels, session, battery, queued, killed>>
    <3>1. CASE canceled = TRUE
      BY <2>2, <3>1 DEF vars, channels, session, battery
    <3>2. CASE canceled # TRUE
      <4>1. Cancel
        BY <2>2, <3>2 DEF Cancel
      <4> QED BY <4>1 DEF Next
    <3> QED BY <3>1, <3>2
  <2> QED BY <1>4, <2>1, <2>2 DEF Sigterm
<1>5. CASE ClientKnocks \/ DaemonTerminated
  BY <1>5 DEF ClientKnocks, DaemonTerminated, daemonVars
<1> QED BY <1>1, <1>2, <1>3, <1>4, <1>5 DEF DaemonNext

\* Whatever main and the LIRC thread do, the bluetooth thread behaves as
\* Capture says (bdremoteng.c:229-276).
THEOREM DaemonImplementsCapture == DaemonSpec => Spec
<1>1. DaemonInit => Init
  BY DEF DaemonInit
<1>2. [DaemonNext]_daemonVars => [Next]_vars
  <2> SUFFICES ASSUME [DaemonNext]_daemonVars PROVE [Next]_vars
    OBVIOUS
  <2>1. CASE DaemonNext
    BY <2>1, DaemonStep
  <2>2. CASE UNCHANGED daemonVars
    BY <2>2 DEF daemonVars
  <2> QED BY <2>1, <2>2
<1> QED BY <1>1, <1>2, PTL DEF DaemonSpec, Spec

\* The flags only main and its signals change.
LEMMA BtThreadKeepsFlags ==
  ASSUME BtThread
  PROVE  UNCHANGED <<canceled, killed>> /\ pc # "done"
BY DEF BtThread, RunServer, ReadFromSocket, ParseAddress, BadAddress, TestServer,
       PollClients, PollNobody, StopServer, AcceptCtrl, AcceptIntr, KnownDevice,
       UnknownDevice, CloseIntr, CloseCtrl, ReadCanceled, ReadExpired, ReadPoll,
       PollTimeout, PollInterrupted, Recv, RecvGone, DataInd

LEMMA EnvironmentKeepsFlags ==
  ASSUME Environment
  PROVE  UNCHANGED <<canceled, killed, pc>>
BY DEF Environment, Connect, Send, DropPending, DropCtrl, DropIntr

LEMMA InitLifeInv == ASSUME DaemonInit PROVE LifeInv
BY DEF DaemonInit, Init, LifeInv, DaemonTypeOK

\* The steps of main.
LEMMA MainLifeInv ==
  ASSUME CaptureInv, LifeInv, Main
  PROVE  LifeInv'
<1> USE DEF LifeInv, DaemonTypeOK, MainGoes, vars
<1>0. canceled \in BOOLEAN /\ killed \in BOOLEAN
  BY DEF CaptureInv, TypeOK
<1>1. CASE Sigaction BY <1>1 DEF Sigaction
<1>2. CASE StartLircThread BY <1>2 DEF StartLircThread
<1>3. CASE CreateListener BY <1>3 DEF CreateListener
<1>4. CASE CreateListenerFails BY <1>4 DEF CreateListenerFails
<1>5. CASE TestCanceled BY <1>5 DEF TestCanceled
<1>6. CASE AddClient BY <1>6 DEF AddClient
<1>7. CASE CloseAll BY <1>7 DEF CloseAll
<1>8. CASE KillBt BY <1>8 DEF KillBt, Kill
<1>9. CASE JoinBt BY <1>9 DEF JoinBt
<1>10. CASE JoinLirc BY <1>10 DEF JoinLirc
<1>11. CASE Destroy BY <1>11 DEF Destroy
<1> QED BY <1>1, <1>2, <1>3, <1>4, <1>5, <1>6, <1>7, <1>8, <1>9, <1>10, <1>11
           DEF Main

\* All other steps.
LEMMA OtherLifeInv ==
  ASSUME CaptureInv, LifeInv, [DaemonNext]_daemonVars, ~Main
  PROVE  LifeInv'
<1> USE DEF LifeInv, DaemonTypeOK, MainGoes, mainVars
<1>0. canceled \in BOOLEAN /\ killed \in BOOLEAN
  BY DEF CaptureInv, TypeOK
<1>1. CASE Lirc
  BY <1>1 DEF Lirc, LircTest, LircTakes, LircTimeout, LircRemove, vars
<1>2. CASE Bluetooth
  BY <1>2, BtThreadKeepsFlags DEF Bluetooth, Ended
<1>3. CASE BtDevices
  BY <1>3, EnvironmentKeepsFlags DEF BtDevices
<1>4. CASE Sigterm
  BY <1>0, <1>4 DEF Sigterm, Ended, vars
<1>5. CASE ClientKnocks
  BY <1>5 DEF ClientKnocks, vars
<1>6. CASE UNCHANGED daemonVars
  BY <1>6 DEF daemonVars, vars
<1> QED BY <1>1, <1>2, <1>3, <1>4, <1>5, <1>6 DEF DaemonNext, DaemonTerminated

\* Main and its two threads agree on how far the start and the shutdown have
\* come: the listener is open exactly while it is served, and nobody is joined
\* before its thread has returned (bdremoteng.c:230-270, lirc_srv.c:117-162).
THEOREM DaemonInvariant == DaemonSpec => []DaemonInv
<1>1. DaemonInit => LifeInv
  BY InitLifeInv
<1>2. CaptureInv /\ LifeInv /\ [DaemonNext]_daemonVars => LifeInv'
  BY MainLifeInv, OtherLifeInv
<1>3. CaptureInv /\ LifeInv => DaemonInv
  BY DEF DaemonInv
<1> QED BY <1>1, <1>2, <1>3, DaemonImplementsCapture, CaptureInvariant, PTL
        DEF DaemonSpec

\* A daemon that exits has closed every channel, has ended the session it was
\* in and has no thread left (bdremoteng.c:263-270).
THEOREM ExitIsClean == DaemonSpec => []CleanExit
<1>1. DaemonInv => CleanExit
  BY DEF DaemonInv, LifeInv, DaemonTypeOK, CaptureInv, TypeOK, InSession, CleanExit
<1> QED BY <1>1, DaemonInvariant, PTL

-----------------------------------------------------------------------------
(* What Capture shows of the bluetooth thread holds in the daemon.         *)

\* Under every schedule of main and the LIRC thread a session never outlasts its
\* last report by more than timeout + 1 polls, and reads nothing that has not
\* come through two accepts that succeeded, behind a control channel that is
\* the remote's or has nobody at its end (capture_bluez.c:278-347, 405-441).
THEOREM DaemonSessionsAreSound ==
  DaemonSpec => []SilenceBound /\ []ReadsOnlyAccepted
BY DaemonImplementsCapture, SilenceIsBounded, OnlyAcceptedIsRead, PTL

\* Under every schedule of main and the LIRC thread a session is given up for
\* silence alone, reports are left unread only by a timeout or the shutdown,
\* and the script hears a chain of changes (capture_bluez.c:278-347,
\* lirc_callback.c:73-95).
THEOREM DaemonLosesNothing ==
  DaemonSpec => TimeoutJustified /\ NoReportLost /\ BatteryChain
BY DaemonImplementsCapture, TimeoutsAreJustified, ReportsAreNotLost,
   BatteryIsChained, PTL

-----------------------------------------------------------------------------
(* The shutdown goes forward only.                                         *)

Descends ==
  /\ mainPc' # mainPc => MainLeft(mainPc') < MainLeft(mainPc)
  /\ lircPc' # lircPc => LircLeft(lircPc') < LircLeft(lircPc)
  /\ pc' # pc => BtLeft(pc') < BtLeft(pc)

LEMMA MainDescends ==
  ASSUME LifeInv, canceled, Main
  PROVE  Descends
<1> USE DEF Descends, MainGoes, MainLeft, vars
<1>1. CASE Sigaction BY <1>1 DEF Sigaction
<1>2. CASE StartLircThread
  <2>1. lircPc' # lircPc => LircLeft(lircPc') < LircLeft(lircPc)
    BY <1>2 DEF StartLircThread, LircLeft, LifeInv, DaemonTypeOK
  <2> QED BY <1>2, <2>1 DEF StartLircThread
<1>3. CASE CreateListener BY <1>3 DEF CreateListener
<1>4. CASE CreateListenerFails BY <1>4 DEF CreateListenerFails
<1>5. CASE TestCanceled BY <1>5 DEF TestCanceled
<1>6. CASE AddClient BY <1>6 DEF AddClient
<1>7. CASE CloseAll BY <1>7 DEF CloseAll
<1>8. CASE KillBt
  <2>1. pc' # pc => BtLeft(pc') < BtLeft(pc)
    BY <1>8 DEF KillBt, Kill, BtLeft
  <2> QED BY <1>8, <2>1 DEF KillBt
<1>9. CASE JoinBt BY <1>9 DEF JoinBt
<1>10. CASE JoinLirc BY <1>10 DEF JoinLirc
<1>11. CASE Destroy BY <1>11 DEF Destroy
<1> QED BY <1>1, <1>2, <1>3, <1>4, <1>5, <1>6, <1>7, <1>8, <1>9, <1>10, <1>11
           DEF Main

LEMMA BtDescends ==
  ASSUME canceled, BtThread
  PROVE  pc' # pc => BtLeft(pc') < BtLeft(pc)
<1>1. /\ BtLeft("poll") = 8 /\ BtLeft("acceptCtrl") = 7
      /\ BtLeft("acceptIntr") = 6 /\ BtLeft("readPoll") = 6
      /\ BtLeft("check") = 5 /\ BtLeft("add") = 5 /\ BtLeft("read") = 4
      /\ BtLeft("close") = 3 /\ BtLeft("start") = 2 /\ BtLeft("sleep") = 2
      /\ BtLeft("loop") = 1 /\ BtLeft("done") = 0
  BY DEF BtLeft
<1>2. CASE RunServer
  <2>1. \/ pc = "start" /\ pc' \in {"loop", "done"}
        \/ pc = "loop" /\ pc' = "done"
        \/ pc = "poll" /\ pc' \in {"acceptCtrl", "loop"}
        \/ pc = "acceptCtrl" /\ pc' = "acceptIntr"
        \/ pc = "acceptIntr" /\ pc' = "check"
        \/ pc = "check" /\ pc' \in {"read", "close"}
        \/ pc = "close" /\ pc' = "sleep"
        \/ pc = "sleep" /\ pc' = "loop"
    BY <1>2 DEF RunServer, ParseAddress, BadAddress, TestServer, PollClients,
                PollNobody, StopServer, AcceptCtrl, AcceptIntr, KnownDevice,
                UnknownDevice, CloseIntr, CloseCtrl
  <2> QED BY <1>1, <2>1
<1>3. CASE ReadFromSocket
  <2>1. \/ pc = "read" /\ pc' = "close"
        \/ pc = "readPoll" /\ pc' \in {"read", "add", "close"}
        \/ pc = "add" /\ pc' = "read"
    BY <1>3 DEF ReadFromSocket, ReadCanceled, ReadExpired, ReadPoll,
                PollTimeout, PollInterrupted, Recv, RecvGone, DataInd, EndSession
  <2> QED BY <1>1, <2>1
<1> QED BY <1>2, <1>3 DEF BtThread

\* Once the daemon is canceled each thread finishes the round it is in, and no
\* thread begins another: the labels still ahead of it only become fewer, even
\* if a device connects while the flag is set (lirc_srv.c:132-151,
\* lirc_thr.c:149-162, capture_bluez.c:278-347, 389-441).
THEOREM ShutdownGoesForward == DaemonSpec => ShutdownDescends
<1>1. ASSUME DaemonInv, [DaemonNext]_daemonVars
      PROVE  [canceled => Descends]_daemonVars
  <2> SUFFICES ASSUME DaemonNext, canceled PROVE Descends
    BY <1>1
  <2>1. CASE Main BY <1>1, <2>1, MainDescends DEF DaemonInv
  <2>2. CASE Lirc
    <3>1. /\ \/ lircPc = "test" /\ lircPc' = "done"
             \/ lircPc = "remove" /\ lircPc' = "test"
          /\ UNCHANGED <<mainPc, pc>>
      BY <2>2 DEF Lirc, LircTest, LircTakes, LircTimeout, LircRemove, mainVars, vars
    <3>2. LircLeft("done") = 0 /\ LircLeft("test") = 1 /\ LircLeft("remove") = 2
      BY DEF LircLeft
    <3> QED BY <3>1, <3>2 DEF Descends
  <2>3. CASE Bluetooth
    BY <2>3, BtDescends DEF Bluetooth, mainVars, Descends
  <2>4. CASE BtDevices
    BY <2>4, EnvironmentKeepsFlags DEF BtDevices, mainVars, Descends
  <2>5. CASE Sigterm
    <3>1. /\ \/ mainPc = "sigaction" /\ mainPc' = "terminated"
             \/ mainPc = "ppoll" /\ mainPc' = "test"
             \/ UNCHANGED mainPc
          /\ UNCHANGED <<lircPc, pc>>
      BY <2>5 DEF Sigterm, MainGoes, vars
    <3> QED BY <3>1 DEF MainLeft, Descends
  <2>6. CASE ClientKnocks \/ DaemonTerminated
    BY <2>6 DEF ClientKnocks, DaemonTerminated, daemonVars, vars, Descends
  <2> QED BY <2>1, <2>2, <2>3, <2>4, <2>5, <2>6 DEF DaemonNext
<1> QED BY <1>1, DaemonInvariant, PTL DEF DaemonSpec, ShutdownDescends, Descends

\* A daemon that is stopping and in which nothing moves has ended or stands in
\* one of the five places that ShutdownEnds names; with ShutdownGoesForward this
\* is all of ShutdownEnds but fairness (bdremoteng.c:259-266, lirc_srv.c:132-135,
\* capture_bluez.c:363-408, q.c:118-126).
THEOREM ShutdownSticksOnlyThere == DaemonSpec => []SticksOnlyThere
<1>1. ASSUME DaemonInv, Stopping, MainBlocked, LircStays, BtBlocked
      PROVE  Ended \/ Stuck
  <2>1. LifeInv /\ CaptureInv
    BY <1>1 DEF DaemonInv
  <2>2. CASE mainPc = "ppoll"
    <3>1. canceled
      BY <1>1, <2>1, <2>2 DEF LifeInv, Stopping
    <3> QED BY <2>2, <3>1 DEF SignalMissed, Stuck
  <2>3. CASE mainPc = "joinBt" /\ pc # "done"
    <3>1. killed /\ canceled /\ lircPc \in {"failed", "done"}
      BY <1>1, <2>1, <2>3 DEF LifeInv, CaptureInv, LircStays
    <3>2. StuckInAccept \/ StuckInAdd
      BY <1>1, <2>3, <3>1 DEF BtBlocked, StuckInAccept, StuckInAdd
    <3> QED BY <3>2 DEF Stuck
  <2>4. CASE mainPc = "joinLirc" /\ lircPc \notin {"done", "failed"}
    <3>1. lircPc \in {"test", "remove"} /\ ~canceled
      BY <1>1, <2>1, <2>4 DEF LifeInv, DaemonTypeOK, LircStays
    <3> QED BY <2>4, <3>1 DEF NobodyCanceled, Stuck
  <2>5. CASE mainPc = "waiting"
    BY <2>5 DEF StuckInJoin, Stuck
  <2> QED BY <1>1, <2>2, <2>3, <2>4, <2>5 DEF MainBlocked
<1> QED BY <1>1, DaemonInvariant, PTL DEF SticksOnlyThere
=============================================================================
