---------------------------- MODULE StartupProofs ----------------------------
(***************************************************************************)
(* Proofs about Startup, for every set of options and timeouts.            *)
(***************************************************************************)
EXTENDS Startup, TLAPS

USE DEF Goes, Quits, SETVAL, FREEVAL, Opens, Closes, Closed, closeLogFile,
        bt_device_exists, Descriptors, CaptureSockets, CaptureStrings, Callers,
        UserAndGroup, Unhandled, Cleanup, userAndGroupSet, Running, Ended, config,
        threads, process

LEMMA InitStartupInv == Init => StartupInv
<1> SUFFICES ASSUME Init PROVE StartupInv
  OBVIOUS
<1>1. TypeOK
  <2>1. ids \in [uid : {"root", "caller", "user"}, gid : {"root", "caller", "group"}]
    BY DEF Init
  <2>2. opener \in [Descriptors -> {"root", "caller", "user", Closed}]
    BY DEF Init
  <2>3. timeout \in Int /\ heap \subseteq Strings \cup CaptureStrings \cup {"ldata"}
    BY DEF Init
  <2> QED BY <2>1, <2>2, <2>3, Zenon DEF Init, TypeOK
<1>2. \A d \in Descriptors : opener[d] = Closed
  BY DEF Init
<1> QED BY <1>1, <1>2
        DEF Init, StartupInv, ThreadsInv, HeapInv, DescriptorsInv, IdsInv

\* The steps of main up to the last thread.
LEMMA StartKeepsInv ==
  ASSUME StartupInv, Start
  PROVE  StartupInv'
<1> USE StartupAssumption
    DEF StartupInv, TypeOK, ThreadsInv, HeapInv, DescriptorsInv, IdsInv
<1>1. ASSUME NEW s \in Strings, SetString(s) PROVE StartupInv'
  <2>1. /\ pc = "options" /\ pc' = "options"
        /\ UNCHANGED <<timeout, opener, printStream, process>>
        /\ heap' \subseteq Strings \cup CaptureStrings \cup {"ldata"}
        /\ validAddr' \in BOOLEAN
    BY <1>1 DEF SetString
  <2> QED BY <2>1
<1>2. ASSUME NEW t \in Timeouts, SetTimeout(t) PROVE StartupInv'
  <2>1. /\ pc = "options" /\ pc' = "options"
        /\ UNCHANGED <<heap, validAddr, opener, printStream, process>>
        /\ timeout' \in Int
    BY <1>2 DEF SetTimeout
  <2> QED BY <2>1
<1>3. CASE EndOptions BY <1>3 DEF EndOptions
<1>4. CASE initLircData BY <1>4 DEF initLircData
<1>5. CASE InitCaptureData
  <2>1. heap' \subseteq Strings \cup CaptureStrings \cup {"ldata"}
    BY <1>5 DEF InitCaptureData
  <2>2. userAndGroupSet' = userAndGroupSet
    BY <1>5 DEF InitCaptureData
  <2> QED BY <1>5, <2>1, <2>2 DEF InitCaptureData
<1>6. CASE Detach BY <1>6 DEF Detach
<1>7. CASE FindDevice
  <2>1. heap' \subseteq Strings \cup CaptureStrings \cup {"ldata"}
    BY <1>7 DEF FindDevice
  <2> QED BY <1>7, <2>1 DEF FindDevice
<1>8. CASE OpenCtl BY <1>8 DEF OpenCtl
<1>9. CASE ListenCtrl BY <1>9 DEF ListenCtrl
<1>10. CASE ListenIntr BY <1>10 DEF ListenIntr
<1>11. CASE GiveUp BY <1>11 DEF GiveUp
<1>12. CASE ChangeIds BY <1>12 DEF ChangeIds, changeUIDAndGID
<1>13. CASE setLogFile BY <1>13 DEF setLogFile
<1>14. CASE CreateBtThread BY <1>14 DEF CreateBtThread
<1>15. CASE Sigaction BY <1>15 DEF Sigaction
<1>16. CASE EventOutInit BY <1>16 DEF EventOutInit
<1>17. CASE startLircThread BY <1>17 DEF startLircThread
<1> QED BY <1>1, <1>2, <1>3, <1>4, <1>5, <1>6, <1>7, <1>8, <1>9, <1>10, <1>11,
           <1>12, <1>13, <1>14, <1>15, <1>16, <1>17 DEF Start

\* The steps of main from the LIRC listener to its end.
LEMMA TeardownKeepsInv ==
  ASSUME StartupInv, Teardown
  PROVE  StartupInv'
<1> USE StartupAssumption
    DEF StartupInv, TypeOK, ThreadsInv, HeapInv, DescriptorsInv, IdsInv
<1>1. CASE create_listener BY <1>1 DEF create_listener
<1>2. CASE EndServer BY <1>2 DEF EndServer
<1>3. CASE KillBt
  <2>1. canceled' = canceled \/ canceled' = TRUE
    BY <1>3 DEF KillBt
  <2>2. canceled' \in BOOLEAN
    BY <2>1
  <2> QED BY <1>3, <2>2 DEF KillBt
<1>4. CASE JoinBt BY <1>4 DEF JoinBt
<1>5. CASE waitForLircThread BY <1>5 DEF waitForLircThread
<1>6. CASE DestroyCaptureData BY <1>6 DEF DestroyCaptureData
<1>7. CASE destroyLircData BY <1>7 DEF destroyLircData
<1>8. CASE event_out_destroy BY <1>8 DEF event_out_destroy
<1>9. CASE destroyConfig BY <1>9 DEF destroyConfig
<1>10. CASE CloseLog BY <1>10 DEF CloseLog
<1> QED BY <1>1, <1>2, <1>3, <1>4, <1>5, <1>6, <1>7, <1>8, <1>9, <1>10
        DEF Teardown

LEMMA StartupInvInductive ==
  ASSUME StartupInv, [Next]_vars
  PROVE  StartupInv'
<1> USE StartupAssumption
    DEF StartupInv, TypeOK, ThreadsInv, HeapInv, DescriptorsInv, IdsInv
<1>1. CASE BtEnds BY <1>1 DEF BtEnds
<1>2. CASE LircEnds BY <1>2 DEF LircEnds
<1>3. CASE Sigterm
  <2>1. CASE pc \in Unhandled BY <1>3, <2>1 DEF Sigterm
  <2>2. CASE pc \notin Unhandled BY <1>3, <2>2 DEF Sigterm
  <2> QED BY <2>1, <2>2
<1>4. CASE UNCHANGED vars BY <1>4 DEF vars
<1> QED BY <1>1, <1>2, <1>3, <1>4, StartKeepsInv, TeardownKeepsInv
        DEF Next, Terminated

\* Where main is tells which threads run, what is allocated, what is open and
\* as whom, in every start, service and shutdown (bdremoteng.c:94-281).
THEOREM StartupCorrect == Spec => []StartupInv
<1>1. StartupInv /\ [Next]_vars => StartupInv'
  BY StartupInvInductive
<1> QED BY InitStartupInv, <1>1, PTL DEF Spec

\* The threads run as the user and the group that were asked for, with the
\* sockets opened before the change and the log after it
\* (bdremoteng.c:188-220, ug.c:42-92).
THEOREM ThreadsRunAsConfigured == Spec => []RunsAsConfigured
<1>1. StartupInv => RunsAsConfigured
  BY DEF StartupInv, TypeOK, IdsInv, RunsAsConfigured
<1> QED BY StartupCorrect, <1>1, PTL

\* An exit leaves no descriptor, no thread and only the interface address, and
\* a start that fails leaves no bluetooth socket (bdremoteng.c:263-281).
THEOREM ExitLeavesNothing == Spec => []NothingLeft
<1>1. StartupInv => NothingLeft
  BY DEF StartupInv, TypeOK, ThreadsInv, HeapInv, DescriptorsInv, NothingLeft
<1> QED BY StartupCorrect, <1>1, PTL

\* No assertion of main fails under a running thread (captureif.c:56,
\* lirc_srv.c:105-106).
THEOREM AbortsOnlyAlone == Spec => []AbortsAlone
<1>1. Init => AbortsAlone
  BY DEF Init, AbortsAlone
<1>2. StartupInv /\ AbortsAlone /\ [Next]_vars => AbortsAlone'
  <2> SUFFICES ASSUME StartupInv, AbortsAlone, [Next]_vars PROVE AbortsAlone'
    OBVIOUS
  <2> USE DEF StartupInv, TypeOK, ThreadsInv, HeapInv, DescriptorsInv, AbortsAlone
  <2>1. CASE InitCaptureData
    <3>1. pc = "initCapture" /\ UNCHANGED <<timeout, opener, bt, lirc>>
      BY <2>1 DEF InitCaptureData
    <3>2. CASE timeout <= 0
      <4>1. opener = [d \in Descriptors |-> Closed]
        BY <3>1
      <4> QED BY <3>1, <3>2, <4>1
    <3>3. CASE ~(timeout <= 0) BY <2>1, <3>3 DEF InitCaptureData
    <3> QED BY <3>2, <3>3
  <2>2. CASE destroyLircData
    <3>1. pc = "destroyLirc" /\ UNCHANGED <<timeout, bt, lirc, sockinet>>
      BY <2>2 DEF destroyLircData
    <3>2. pc' = "aborted" => sockinet = "closed"
      BY <2>2, <3>1 DEF destroyLircData
    <3>3. timeout > 0 /\ timeout \in Int
      BY <3>1
    <3> QED BY <3>1, <3>2, <3>3
  <2>3. CASE pc = "aborted" \/ pc' # "aborted"
    BY <2>3 DEF Next, Start, Teardown, Terminated, vars, SetString, SetTimeout,
       EndOptions, initLircData, InitCaptureData, Detach, FindDevice, OpenCtl,
       ListenCtrl, ListenIntr, GiveUp, ChangeIds, setLogFile, CreateBtThread,
       Sigaction, EventOutInit, startLircThread, create_listener, EndServer,
       KillBt, JoinBt, waitForLircThread, DestroyCaptureData, destroyLircData,
       event_out_destroy, destroyConfig, CloseLog, BtEnds, LircEnds, Sigterm
  <2> QED
    BY <2>1, <2>2, <2>3
       DEF Next, Start, Teardown, Terminated, vars, SetString, SetTimeout,
       EndOptions, initLircData, Detach, FindDevice, OpenCtl,
       ListenCtrl, ListenIntr, GiveUp, ChangeIds, changeUIDAndGID, setLogFile,
       CreateBtThread, Sigaction, EventOutInit, startLircThread, create_listener,
       EndServer, KillBt, JoinBt, waitForLircThread, DestroyCaptureData,
       event_out_destroy, destroyConfig, CloseLog, BtEnds, LircEnds, Sigterm
<1> QED BY StartupCorrect, <1>1, <1>2, PTL DEF Spec

\* A running thread never loses what it uses to main (bdremoteng.c:230-281).
THEOREM NothingReleasedUnderThreads == Spec => NothingReleasedEarly
<1> DEFINE Kept ==
      /\ Running => heap' = heap /\ printStream' = printStream /\ ids' = ids
      /\ bt' = "running" /\ bt = "running" =>
           \A d \in CaptureSockets : opener'[d] = opener[d]
      /\ lirc = "running" => opener'["event_out_fd"] = opener["event_out_fd"]
<1>1. StartupInv /\ [Next]_vars => [Kept]_vars
  <2> SUFFICES ASSUME StartupInv, Next PROVE Kept
    OBVIOUS
  <2> USE DEF StartupInv, TypeOK, ThreadsInv
  <2>1. CASE Start
    BY <2>1 DEF Start, SetString, SetTimeout, EndOptions, initLircData,
       InitCaptureData, Detach, FindDevice, OpenCtl, ListenCtrl, ListenIntr, GiveUp,
       ChangeIds, setLogFile, CreateBtThread, Sigaction, EventOutInit,
       startLircThread
  <2>2. CASE Teardown
    BY <2>2 DEF Teardown, create_listener, EndServer, KillBt, JoinBt,
       waitForLircThread, DestroyCaptureData, destroyLircData, event_out_destroy,
       destroyConfig, CloseLog
  <2>3. CASE BtEnds \/ LircEnds \/ Sigterm \/ Terminated
    BY <2>3 DEF BtEnds, LircEnds, Sigterm, Terminated, vars
  <2> QED BY <2>1, <2>2, <2>3 DEF Next
<1> QED BY StartupCorrect, <1>1, PTL DEF Spec, NothingReleasedEarly
=============================================================================
