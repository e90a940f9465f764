---------------------------- MODULE CaptureProofs ----------------------------
(***************************************************************************)
(* Proofs about Capture, for every set of devices, timeout and backlog.    *)
(***************************************************************************)
EXTENDS Capture, TLAPS

LEMMA InitCaptureInv == Init => CaptureInv
<1> SUFFICES ASSUME Init PROVE CaptureInv
  OBVIOUS
<1>1. /\ csk \in Seq(Devices) /\ isk \in Seq(Devices) /\ unread \in Seq(Bytes)
      /\ Len(csk) = 0 /\ Len(isk) = 0 /\ Len(unread) = 0
  BY DEF Init
<1>2. /\ csk \in Seq(Devices) /\ Len(csk) <= BACKLOG
      /\ isk \in Seq(Devices) /\ Len(isk) <= BACKLOG
      /\ unread \in Seq(Bytes) /\ Len(unread) <= MaxUnread
      /\ queued \in 0 .. QUEUESIZE
  BY <1>1, CaptureAssumption DEF Init
<1>3. /\ numberOfSeconds \in Nat /\ quiet \in Nat /\ charge_percent \in Nat
      /\ stat \in {-1, 0, 1, 2}
      /\ numberOfSeconds <= timeout + 1
  BY CaptureAssumption DEF Init
<1>4. TypeOK
  BY <1>2, <1>3, Zenon DEF Init, TypeOK
<1> QED BY <1>3, <1>4, Zenon DEF Init, CaptureInv, InSession

\* The steps of run_server.
LEMMA RunServerCaptureInv ==
  ASSUME CaptureInv, RunServer
  PROVE  CaptureInv'
<1> USE CaptureAssumption
    DEF CaptureInv, TypeOK, InSession, Channel, channels, session, battery
<1>1. CASE PollClients BY <1>1 DEF PollClients
<1>2. CASE StopServer
  <2>1. <<>> \in Seq(Devices) /\ Len(<<>>) = 0
    OBVIOUS
  <2> QED BY <1>2, <2>1 DEF StopServer
<1>3. CASE AcceptCtrl
  <2>1. Head(csk) \in Devices /\ Tail(csk) \in Seq(Devices)
        /\ Len(Tail(csk)) <= BACKLOG
    BY <1>3 DEF AcceptCtrl
  <2> QED BY <1>3, <2>1 DEF AcceptCtrl
<1>4. CASE AcceptIntr
  <2>1. Head(isk) \in Devices /\ Tail(isk) \in Seq(Devices)
        /\ Len(Tail(isk)) <= BACKLOG
    BY <1>4 DEF AcceptIntr
  <2> QED BY <1>4, <2>1 DEF AcceptIntr
<1>5. CASE KnownDevice BY <1>5 DEF KnownDevice
<1>6. CASE UnknownDevice BY <1>6 DEF UnknownDevice
<1>7. CASE CloseIntr
  <2>1. <<>> \in Seq(Bytes) /\ Len(<<>>) = 0
    OBVIOUS
  <2> QED BY <1>7, <2>1 DEF CloseIntr
<1>8. CASE CloseCtrl BY <1>8 DEF CloseCtrl
<1>9. CASE ParseAddress BY <1>9 DEF ParseAddress
<1>10. CASE TestServer BY <1>10 DEF TestServer
<1>11. CASE PollNobody BY <1>11 DEF PollNobody
<1>12. CASE BadAddress
  <2>1. <<>> \in Seq(Devices) /\ Len(<<>>) = 0
    OBVIOUS
  <2> QED BY <1>12, <2>1 DEF BadAddress
<1> QED BY <1>1, <1>2, <1>3, <1>4, <1>5, <1>6, <1>7, <1>8, <1>9, <1>10, <1>11,
           <1>12 DEF RunServer

\* The steps of readFromSocket and its callbacks.
LEMMA ReadCaptureInv ==
  ASSUME CaptureInv, ReadFromSocket
  PROVE  CaptureInv'
<1> USE CaptureAssumption
    DEF CaptureInv, TypeOK, InSession, Channel, channels, session, battery
<1>1. CASE ReadCanceled BY <1>1 DEF ReadCanceled, EndSession
<1>2. CASE ReadExpired BY <1>2 DEF ReadExpired, EndSession
<1>3. CASE ReadPoll BY <1>3 DEF ReadPoll
<1>4. CASE PollTimeout BY <1>4 DEF PollTimeout, Readable
<1>5. CASE PollInterrupted BY <1>5 DEF PollInterrupted
<1>6. CASE Recv
  <2>1. /\ Head(unread) \in Bytes
        /\ Tail(unread) \in Seq(Bytes)
        /\ Len(Tail(unread)) <= MaxUnread
    BY <1>6 DEF Recv
  <2>2. /\ charge_percent' \in Nat
        /\ charge_percent_set' \in BOOLEAN
        /\ told' \in (Nat \X Nat) \cup {None}
        /\ charge_percent_set' <=> told' # None
        /\ told' # None => told'[2] = charge_percent'
    <3>1. CASE Head(unread) <= 5
      <4> DEFINE val == Head(unread) * 20
                 old == IF charge_percent_set THEN charge_percent ELSE val
      <4>1. val \in Nat /\ old \in Nat
        <5>1. Head(unread) \in Nat
          BY <2>1
        <5>2. val \in Nat
          BY <5>1
        <5> HIDE DEF val
        <5> QED BY <5>2
      <4>2. <<old, val>> # None
        BY <4>1
      <4>3. CASE charge_percent_set /\ charge_percent = val
        BY <1>6, <3>1, <4>1, <4>3 DEF Recv, RemoteBatteryCharge
      <4>4. CASE ~(charge_percent_set /\ charge_percent = val)
        BY <1>6, <3>1, <4>1, <4>2, <4>4 DEF Recv, RemoteBatteryCharge
      <4> QED BY <4>3, <4>4
    <3>2. CASE ~(Head(unread) <= 5)
      BY <1>6, <3>2 DEF Recv
    <3> QED BY <3>1, <3>2
  <2> QED BY <1>6, <2>1, <2>2 DEF Recv
<1>7. CASE RecvGone
  <2>1. numberOfSeconds' = 0 /\ 0 <= timeout + 1
    BY <1>7 DEF RecvGone
  <2>2. /\ UNCHANGED <<channels, quiet, battery, queued, canceled, killed>>
        /\ stat' = 1 /\ connected' = FALSE /\ pc' = "close"
        /\ pc = "readPoll"
    BY <1>7 DEF RecvGone, EndSession
  <2> QED BY <2>1, <2>2
<1>8. CASE DataInd BY <1>8 DEF DataInd
<1> QED BY <1>1, <1>2, <1>3, <1>4, <1>5, <1>6, <1>7, <1>8 DEF ReadFromSocket

\* Taking an element out of a sequence leaves a shorter one.
LEMMA RemoveAtShortens ==
  ASSUME NEW S, NEW s \in Seq(S), NEW k \in DOMAIN s
  PROVE  RemoveAt(s, k) \in Seq(S) /\ Len(RemoveAt(s, k)) <= Len(s)
<1>1. k \in 1 .. Len(s)
  OBVIOUS
<1>2. SubSeq(s, 1, k - 1) \in Seq(S) /\ Len(SubSeq(s, 1, k - 1)) = k - 1
  BY <1>1
<1>3. SubSeq(s, k + 1, Len(s)) \in Seq(S)
      /\ Len(SubSeq(s, k + 1, Len(s))) = Len(s) - k
  BY <1>1
<1> QED BY <1>1, <1>2, <1>3 DEF RemoveAt

\* The steps of the devices.
LEMMA EnvironmentCaptureInv ==
  ASSUME CaptureInv, Environment
  PROVE  CaptureInv'
<1> USE CaptureAssumption
    DEF CaptureInv, TypeOK, InSession, Channel, channels, session, battery
<1>1. ASSUME NEW d \in Devices, Connect(d) PROVE CaptureInv'
  <2>1. /\ Append(csk, d) \in Seq(Devices) /\ Len(Append(csk, d)) = Len(csk) + 1
        /\ Append(isk, d) \in Seq(Devices) /\ Len(Append(isk, d)) = Len(isk) + 1
    OBVIOUS
  <2>2. CASE Len(csk) < BACKLOG /\ csk' = Append(csk, d) /\ UNCHANGED isk
    <3>1. csk' \in Seq(Devices) /\ Len(csk') <= BACKLOG
      BY <2>1, <2>2
    <3> QED BY <1>1, <2>2, <3>1 DEF Connect
  <2>3. CASE Len(isk) < BACKLOG /\ isk' = Append(isk, d) /\ UNCHANGED csk
    <3>1. isk' \in Seq(Devices) /\ Len(isk') <= BACKLOG
      BY <2>1, <2>3
    <3> QED BY <1>1, <2>3, <3>1 DEF Connect
  <2> QED BY <1>1, <2>2, <2>3 DEF Connect
<1>2. ASSUME NEW b \in Bytes, Send(b) PROVE CaptureInv'
  <2>1. Append(unread, b) \in Seq(Bytes) /\ Len(Append(unread, b)) = Len(unread) + 1
        /\ Append(unread, b) # <<>>
    OBVIOUS
  <2> QED BY <1>2, <2>1 DEF Send
<1>3. CASE DropPending
  <2>1. CASE \E k \in DOMAIN csk : csk' = RemoveAt(csk, k) /\ UNCHANGED isk
    <3>1. csk' \in Seq(Devices) /\ Len(csk') <= BACKLOG
      BY <2>1, RemoveAtShortens
    <3> QED BY <1>3, <2>1, <3>1 DEF DropPending
  <2>2. CASE \E k \in DOMAIN isk : isk' = RemoveAt(isk, k) /\ UNCHANGED csk
    <3>1. isk' \in Seq(Devices) /\ Len(isk') <= BACKLOG
      BY <2>2, RemoveAtShortens
    <3> QED BY <1>3, <2>2, <3>1 DEF DropPending
  <2> QED BY <1>3, <2>1, <2>2 DEF DropPending
<1>4. CASE DropCtrl BY <1>4 DEF DropCtrl
<1>5. CASE DropIntr
  <2>1. unread' \in {unread, <<>>} /\ nisk' = [nisk EXCEPT !.up = FALSE]
        /\ nisk # FAIL
        /\ UNCHANGED <<pc, csk, isk, ncsk, session, battery, queued, canceled,
                       killed>>
    BY <1>5 DEF DropIntr
  <2>2. <<>> \in Seq(Bytes) /\ Len(<<>>) = 0
    OBVIOUS
  <2>3. unread' \in Seq(Bytes) /\ Len(unread') <= MaxUnread
    <3>1. CASE unread' = unread BY <3>1
    <3>2. CASE unread' = <<>> BY <2>2, <3>2
    <3> QED BY <2>1, <3>1, <3>2
  <2>4. nisk' \in Channel /\ nisk' # FAIL /\ ~nisk'.up
    BY <2>1
  <2> QED BY <2>1, <2>3, <2>4
<1> QED BY <1>1, <1>2, <1>3, <1>4, <1>5 DEF Environment

\* A channel is open only between its accept and its close, the silence a
\* session is given up for was real, and the script was told the charge that
\* is remembered, for every device and timeout (capture_bluez.c:278-441).
THEOREM CaptureInvariant == Spec => []CaptureInv
<1>1. CaptureInv /\ [Next]_vars => CaptureInv'
  <2> SUFFICES ASSUME CaptureInv, [Next]_vars PROVE CaptureInv'
    OBVIOUS
  <2> USE CaptureAssumption
      DEF CaptureInv, TypeOK, InSession, Channel, channels, session, battery
  <2>1. CASE LircRemove BY <2>1 DEF LircRemove
  <2>2. CASE Cancel BY <2>2 DEF Cancel
  <2>3. CASE Kill
    <3>1. canceled' \in BOOLEAN /\ (canceled' \/ pc = "done")
      BY <2>3 DEF Kill
    <3> QED BY <2>3, <3>1 DEF Kill
  <2>4. CASE UNCHANGED vars BY <2>4 DEF vars
  <2> QED
    BY <2>1, <2>2, <2>3, <2>4, RunServerCaptureInv, ReadCaptureInv,
       EnvironmentCaptureInv DEF Next, BtThread, Terminated
<1> QED BY <1>1, InitCaptureInv, PTL DEF Spec

\* The count of the loop never falls behind the silence: it runs with each
\* timeout and is reset only by what ended the silence.
QuietInv ==
  /\ unread # <<>> => quiet = 0
  /\ InSession => quiet <= numberOfSeconds

LEMMA QuietInvStep ==
  ASSUME CaptureInv, QuietInv, [Next]_vars
  PROVE  QuietInv'
<1> USE DEF QuietInv, InSession, channels, session
<1>1. /\ numberOfSeconds \in Nat /\ quiet \in Nat /\ timeout \in Nat
      /\ nisk = FAIL => unread = <<>>
      /\ unread \in Seq(Bytes)
  BY CaptureAssumption DEF CaptureInv, TypeOK
<1>2. CASE RunServer
  BY <1>1, <1>2 DEF RunServer, ParseAddress, BadAddress, TestServer, PollClients,
                    PollNobody, StopServer, AcceptCtrl, AcceptIntr, KnownDevice,
                    UnknownDevice, CloseIntr, CloseCtrl
<1>3. CASE ReadCanceled \/ ReadExpired \/ ReadPoll \/ RecvGone
  BY <1>1, <1>3 DEF ReadCanceled, ReadExpired, ReadPoll, RecvGone, EndSession
<1>4. CASE PollTimeout \/ PollInterrupted
  BY <1>1, <1>4 DEF PollTimeout, PollInterrupted, Readable
<1>5. CASE Recv
  <2>1. quiet' = 0 /\ numberOfSeconds' = 0
    BY <1>1, <1>5 DEF Recv
  <2> QED BY <2>1
<1>6. CASE DataInd
  BY <1>1, <1>6 DEF DataInd
<1>7. CASE Environment
  BY <1>1, <1>7 DEF Environment, Connect, Send, DropPending, DropCtrl, DropIntr
<1>8. CASE LircRemove \/ Cancel \/ Kill
  BY <1>1, <1>8 DEF LircRemove, Cancel, Kill
<1>9. CASE UNCHANGED vars BY <1>9 DEF vars
<1> QED BY <1>2, <1>3, <1>4, <1>5, <1>6, <1>7, <1>8, <1>9
        DEF Next, BtThread, ReadFromSocket, Terminated

\* A session never outlasts the last report of its device by more than
\* timeout + 1 polls (capture_bluez.c:280-296).
THEOREM SilenceIsBounded == Spec => []SilenceBound
<1>1. Init => QuietInv
  BY DEF Init, QuietInv, InSession
<1>2. CaptureInv /\ QuietInv /\ [Next]_vars => QuietInv'
  BY QuietInvStep
<1>3. CaptureInv /\ QuietInv => SilenceBound
  BY CaptureAssumption DEF CaptureInv, TypeOK, QuietInv, SilenceBound
<1> QED BY <1>1, <1>2, <1>3, CaptureInvariant, PTL DEF Spec

\* A session that is given up has been silent for more than timeout seconds,
\* or something arrived after its last poll (capture_bluez.c:280-297).
THEOREM TimeoutsAreJustified == Spec => TimeoutJustified
<1>1. CaptureInv /\ [Next]_vars =>
        [ReadExpired => quiet > timeout
                        \/ (nisk # FAIL /\ (unread # <<>> \/ ~nisk.up))]_vars
  BY CaptureAssumption
     DEF CaptureInv, TypeOK, InSession, Channel, ReadExpired
<1> QED BY <1>1, CaptureInvariant, PTL DEF Spec, TimeoutJustified

\* A session ends with reports unread only if it timed out as they came, or
\* the daemon is being stopped (capture_bluez.c:291-345, 438).
THEOREM ReportsAreNotLost == Spec => NoReportLost
<1>1. CaptureInv /\ [Next]_vars =>
        [connected /\ ~connected' /\ unread # <<>> => stat' = 2 \/ canceled]_vars
  <2> SUFFICES ASSUME CaptureInv, [Next]_vars, connected, ~connected', unread # <<>>
               PROVE  stat' = 2 \/ canceled
    OBVIOUS
  <2>1. ReadCanceled \/ ReadExpired \/ RecvGone
    BY DEF Next, BtThread, RunServer, ReadFromSocket, ParseAddress, BadAddress,
           TestServer, PollClients, PollNobody, StopServer, AcceptCtrl,
           AcceptIntr, KnownDevice, UnknownDevice, CloseIntr,
           CloseCtrl, ReadPoll, PollTimeout, PollInterrupted, Recv, DataInd,
           Environment, Connect, Send, DropPending, DropCtrl, DropIntr,
           LircRemove, Cancel, Kill, Terminated, vars, session
  <2> QED BY <2>1 DEF ReadCanceled, ReadExpired, RecvGone, EndSession
<1> QED BY <1>1, CaptureInvariant, PTL DEF Spec, NoReportLost

\* The calls of the script form a chain of changes across the sessions
\* (lirc_callback.c:73-95).
THEOREM BatteryIsChained == Spec => BatteryChain
<1>1. CaptureInv /\ [Next]_vars =>
        [told' # told =>
           IF told = None THEN told'[1] = told'[2]
           ELSE told'[1] = told[2] /\ told'[2] # told[2]]_vars
  <2> SUFFICES ASSUME CaptureInv, [Next]_vars, told' # told
               PROVE  IF told = None THEN told'[1] = told'[2]
                      ELSE told'[1] = told[2] /\ told'[2] # told[2]
    OBVIOUS
  <2>1. Recv
    BY DEF Next, BtThread, RunServer, ReadFromSocket, ParseAddress, BadAddress,
           TestServer, PollClients, PollNobody, StopServer, AcceptCtrl,
           AcceptIntr, KnownDevice, UnknownDevice, CloseIntr,
           CloseCtrl, ReadCanceled, ReadExpired, ReadPoll, PollTimeout,
           PollInterrupted, RecvGone, DataInd, Environment, Connect, Send,
           DropPending, DropCtrl, DropIntr, LircRemove, Cancel, Kill,
           Terminated, vars, battery
  <2>2. RemoteBatteryCharge(Head(unread) * 20)
    BY <2>1 DEF Recv, battery
  <2> DEFINE val == Head(unread) * 20
  <2>3. /\ ~(charge_percent_set /\ charge_percent = val)
        /\ told' = <<IF charge_percent_set THEN charge_percent ELSE val, val>>
    BY <2>2 DEF RemoteBatteryCharge
  <2>4. /\ charge_percent_set <=> told # None
        /\ told # None => told[2] = charge_percent
    BY DEF CaptureInv
  <2> HIDE DEF val
  <2> QED BY <2>3, <2>4
<1> QED BY <1>1, CaptureInvariant, PTL DEF Spec, BatteryChain

\* The flag of the signal that makes an accept fail is seen before a session
\* reads anything, and a channel that passed the check stays what it was.
ReadingInv ==
  /\ pc \in {"acceptIntr", "check"} /\ ncsk = FAIL => canceled
  /\ pc = "check" /\ nisk = FAIL => canceled
  /\ InSession => \/ ncsk = FAIL /\ canceled
                  \/ ncsk # FAIL /\ (ncsk.dev = Remote \/ ~ncsk.up)
  /\ InSession /\ nisk = FAIL => canceled
  /\ ReadsOnlyAccepted

LEMMA ReadingInvStep ==
  ASSUME CaptureInv, ReadingInv, [Next]_vars
  PROVE  ReadingInv'
<1> USE DEF ReadingInv, ReadsOnlyAccepted, InSession, channels, session
<1>1. /\ ncsk \in Channel \cup {FAIL} /\ nisk \in Channel \cup {FAIL}
      /\ canceled \in BOOLEAN
      /\ FAIL \notin Channel
  BY CaptureAssumption DEF CaptureInv, TypeOK, Channel
<1>2. CASE AcceptCtrl
  <2>1. Head(csk) \in Devices
    BY <1>2 DEF AcceptCtrl, CaptureInv, TypeOK
  <2>2. ncsk' # FAIL
    <3>1. [dev |-> Head(csk), up |-> TRUE] \in Channel
      BY <2>1 DEF Channel
    <3> QED BY <1>1, <1>2, <3>1 DEF AcceptCtrl
  <2>3. pc' = "acceptIntr"
    BY <1>2 DEF AcceptCtrl
  <2> QED BY <2>2, <2>3
<1>3. CASE AcceptIntr
  <2>0. Head(isk) \in Devices
    BY <1>3 DEF AcceptIntr, CaptureInv, TypeOK
  <2>1. nisk' # FAIL
    <3>1. [dev |-> Head(isk), up |-> TRUE] \in Channel
      BY <2>0 DEF Channel
    <3> QED BY <1>1, <1>3, <3>1 DEF AcceptIntr
  <2>2. /\ pc = "acceptIntr" /\ pc' = "check"
        /\ ncsk' = ncsk /\ canceled' = canceled
    BY <1>3 DEF AcceptIntr
  <2> QED BY <2>1, <2>2
<1>4. CASE KnownDevice
  BY <1>1, <1>4 DEF KnownDevice, checkSource
<1>5. CASE RunServer /\ ~AcceptCtrl /\ ~AcceptIntr /\ ~KnownDevice
  BY <1>1, <1>5 DEF RunServer, ParseAddress, BadAddress, TestServer, PollClients,
                    PollNobody, StopServer, UnknownDevice, CloseIntr, CloseCtrl
<1>6. CASE ReadFromSocket
  BY <1>1, <1>6 DEF ReadFromSocket, ReadCanceled, ReadExpired, ReadPoll,
     PollTimeout, PollInterrupted, Recv, RecvGone, DataInd, EndSession
<1>7. CASE DropCtrl
  BY <1>1, <1>7 DEF DropCtrl, Channel
<1>8. CASE DropIntr
  BY <1>1, <1>8 DEF DropIntr, Channel
<1>9. CASE Environment /\ ~DropCtrl /\ ~DropIntr
  BY <1>1, <1>9 DEF Environment, Connect, Send, DropPending
<1>10. CASE LircRemove \/ Cancel
  BY <1>1, <1>10 DEF LircRemove, Cancel
<1>11. CASE Kill
  BY <1>1, <1>11 DEF Kill
<1>12. CASE UNCHANGED vars BY <1>12 DEF vars
<1> QED BY <1>2, <1>3, <1>4, <1>5, <1>6, <1>7, <1>8, <1>9, <1>10, <1>11, <1>12
        DEF Next, BtThread, Terminated

\* What a session reads has come through two accepts that succeeded, behind a
\* control channel that is the remote's or has nobody at its end: a session on
\* the -1 of an accept that was interrupted ends before it reads
\* (capture_bluez.c:278, 405-417).
THEOREM OnlyAcceptedIsRead == Spec => []ReadsOnlyAccepted
<1>1. Init => ReadingInv
  BY DEF Init, ReadingInv, InSession, ReadsOnlyAccepted
<1>2. CaptureInv /\ ReadingInv /\ [Next]_vars => ReadingInv'
  BY ReadingInvStep
<1>3. ReadingInv => ReadsOnlyAccepted
  BY DEF ReadingInv
<1> QED BY <1>1, <1>2, <1>3, CaptureInvariant, PTL DEF Spec
=============================================================================
