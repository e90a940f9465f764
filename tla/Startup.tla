------------------------------- MODULE Startup -------------------------------
(***************************************************************************)
(* What main owns from the first option to its last call                   *)
(* (src/src/bdremoteng.c): the strings of the configuration (bdrcfg.c) and *)
(* of the capture data (captureif.c), the bluetooth sockets                *)
(* (capture_bluez.c), the log file (l.c), the event device (event_out.c),  *)
(* and the user and group the process runs as (ug.c).  Every call that can *)
(* fail does so in one of the branches.                                    *)
(*                                                                         *)
(* The two threads are only running or done here: what they do is in       *)
(* Capture and KeyRepeat, and how main stops them in Daemon.               *)
(***************************************************************************)
EXTENDS Integers

CONSTANTS
  Strings,   \* the options with a string that may be given
  Timeouts   \* the values of -t, in seconds

ASSUME StartupAssumption ==
  /\ Strings \subseteq {"remote_addr", "interface_addr", "release", "user",
                        "group", "log_filename", "battery_script"}
  /\ Timeouts \subseteq Int

VARIABLES
  pc,          \* where main is, or how the process ended
  heap,        \* the strings that are allocated, and the LIRC data
  timeout,     \* config.disconnect_timeout
  validAddr,   \* str2ba can parse remote_addr
  opener,      \* the user that opened a descriptor, or Closed
  printStream,
  ids,         \* the user and the group of the process
  bt, lirc,    \* the two threads
  sockinet,    \* the LIRC listener: "closed" is a descriptor that was closed
  canceled     \* __io_canceled

config == <<timeout, validAddr>>
threads == <<bt, lirc>>
process == <<ids, threads, sockinet, canceled>>
vars == <<pc, heap, timeout, validAddr, opener, printStream, ids, bt, lirc,
          sockinet, canceled>>

Closed == "closed"
CaptureStrings == {"bt_dev_address", "dest_address"}
CaptureSockets == {"ctl", "csk", "isk"}
Descriptors == CaptureSockets \cup {"hci", "log", "event_out_fd"}

\* root, or anybody else.
Callers == {[uid |-> u, gid |-> u] : u \in {"root", "caller"}}

\* What -u and -g ask for.
UserAndGroup == [uid |-> "user", gid |-> "group"]

Init ==
  /\ pc = "options"
  /\ heap = {}
  /\ timeout = 60
  /\ validAddr = TRUE
  /\ opener = [d \in Descriptors |-> Closed]
  /\ printStream = "stdout"
  /\ ids \in Callers
  /\ bt = "none" /\ lirc = "none"
  /\ sockinet = "none"
  /\ canceled = FALSE

Goes(from, to) == pc = from /\ pc' = to

\* The process exits, at once and with what it has.
Quits(from) == Goes(from, "quit")

Opens(D) == opener' = [d \in Descriptors |-> IF d \in D THEN ids.uid ELSE opener[d]]

Closes(D) == opener' = [d \in Descriptors |-> IF d \in D THEN Closed ELSE opener[d]]

\* A string is copied, and freed first if there is one; and is freed.
SETVAL(S) == heap' = heap \cup S
FREEVAL(S) == heap' = heap \ S

-----------------------------------------------------------------------------
(* The options, the LIRC data, the capture data and the fork.              *)

SetString(s) ==
  /\ Goes("options", "options")
  /\ SETVAL({s})
  /\ IF s = "remote_addr" THEN validAddr' \in BOOLEAN ELSE UNCHANGED validAddr
  /\ UNCHANGED <<timeout, opener, printStream, process>>

SetTimeout(t) ==
  /\ Goes("options", "options")
  /\ timeout' = t
  /\ UNCHANGED <<heap, validAddr, opener, printStream, process>>

\* An option that is unknown or asks for help ends the process at once, a
\* missing remote address after the last option.
EndOptions ==
  /\ \/ Quits("options")
     \/ Goes("options", "initLirc") /\ "remote_addr" \in heap
  /\ UNCHANGED <<heap, config, opener, printStream, process>>

initLircData ==
  /\ Goes("initLirc", "initCapture")
  /\ heap' = heap \cup {"ldata"}
  /\ UNCHANGED <<config, opener, printStream, process>>

\* It asserts that the timeout is above 0, which nothing has checked.
InitCaptureData ==
  /\ \/ /\ timeout > 0
        /\ Goes("initCapture", "daemon")
        /\ SETVAL(IF "interface_addr" \in heap THEN CaptureStrings
                                               ELSE {"dest_address"})
     \/ /\ timeout <= 0
        /\ Goes("initCapture", "aborted")
        /\ UNCHANGED heap
  /\ UNCHANGED <<config, opener, printStream, process>>

\* daemon() may fail when it is called at all.
Detach ==
  /\ Goes("daemon", "device") \/ Quits("daemon")
  /\ UNCHANGED <<heap, config, opener, printStream, process>>

-----------------------------------------------------------------------------
(* InitcaptureLoop.                                                        *)

\* It exits when it gets no socket, fails when the device is not there, and
\* keeps its socket when it cannot list the devices.
bt_device_exists ==
  \/ \E to \in {"ctl", "failed", "quit"} : Goes("device", to) /\ UNCHANGED opener
  \/ Goes("device", "failed") /\ Opens({"hci"})

\* The first interface is taken if no other was given, and there may be none.
FindDevice ==
  /\ \/ SETVAL({"bt_dev_address"}) /\ bt_device_exists
     \/ /\ "bt_dev_address" \notin heap
        /\ Goes("device", "failed")
        /\ UNCHANGED <<heap, opener>>
  /\ UNCHANGED <<config, printStream, process>>

OpenCtl ==
  /\ \/ Goes("ctl", "csk") /\ Opens({"ctl"})
     \/ Goes("ctl", "failed") /\ UNCHANGED opener
  /\ UNCHANGED <<heap, config, printStream, process>>

\* l2cap_listen closes the socket it cannot bind or listen on.
ListenCtrl ==
  /\ \/ Goes("csk", "isk") /\ Opens({"csk"})
     \/ Goes("csk", "failed") /\ Closes({"ctl"})
  /\ UNCHANGED <<heap, config, printStream, process>>

\* Faulty variant of ListenIntr: only the socket opened first is closed.
ListenIntrLeaks ==
  /\ \/ Goes("isk", "ids") /\ Opens({"isk"})
     \/ Goes("isk", "failed") /\ Closes({"ctl"})
  /\ UNCHANGED <<heap, config, printStream, process>>

ListenIntr ==
  /\ \/ Goes("isk", "ids") /\ Opens({"isk"})
     \/ Goes("isk", "failed") /\ Closes({"ctl", "csk"})
  /\ UNCHANGED <<heap, config, printStream, process>>

\* main returns BDREMOTE_FAIL.
GiveUp ==
  /\ Quits("failed")
  /\ UNCHANGED <<heap, config, opener, printStream, process>>

-----------------------------------------------------------------------------
(* The user and the group, the log file, the threads, the event device.    *)

userAndGroupSet == {"user", "group"} \subseteq heap

\* Faulty variant of changeUIDAndGID: the result of setgid is overwritten.
changeUIDAndGIDForgets ==
  \E g, u \in BOOLEAN :
    /\ ids' = [uid |-> IF u THEN "user" ELSE ids.uid,
               gid |-> IF g THEN "group" ELSE ids.gid]
    /\ pc' = IF u THEN "log" ELSE "quit"

\* setgid and setuid are both tried, and both must succeed.
changeUIDAndGID ==
  \E g, u \in BOOLEAN :
    /\ ids' = [uid |-> IF u THEN "user" ELSE ids.uid,
               gid |-> IF g THEN "group" ELSE ids.gid]
    /\ pc' = IF g /\ u THEN "log" ELSE "quit"

\* Nothing is changed unless both are given, and only root may; the user and
\* the group may be unknown.
ChangeIds ==
  /\ pc = "ids"
  /\ \/ ~userAndGroupSet /\ pc' = "log" /\ UNCHANGED ids
     \/ userAndGroupSet /\ pc' = "quit" /\ UNCHANGED ids
     \/ userAndGroupSet /\ ids.uid = "root" /\ changeUIDAndGID
  /\ UNCHANGED <<heap, config, opener, printStream, threads, sockinet, canceled>>

setLogFile ==
  /\ \/ /\ "log_filename" \in heap
        /\ Goes("log", "createBt")
        /\ Opens({"log"})
        /\ printStream' = "file"
     \/ /\ "log_filename" \in heap
        /\ Quits("log")
        /\ UNCHANGED <<opener, printStream>>
     \/ /\ "log_filename" \notin heap
        /\ Goes("log", "createBt")
        /\ UNCHANGED <<opener, printStream>>
  /\ UNCHANGED <<heap, config, process>>

\* fclose unless the stream is stdout.
closeLogFile == Closes({"log"}) /\ printStream' = "stdout"

\* Faulty variant of CreateBtThread: a failure is only reported.
CreateBtThreadAnyway ==
  /\ pc = "createBt"
  /\ \/ pc' = "sigaction" /\ bt' = "running" /\ UNCHANGED <<opener, printStream>>
     \/ pc' = "sigaction" /\ bt' = bt /\ closeLogFile
  /\ UNCHANGED <<heap, config, ids, lirc, sockinet, canceled>>

CreateBtThread ==
  /\ \/ Goes("createBt", "sigaction") /\ bt' = "running" /\ UNCHANGED <<opener, printStream>>
     \/ Quits("createBt") /\ bt' = bt /\ closeLogFile
  /\ UNCHANGED <<heap, config, ids, lirc, sockinet, canceled>>

Sigaction ==
  /\ Goes("sigaction", "eventOut")
  /\ UNCHANGED <<heap, config, opener, printStream, process>>

\* event_out_init, if it is asked for: a device that cannot be set up is
\* closed again, and keys are then sent to LIRC only.
EventOutInit ==
  /\ Goes("eventOut", "startLirc")
  /\ Opens({"event_out_fd"}) \/ UNCHANGED opener
  /\ UNCHANGED <<heap, config, printStream, process>>

\* The result of pthread_create is not looked at.
startLircThread ==
  /\ Goes("startLirc", "listen")
  /\ lirc' \in {"running", "failed"}
  /\ UNCHANGED <<heap, config, opener, printStream, ids, bt, sockinet, canceled>>

-----------------------------------------------------------------------------
(* lirc_server, the joins and the end.                                     *)

create_listener ==
  /\ \/ Goes("listen", "serve") /\ sockinet' = "open"
     \/ Goes("listen", "kill") /\ sockinet' \in {"none", "closed"}
  /\ UNCHANGED <<heap, config, opener, printStream, ids, threads, canceled>>

EndServer ==
  /\ Goes("serve", "kill")
  /\ canceled
  /\ sockinet' = "none"
  /\ UNCHANGED <<heap, config, opener, printStream, ids, threads, canceled>>

\* A thread that has ended runs no handler; one that has only left its loop
\* still does.
KillBt ==
  /\ Goes("kill", "joinBt")
  /\ canceled' \in IF bt = "done" THEN {canceled, TRUE} ELSE {TRUE}
  /\ UNCHANGED <<heap, config, opener, printStream, ids, threads, sockinet>>

\* Faulty variant of JoinBt: the thread is not waited for.
JoinBtNot ==
  /\ Goes("joinBt", "joinLirc")
  /\ UNCHANGED <<heap, config, opener, printStream, process>>

JoinBt ==
  /\ Goes("joinBt", "joinLirc")
  /\ bt = "done"
  /\ UNCHANGED <<heap, config, opener, printStream, process>>

\* Faulty variant of waitForLircThread: the thread is not waited for.
waitForLircThreadNot ==
  /\ Goes("joinLirc", "destroyCapture")
  /\ UNCHANGED <<heap, config, opener, printStream, process>>

\* Without a thread, the id that is joined was never written: the call may
\* return, crash, or wait.
waitForLircThread ==
  /\ \/ lirc = "done" /\ Goes("joinLirc", "destroyCapture")
     \/ lirc = "failed" /\ (\E to \in {"destroyCapture", "crashed"} : Goes("joinLirc", to))
  /\ UNCHANGED <<heap, config, opener, printStream, process>>

DestroyCaptureData ==
  /\ Goes("destroyCapture", "destroyLirc")
  /\ FREEVAL(CaptureStrings)
  /\ UNCHANGED <<config, opener, printStream, process>>

\* The queue is gone before the assertion on the listener is met.
destroyLircData ==
  /\ Goes("destroyLirc", IF sockinet = "none" THEN "destroyEvent" ELSE "aborted")
  /\ heap' = heap \ {"ldata"}
  /\ UNCHANGED <<config, opener, printStream, process>>

event_out_destroy ==
  /\ Goes("destroyEvent", "destroyConfig")
  /\ Closes({"event_out_fd"})
  /\ UNCHANGED <<heap, config, printStream, process>>

\* interface_addr is not freed.
destroyConfig ==
  /\ Goes("destroyConfig", "closeLog")
  /\ FREEVAL({"remote_addr", "release", "user", "group", "log_filename",
              "battery_script"})
  /\ UNCHANGED <<config, opener, printStream, process>>

CloseLog ==
  /\ Goes("closeLog", "exited")
  /\ closeLogFile
  /\ UNCHANGED <<heap, config, process>>

-----------------------------------------------------------------------------
Ended == pc \in {"quit", "exited", "aborted", "crashed", "terminated"}

\* The threads leave their loops once they are canceled; the bluetooth thread
\* at once if it cannot parse the address of the remote.  It closes the sockets.
BtEnds ==
  /\ ~Ended
  /\ bt = "running"
  /\ canceled \/ ~validAddr
  /\ bt' = "done"
  /\ Closes(CaptureSockets)
  /\ UNCHANGED <<pc, heap, config, printStream, ids, lirc, sockinet, canceled>>

LircEnds ==
  /\ ~Ended
  /\ lirc = "running"
  /\ canceled
  /\ lirc' = "done"
  /\ UNCHANGED <<pc, heap, config, opener, printStream, ids, bt, sockinet, canceled>>

\* The labels before the handlers are installed.
Unhandled == {"options", "initLirc", "initCapture", "daemon", "device", "ctl",
              "csk", "isk", "failed", "ids", "log", "createBt", "sigaction"}

\* SIGTERM or SIGINT: it ends the process as long as it is not handled.
Sigterm ==
  /\ ~Ended
  /\ IF pc \in Unhandled THEN pc' = "terminated" /\ UNCHANGED canceled
                         ELSE canceled' = TRUE /\ UNCHANGED pc
  /\ UNCHANGED <<heap, config, opener, printStream, ids, threads, sockinet>>

Start ==
  \/ \E s \in Strings : SetString(s)
  \/ \E t \in Timeouts : SetTimeout(t)
  \/ EndOptions \/ initLircData \/ InitCaptureData \/ Detach
  \/ FindDevice \/ OpenCtl \/ ListenCtrl \/ ListenIntr \/ GiveUp
  \/ ChangeIds \/ setLogFile \/ CreateBtThread \/ Sigaction \/ EventOutInit
  \/ startLircThread

Teardown ==
  \/ create_listener \/ EndServer \/ KillBt \/ JoinBt \/ waitForLircThread
  \/ DestroyCaptureData \/ destroyLircData \/ event_out_destroy
  \/ destroyConfig \/ CloseLog

Terminated == Ended /\ UNCHANGED vars

Next == Start \/ Teardown \/ BtEnds \/ LircEnds \/ Sigterm \/ Terminated

Spec == Init /\ [][Next]_vars

-----------------------------------------------------------------------------
\* The labels from the first join that has returned to the last call.
Cleanup == {"destroyCapture", "destroyLirc", "destroyEvent", "destroyConfig",
            "closeLog"}

TypeOK ==
  /\ pc \in Unhandled \cup Cleanup \cup
       {"eventOut", "startLirc", "listen", "serve", "kill", "joinBt", "joinLirc",
        "quit", "exited", "aborted", "crashed", "terminated"}
  /\ heap \subseteq Strings \cup CaptureStrings \cup {"ldata"}
  /\ timeout \in Int
  /\ validAddr \in BOOLEAN
  /\ opener \in [Descriptors -> {"root", "caller", "user", Closed}]
  /\ printStream \in {"stdout", "file"}
  /\ ids \in [uid : {"root", "caller", "user"}, gid : {"root", "caller", "group"}]
  /\ bt \in {"none", "running", "done"}
  /\ lirc \in {"none", "running", "failed", "done"}
  /\ sockinet \in {"none", "open", "closed"}
  /\ canceled \in BOOLEAN

\* Which threads there are: none before they are created, the bluetooth thread
\* gone once it is joined, the LIRC thread once it is.
ThreadsInv ==
  /\ pc \in (Unhandled \ {"sigaction"}) \cup {"quit"} => bt = "none"
  /\ pc \in Unhandled \cup {"eventOut", "startLirc", "quit"} => lirc = "none"
  /\ pc \in Cleanup \cup {"joinLirc", "crashed", "exited"} => bt = "done"
  /\ pc \in Cleanup \cup {"exited"} => lirc # "running"

\* What is allocated, the listener, and the timeout once it was checked.
HeapInv ==
  /\ pc \notin {"options", "initLirc", "initCapture", "quit", "aborted", "terminated"} =>
       timeout > 0
  /\ pc = "destroyLirc" => heap \cap CaptureStrings = {}
  /\ pc \in {"destroyEvent", "destroyConfig"} => heap \subseteq Strings
  /\ pc \in {"closeLog", "exited"} => heap \subseteq {"interface_addr"}
  /\ pc \in {"kill", "joinBt", "joinLirc"} \cup Cleanup => sockinet # "open"
  /\ pc \in {"destroyEvent", "destroyConfig", "closeLog", "exited"} =>
       sockinet = "none"

\* Which descriptors are open, and that the log is one of them.
DescriptorsInv ==
  /\ bt = "done" => \A d \in CaptureSockets : opener[d] = Closed
  /\ pc \notin {"failed", "quit", "terminated"} => opener["hci"] = Closed
  /\ pc \in {"options", "initLirc", "initCapture", "daemon", "device", "ctl",
             "failed"} => \A d \in Descriptors \ {"hci"} : opener[d] = Closed
  /\ pc = "csk" => opener["csk"] = Closed /\ opener["isk"] = Closed
  /\ pc = "isk" => opener["isk"] = Closed
  /\ pc \in {"csk", "isk", "ids", "log"} => opener["log"] = Closed
  /\ pc \in Unhandled \cup {"eventOut", "destroyConfig", "closeLog", "exited"} =>
       opener["event_out_fd"] = Closed
  /\ opener["log"] # Closed <=> printStream = "file"
  /\ pc = "exited" => printStream = "stdout"

Running == bt = "running" \/ lirc = "running"

\* As whom the process runs, and as whom it opened what is open.
IdsInv ==
  /\ pc \in {"options", "initLirc", "initCapture", "daemon", "device", "ctl",
             "csk", "isk", "ids"} => ids \in Callers
  /\ pc \in {"csk", "isk", "ids"} => opener["ctl"] = ids.uid
  /\ pc \in {"isk", "ids"} => opener["csk"] = ids.uid
  /\ pc = "ids" => opener["isk"] = ids.uid
  /\ pc \in {"log", "createBt", "sigaction", "eventOut", "startLirc"} \/ Running =>
       IF userAndGroupSet THEN ids = UserAndGroup ELSE ids \in Callers
  /\ pc \in {"log", "createBt"} \/ bt = "running" =>
       \A d \in CaptureSockets :
         opener[d] = IF userAndGroupSet THEN "root" ELSE ids.uid
  /\ pc \in {"createBt", "sigaction", "eventOut", "startLirc"} \/ Running =>
       opener["log"] = IF "log_filename" \in heap THEN ids.uid ELSE Closed

\* The inductive invariant: how far main has come tells which threads run,
\* what is allocated and open, and as whom (bdremoteng.c:94-281).
StartupInv == TypeOK /\ ThreadsInv /\ HeapInv /\ DescriptorsInv /\ IdsInv

\* As long as a thread runs the process has the user and the group it was
\* asked to run as, and a failed change never gets that far; the bluetooth
\* sockets were opened before the change, and the log after it
\* (bdremoteng.c:188-220, ug.c:42-92).
RunsAsConfigured ==
  bt = "running" =>
    IF userAndGroupSet
      THEN /\ ids = UserAndGroup
           /\ \A d \in CaptureSockets : opener[d] = "root"
           /\ opener["log"] \in {Closed, "user"}
      ELSE /\ ids \in Callers
           /\ \A d \in CaptureSockets \cup {"log"} : opener[d] \in {Closed, ids.uid}

\* An exit leaves nothing open and nobody running, and frees every string but
\* the interface address; an InitcaptureLoop that fails leaves none of its
\* three sockets (bdremoteng.c:263-281, bdrcfg.c:122-132, capture_bluez.c:505-531).
NothingLeft ==
  /\ pc = "exited" =>
       /\ heap \subseteq {"interface_addr"}
       /\ opener = [d \in Descriptors |-> Closed]
       /\ printStream = "stdout"
       /\ sockinet = "none"
       /\ bt = "done" /\ lirc # "running"
  /\ pc = "failed" => \A d \in CaptureSockets : opener[d] = Closed

\* Nothing a thread may use is released, replaced or closed while it runs,
\* but by the bluetooth thread's own end: no string, no queue, not the log
\* and, under the LIRC thread, not the event device (bdremoteng.c:230-281).
NothingReleasedEarly == [][
  /\ Running => heap' = heap /\ printStream' = printStream /\ ids' = ids
  /\ bt' = "running" /\ bt = "running" =>
       \A d \in CaptureSockets : opener'[d] = opener[d]
  /\ lirc = "running" => opener'["event_out_fd"] = opener["event_out_fd"] ]_vars

\* An assertion of main fails at the start, with nothing opened yet, or at the
\* end, when the threads are gone: never under a running thread
\* (captureif.c:56, lirc_srv.c:105-106).
AbortsAlone ==
  pc = "aborted" =>
    /\ bt # "running" /\ lirc # "running"
    /\ timeout <= 0 \/ sockinet = "closed"
    /\ timeout <= 0 => opener = [d \in Descriptors |-> Closed]
=============================================================================
