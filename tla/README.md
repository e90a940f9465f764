# TLA+ models of bdremote-ng

bdremote-ng is a daemon that receives the reports of a Sony PS3 BD remote over bluetooth
and hands each key to LIRC clients (TCP sockets) and to a uinput device. It has three
threads, a queue and a client list with a mutex each, and a flag set by signals; what is
hard about it is the order in which those threads, the devices and the signals act, and
its arithmetic on clocks. These modules state what that code keeps true, TLC checks it on
small instances and TLAPS proves the safety part for every value of the constants.

Paths are those of the repository: `src/src/q.c` is cited as `q.c`, and so on.

## 1. Inventory

| Component | Source | State | Operations |
|---|---|---|---|
| thread safe queue | `q.c`, `q.h` | ring of 254 pointers, `head`, `tail`, `full`, `empty`, a mutex, two conditions | `queueAdd`, `queueRemBlock`, `queueRemNonBlock`, `queueInit`, `queueDeinit` |
| LIRC thread, keys and repeats | `lirc_thr.c`, `lirc_util.c` | `keyState`: `keyDown`, `lastKey`, `cl0`, `elapsed`, `repeat_count`, `done_waiting` | one round of the loop: a report or a timeout, `handleKey`, `updateTime`, a repeat |
| LIRC clients | `lirc_srv.c`, `broadcastToLirc` | `clis[]`, `clin`, `dataMutex`, the kernel's descriptors | `add_client`, `remove_client`, `broadcastToLirc`, the drain of `lirc_server` |
| bluetooth capture | `capture/capture_bluez.c` | two listening sockets, two accepted channels, `numberOfSeconds` | `run_server`, `readFromSocket`, `l2cap_accept`, `l2cap_checkSource` |
| capture callbacks | `lirc_callback.c` | `charge_percent`, `charge_percent_set` | `RemoteConnected`, `DataInd`, `RemoteBatteryCharge`, `RemoteDisconnected` |
| daemon start and shutdown | `bdremoteng.c`, `lirc_srv.c`, `captureif.c` | the threads, `__io_canceled`, `sockinet`, what `main` has allocated and opened | options, `initLircData`, `InitCaptureData`, `daemon`, `InitcaptureLoop`, creation of the threads, signal handlers, `lirc_server`, `pthread_kill`, joins, the releases at the end |
| uinput events, key table | `event_out.c`, `keydef.h` | a descriptor; a constant table | `event_out_init`, `event_out_send`, `event_out_destroy` |
| configuration | `bdrcfg.c` | allocated strings, the timeout, rate and delay | `setRemoteAddr` and its like, `destroyConfig` |
| logging | `l.c` | the stream that is written to | `setLogFile`, `closeLogFile` |
| user and group change | `ug.c` | the user and group of the process | `changeUIDAndGID` |

How they interact:

    remote --L2CAP--> bluetooth thread --DataInd--> queue --> LIRC thread --> LIRC clients
                          |                                        |             ^
                          +--RemoteBatteryCharge--> script         +--> uinput   | accept
    signals --> __io_canceled (read by all three loops)          main thread ----+

The main thread accepts LIRC clients into the list the LIRC thread broadcasts to. It is
also the one that stops the others: it sends one signal to the bluetooth thread and joins
both.

What is hard to get right, and what each component must therefore keep true:

* **Queue.** `head = tail` means full or empty; the conditions are signalled after the
  unlock; a timed wait can expire while an element arrives. It must be a bounded FIFO that
  loses no element, no ownership and no wakeup.
* **Timed remove.** `q.c:208` adds the wait to `tv_nsec` without a carry. In the last 10 ms
  of every second the call spins with the mutex held. It must still end, must not give up
  early, and must not starve the bluetooth thread.
* **Keys and repeats.** `updateTime` looks at `tv_usec` only and loses time at every second.
  Repeats must not come early nor stop, and uinput must not see a release of a key it does
  not hold, nor a repeat of one unless the remote has sent a code outside the table.
* **Clients.** `clin` is read without the lock in two places; `remove_client` closes a
  descriptor, which the kernel may give away at once, before it leaves the list; the
  broadcast removes clients from the array it walks. The list must not overflow, must not
  name a foreign descriptor and must leave nobody out.
* **Capture.** Devices connect two channels, drop either at any time, fall silent, or hang
  up behind unread data; an accept that a signal interrupts begins a session on no channel. A
  session must end for a reason, within a bound, without dropping what its socket has
  received, and must read only from what was accepted.
* **Start.** `main` opens sockets, files and the event device, changes its user and creates
  threads, and each of these calls can fail, or not be looked at. The threads must run as
  the user that was asked for, an early exit must leave nothing, and nothing may be
  released under a thread.
* **Shutdown.** A signal can come at any moment, also between a test of
  `__io_canceled` and the blocking call that follows it. The daemon must end, with both
  threads joined and everything closed.

## 2. Modules

| Module | Models | Composition |
|---|---|---|
| `BoundedFifo` | what `q.h` promises: a FIFO with ownership, no ring, mutex or wait | abstract specification |
| `ClientSet` | what the LIRC server promises its clients: a set, no array, lock, index or reused descriptor | abstract specification |
| `ThreadQueue` | `q.c` with any number of producers and consumers, and the blocks `lirc_callback.c` allocates and `lirc_thr.c` frees | implements `BoundedFifo` |
| `TimedRemove` | one `queueRemNonBlock` against the clock | the time that `ThreadQueue` leaves out |
| `KeyRepeat` | the loop of `lircThread`, `handleKey`, the repeat clock | uses the durations `TimedRemove` proves |
| `ClientList` | `lirc_server`, `add_client`, `remove_client`, `broadcastToLirc` | main and LIRC thread, kernel descriptors; implements `ClientSet` |
| `Capture` | `run_server`, `readFromSocket`, the callbacks | bluetooth thread, devices, a queue that fills |
| `Startup` | what `main` owns from the first option to its last call, and every way it can fail | the two threads are only running or done |
| `Daemon` | `main`, `lirc_server`'s loop, the life of the threads | extends `Capture`, whose every step is one of its steps |

Each `MC<Module>` instantiates its module for TLC, each `<Module>Proofs` holds its theorems.
Definitions named `... Faulty variant of X` in a comment are not part of a specification:
each changes `X` the way a plausible bug would, to show that a property notices it.

### How state and actions correspond to the code

* **`ThreadQueue`.** Variables are the fields of `struct queue`. What a thread does between
  a lock (or the return of a wait) and the next unlock or wait is one action, since the
  ring is touched only under the mutex: `AddLock`, `AddWait`, `AddStore`, `AddSignal` are
  `queueAdd`, the `Rem...` actions both removes, told apart by `timed[c]`. Unlock and signal
  are separate steps, as in the code. `SpuriousWakeup` and `RemTimeout` may happen at any
  wait. `buf` starts with arbitrary blocks: `malloc`ed memory. `RemInvalidDeadline` is the
  EINVAL round of the timed remove.
* **`TimedRemove`.** `clock` is `tv_usec`; one tick passes only when no thread can run. Its
  queue is one bit, and any number of wakeups up to `MaxWakes` may come.
* **`KeyRepeat`.** One action is one round: the wait, `handleKey` or the timeout, and all
  the resets that follow it. A round takes 0 to `2 * N` ticks with a report and `N` to
  `2 * N` without, the durations proved of `TimedRemove`. `rate_delay` and `sendAfterMs` are
  computed from the options `repeat_delay` and `repeat_rate` as the thread does, zero and
  negative settings included. `sinceReset` is the real time since `elapsed` was last reset, what
  `elapsed` stands for in the code. `EventOf` is the event code of each key: two keys of the table
  have the same (`keydef.h:138, 151`), so `downEvents`, what uinput was told is down, is a set
  of event codes and not of keys. `EventOf[undef]` is `ps3remote_keys[-1].event_code`, what lies
  before the table and what a key that is not in it is repeated as. `gap` and `age` of `out` are
  observations, as `held`, `pressed` (the code of the last press), `leftDown` (the event codes of
  keys that a later press overwrote), `sinceReport` and `sinceReset` are.
* **`ClientList`.** `open` is the kernel's table: `accept` returns any free number, `close`
  frees it at once. `remove_client` is two steps, `CloseClient` and `ShiftClients`, because
  the main thread can accept in between without the mutex. `audience`, `written` and
  `removed` are observations of one broadcast. A critical section of the main thread is one
  step. The names and codes of keys play no role. To `ClientSet` a client is pending from its
  accept until it is listed or refused, and listed until `remove_client` closes it: `Listed`
  leaves out the slot whose descriptor is closed and which the shift has yet to overwrite. The clients a broadcast has yet to serve are those in the slots `i` and
  above (`Ahead`).
* **`Capture`.** `csk` and `isk` are the backlogs of the listening sockets, `ncsk` and `nisk`
  the accepted channels, `unread` the receive buffer. A blocking call is a label of `pc`. The
  test of `__io_canceled` (`TestServer`, `StopServer`) and the `ppoll` of one second behind it
  (`PollClients`, `PollNobody`) are steps of their own: a device that connects after the flag was
  set and before that second is over is still accepted. `Kill` is `pthread_kill`: its handler
  sets the flag if the thread is still there; at "done" it may be or not, because a thread that
  has left `run_server` has not ended at once. A report is its byte 12. The thread parses the remote's address first (`ParseAddress`); with one that cannot be
  parsed it ends at once (`BadAddress`), and nobody is told. `told` is what the battery script was last called with, `quiet` counts the polls
  without data since the last report was received; neither is read by an action of the
  thread. The device may drop a connection before it is accepted, drop an accepted one,
  with or without its unread data, and send at any time. A report of length 0 is left out.
* **`Startup`.** `pc` walks through `main`; "quit" and "aborted" are a process that exits or
  fails an assertion there. `heap` is which strings are allocated, `opener` the user that
  opened a descriptor or `Closed`, `ids` the user and group the process runs as. Each option
  is given or not, in any order and more than once; every call that can fail has a branch in
  which it does. Nothing frees what a process leaves when it quits early, which is why
  `NothingLeft` is about an end through the last line of `main` and about the sockets of an
  `InitcaptureLoop` that fails.
* **`Daemon`.** `mainPc` walks through `main` and `lirc_server`; the LIRC thread is a loop
  that takes from the queue, or "failed" when its creation was (the result of
  `pthread_create` is not looked at, `lirc_thr.c:85-93`): its join then has nothing to join,
  which returns an error, crashes or waits. The bluetooth thread is `Capture`'s, unchanged. A label that
  names a system call is also the place just before it, which is where a signal is missed:
  `ppoll` atomically unblocks the signals of its mask, but the threads never block them.

## 3. Runs

| Run | Instance | States | Shows |
|---|---|---|---|
| `queue` | 2 producers, 2 consumers, 2 slots, 6 blocks, symmetry | 16 464 | `QueueInv`, `OwnedOnce`, `NoLostWakeup`, and that the ring implements `BoundedFifo` |
| `queue_live` | 1 producer, 1 consumer (the daemon's own), 2 slots | 8 384 | `queueAdd` returns, every element is handled and freed |
| `timed` | a second of 12 ticks, `_n` = 3, 2 wakeups | 24 062 | a call lasts at most `2 * _n` per wait, gives up after `_n` at least, keeps an adder waiting `_n` at most |
| `timed_doc` | the same | violation | a call can last longer than `_n`, which `q.h:107` excludes |
| `key` | 3 keys, two of them with one event code, 1 unknown code, a second of 6 ms | 102 206 | repeats are never early (`RepeatSpacing`) nor late by more than a bound (`RepeatNotLate`), `NoGhostEvents`, a held key repeats |
| `key_doc` | the same | violation | `keyDown` stays set after the release of an unknown code |
| `clients` | 3 slots, 5 descriptors, one too large | 112 647 | no overflow, no stale descriptor, everybody served, all closed at the end, every broadcast ends and each of its rounds shortens it, the list is the set of `ClientSet` |
| `clients_doc` | the same | violation | a full list fails the assertion at `lirc_thr.c:371` |
| `capture` | 2 devices, 2 levels, timeout 2 | 504 624 | a session reads only what was accepted, ends for a reason and in time, no report its socket holds is dropped, the script is told a chain |
| `daemon` | 1 device, timeout 1, a queue of 1 | 151 431 | each thread finishes its round and begins no other after a cancel; the shutdown ends or sticks in one of five known places; an exit is clean |
| `daemon_doc` | the same | violation | a failed `bind` ends in the assertion at `lirc_srv.c:106` |
| `startup` | 7 options with a string, timeouts 0 and 60 | 46 986 | threads run as asked, an end leaves nothing but what is named, nothing is released under a thread |

**Why the bounds are enough.** Two threads on each side are what it takes for two threads to
sleep on one condition and be woken in the wrong order; two slots for the ring to wrap, to
be full and to be partly filled. Six blocks give every thread and slot one. In `timed` every
phase of the clock is an initial state, with waits that end in this second and in the next.
In `key` a tick is half a millisecond, so that a look at the clock can drop a fraction of one;
the wait is one to two milliseconds, the delay (4 ms) and the interval (3 ms) are shorter than a
second of 6 ms, and a held key lives through several seconds, which is where `updateTime` drops
time. `Cap` (42) bounds observations only and lies above everything they are compared with: the
largest sum of intervals, and the largest lateness allowed (40). In `clients` three slots allow a removal from the front, middle and end, and the
fifth descriptor the rejections. In `capture` two devices can mix their channels in
backlogs of one (`BACKLOG`, 10 in the code: more only queues more of the same), one unread
report (`MaxUnread`) can race each of the thread's steps, timeout 2 lets it be reached by
timeouts, by an interruption and by both. In `startup` every subset of the options and every
failing call is tried, and the timeout is one that is accepted or one that is not. In `daemon` everything that can block is full or
empty after a few steps.

Deadlock is checked in every run; `Terminated` and `DaemonTerminated` are the intended ends.

### Fairness

Each thread takes its next step when it is not blocked (weak fairness on its steps): the
scheduler's promise. A thread that asks for a mutex again and again gets it (strong fairness
on the locks in `ThreadQueue` and `ClientList`): glibc's mutexes are not
fair, but their holders leave them again and again to wait or work elsewhere, so that a
waiter is not passed over for ever.
`SF(RemTimedWait)`: a call does not begin its wait in the last 10 ms of a second every time.
No fairness is assumed of the devices, the clients, the signals, spurious wakeups, failing
writes or the allocation of new reports. In `Capture` nothing is assumed of `LircRemove`:
`SessionsEnd` counts a session that waits in `queueAdd` as one that has handed over a report.

### What the shutdown property says

`ShutdownEnds`: once the daemon is stopping, because `__io_canceled` is set or because `main` has
left `lirc_server` without it (`Stopping`), it ends, or it stays for ever in one of five places.
TLC finds a behaviour for each of them, so none can be left out:

* `SignalMissed`: the handler ran between main's test of `__io_canceled` and its `ppoll`,
  which has no timeout (`lirc_srv.c:132-135`); the next client or signal frees it.
* `StuckInAccept`: a connection vanished between the poll and the accept and `pthread_kill`
  came before the accept blocked (`capture_bluez.c:397-408`).
* `StuckInAdd`: the queue is full and the LIRC thread has left its loop or was never created;
  `queueAdd` does not look at `__io_canceled` (`q.c:118-126`).
* `StuckInJoin`: `main` joins a LIRC thread whose `pthread_create` failed, with a thread
  identifier that nothing has set (`lirc_thr.c:85-93`).
* `NobodyCanceled`: the bluetooth thread had ended on an address it could not parse
  (`capture_bluez.c:363-370`) and the listener failed. `main` comes to its end without a
  signal, its `pthread_kill` runs no handler in a thread that is gone, and it joins a LIRC
  thread whose loop nobody has told to end (`bdremoteng.c:263-266`); the next signal frees it.

Two properties are its safety part, and are proved. `ShutdownDescends`: the labels of each thread
are numbered along the way to its end, and once `__io_canceled` is set no step of any thread goes
to a label with a higher number. Each thread finishes the round it is in and begins no other; the
longest round is that of a bluetooth thread in the `ppoll` of `run_server`, which accepts whoever
connects during it and goes through a whole session that reads nothing. Hence at most nine steps
of main, three of the LIRC thread and eight of the bluetooth thread are left at any cancel, and
only a blocked call can keep the daemon alive. `SticksOnlyThere`: a stopping daemon in which no
thread gets any further has ended or is in one of the five places; `MainBlocked` and `BtBlocked`
say when those two cannot take a step, `LircStays` that the LIRC thread has none left or that
nobody has told it to end. There is no sixth place, and no join waits for a thread that waits
for something else.

### Findings

Each is a run that is expected to be violated, with the line it contradicts: the timed remove
blocks longer than `q.h:107` says; `keyDown` contradicts its comment after an unknown code;
the client list aborts at the number of clients `lirc_srv.h:54` allows; a failed `bind` leaves
a closed descriptor that an assertion finds later.

Two more things the models show and no line of the repository contradicts:

* `l2cap_checkSource` returns -1 when an accept failed or the peer of the channel is already gone,
  and its caller takes every result but 0 for a known device (`capture_bluez.c:412`). A session may
  thus begin on no channel at all, or behind the control channel of a peer that hung up.
  `ReadsOnlyAccepted` is what holds all the same: an accept fails only for the signal of `main`,
  whose flag ends such a session at its first test, so that everything that is read has come
  through two accepts that succeeded, behind a control channel that is the remote's or whose peer
  has hung up. That the two channels are of one device is promised by nothing: only the address
  of the first is looked at.
* After a press of a code outside the table the thread repeats `ps3remote_keys[-1]`, to LIRC and
  to uinput, until a key of the table is pressed (`lirc_thr.c:198-201`). `NoGhostEvents`
  names this as its one exception: every other repeat, and every release, is of an event code
  that is down.

## 4. Proofs

All safety invariants, both refinements, and all action properties are proved by TLAPS for
every value of the constants that satisfies the named assumption of the module
(`QueueAssumption`, `TimedAssumption`, `KeyAssumption`, `WaitAssumption`, `ClientAssumption`,
`CaptureAssumption`, `StartupAssumption`). `WaitAssumption` is needed by `RepeatsAreNeverLate` only:
a wait is a millisecond at least and a sixth of a second at most. The code waits 10 ms, and a
second has 1000; with waits below a millisecond `updateTime` could count nothing for ever, and
with waits near a second all of them could be dropped.

* **`ThreadQueueProofs`.** `QueueInv` is inductive: types, what the flags mean
  (`empty <=> head = tail /\ ~full`), who holds the mutex, and who owns an element. Without
  the flag part a store could overwrite, without the mutex part two threads could be inside.
  `Ownership` adds the lemmas on how a store and a take change `Count`, `SlotOf` and
  `LiveSlots`. `FifoRefinement` maps `items` to the live slots in order (`Queued`), `offer`
  and `taken` to `item`: `AddStore` appends, `RemTake` takes the head, everything else is a
  step of the owner or a stutter.
  `NoLostWakeup` is inductive with `QueueInv`: an element enters the count together with a
  producer that will signal, a signal turns that producer into a woken consumer if any
  sleeps, and a consumer goes to sleep, or leaves without an element, only when the queue is
  empty. `MoveCounts` says how one thread's move changes a count of threads; a signal is two
  such moves. It needs a finite number of threads, which `QueueAssumption` asks for.
  `NobodySleepsForNothing` draws the conclusion: with no wakeup under way consumers sleep on an
  empty queue only and producers on a full one, so that they never all sleep.
* **`TimedRemoveProofs`.** `TimedInv` says how much of its allowance a call has used up at
  each place; the three bounds follow from it.
* **`KeyRepeatProofs`.** The core is that `elapsed` never exceeds the real time
  (`UpdateNeverOverCounts`, a fact about `\div` and `%` on a clock that wraps), from which
  `RepeatSpacing` follows once the delay has passed. `DownInv` says what uinput holds down: the
  event code of `lastKey` and those of overwritten keys, which are disjoint, because a press
  takes its own code back from the latter. It is kept by a press of another key with the same
  code, and gives `NoGhostEvents`: without a `lastKey` the last press was of a code that is not in
  the table. The other direction, `RepeatsAreNeverLate`, cannot be read off
  `elapsed`, which loses up to a whole wait when a second ends. `ClockKeepsUp` therefore charges
  that loss in advance: half of each wait that stays within a second is counted
  (`DivNotSmall`), and the room it leaves grows with `now` up to `4 * N`, which is what the wait
  that ends the second uses up; `6 * N <= SECOND` lets it grow that far. `HeldInv` ties `keyDown`
  and `lastKey` to what the remote holds: a key that is repeated by name is held
  (`NamedRepeatsAreHeld`), and the comment on `keyDown` (`lirc_srv.h:128`) is right when every
  code is in the table (`KeyDownTruthful`, assuming `Codes = Keys`), the case `key_doc` excludes.
* **`ClientListProofs`.** `ClientInv`: the LIRC thread shrinks the list only under the mutex,
  so that what add_client read of `clin` before its lock is still an upper bound. On top of it
  `ListInv`: the slots below `clin` name distinct open descriptors, apart from failed accepts,
  which together with the one in add_client's hands are all that is open (`NoStaleFd`);
  everybody who was listed when a broadcast began is written to, removed or still ahead
  (`BroadcastReachesAll`); no slot the walk has passed holds a failed accept, and while the
  slots are shifted the client in slot `i` is the removed one (`WalkInv`, which neither
  property says and both need). The step that matters is the
  shift of the slots behind a removed client (`ShiftListInv`, from `FirstSlotIsI`: the search
  by descriptor finds the slot of the loop). `Drained` follows from `ClientInv` and
  `NoStaleFd`: an empty list and nobody in hand leave nothing open.
  `ClientSetRefinement` maps each step to one of `ClientSet` or to a stutter: a write that
  succeeds is `Serve`, the close after one that fails is `Drop`, and every lock, test of `clin`
  and shift is a stutter; that the shift overwrites the slot of the closed client and no other
  is `WalkInv` again.
  `BroadcastRunsOut` is the safety half of `BroadcastEnds`: each round of the walk lowers the
  number of steps it has left, removals and the index stepping back included.
* **`CaptureProofs`.** `CaptureInv` says where a channel can be open, bounds the counter
  of the loop by the real silence, which a signal alone can break, and has the signal of main
  cancel every thread that has not ended (`killed => canceled \/ pc = "done"`). `SilenceBound` needs one
  more invariant, `QuietInv`: the silence never outruns the counter. `TimeoutJustified`,
  `NoReportLost` and `BatteryChain` are step properties from `CaptureInv`. `OnlyAcceptedIsRead`
  needs `ReadingInv`: from the accepts to the first test of the session a channel that is -1
  means that the flag is set, and a control channel that passed the check can only hang up.
* **`StartupProofs`.** `StartupInv` says, for each place of `main`, what is allocated, what is
  open and under which user, and which threads run; with it `RunsAsConfigured`,
  `NothingLeft` and `AbortsAlone` are consequences and `NothingReleasedEarly` is one case per
  action.
* **`DaemonProofs`.** `DaemonImplementsCapture`: every step of the daemon is a step of
  `Capture` or leaves its variables alone, so that all that is proved of `Capture` holds in the daemon
  (`DaemonSessionsAreSound`, `DaemonLosesNothing`), and with `CaptureInv` also `DaemonInv` and
  `CleanExit`. `ShutdownGoesForward` is one case per label that a step of main, a step of the LIRC
  thread, a step of the bluetooth thread or a signal can change, and `ShutdownSticksOnlyThere`
  follows from `DaemonInv`: main joins the bluetooth thread only after it has sent its signal, which
  has canceled it if it was not done, and the LIRC thread only when the bluetooth thread is done;
  a LIRC thread that is not done is then one that nobody has canceled, or still has a step.

Only model-checked: all liveness (`AddReturns`, `ElementsHandled`, `HeldKeyRepeats`,
`BroadcastEnds`, `SessionsEnd`, `ShutdownEnds`), which rests on fairness and enabledness, beyond
the prover; and the properties of the runs that are expected to be violated.

## 5. Not modelled

* Pure output: `printConfig`, what is logged, the text of the lines to LIRC clients, the names
  of the keys, the command line of the battery script.
* Who is at the other end of `/dev/uinput`: a write that fails is not noticed by the code.
* The walk over the HCI devices and its list (`bt_device_exists`): only its result and the
  socket it keeps when it cannot list them are modelled.
* `queueDeinit`'s leftovers: it frees the mutex and the conditions but not the elements that
  are still in the ring (`q.c:99`). It runs after the joins, when
  the process is about to end.
* The test of `p.events` instead of `p.revents` (`lirc_srv.c:139`), which is always true: its
  effect, an accept with nothing to accept, is `AcceptFails`.
* Other outcomes of reading before the table: `ps3remote_keys[-1]` has a name and a code, too, and
  a pointer that is none may end the process. `KeyRepeat` has the outcome in which it does not.
* Wakeups of the wait that find an empty queue in `KeyRepeat`: with one LIRC thread and one
  producer only a spurious one does. Each prolongs a round by up to `2 * N` (`TimedRemove`), and
  the lateness `RepeatNotLate` allows is that of rounds without one.
* A clock that is set back, which fails the assertion at `lirc_util.c:74`.
* `qtest.c` and the other test programs; `qtest`'s two threads are the instance of
  `queue_live`.

## 6. Plan

Done, in this order: the queue and its abstract specification, the timed remove, the repeat
clock, the client list and its abstract specification, the bluetooth thread, the daemon, the
start, the proofs of their safety properties, and of what bounds the progress of each: the
lateness of a repeat, the rounds of a broadcast, the steps of a shutdown.

What could be added:

1. A composition of `Capture` and `KeyRepeat`: a session that ends with a key down
   (`RemoteDisconnected`, `lirc_callback.c:97`, tells the LIRC thread nothing) keeps
   repeating it until the next report. Each half is modelled; no line of the code promises
   anything about the two together.
2. `Daemon` with the client list instead of one knocking client, so that the drain and a
   broadcast meet in one shutdown; `ClientList` as its part, the way `Capture` is.
