------------------------------ MODULE KeyRepeat ------------------------------
(***************************************************************************)
(* The LIRC thread (src/src/lirc_thr.c) between the queue and the sockets: *)
(* it decodes the reports of the remote and, while a key is held, repeats  *)
(* it from a clock of its own (src/src/lirc_util.c).                       *)
(*                                                                         *)
(* One step is one round of the loop of lircThread: a call of              *)
(* queueRemNonBlock that ends with a report or with Q_ERR, and everything  *)
(* the thread does before it calls again.  How long the call takes is what *)
(* TimedRemove proves: N to 2 * N when it times out, at most 2 * N when it *)
(* does not.                                                               *)
(*                                                                         *)
(* Time is counted in ticks, MSEC of them in a millisecond.  now is the    *)
(* tv_usec part of the time of day, which is all updateTime looks at; the  *)
(* clock is not set back.                                                  *)
(***************************************************************************)
EXTENDS Integers

CONSTANTS
  Keys,        \* the codes in ps3remote_keys; a code stands for its index
  Codes,       \* the codes the remote may report
  KEYUP,       \* ps3remote_keyup, the code of a release
  undef,       \* ps3remote_undef
  MSEC,        \* ticks in a millisecond
  SECOND,      \* ticks in a second
  N,           \* blockInMs, in ticks
  repeat_delay,\* config->repeat_delay, what -e gave
  repeat_rate, \* config->repeat_rate, what -r gave
  EventOut,    \* config->event_out: keys are sent to uinput, too
  EventOf,     \* the event_code of each key: two keys may share one; that of
               \* undef is what lies before the table
  Cap,         \* bound of the counters of elapsed ticks
  MaxRepeat    \* bound of repeat_count

\* ms a key is held before it repeats, and ms between repeats: 100 for a
\* setting that is not above 0, and no wait at all for a rate above 1000.
rate_delay == IF repeat_delay > 0 THEN repeat_delay ELSE 100
sendAfterMs == IF repeat_rate > 0 THEN 1000 \div repeat_rate ELSE 100

ASSUME KeyAssumption ==
  /\ Keys \subseteq Codes
  /\ KEYUP \notin Codes
  /\ undef \notin Codes
  /\ MSEC \in Nat \ {0}
  /\ SECOND \in Nat \ {0}
  /\ N \in Nat \ {0}
  /\ repeat_delay \in Int
  /\ repeat_rate \in Int
  /\ EventOut \in BOOLEAN
  /\ Cap \in Nat
  /\ Cap >= (rate_delay + sendAfterMs) * MSEC
  /\ MaxRepeat \in Nat

\* A wait is a millisecond at least and short against a second: 10 ms in the
\* code.  Without it the milliseconds updateTime drops could be all there are.
ASSUME WaitAssumption == MSEC <= N /\ 6 * N <= SECOND

VARIABLES
  ks,          \* struct keyState; cl0 is its tv_usec part
  now,         \* the tv_usec part of the time of day
  out,         \* what this round broadcast to the LIRC clients
  downEvents,  \* the event codes uinput was told are down and not yet up
  held,        \* the remote's last word on whether a key is held
  pressed,     \* the code of the last press, undef once it is released
  leftDown,    \* the event codes of keys that a later press overwrote
  sinceReport, \* ticks since the last report
  sinceReset   \* ticks since ks.elapsed was last set to 0

presses == <<held, pressed, leftDown>>
vars == <<ks, now, out, downEvents, held, pressed, leftDown, sinceReport, sinceReset>>

\* A report: the byte at offset 11 and the code.  State 2 is every report
\* the switch has no case for, and a message of another size or magic.
Reports == [state : 0 .. 2, code : Codes \cup {KEYUP}]

Saturate(t) == IF t > Cap THEN Cap ELSE t

\* What a round sends: nothing, or one line with a name and a number.
Silent(kind) == [kind |-> kind, key |-> undef, rep |-> 0, gap |-> 0, age |-> 0]
Line(kind, key) == [Silent(kind) EXCEPT !.key = key]

event_code(key) == EventOf[key]

\* uinput is told of a press (1), a release (0) or a repeat (2).  A write that
\* fails is not noticed, so downEvents is what it was told.
event_out_send(e, value) ==
  downEvents' = CASE value = 1 -> downEvents \cup {e}
                  [] value = 0 -> downEvents \ {e}
                  [] OTHER -> downEvents

\* What uinput is told the key is, if it is told of a key at all.
EventsOf(key) == IF EventOut /\ key # undef THEN {event_code(key)} ELSE {}

codeToIndex(code) == IF code \in Keys THEN code ELSE undef

\* Faulty variant of usecElapsed: a difference below zero is negated.
usecElapsedAbs(t1, t0) == (IF t1 > t0 THEN t1 - t0 ELSE t0 - t1) \div MSEC

\* What updateTime adds to elapsed: the difference of the tv_usec parts in
\* whole milliseconds, or nothing when it is below zero because a second
\* began in between.
usecElapsed(t1, t0) == IF t1 > t0 THEN (t1 - t0) \div MSEC ELSE 0

Init ==
  /\ now \in 0 .. SECOND - 1
  /\ ks = [keyDown |-> 0, lastKey |-> undef, cl0 |-> now, elapsed |-> 0,
           repeat_count |-> 0, done_waiting |-> 0]
  /\ out = Silent("none")
  /\ downEvents = {}
  /\ held = FALSE
  /\ pressed = undef
  /\ leftDown = {}
  /\ sinceReport = 0
  /\ sinceReset = 0

-----------------------------------------------------------------------------
(* A round that ends the poll with a report, d ticks after it began.       *)

\* initTime and the resets after handleKey; the updateTime that follows at
\* once when a key is down finds no time elapsed.
Restart(d, down, key) ==
  /\ now' = (now + d) % SECOND
  /\ ks' = [keyDown |-> down, lastKey |-> key, cl0 |-> now', elapsed |-> 0,
            repeat_count |-> 0, done_waiting |-> 0]
  /\ sinceReport' = 0
  /\ sinceReset' = 0

\* DataInd_keyDown of a code that is not the release code.
KeyPressed(r, d) ==
  /\ r.state = 1
  /\ r.code # KEYUP
  /\ LET num == codeToIndex(r.code) IN
       /\ Restart(d, 1, num)
       /\ IF num = undef
            THEN out' = Silent("ignored") /\ downEvents' = downEvents
            ELSE /\ out' = Line("press", num)
                 /\ IF EventOut THEN event_out_send(event_code(num), 1)
                               ELSE UNCHANGED downEvents
       /\ leftDown' = (leftDown \cup EventsOf(ks.lastKey)) \ EventsOf(num)
  /\ held' = TRUE
  /\ pressed' = r.code

\* Faulty variant of KeyReleased: lastKey is not reset.
KeyReleasedKept(r, d) ==
  /\ r.state = 0
  /\ r.code = KEYUP
  /\ ks.lastKey # undef
  /\ Restart(d, 0, ks.lastKey)
  /\ out' = Line("release", ks.lastKey)
  /\ IF EventOut THEN event_out_send(event_code(ks.lastKey), 0)
                ELSE UNCHANGED downEvents
  /\ held' = FALSE /\ pressed' = undef
  /\ UNCHANGED leftDown

\* DataInd_keyUp with a key to release.  The line to LIRC is sent if a suffix
\* for released keys is configured.
KeyReleased(r, d) ==
  /\ r.state = 0
  /\ r.code = KEYUP
  /\ ks.lastKey # undef
  /\ Restart(d, 0, undef)
  /\ out' = Line("release", ks.lastKey)
  /\ IF EventOut THEN event_out_send(event_code(ks.lastKey), 0)
                ELSE UNCHANGED downEvents
  /\ held' = FALSE /\ pressed' = undef
  /\ UNCHANGED leftDown

\* Every other report changes no key, and starts the delay again all the same.
ReportIgnored(r, d) ==
  /\ \/ r.state = 1 /\ r.code = KEYUP
     \/ r.state = 0 /\ (r.code # KEYUP \/ ks.lastKey = undef)
     \/ r.state = 2
  /\ Restart(d, ks.keyDown, ks.lastKey)
  /\ out' = Silent("ignored")
  /\ held' = (held /\ ~(r.state = 0 /\ r.code = KEYUP))
  /\ UNCHANGED <<downEvents, pressed, leftDown>>

-----------------------------------------------------------------------------
(* A round whose poll times out after d ticks.                             *)

\* Faulty variant of updateTime: the milliseconds are assigned, not added.
updateTimeForgets(d) == usecElapsed((now + d) % SECOND, ks.cl0)

\* updateTime: the elapsed milliseconds once d more ticks have passed.
updateTime(d) == ks.elapsed + usecElapsed((now + d) % SECOND, ks.cl0)

Pass(d) ==
  /\ now' = (now + d) % SECOND
  /\ sinceReport' = Saturate(sinceReport + d)
  /\ UNCHANGED <<downEvents, presses>>

\* No key is down: the clock is not looked at.
IdleRound(d) ==
  /\ ks.keyDown = 0
  /\ Pass(d)
  /\ sinceReset' = Saturate(sinceReset + d)
  /\ out' = Silent("none")
  /\ UNCHANGED ks

\* Not yet time to start repeating, or to repeat again.
WaitRound(d) ==
  /\ ks.keyDown = 1
  /\ updateTime(d) < IF ks.done_waiting = 0 THEN rate_delay ELSE sendAfterMs
  /\ Pass(d)
  /\ ks' = [ks EXCEPT !.elapsed = updateTime(d), !.cl0 = now']
  /\ sinceReset' = Saturate(sinceReset + d)
  /\ out' = Silent("none")

\* Faulty variant of DelayOver: done_waiting is not set.
DelayOverAgain(d) ==
  /\ ks.keyDown = 1
  /\ ks.done_waiting = 0
  /\ updateTime(d) >= rate_delay
  /\ Pass(d)
  /\ ks' = [ks EXCEPT !.elapsed = 0, !.cl0 = now']
  /\ sinceReset' = 0
  /\ out' = Silent("none")

\* The delay is over: repeats may be sent from the next round on.
DelayOver(d) ==
  /\ ks.keyDown = 1
  /\ ks.done_waiting = 0
  /\ updateTime(d) >= rate_delay
  /\ Pass(d)
  /\ ks' = [ks EXCEPT !.elapsed = 0, !.cl0 = now', !.done_waiting = 1]
  /\ sinceReset' = 0
  /\ out' = Silent("none")

\* The last key is sent again, to LIRC and with event_code(out.key) to uinput;
\* without one, the index is ps3remote_undef and both are told what lies before
\* the table.  gap and age are not in the line: they record how long it is
\* since the previous one, or the end of the delay, and since the last report.
SendRepeat(d) ==
  /\ ks.keyDown = 1
  /\ ks.done_waiting = 1
  /\ updateTime(d) >= sendAfterMs
  /\ Pass(d)
  /\ ks' = [ks EXCEPT
              !.elapsed = 0, !.cl0 = now',
              !.repeat_count = IF @ < MaxRepeat THEN @ + 1 ELSE @]
  /\ sinceReset' = 0
  /\ out' = [kind |-> "repeat", key |-> ks.lastKey, rep |-> ks.repeat_count,
             gap |-> Saturate(sinceReset + d), age |-> sinceReport']

Report == \E r \in Reports, d \in 0 .. 2 * N :
  KeyPressed(r, d) \/ KeyReleased(r, d) \/ ReportIgnored(r, d)

PollTimeout == \E d \in N .. 2 * N :
  IdleRound(d) \/ WaitRound(d) \/ DelayOver(d) \/ SendRepeat(d)

Next == Report \/ PollTimeout

Spec == Init /\ [][Next]_vars

\* The loop of the thread goes round: a call that gets no report times out.
FairSpec == Spec /\ WF_vars(PollTimeout)

-----------------------------------------------------------------------------
OutKinds == {"none", "press", "release", "ignored", "repeat"}

TypeOK ==
  /\ ks \in [keyDown : {0, 1}, lastKey : Keys \cup {undef},
             cl0 : 0 .. SECOND - 1, elapsed : Nat,
             repeat_count : 0 .. MaxRepeat, done_waiting : {0, 1}]
  /\ now \in 0 .. SECOND - 1
  /\ out \in [kind : OutKinds, key : Keys \cup {undef}, rep : 0 .. MaxRepeat,
              gap : 0 .. Cap, age : 0 .. Cap]
  /\ downEvents \subseteq {event_code(k) : k \in Keys}
  /\ held \in BOOLEAN
  /\ pressed \in Codes \cup {undef}
  /\ leftDown \subseteq {event_code(k) : k \in Keys}
  /\ sinceReport \in 0 .. Cap
  /\ sinceReset \in 0 .. Cap

\* uinput holds down the event codes of the key to repeat and of the keys that
\* a later press overwrote, no more and no fewer: such a key stays down until
\* it, or one with its event code, is pressed again and released
\* (lirc_thr.c:287-350).
DownInv ==
  /\ ks.lastKey # undef => ks.keyDown = 1
  /\ ks.keyDown = 1 => pressed # undef /\ ks.lastKey = codeToIndex(pressed)
  /\ downEvents = leftDown \cup EventsOf(ks.lastKey)
  /\ leftDown \cap EventsOf(ks.lastKey) = {}

\* The inductive invariant.  While a key is down the thread has read the
\* clock in its last round and elapsed has not passed its limit; elapsed never
\* runs ahead of the real time since it was reset, although updateTime drops
\* fractions and seconds; once the delay is over, it had really passed; and
\* DownInv (lirc_thr.c:168-208, 287-350, lirc_util.c:67-86).
KeyInv ==
  /\ TypeOK
  /\ ks.keyDown = 1 => ks.cl0 = now
  /\ ks.elapsed <= IF ks.done_waiting = 0 THEN rate_delay ELSE sendAfterMs
  /\ ks.elapsed * MSEC <= sinceReset
  /\ sinceReset <= sinceReport
  /\ ks.done_waiting = 1 =>
       sinceReport >= Saturate(rate_delay * MSEC + sinceReset)
  /\ DownInv

\* A repeat is never early, though the clock it is timed by loses time at
\* every update: the delay and one interval after the last report at least,
\* and one interval after the previous repeat (lirc_thr.c:172-206).
RepeatSpacing ==
  out.kind = "repeat" =>
    /\ out.gap >= sendAfterMs * MSEC
    /\ out.age >= (rate_delay + sendAfterMs) * MSEC

\* How late the clock of the repeats may be, in ticks, when it shows ms
\* milliseconds: it drops a fraction of a millisecond at each look, and all of
\* a wait in which a second ends.
Lateness(ms) == 4 * MSEC * ms + 4 * N

\* A held key is never late by more than that: what updateTime drops at its
\* looks and at the ends of seconds does not add up, however long the key is
\* held, and reports that restart the delay are the only way to put a repeat
\* off.  This is for calls of queueRemNonBlock that no wakeup prolongs, as here
\* (lirc_util.c:72-83, lirc_thr.c:166-206).
RepeatNotLate ==
  /\ ks.keyDown = 1 =>
       sinceReset <= Lateness(IF ks.done_waiting = 0 THEN rate_delay ELSE sendAfterMs)
  /\ out.kind = "repeat" => out.gap <= Lateness(sendAfterMs) + 2 * N

\* uinput is told of a repeat or a release only of an event code that is down
\* for it, through every order of presses and releases of several keys, two of
\* which may have the same event code, as "cross" and "clear" do.  The one
\* exception is the code's: after a press of a code outside the table, and until
\* a key of the table is pressed, it is told repeats of what lies before the
\* table (lirc_thr.c:198-201, 287-307, 325, 343-350, keydef.h:138, 151).
NoGhostEvents == [][
  EventOut /\ out'.kind \in {"repeat", "release"} =>
    \/ event_code(out'.key) \in downEvents
    \/ out'.kind = "repeat" /\ pressed \in Codes \ Keys]_vars

\* A key that is held repeats, or a report comes: the losses of updateTime at
\* the seconds' ends delay a repeat and never suppress it (lirc_util.c:76-83).
HeldKeyRepeats == (ks.keyDown = 1) ~> (out.kind # "none")

\* "Indicates if a key is down." (lirc_srv.h:128)
KeyDownTellsTruth == ks.keyDown = 1 <=> held
=============================================================================
