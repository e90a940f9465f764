----------------------------- MODULE TimedRemove -----------------------------
(***************************************************************************)
(* One call of queueRemNonBlock (src/src/q.c) against the clock: how long  *)
(* the caller, and a thread that wants to add an element meanwhile, are    *)
(* kept waiting.  ThreadQueue has the queue and the mutex of this call and *)
(* leaves the time out; here the queue is one bit.                         *)
(*                                                                         *)
(* The deadline is the time of day plus _n ms, the sum being left in       *)
(* tv_nsec.  In the last _n ms of a second it has no carry into tv_sec and *)
(* pthread_cond_timedwait refuses it with EINVAL: nothing is waited for,   *)
(* the mutex stays locked and the loop goes round until the next second.   *)
(*                                                                         *)
(* Time advances only when no thread can run: the bounds are those of a    *)
(* machine that schedules the threads at once.                             *)
(***************************************************************************)
EXTENDS Integers

CONSTANTS
  SECOND,      \* clock units in a second
  N,           \* _n: the units to wait for (lirc_thr.c passes 10 ms)
  MaxWakes     \* bound on the wakeups of one call, spurious ones included

ASSUME TimedAssumption ==
  /\ SECOND \in Nat
  /\ N \in Nat \ {0}
  /\ N < SECOND
  /\ MaxWakes \in Nat

VARIABLES
  clock,     \* the tv_usec part of the time of day
  pc,        \* where the removing thread is
  abstime,   \* the tv_nsec part of the deadline
  empty,     \* the queue is empty
  adder,     \* TRUE: a thread wants the mutex to add an element
  blocked,   \* time since the call began
  wakes,     \* wakeups since the call began
  held       \* time the adder has waited for the mutex

vars == <<clock, pc, abstime, empty, adder, blocked, wakes, held>>

\* The mutex is held while the loop runs and while it spins.
MutexHeld == pc \in {"loop", "spin"}

Init ==
  /\ clock \in 0 .. SECOND - 1
  /\ pc = "idle"
  /\ abstime = 0
  /\ empty = TRUE
  /\ adder = FALSE
  /\ blocked = 0
  /\ wakes = 0
  /\ held = 0

\* The call gets the mutex and begins its loop.
QueueRemNonBlock ==
  /\ pc = "idle"
  /\ pc' = "loop"
  /\ blocked' = 0
  /\ wakes' = 0
  /\ UNCHANGED <<clock, abstime, empty, adder, held>>

\* There is an element: the call returns Q_OK.  It may have been the last.
Take ==
  /\ pc = "loop"
  /\ ~empty
  /\ empty' \in BOOLEAN
  /\ pc' = "idle"
  /\ UNCHANGED <<clock, abstime, adder, blocked, wakes, held>>

\* Faulty variant of TimedWait: the deadline is carried round the second
\* without its tv_sec part, so that it lies in the past.
TimedWaitWrapped ==
  /\ pc = "loop"
  /\ empty
  /\ abstime' = (clock + N) % SECOND
  /\ pc' = "wait"
  /\ UNCHANGED <<clock, empty, adder, blocked, wakes, held>>

\* The deadline is in this second: wait for it, the mutex released.
TimedWait ==
  /\ pc = "loop"
  /\ empty
  /\ clock + N < SECOND
  /\ abstime' = clock + N
  /\ pc' = "wait"
  /\ UNCHANGED <<clock, empty, adder, blocked, wakes, held>>

\* Faulty variant of InvalidDeadline: the wait is added twice before the
\* deadline is refused, so the loop may already spin 2 * _n before the end.
InvalidDeadlineEarly ==
  /\ pc = "loop"
  /\ empty
  /\ clock + 2 * N >= SECOND
  /\ pc' = "spin"
  /\ UNCHANGED <<clock, abstime, empty, adder, blocked, wakes, held>>

\* EINVAL: round the loop, the mutex still locked, until the clock moves.
InvalidDeadline ==
  /\ pc = "loop"
  /\ empty
  /\ clock + N >= SECOND
  /\ pc' = "spin"
  /\ UNCHANGED <<clock, abstime, empty, adder, blocked, wakes, held>>

\* The wait returns before the deadline: signalled, or spuriously.
Wake ==
  /\ pc = "wait"
  /\ wakes < MaxWakes
  /\ wakes' = wakes + 1
  /\ pc' = "loop"
  /\ UNCHANGED <<clock, abstime, empty, adder, blocked, held>>

\* ETIMEDOUT.
Expire ==
  /\ pc = "wait"
  /\ clock >= abstime
  /\ pc' = "expired"
  /\ UNCHANGED <<clock, abstime, empty, adder, blocked, wakes, held>>

\* The call returns Q_ERR, whatever is in the queue by now.
ReturnErr ==
  /\ pc = "expired"
  /\ pc' = "idle"
  /\ UNCHANGED <<clock, abstime, empty, adder, blocked, wakes, held>>

-----------------------------------------------------------------------------
\* Another thread calls queueAdd.
AddCall ==
  /\ ~adder
  /\ adder' = TRUE
  /\ held' = 0
  /\ UNCHANGED <<clock, pc, abstime, empty, blocked, wakes>>

AddStore ==
  /\ adder
  /\ ~MutexHeld
  /\ adder' = FALSE
  /\ empty' = FALSE
  /\ UNCHANGED <<clock, pc, abstime, blocked, wakes, held>>

\* One unit of time passes, when every thread that could run has run.
Tick ==
  /\ \/ pc = "idle"
     \/ pc = "spin"
     \/ pc = "wait" /\ clock < abstime
  /\ adder => MutexHeld
  /\ clock' = (clock + 1) % SECOND
  /\ pc' = IF pc = "spin" THEN "loop" ELSE pc
  /\ blocked' = IF pc = "idle" THEN blocked ELSE blocked + 1
  /\ held' = IF adder THEN held + 1 ELSE held
  /\ UNCHANGED <<abstime, empty, adder, wakes>>

Next ==
  \/ QueueRemNonBlock \/ Take \/ TimedWait \/ InvalidDeadline
  \/ Wake \/ Expire \/ ReturnErr
  \/ AddCall \/ AddStore
  \/ Tick

Spec == Init /\ [][Next]_vars

-----------------------------------------------------------------------------
\* A call takes at most 2 * _n for each time it starts to wait: the rest of
\* the second, spinning, and then the wait itself (q.c:201-220).
BlockedBound == blocked <= 2 * N * (wakes + 1)

\* A call that gives up has waited for _n at least: the deadline is never in
\* the past, at a second's end neither (q.c:203-219).
TimeoutNotEarly == pc = "expired" => blocked >= N

\* The spinning call keeps the bluetooth thread out of queueAdd for _n at
\* most (q.c:116, 199-214).
AdderBound == held <= N

\* "Blocks for most _n ms." (q.h:107)
BlocksAtMostN == wakes = 0 => blocked <= N

\* The last _n units of a second.
Late == clock + N >= SECOND

\* The inductive invariant: how far the call can have come at each place, of
\* the 2 * N that each wakeup and the call itself allow.
TimedInv ==
  /\ clock \in 0 .. SECOND - 1
  /\ pc \in {"idle", "loop", "spin", "wait", "expired"}
  /\ abstime \in 0 .. SECOND - 1
  /\ empty \in BOOLEAN
  /\ adder \in BOOLEAN
  /\ blocked \in Nat
  /\ wakes \in 0 .. MaxWakes
  /\ held \in Nat
  /\ pc \in {"idle", "expired"} => blocked <= 2 * N * wakes + 2 * N
  /\ pc = "spin" => Late /\ empty
  /\ MutexHeld => blocked <= 2 * N * wakes
                    + (IF Late THEN clock - (SECOND - N) ELSE N)
  /\ pc = "wait" => /\ clock <= abstime
                    /\ N <= abstime
                    /\ blocked <= 2 * N * wakes + 2 * N - (abstime - clock)
                    /\ blocked >= N - (abstime - clock)
  /\ pc = "expired" => blocked >= N
  /\ adder /\ held > 0 =>
       IF Late THEN held <= clock - (SECOND - N) ELSE held <= N /\ clock = 0
  /\ held <= N
=============================================================================
