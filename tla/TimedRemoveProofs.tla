-------------------------- MODULE TimedRemoveProofs --------------------------
(***************************************************************************)
(* The bounds of TimedRemove for every length of a second, every wait      *)
(* shorter than a second and every number of wakeups.                      *)
(***************************************************************************)
EXTENDS TimedRemove, TLAPS

\* The allowance of the wakeups so far, as a number: the proofs need of it
\* only that one more wakeup adds 2 * N.
LEMMA Allowance ==
  ASSUME NEW w \in Nat
  PROVE  /\ 2 * N * w \in Nat
         /\ 2 * N * (w + 1) = 2 * N * w + 2 * N
BY TimedAssumption

LEMMA InitTimedInv == Init => TimedInv
<1> SUFFICES ASSUME Init PROVE TimedInv
  OBVIOUS
<1>1. blocked <= 2 * N * wakes + 2 * N
  BY Allowance, TimedAssumption DEF Init
<1>2. /\ clock \in 0 .. SECOND - 1
      /\ abstime \in 0 .. SECOND - 1
      /\ wakes \in 0 .. MaxWakes
      /\ held <= N
  BY TimedAssumption DEF Init
<1> QED BY <1>1, <1>2 DEF Init, TimedInv, MutexHeld

\* Time passing is the only step that brings a call nearer to its bound.
LEMMA TickTimedInv ==
  ASSUME TimedInv, Tick
  PROVE  TimedInv'
<1> USE TimedAssumption DEF TimedInv, MutexHeld, Late
<1>1. PICK a \in Nat : a = 2 * N * wakes
  BY Allowance
<1>2. wakes' = wakes /\ 2 * N * wakes' = a
  BY <1>1 DEF Tick
<1>3. clock' = IF clock = SECOND - 1 THEN 0 ELSE clock + 1
  BY DEF Tick
<1>4. CASE pc = "idle"
  BY <1>1, <1>2, <1>3, <1>4 DEF Tick
<1>5. CASE pc = "spin"
  <2>1. pc' = "loop" /\ blocked' = blocked + 1 /\ clock + N >= SECOND
    BY <1>5 DEF Tick
  <2>2. blocked <= a + clock - (SECOND - N)
    BY <1>1, <1>5
  <2>3. CASE clock = SECOND - 1
    BY <1>1, <1>2, <1>3, <1>5, <2>1, <2>2, <2>3 DEF Tick
  <2>4. CASE clock # SECOND - 1
    BY <1>1, <1>2, <1>3, <1>5, <2>1, <2>2, <2>4 DEF Tick
  <2> QED BY <2>3, <2>4
<1>6. CASE pc = "wait" /\ clock < abstime
  BY <1>1, <1>2, <1>3, <1>6 DEF Tick
<1> QED BY <1>4, <1>5, <1>6 DEF Tick

LEMMA NextTimedInv ==
  ASSUME TimedInv, [Next]_vars
  PROVE  TimedInv'
<1> USE TimedAssumption DEF TimedInv, MutexHeld, Late
<1>1. PICK a \in Nat : a = 2 * N * wakes
  BY Allowance
<1>2. CASE QueueRemNonBlock
  BY <1>2 DEF QueueRemNonBlock
<1>3. CASE Take
  BY <1>1, <1>3 DEF Take
<1>4. CASE TimedWait
  BY <1>1, <1>4 DEF TimedWait
<1>5. CASE InvalidDeadline
  BY <1>1, <1>5 DEF InvalidDeadline
<1>6. CASE Wake
  <2>1. 2 * N * wakes' = a + 2 * N
    BY <1>1, <1>6, Allowance DEF Wake
  <2> QED BY <1>1, <1>6, <2>1 DEF Wake
<1>7. CASE Expire
  BY <1>1, <1>7 DEF Expire
<1>8. CASE ReturnErr
  BY <1>1, <1>8 DEF ReturnErr
<1>9. CASE AddCall
  BY <1>1, <1>9 DEF AddCall
<1>10. CASE AddStore
  BY <1>1, <1>10 DEF AddStore
<1>11. CASE Tick
  BY <1>11, TickTimedInv
<1>12. CASE UNCHANGED vars
  BY <1>12 DEF vars
<1> QED BY <1>2, <1>3, <1>4, <1>5, <1>6, <1>7, <1>8, <1>9, <1>10, <1>11, <1>12
        DEF Next

\* How far a call can have come at each place of queueRemNonBlock
\* (q.c:199-226).
THEOREM TimedInvariant == Spec => []TimedInv
BY InitTimedInv, NextTimedInv, PTL DEF Spec

\* A call of queueRemNonBlock blocks for at most 2 * _n for every time it
\* starts to wait (q.c:201-220): twice what q.h:107 says, and no more.
THEOREM CallBlocksAtMostTwice == Spec => []BlockedBound
<1>1. TimedInv => BlockedBound
  <2> SUFFICES ASSUME TimedInv PROVE BlockedBound
    OBVIOUS
  <2>1. PICK a \in Nat : a = 2 * N * wakes /\ 2 * N * (wakes + 1) = a + 2 * N
    BY Allowance, TimedAssumption DEF TimedInv
  <2> QED BY <2>1, TimedAssumption DEF TimedInv, BlockedBound, MutexHeld, Late
<1> QED BY <1>1, TimedInvariant, PTL

\* A call never gives up before _n have passed (q.c:203-219).
THEOREM CallNeverGivesUpEarly == Spec => []TimeoutNotEarly
<1>1. TimedInv => TimeoutNotEarly
  BY DEF TimedInv, TimeoutNotEarly
<1> QED BY <1>1, TimedInvariant, PTL

\* The spinning call keeps a thread that adds waiting for at most _n
\* (q.c:116, 199-214).
THEOREM AdderWaitsAtMostN == Spec => []AdderBound
<1>1. TimedInv => AdderBound
  BY DEF TimedInv, AdderBound
<1> QED BY <1>1, TimedInvariant, PTL
=============================================================================
