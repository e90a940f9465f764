--------------------------- MODULE KeyRepeatProofs ---------------------------
(***************************************************************************)
(* The timing of repeats for every length of a millisecond, a second, a    *)
(* poll, a delay and an interval, and every set of keys and codes.         *)
(***************************************************************************)
EXTENDS KeyRepeat, TLAPS

\* Whatever -e and -r gave, there is a delay of a millisecond at least and an
\* interval that is not negative (lirc_thr.c:104-119).
LEMMA DelayTypes == rate_delay \in Nat \ {0} /\ sendAfterMs \in Nat
<1>1. repeat_rate > 0 => 1000 \div repeat_rate \in Nat
  BY KeyAssumption
<1> QED BY <1>1, KeyAssumption DEF rate_delay, sendAfterMs

LEMMA ModBounds ==
  ASSUME NEW x \in Nat, NEW m \in Nat \ {0}
  PROVE  x % m \in 0 .. m - 1 /\ x % m <= x
OBVIOUS

LEMMA DivBounds ==
  ASSUME NEW x \in Nat, NEW m \in Nat \ {0}
  PROVE  x \div m \in Nat /\ (x \div m) * m <= x
OBVIOUS

LEMMA TimesPlus ==
  ASSUME NEW x \in Nat, NEW y \in Nat, NEW m \in Nat
  PROVE  (x + y) * m = x * m + y * m
OBVIOUS

LEMMA TimesMonotonic ==
  ASSUME NEW x \in Nat, NEW y \in Nat, NEW m \in Nat, x <= y
  PROVE  x * m <= y * m
OBVIOUS

LEMMA SaturateBounds ==
  ASSUME NEW x \in Nat
  PROVE  /\ Saturate(x) \in 0 .. Cap
         /\ Saturate(x) <= x
         /\ \A y \in Nat : y <= x => Saturate(y) <= Saturate(x)
         /\ \A y \in Nat : y <= x /\ y <= Cap => y <= Saturate(x)
BY KeyAssumption, DelayTypes DEF Saturate

\* One update of the clock never counts more than the time that passed
\* (lirc_util.c:76-83).
LEMMA UpdateNeverOverCounts ==
  ASSUME NEW t \in 0 .. SECOND - 1, NEW d \in Nat
  PROVE  /\ usecElapsed((t + d) % SECOND, t) \in Nat
         /\ usecElapsed((t + d) % SECOND, t) * MSEC <= d
<1> DEFINE u == (t + d) % SECOND
<1>1. u \in Nat /\ u <= t + d
  <2>1. t + d \in Nat /\ SECOND \in Nat \ {0}
    BY KeyAssumption, DelayTypes
  <2>2. PICK x \in Nat : x = t + d
    BY <2>1
  <2>3. x % SECOND \in Nat /\ x % SECOND <= x
    BY <2>1, ModBounds
  <2> QED BY <2>2, <2>3
<1>2. CASE u > t
  <2>1. u - t \in Nat /\ u - t <= d
    BY <1>1, <1>2
  <2>2. (u - t) \div MSEC \in Nat /\ ((u - t) \div MSEC) * MSEC <= u - t
    BY <2>1, DivBounds, KeyAssumption, DelayTypes
  <2> QED BY <1>2, <2>1, <2>2, KeyAssumption, DelayTypes DEF usecElapsed
<1>3. CASE ~(u > t)
  BY <1>3, KeyAssumption, DelayTypes DEF usecElapsed
<1> QED BY <1>2, <1>3

\* What a round adds up stays within the real time since elapsed was reset.
LEMMA ElapsedIsReal ==
  ASSUME KeyInv, ks.keyDown = 1, NEW d \in Nat
  PROVE  /\ updateTime(d) \in Nat
         /\ updateTime(d) * MSEC <= sinceReset + d
<1> DEFINE e == usecElapsed((now + d) % SECOND, ks.cl0)
<1>1. ks.cl0 = now /\ now \in 0 .. SECOND - 1
  BY DEF KeyInv, TypeOK
<1>2. e \in Nat /\ e * MSEC <= d
  BY <1>1, UpdateNeverOverCounts
<1>3. /\ ks.elapsed \in Nat
      /\ ks.elapsed * MSEC <= sinceReset
      /\ sinceReset \in Nat
  BY DEF KeyInv, TypeOK
<1>4. (ks.elapsed + e) * MSEC = ks.elapsed * MSEC + e * MSEC
  BY <1>2, <1>3, TimesPlus, KeyAssumption, DelayTypes
<1>5. updateTime(d) = ks.elapsed + e
  BY DEF updateTime
<1>6. ks.elapsed * MSEC \in Nat /\ e * MSEC \in Nat
  BY <1>2, <1>3, KeyAssumption, DelayTypes
<1> HIDE DEF e
<1> QED BY <1>2, <1>3, <1>4, <1>5, <1>6

-----------------------------------------------------------------------------
(* The invariant.                                                          *)

\* The delay and the interval in ticks fit under Cap.
LEMMA Products ==
  /\ rate_delay * MSEC \in Nat
  /\ sendAfterMs * MSEC \in Nat
  /\ (rate_delay + sendAfterMs) * MSEC
       = rate_delay * MSEC + sendAfterMs * MSEC
  /\ rate_delay * MSEC + sendAfterMs * MSEC <= Cap
BY TimesPlus, KeyAssumption, DelayTypes

\* What TypeOK says of the presses and of uinput.
DownTypes ==
  /\ downEvents \subseteq {event_code(k) : k \in Keys}
  /\ held \in BOOLEAN
  /\ pressed \in Codes \cup {undef}
  /\ leftDown \subseteq {event_code(k) : k \in Keys}

LEMMA InitDownInv == ASSUME Init PROVE DownTypes /\ DownInv
<1>1. /\ downEvents = {} /\ held = FALSE /\ pressed = undef /\ leftDown = {}
      /\ ks.keyDown = 0 /\ ks.lastKey = undef
  BY DEF Init
<1>2. EventsOf(ks.lastKey) = {}
  BY <1>1 DEF EventsOf
<1>3. DownTypes
  BY <1>1 DEF DownTypes
<1>4. downEvents = leftDown \cup EventsOf(ks.lastKey)
      /\ leftDown \cap EventsOf(ks.lastKey) = {}
  BY <1>1, <1>2
<1>5. DownInv
  BY <1>1, <1>4 DEF DownInv
<1> QED BY <1>3, <1>5

\* A report moves the event code of an overwritten key to those left down, and
\* takes back that of a key that is pressed again.
LEMMA ReportDownInv ==
  ASSUME DownTypes, DownInv, Report
  PROVE  DownTypes' /\ DownInv'
<1>1. PICK r \in Reports, d \in 0 .. 2 * N :
        KeyPressed(r, d) \/ KeyReleased(r, d) \/ ReportIgnored(r, d)
  BY DEF Report
<1>2. r.code \in Codes \cup {KEYUP}
  BY DEF Reports
<1> USE KeyAssumption DEF DownTypes, DownInv
<1>3. CASE KeyPressed(r, d)
  <2>1. PICK num : num = codeToIndex(r.code)
    OBVIOUS
  <2>2. /\ ks'.keyDown = 1 /\ ks'.lastKey = num
        /\ held' = TRUE /\ pressed' = r.code /\ r.code # KEYUP
        /\ leftDown' = (leftDown \cup EventsOf(ks.lastKey)) \ EventsOf(num)
    BY <1>3, <2>1 DEF KeyPressed, Restart
  <2>3. downEvents' = downEvents \cup EventsOf(num)
    BY <1>3, <2>1 DEF KeyPressed, event_out_send, EventsOf
  <2>4. EventsOf(num) \subseteq {event_code(k) : k \in Keys}
    BY <2>1 DEF codeToIndex, EventsOf
  <2>5. EventsOf(ks'.lastKey) = EventsOf(num)
    BY <2>2
  <2>6. r.code \in Codes /\ r.code # undef
    BY <1>2, <2>2
  <2> QED BY <2>1, <2>2, <2>3, <2>4, <2>5, <2>6
<1>4. CASE KeyReleased(r, d)
  <2>1. /\ ks'.keyDown = 0 /\ ks'.lastKey = undef
        /\ held' = FALSE /\ pressed' = undef /\ leftDown' = leftDown
    BY <1>4 DEF KeyReleased, Restart
  <2>2. downEvents' = downEvents \ EventsOf(ks.lastKey)
    BY <1>4 DEF KeyReleased, event_out_send, EventsOf
  <2>3. EventsOf(ks'.lastKey) = {}
    BY <2>1 DEF EventsOf
  <2>4. /\ downEvents' = leftDown' /\ downEvents' \subseteq downEvents
        /\ leftDown' \cap EventsOf(ks'.lastKey) = {}
    BY <2>1, <2>2, <2>3
  <2>5. downEvents' = leftDown' \cup EventsOf(ks'.lastKey)
    BY <2>3, <2>4
  <2>6. DownInv'
    BY <2>1, <2>4, <2>5
  <2>7. DownTypes'
    BY <2>1, <2>4
  <2> QED BY <2>6, <2>7
<1>5. CASE ReportIgnored(r, d)
  <2>1. /\ ks'.keyDown = ks.keyDown /\ ks'.lastKey = ks.lastKey
        /\ held' \in BOOLEAN
        /\ UNCHANGED <<downEvents, pressed, leftDown>>
    BY <1>5 DEF ReportIgnored, Restart
  <2>2. EventsOf(ks'.lastKey) = EventsOf(ks.lastKey)
    BY <2>1
  <2> QED BY <2>1, <2>2
<1> QED BY <1>1, <1>3, <1>4, <1>5

\* A round without a report changes nothing of it.
LEMMA SamePressDownInv ==
  ASSUME DownTypes, DownInv, UNCHANGED <<downEvents, presses>>,
         ks'.keyDown = ks.keyDown, ks'.lastKey = ks.lastKey
  PROVE  DownTypes' /\ DownInv'
<1>1. EventsOf(ks'.lastKey) = EventsOf(ks.lastKey)
  OBVIOUS
<1> QED BY <1>1 DEF DownTypes, DownInv, presses

LEMMA TimeoutDownInv ==
  ASSUME KeyInv, PollTimeout
  PROVE  DownTypes' /\ DownInv'
<1>1. DownTypes /\ DownInv
  BY DEF KeyInv, TypeOK, DownTypes
<1>2. /\ UNCHANGED <<downEvents, presses>>
      /\ ks'.keyDown = ks.keyDown /\ ks'.lastKey = ks.lastKey
  BY DEF PollTimeout, IdleRound, WaitRound, DelayOver, SendRepeat, Pass,
         KeyInv, TypeOK
<1> QED BY <1>1, <1>2, SamePressDownInv

LEMMA InitKeyInv == Init => KeyInv /\ RepeatSpacing
<1> SUFFICES ASSUME Init PROVE KeyInv /\ RepeatSpacing
  OBVIOUS
<1> USE KeyAssumption, DelayTypes DEF Init
<1>1. TypeOK
  <2>1. /\ now \in 0 .. SECOND - 1
        /\ sinceReport \in 0 .. Cap
        /\ sinceReset \in 0 .. Cap
    OBVIOUS
  <2>2. ks \in [keyDown : {0, 1}, lastKey : Keys \cup {undef},
                cl0 : 0 .. SECOND - 1, elapsed : Nat,
                repeat_count : 0 .. MaxRepeat, done_waiting : {0, 1}]
    OBVIOUS
  <2>3. out \in [kind : OutKinds, key : Keys \cup {undef},
                 rep : 0 .. MaxRepeat, gap : 0 .. Cap, age : 0 .. Cap]
    BY DEF Silent, OutKinds
  <2> QED BY <2>1, <2>2, <2>3, InitDownInv DEF TypeOK, DownTypes
<1>2. ks.elapsed * MSEC <= sinceReset
  OBVIOUS
<1>3. /\ ks.keyDown = 0 /\ ks.elapsed = 0 /\ ks.done_waiting = 0
      /\ sinceReset = 0 /\ sinceReport = 0
  OBVIOUS
<1>4. RepeatSpacing
  BY DEF RepeatSpacing, Silent
<1>5. DownInv
  BY InitDownInv
<1>6. 0 <= rate_delay
  OBVIOUS
<1> HIDE DEF Init
<1> QED BY <1>1, <1>2, <1>3, <1>4, <1>5, <1>6 DEF KeyInv

\* initTime and the resets after a report establish the timing part.
LEMMA RestartKeyInv ==
  ASSUME KeyInv, NEW d \in Nat, NEW down \in {0, 1},
         NEW key \in Keys \cup {undef}, Restart(d, down, key)
  PROVE  /\ now' \in 0 .. SECOND - 1
         /\ ks' \in [keyDown : {0, 1}, lastKey : Keys \cup {undef},
                     cl0 : 0 .. SECOND - 1, elapsed : Nat,
                     repeat_count : 0 .. MaxRepeat, done_waiting : {0, 1}]
         /\ ks'.keyDown = down /\ ks'.lastKey = key /\ ks'.cl0 = now'
         /\ ks'.elapsed = 0 /\ ks'.elapsed * MSEC = 0
         /\ ks'.done_waiting = 0
         /\ sinceReport' = 0 /\ sinceReset' = 0
<1>1. now' \in 0 .. SECOND - 1
  <2>1. now + d \in Nat /\ SECOND \in Nat \ {0}
    BY KeyAssumption, DelayTypes DEF KeyInv, TypeOK
  <2> QED BY <2>1, ModBounds DEF Restart
<1> QED BY <1>1, KeyAssumption, DelayTypes DEF Restart

LEMMA ReportKeyInv ==
  ASSUME KeyInv, Report
  PROVE  KeyInv' /\ RepeatSpacing'
<1>1. PICK r \in Reports, d \in 0 .. 2 * N :
        KeyPressed(r, d) \/ KeyReleased(r, d) \/ ReportIgnored(r, d)
  BY DEF Report
<1>2. PICK down \in {0, 1}, key \in Keys \cup {undef} : Restart(d, down, key)
  <2>1. CASE KeyPressed(r, d)
    <3>1. codeToIndex(r.code) \in Keys \cup {undef}
      BY DEF codeToIndex
    <3> QED BY <2>1, <3>1 DEF KeyPressed
  <2>2. CASE KeyReleased(r, d)
    BY <2>2 DEF KeyReleased
  <2>3. CASE ReportIgnored(r, d)
    BY <2>3 DEF ReportIgnored, KeyInv, TypeOK
  <2> QED BY <1>1, <2>1, <2>2, <2>3
<1>3. PICK kind \in {"press", "release", "ignored"}, name \in Keys \cup {undef} :
        out' = [kind |-> kind, key |-> name, rep |-> 0, gap |-> 0, age |-> 0]
  <2>1. CASE KeyPressed(r, d)
    <3>1. PICK num \in Keys \cup {undef} : num = codeToIndex(r.code)
      BY DEF codeToIndex
    <3>2. out' = Silent("ignored") \/ out' = Line("press", num)
      BY <2>1, <3>1 DEF KeyPressed
    <3> QED BY <3>2 DEF Silent, Line
  <2>2. CASE KeyReleased(r, d)
    <3>1. ks.lastKey \in Keys \cup {undef} /\ out' = Line("release", ks.lastKey)
      BY <2>2 DEF KeyReleased, KeyInv, TypeOK
    <3> QED BY <3>1 DEF Silent, Line
  <2>3. CASE ReportIgnored(r, d)
    BY <2>3 DEF ReportIgnored, Silent
  <2> QED BY <1>1, <2>1, <2>2, <2>3
<1>4. out' \in [kind : OutKinds, key : Keys \cup {undef}, rep : 0 .. MaxRepeat,
                gap : 0 .. Cap, age : 0 .. Cap]
      /\ out'.kind # "repeat"
  BY <1>3, KeyAssumption DEF OutKinds
<1>5. DownTypes' /\ DownInv'
  BY ReportDownInv DEF KeyInv, TypeOK, DownTypes
<1>6. d \in Nat
  BY KeyAssumption
<1>7. /\ now' \in 0 .. SECOND - 1
      /\ ks' \in [keyDown : {0, 1}, lastKey : Keys \cup {undef},
                  cl0 : 0 .. SECOND - 1, elapsed : Nat,
                  repeat_count : 0 .. MaxRepeat, done_waiting : {0, 1}]
      /\ ks'.cl0 = now' /\ ks'.elapsed = 0 /\ ks'.elapsed * MSEC = 0
      /\ ks'.done_waiting = 0
      /\ sinceReport' = 0 /\ sinceReset' = 0
  BY <1>2, <1>6, RestartKeyInv
<1>8. TypeOK'
  BY <1>4, <1>5, <1>7, KeyAssumption, DelayTypes DEF TypeOK, DownTypes
<1> QED BY <1>4, <1>5, <1>7, <1>8, KeyAssumption, DelayTypes
        DEF KeyInv, RepeatSpacing

\* The part of a round in which the poll times out that all such rounds share.
LEMMA PassEffect ==
  ASSUME KeyInv, NEW d \in Nat, Pass(d)
  PROVE  /\ now' \in 0 .. SECOND - 1
         /\ sinceReport' \in 0 .. Cap
         /\ sinceReport <= sinceReport'
         /\ Saturate(sinceReset + d) \in 0 .. Cap
         /\ sinceReset <= Saturate(sinceReset + d)
         /\ Saturate(sinceReset + d) <= sinceReport'
         /\ ks.done_waiting = 1 =>
              sinceReport' >= Saturate(rate_delay * MSEC + sinceReset + d)
<1> USE KeyAssumption, DelayTypes DEF KeyInv, TypeOK
<1>1. now' \in 0 .. SECOND - 1
  <2>1. PICK x \in Nat : x = now + d
    OBVIOUS
  <2> QED BY <2>1, ModBounds DEF Pass
<1>2. PICK a \in Nat : a = rate_delay * MSEC
  BY Products
<1> QED BY <1>1, <1>2 DEF Pass, Saturate

\* A limit in milliseconds that elapsed has not passed is a limit of its ticks.
LEMMA UnderCap ==
  ASSUME NEW e \in Nat, e <= rate_delay \/ e <= sendAfterMs
  PROVE  e * MSEC \in Nat /\ e * MSEC <= Cap
<1>1. e * MSEC \in Nat
  BY KeyAssumption, DelayTypes
<1>2. CASE e <= rate_delay
  BY <1>1, <1>2, TimesMonotonic, Products, KeyAssumption, DelayTypes
<1>3. CASE e <= sendAfterMs
  BY <1>1, <1>3, TimesMonotonic, Products, KeyAssumption, DelayTypes
<1> QED BY <1>1, <1>2, <1>3

LEMMA TimeoutKeyInv ==
  ASSUME KeyInv, PollTimeout
  PROVE  KeyInv' /\ RepeatSpacing'
<1>1. PICK d \in N .. 2 * N :
        IdleRound(d) \/ WaitRound(d) \/ DelayOver(d) \/ SendRepeat(d)
  BY DEF PollTimeout
<1>2. d \in Nat
  BY KeyAssumption, DelayTypes
<1>3. PICK rd \in Nat, sa \in Nat :
        /\ rd = rate_delay * MSEC
        /\ sa = sendAfterMs * MSEC
        /\ (rate_delay + sendAfterMs) * MSEC = rd + sa
        /\ rd + sa <= Cap
  BY Products
<1>9. /\ DownInv'
      /\ downEvents' \subseteq {event_code(k) : k \in Keys}
      /\ held' \in BOOLEAN
      /\ pressed' \in Codes \cup {undef}
      /\ leftDown' \subseteq {event_code(k) : k \in Keys}
  BY TimeoutDownInv DEF DownTypes
<1> USE <1>2, KeyAssumption, DelayTypes DEF KeyInv, TypeOK, RepeatSpacing, OutKinds, Silent
<1>4. CASE IdleRound(d)
  <2>1. Pass(d)
    BY <1>4 DEF IdleRound
  <2>2. sinceReset' = Saturate(sinceReset + d) /\ UNCHANGED ks
    BY <1>4 DEF IdleRound, Pass
  <2>3. out' = [kind |-> "none", key |-> undef, rep |-> 0, gap |-> 0, age |-> 0]
    BY <1>4 DEF IdleRound
  <2>4. ks.elapsed * MSEC \in Nat
    OBVIOUS
  <2>5. ks.done_waiting = 1 => sinceReport' >= Saturate(rd + sinceReset')
    BY <1>3, <2>1, <2>2, PassEffect DEF Saturate
  <2> QED BY <1>3, <1>9, <1>4, <2>1, <2>2, <2>3, <2>4, <2>5, PassEffect DEF IdleRound
<1>5. CASE WaitRound(d)
  <2>1. Pass(d) /\ ks.keyDown = 1
    BY <1>5 DEF WaitRound, Pass
  <2>2. PICK e \in Nat :
          /\ e = updateTime(d)
          /\ e * MSEC <= sinceReset + d
          /\ e < IF ks.done_waiting = 0 THEN rate_delay ELSE sendAfterMs
    BY <1>5, <2>1, ElapsedIsReal DEF WaitRound
  <2>3. e * MSEC \in Nat /\ e * MSEC <= Cap
    BY <2>2, UnderCap
  <2>4. /\ ks' = [ks EXCEPT !.elapsed = e, !.cl0 = now']
        /\ sinceReset' = Saturate(sinceReset + d)
        /\ out' = [kind |-> "none", key |-> undef, rep |-> 0, gap |-> 0, age |-> 0]
    BY <1>5, <2>2 DEF WaitRound
  <2>5. e * MSEC <= sinceReset'
    BY <2>2, <2>3, <2>4 DEF Saturate
  <2>6. ks.done_waiting = 1 => sinceReport' >= Saturate(rd + sinceReset')
    BY <1>3, <2>1, <2>4, PassEffect DEF Saturate
  <2>7. ks' \in [keyDown : {0, 1}, lastKey : Keys \cup {undef},
                 cl0 : 0 .. SECOND - 1, elapsed : Nat,
                 repeat_count : 0 .. MaxRepeat, done_waiting : {0, 1}]
    BY <2>1, <2>4, PassEffect
  <2>8. /\ ks'.elapsed = e /\ ks'.cl0 = now' /\ ks'.keyDown = 1
        /\ ks'.lastKey = ks.lastKey /\ ks'.done_waiting = ks.done_waiting
    BY <2>1, <2>4
  <2>9. TypeOK'
    BY <1>9, <2>1, <2>4, <2>7, PassEffect
  <2> QED BY <1>3, <1>9, <2>1, <2>2, <2>4, <2>5, <2>6, <2>8, <2>9, PassEffect
<1>6. CASE DelayOver(d)
  <2>1. Pass(d) /\ ks.keyDown = 1
    BY <1>6 DEF DelayOver, Pass
  <2>2. PICK e \in Nat :
          e = updateTime(d) /\ e * MSEC <= sinceReset + d /\ rate_delay <= e
    BY <1>6, <2>1, ElapsedIsReal DEF DelayOver
  <2>3. rd <= sinceReset + d
    BY <1>3, <2>2, TimesMonotonic
  <2>4. /\ ks' = [ks EXCEPT !.elapsed = 0, !.cl0 = now', !.done_waiting = 1]
        /\ sinceReset' = 0
        /\ out' = [kind |-> "none", key |-> undef, rep |-> 0, gap |-> 0, age |-> 0]
    BY <1>6 DEF DelayOver
  <2>5. sinceReport' >= Saturate(rd + sinceReset')
    BY <1>3, <2>1, <2>3, <2>4, PassEffect DEF Saturate
  <2>6. ks' \in [keyDown : {0, 1}, lastKey : Keys \cup {undef},
                 cl0 : 0 .. SECOND - 1, elapsed : Nat,
                 repeat_count : 0 .. MaxRepeat, done_waiting : {0, 1}]
    BY <2>1, <2>4, PassEffect
  <2>7. /\ ks'.elapsed = 0 /\ ks'.elapsed * MSEC = 0 /\ ks'.cl0 = now'
        /\ ks'.keyDown = 1 /\ ks'.lastKey = ks.lastKey
        /\ ks'.done_waiting = 1
    BY <2>1, <2>4
  <2>8. TypeOK'
    BY <1>9, <2>1, <2>4, <2>6, PassEffect
  <2> QED BY <1>3, <1>9, <2>1, <2>4, <2>5, <2>7, <2>8, PassEffect
<1>7. CASE SendRepeat(d)
  <2>1. /\ Pass(d)
        /\ ks.keyDown = 1
        /\ ks.done_waiting = 1
    BY <1>7 DEF SendRepeat, Pass
  <2>2. PICK e \in Nat :
          e = updateTime(d) /\ e * MSEC <= sinceReset + d /\ sendAfterMs <= e
    BY <1>7, <2>1, ElapsedIsReal DEF SendRepeat
  <2>3. sa <= sinceReset + d
    BY <1>3, <2>2, TimesMonotonic
  <2>4. PICK n \in 0 .. MaxRepeat :
          /\ ks' = [ks EXCEPT !.elapsed = 0, !.cl0 = now', !.repeat_count = n]
          /\ sinceReset' = 0
          /\ out' = [kind |-> "repeat", key |-> ks.lastKey,
                     rep |-> ks.repeat_count,
                     gap |-> Saturate(sinceReset + d), age |-> sinceReport']
    <3> DEFINE m == IF ks.repeat_count < MaxRepeat THEN ks.repeat_count + 1
                    ELSE ks.repeat_count
    <3>1. m \in 0 .. MaxRepeat
      OBVIOUS
    <3>2. ks' = [ks EXCEPT !.elapsed = 0, !.cl0 = now', !.repeat_count = m]
      BY <1>7 DEF SendRepeat
    <3> HIDE DEF m
    <3> QED BY <1>7, <3>1, <3>2 DEF SendRepeat
  <2>5. sinceReport' >= rd + sa /\ Saturate(sinceReset + d) >= sa
    <3>1. PICK t \in Nat : t = sinceReset + d /\ sa <= t
      BY <2>3
    <3>2. sinceReport' >= Saturate(rd + t)
      BY <1>3, <2>1, <3>1, PassEffect
    <3>3. Saturate(rd + t) >= rd + sa /\ Saturate(t) >= sa
      BY <1>3, <3>1 DEF Saturate
    <3>4. sinceReport' \in Nat /\ Saturate(rd + t) \in Nat
      BY <1>3, <2>1, <3>1, PassEffect DEF Saturate
    <3> QED BY <3>1, <3>2, <3>3, <3>4
  <2>6. ks' \in [keyDown : {0, 1}, lastKey : Keys \cup {undef},
                 cl0 : 0 .. SECOND - 1, elapsed : Nat,
                 repeat_count : 0 .. MaxRepeat, done_waiting : {0, 1}]
    BY <2>1, <2>4, PassEffect
  <2>7. /\ ks'.elapsed = 0 /\ ks'.elapsed * MSEC = 0 /\ ks'.cl0 = now'
        /\ ks'.keyDown = 1 /\ ks'.lastKey = ks.lastKey
        /\ ks'.done_waiting = 1
    BY <2>1, <2>4
  <2>8. out' \in [kind : OutKinds, key : Keys \cup {undef},
                  rep : 0 .. MaxRepeat, gap : 0 .. Cap, age : 0 .. Cap]
    BY <2>1, <2>4, PassEffect
  <2>9. TypeOK'
    BY <1>9, <2>1, <2>4, <2>6, <2>8, PassEffect
  <2>10. sinceReport' >= Saturate(rd + sinceReset')
    <3>1. sinceReport' \in Nat
      BY <2>1, PassEffect
    <3> QED BY <1>3, <2>4, <2>5, <3>1 DEF Saturate
  <2>11. RepeatSpacing'
    BY <1>3, <2>4, <2>5
  <2> QED BY <1>3, <1>9, <2>1, <2>4, <2>7, <2>9, <2>10, <2>11, PassEffect
<1> QED BY <1>1, <1>4, <1>5, <1>6, <1>7

LEMMA NextKeyInv == KeyInv /\ RepeatSpacing /\ [Next]_vars => (KeyInv /\ RepeatSpacing)'
<1>1. CASE UNCHANGED vars
  <2>1. DownInv => DownInv'
    BY <1>1 DEF vars, DownInv, EventsOf
  <2> QED BY <1>1, <2>1 DEF vars, KeyInv, TypeOK, RepeatSpacing
<1> QED BY <1>1, ReportKeyInv, TimeoutKeyInv DEF Next

\* elapsed never runs ahead of real time, and what uinput holds down is the key
\* to repeat and the keys that later presses overwrote (lirc_thr.c:149-210, lirc_util.c:55-86).
THEOREM KeyInvariant == Spec => []KeyInv
BY InitKeyInv, NextKeyInv, PTL DEF Spec

\* A repeat is never early, whatever the delay, the rate and the length of the
\* polls (lirc_thr.c:172-206).
THEOREM RepeatsAreNeverEarly == Spec => []RepeatSpacing
BY InitKeyInv, NextKeyInv, PTL DEF Spec

\* Whatever keys share an event code and in whatever order they are pressed and
\* released, uinput gets a release only of an event code it holds down, and a
\* repeat of one that it does not only after a press of a code outside the
\* table (lirc_thr.c:198-201, 287-307, 343-350).
THEOREM NoGhosts == Spec => NoGhostEvents
<1>1. ASSUME KeyInv, [Next]_vars
      PROVE  [EventOut /\ out'.kind \in {"repeat", "release"} =>
                \/ event_code(out'.key) \in downEvents
                \/ out'.kind = "repeat" /\ pressed \in Codes \ Keys]_vars
  <2>1. CASE UNCHANGED vars
    BY <2>1
  <2>2. CASE Report
    <3>1. PICK r \in Reports, d \in 0 .. 2 * N :
            KeyPressed(r, d) \/ KeyReleased(r, d) \/ ReportIgnored(r, d)
      BY <2>2 DEF Report
    <3>2. CASE KeyPressed(r, d) \/ ReportIgnored(r, d)
      BY <3>2 DEF KeyPressed, ReportIgnored, Line, Silent
    <3>3. CASE KeyReleased(r, d)
      <4>1. out'.key = ks.lastKey /\ ks.lastKey # undef
        BY <3>3 DEF KeyReleased, Line, Silent
      <4>2. EventOut => event_code(ks.lastKey) \in downEvents
        BY <1>1, <4>1 DEF KeyInv, DownInv, EventsOf
      <4> QED BY <4>1, <4>2
    <3> QED BY <3>1, <3>2, <3>3
  <2>3. CASE PollTimeout
    <3>1. PICK d \in N .. 2 * N :
            IdleRound(d) \/ WaitRound(d) \/ DelayOver(d) \/ SendRepeat(d)
      BY <2>3 DEF PollTimeout
    <3>2. CASE IdleRound(d) \/ WaitRound(d) \/ DelayOver(d)
      BY <3>2 DEF IdleRound, WaitRound, DelayOver, Silent
    <3>3. CASE SendRepeat(d)
      <4>1. ks.keyDown = 1 /\ out'.kind = "repeat" /\ out'.key = ks.lastKey
        BY <3>3 DEF SendRepeat
      <4>2. CASE ks.lastKey = undef
        <5>1. pressed \in Codes /\ codeToIndex(pressed) = undef
          BY <1>1, <4>1, <4>2 DEF KeyInv, TypeOK, DownInv
        <5>2. pressed \notin Keys
          BY <5>1, KeyAssumption DEF codeToIndex
        <5> QED BY <4>1, <5>1, <5>2
      <4>3. CASE ks.lastKey # undef
        <5>1. EventOut => event_code(ks.lastKey) \in downEvents
          BY <1>1, <4>3 DEF KeyInv, DownInv, EventsOf
        <5> QED BY <4>1, <5>1
      <4> QED BY <4>2, <4>3
    <3> QED BY <3>1, <3>2, <3>3
  <2> QED BY <1>1, <2>1, <2>2, <2>3 DEF Next
<1> QED BY <1>1, KeyInvariant, PTL DEF Spec, NoGhostEvents

-----------------------------------------------------------------------------
(* A repeat is never late by more than a bound that does not grow.         *)

\* At each place in the second, what the clock has dropped since elapsed was
\* reset leaves room for the wait in which the second ends.
ClockKeepsUp ==
  ks.keyDown = 1 =>
    sinceReset <= Lateness(ks.elapsed) - (IF now < 4 * N THEN now ELSE 4 * N)

LEMMA ModWraps ==
  ASSUME NEW x \in Nat, NEW m \in Nat \ {0}, x < 2 * m
  PROVE  x % m = IF x < m THEN x ELSE x - m
OBVIOUS

LEMMA DivNotSmall ==
  ASSUME NEW x \in Nat, NEW m \in Nat \ {0}, m <= x
  PROVE  x \div m \in Nat /\ (x \div m) * m \in Nat /\ x <= 2 * ((x \div m) * m)
<1>1. x \div m \in Nat /\ x < (x \div m) * m + m
  OBVIOUS
<1>2. x \div m >= 1
  OBVIOUS
<1>3. PICK q \in Nat : q = x \div m /\ q >= 1
  BY <1>1, <1>2
<1>4. q * m \in Nat /\ q * m >= m
  BY <1>3, TimesMonotonic
<1> QED BY <1>1, <1>3, <1>4

\* What a look at the clock counts of a wait: half of it at least, or the
\* second ends in it, and then little of the next one has passed
\* (lirc_util.c:76-83).
LEMMA UpdateCountsOrWraps ==
  ASSUME NEW t \in 0 .. SECOND - 1, NEW d \in N .. 2 * N,
         NEW u, u = (t + d) % SECOND, NEW e, e = usecElapsed(u, t)
  PROVE  /\ e \in Nat /\ e * MSEC \in Nat
         /\ \/ u = t + d /\ d <= 2 * (e * MSEC)
            \/ u < d /\ t >= 4 * N
<1> USE KeyAssumption, WaitAssumption, DelayTypes
<1>1. PICK x \in Nat : x = t + d /\ x < 2 * SECOND
  OBVIOUS
<1>2. u = IF x < SECOND THEN x ELSE x - SECOND
  BY <1>1, ModWraps
<1>3. CASE x < SECOND
  <2>1. u = t + d /\ u > t /\ u - t = d
    BY <1>1, <1>2, <1>3
  <2>2. e = d \div MSEC
    BY <2>1 DEF usecElapsed
  <2>3. d \in Nat /\ MSEC <= d
    OBVIOUS
  <2> QED BY <2>1, <2>2, <2>3, DivNotSmall
<1>4. CASE ~(x < SECOND)
  <2>1. u = t + d - SECOND
    BY <1>1, <1>2, <1>4
  <2>2. u < d /\ t >= 4 * N /\ ~(u > t)
    BY <1>1, <1>4, <2>1
  <2>3. e = 0
    BY <2>2 DEF usecElapsed
  <2> QED BY <2>2, <2>3
<1> QED BY <1>3, <1>4

LEMMA LatenessPlus ==
  ASSUME NEW x \in Nat, NEW y \in Nat
  PROVE  /\ Lateness(x) \in Nat
         /\ Lateness(x + y) = Lateness(x) + 4 * (y * MSEC)
         /\ x <= y => Lateness(x) <= Lateness(y)
<1> USE KeyAssumption, DelayTypes
<1>1. PICK a \in Nat, b \in Nat : a = x * MSEC /\ b = y * MSEC
  OBVIOUS
<1>2. (x + y) * MSEC = a + b
  BY <1>1, TimesPlus
<1>3. \A z \in Nat : Lateness(z) = 4 * (z * MSEC) + 4 * N
  BY DEF Lateness
<1>4. x <= y => a <= b
  BY <1>1, TimesMonotonic
<1> QED BY <1>1, <1>2, <1>3, <1>4

\* One more wait keeps the clock up with real time.
LEMMA WaitKeepsUp ==
  ASSUME KeyInv, ClockKeepsUp, ks.keyDown = 1, NEW d \in N .. 2 * N,
         now' = (now + d) % SECOND
  PROVE  sinceReset + d <=
           Lateness(updateTime(d)) - (IF now' < 4 * N THEN now' ELSE 4 * N)
<1> USE KeyAssumption, WaitAssumption, DelayTypes
<1>1. now \in 0 .. SECOND - 1 /\ ks.cl0 = now /\ ks.elapsed \in Nat /\ sinceReset \in Nat
  BY DEF KeyInv, TypeOK
<1>2. PICK e : e = usecElapsed(now', now)
  OBVIOUS
<1>3. /\ e \in Nat /\ e * MSEC \in Nat
      /\ \/ now' = now + d /\ d <= 2 * (e * MSEC)
         \/ now' < d /\ now >= 4 * N
  BY <1>1, <1>2, UpdateCountsOrWraps
<1>4. updateTime(d) = ks.elapsed + e
  BY <1>1, <1>2 DEF updateTime
<1>5. PICK l \in Nat, p \in Nat :
        l = Lateness(ks.elapsed) /\ p = e * MSEC /\ Lateness(updateTime(d)) = l + 4 * p
  <2>1. /\ Lateness(ks.elapsed) \in Nat
        /\ Lateness(ks.elapsed + e) = Lateness(ks.elapsed) + 4 * (e * MSEC)
    BY <1>1, <1>3, LatenessPlus
  <2> QED BY <1>3, <1>4, <2>1, Zenon
<1>6. sinceReset <= l - (IF now < 4 * N THEN now ELSE 4 * N)
  BY <1>5 DEF ClockKeepsUp
<1>7. now' \in Nat /\ now \in Nat /\ d \in Nat /\ N \in Nat
  BY <1>1, ModBounds
<1>8. CASE now' = now + d /\ d <= 2 * p
  BY <1>1, <1>5, <1>6, <1>7, <1>8
<1>9. CASE now' < d /\ now >= 4 * N
  BY <1>1, <1>5, <1>6, <1>7, <1>9
<1> QED BY <1>3, <1>5, <1>8, <1>9

LEMMA NextKeepsUp ==
  ASSUME KeyInv, KeyInv', ClockKeepsUp, RepeatNotLate, [Next]_vars
  PROVE  ClockKeepsUp' /\ RepeatNotLate'
<1> USE KeyAssumption, WaitAssumption, DelayTypes
<1> DEFINE room(t) == IF t < 4 * N THEN t ELSE 4 * N
<1>1. /\ now \in Nat /\ now' \in Nat /\ sinceReset \in Nat /\ sinceReset' \in Nat
      /\ ks.elapsed \in Nat /\ ks'.elapsed \in Nat
  BY DEF KeyInv, TypeOK
<1>2. \A t \in Nat : 0 <= room(t) /\ room(t) <= 4 * N /\ room(t) \in Nat
  OBVIOUS
<1>3. ASSUME sinceReset' = 0 PROVE ClockKeepsUp'
  <2>1. Lateness(ks'.elapsed) \in Nat /\ Lateness(ks'.elapsed) >= 4 * N
    <3>1. ks'.elapsed * MSEC \in Nat
      BY <1>1
    <3>2. Lateness(ks'.elapsed) = 4 * (ks'.elapsed * MSEC) + 4 * N
      BY <1>1 DEF Lateness
    <3> QED BY <3>1, <3>2
  <2> QED BY <1>1, <1>2, <1>3, <2>1 DEF ClockKeepsUp
<1>4. ClockKeepsUp'
  <2>1. CASE Report
    <3>1. sinceReset' = 0
      BY <2>1 DEF Report, KeyPressed, KeyReleased, ReportIgnored, Restart
    <3> QED BY <1>3, <3>1
  <2>2. CASE PollTimeout
    <3>1. PICK d \in N .. 2 * N :
            IdleRound(d) \/ WaitRound(d) \/ DelayOver(d) \/ SendRepeat(d)
      BY <2>2 DEF PollTimeout
    <3>2. CASE IdleRound(d)
      BY <3>2 DEF IdleRound, ClockKeepsUp
    <3>3. CASE WaitRound(d)
      <4>1. /\ ks.keyDown = 1 /\ now' = (now + d) % SECOND
            /\ sinceReset' = Saturate(sinceReset + d)
            /\ ks' = [ks EXCEPT !.elapsed = updateTime(d), !.cl0 = now']
        BY <3>3 DEF WaitRound, Pass
      <4>2. ks'.elapsed = updateTime(d)
        BY <4>1 DEF KeyInv, TypeOK
      <4>3. sinceReset + d <= Lateness(updateTime(d)) - room(now')
        BY <4>1, WaitKeepsUp
      <4>4. sinceReset' <= sinceReset + d
        BY <1>1, <4>1, SaturateBounds
      <4>5. Lateness(updateTime(d)) \in Nat
        BY <1>1, <4>2, LatenessPlus
      <4>6. sinceReset' <= Lateness(ks'.elapsed) - room(now')
        BY <1>1, <1>2, <4>2, <4>3, <4>4, <4>5
      <4> QED BY <4>6 DEF ClockKeepsUp
    <3>4. CASE DelayOver(d) \/ SendRepeat(d)
      BY <1>3, <3>4 DEF DelayOver, SendRepeat
    <3> QED BY <3>1, <3>2, <3>3, <3>4
  <2>3. CASE UNCHANGED vars
    BY <2>3 DEF vars, ClockKeepsUp
  <2> QED BY <2>1, <2>2, <2>3 DEF Next
<1>5. ks'.keyDown = 1 =>
        sinceReset' <= Lateness(IF ks'.done_waiting = 0 THEN rate_delay ELSE sendAfterMs)
  <2>1. PICK limit \in Nat :
          /\ limit = IF ks'.done_waiting = 0 THEN rate_delay ELSE sendAfterMs
          /\ ks'.elapsed <= limit
    BY DEF KeyInv
  <2>2. /\ Lateness(ks'.elapsed) \in Nat /\ Lateness(limit) \in Nat
        /\ Lateness(ks'.elapsed) <= Lateness(limit)
    BY <1>1, <2>1, LatenessPlus
  <2>3. ks'.keyDown = 1 => sinceReset' <= Lateness(ks'.elapsed) - room(now')
    BY <1>4 DEF ClockKeepsUp
  <2>4. PICK c \in Nat : c = room(now')
    BY <1>1, <1>2
  <2> HIDE DEF room
  <2>5. ks'.keyDown = 1 => sinceReset' <= Lateness(limit)
    BY <1>1, <2>2, <2>3, <2>4
  <2> QED BY <2>1, <2>5
<1>6. out'.kind = "repeat" => out'.gap <= Lateness(sendAfterMs) + 2 * N
  <2>1. CASE Report
    BY <2>1 DEF Report, KeyPressed, KeyReleased, ReportIgnored, Line, Silent
  <2>2. CASE PollTimeout
    <3>1. PICK d \in N .. 2 * N :
            IdleRound(d) \/ WaitRound(d) \/ DelayOver(d) \/ SendRepeat(d)
      BY <2>2 DEF PollTimeout
    <3>2. CASE IdleRound(d) \/ WaitRound(d) \/ DelayOver(d)
      BY <3>2 DEF IdleRound, WaitRound, DelayOver, Silent
    <3>3. CASE SendRepeat(d)
      <4>1. ks.keyDown = 1 /\ ks.done_waiting = 1 /\ out'.gap = Saturate(sinceReset + d)
        BY <3>3 DEF SendRepeat
      <4>2. sinceReset <= Lateness(sendAfterMs)
        BY <4>1 DEF RepeatNotLate
      <4>3. Lateness(sendAfterMs) \in Nat
        BY LatenessPlus
      <4>4. out'.gap <= sinceReset + d /\ out'.gap \in Nat
        BY <1>1, <4>1, SaturateBounds
      <4> QED BY <1>1, <4>2, <4>3, <4>4
    <3> QED BY <3>1, <3>2, <3>3
  <2>3. CASE UNCHANGED vars
    BY <2>3 DEF vars, RepeatNotLate
  <2> QED BY <2>1, <2>2, <2>3 DEF Next
<1> QED BY <1>4, <1>5, <1>6 DEF RepeatNotLate

\* However long a key is held and however many seconds end meanwhile, the next
\* repeat is late by no more than a fixed bound (lirc_util.c:72-83,
\* lirc_thr.c:166-206).
THEOREM RepeatsAreNeverLate == Spec => []RepeatNotLate
<1>1. Init => ClockKeepsUp /\ RepeatNotLate
  BY DEF Init, ClockKeepsUp, RepeatNotLate, Silent
<1>2. KeyInv /\ KeyInv' /\ ClockKeepsUp /\ RepeatNotLate /\ [Next]_vars
        => ClockKeepsUp' /\ RepeatNotLate'
  BY NextKeepsUp
<1> QED BY <1>1, <1>2, KeyInvariant, PTL DEF Spec

-----------------------------------------------------------------------------
(* When keyDown tells the truth.                                           *)

\* A key the thread remembers is held, and if every code is in the table it
\* remembers one whenever keyDown says so.
HeldInv ==
  /\ ks.lastKey # undef => held
  /\ Codes = Keys => (ks.keyDown = 1 <=> ks.lastKey # undef)
  /\ Codes = Keys => (held <=> ks.keyDown = 1)

LEMMA NextHeldInv ==
  ASSUME KeyInv, HeldInv, [Next]_vars
  PROVE  HeldInv'
<1> USE KeyAssumption DEF HeldInv
<1>1. held \in BOOLEAN
  BY DEF KeyInv, TypeOK
<1>2. CASE Report
  <2>1. PICK r \in Reports, d \in 0 .. 2 * N :
          KeyPressed(r, d) \/ KeyReleased(r, d) \/ ReportIgnored(r, d)
    BY <1>2 DEF Report
  <2>2. CASE KeyPressed(r, d)
    <3>1. /\ ks'.keyDown = 1 /\ ks'.lastKey = codeToIndex(r.code) /\ held' = TRUE
      BY <2>2 DEF KeyPressed, Restart
    <3>2. r.code \in Codes
      BY <2>2 DEF KeyPressed, Reports
    <3> QED BY <3>1, <3>2 DEF codeToIndex
  <2>3. CASE KeyReleased(r, d)
    BY <2>3 DEF KeyReleased, Restart
  <2>4. CASE ReportIgnored(r, d)
    <3>1. /\ ks'.keyDown = ks.keyDown /\ ks'.lastKey = ks.lastKey
          /\ held' = (held /\ ~(r.state = 0 /\ r.code = KEYUP))
      BY <2>4 DEF ReportIgnored, Restart
    <3>2. CASE r.state = 0 /\ r.code = KEYUP
      <4>1. ks.lastKey = undef
        BY <2>4, <3>2 DEF ReportIgnored
      <4> QED BY <3>1, <3>2, <4>1
    <3>3. CASE ~(r.state = 0 /\ r.code = KEYUP)
      BY <1>1, <3>1, <3>3
    <3> QED BY <3>2, <3>3
  <2> QED BY <2>1, <2>2, <2>3, <2>4
<1>3. CASE PollTimeout
  <2>1. /\ ks'.keyDown = ks.keyDown /\ ks'.lastKey = ks.lastKey /\ held' = held
    BY <1>3 DEF PollTimeout, IdleRound, WaitRound, DelayOver, SendRepeat, Pass,
                presses, KeyInv, TypeOK
  <2> QED BY <2>1
<1>4. CASE UNCHANGED vars
  BY <1>4 DEF vars
<1> QED BY <1>2, <1>3, <1>4 DEF Next

LEMMA HeldInvariant == Spec => []HeldInv
<1>1. Init => HeldInv
  BY DEF Init, HeldInv
<1> QED BY <1>1, NextHeldInv, KeyInvariant, PTL DEF Spec

\* A key that is sent again by name is one the remote still holds: only a code
\* that is not in the table is repeated after its release
\* (lirc_thr.c:198-206, 287-350).
THEOREM NamedRepeatsAreHeld == Spec => [](out.kind = "repeat" /\ out.key # undef => held)
<1>1. Init => ~(out.kind = "repeat" /\ out.key # undef)
  BY DEF Init, Silent
<1>2. ASSUME KeyInv, HeldInv, [Next]_vars, (out.kind = "repeat" /\ out.key # undef => held)
      PROVE  (out.kind = "repeat" /\ out.key # undef => held)'
  <2>1. CASE Report
    BY <2>1 DEF Report, KeyPressed, KeyReleased, ReportIgnored, Line, Silent
  <2>2. CASE PollTimeout
    <3>1. PICK d \in N .. 2 * N :
            IdleRound(d) \/ WaitRound(d) \/ DelayOver(d) \/ SendRepeat(d)
      BY <2>2 DEF PollTimeout
    <3>2. CASE IdleRound(d) \/ WaitRound(d) \/ DelayOver(d)
      BY <3>2 DEF IdleRound, WaitRound, DelayOver, Silent
    <3>3. CASE SendRepeat(d)
      BY <1>2, <3>3 DEF SendRepeat, Pass, presses, HeldInv
    <3> QED BY <3>1, <3>2, <3>3
  <2>3. CASE UNCHANGED vars
    BY <1>2, <2>3 DEF vars
  <2> QED BY <1>2, <2>1, <2>2, <2>3 DEF Next
<1> QED BY <1>1, <1>2, HeldInvariant, KeyInvariant, PTL DEF Spec

\* The comment of lirc_srv.h:128 is right of a remote that reports no code
\* outside the key table.
THEOREM KeyDownTruthful ==
  ASSUME Codes = Keys
  PROVE  Spec => []KeyDownTellsTruth
<1>1. HeldInv => KeyDownTellsTruth
  BY Codes = Keys DEF HeldInv, KeyDownTellsTruth
<1> QED BY <1>1, HeldInvariant, PTL
=============================================================================
