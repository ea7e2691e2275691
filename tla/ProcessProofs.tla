--------------------------- MODULE ProcessProofs ---------------------------
(***************************************************************************)
(* Proofs about Process.tla: what the invariant of the polling thread      *)
(* (CollectorProofs) says survives a clock that is set, exits, kills and   *)
(* restarts, for every choice of the constants.                            *)
(***************************************************************************)
EXTENDS Process, CollectorProofs

\* A stamp looks younger than it is by no more than the clock was set back.
ClockOK ==
    /\ setBack \in Nat
    /\ moved \in [Watched -> Int]
    /\ \A s \in Watched : moved[s] >= -setBack

ProcInv == IInv /\ ClockOK

\* A process that is started anew satisfies the thread's invariant.
LEMMA InitInvPrimed == Init' => IInv'
BY InitInv, PTL

LEMMA GoneInv == Gone => ProcInv'
<1> SUFFICES ASSUME Gone PROVE ProcInv'
  OBVIOUS
<1>1. Init'
  BY DEF Gone, Init
<1>2. ClockOK'
  BY DEF Gone, ClockOK
<1>3. QED
  BY <1>1, <1>2, InitInvPrimed DEF ProcInv

LEMMA ProcInitInv == ProcInit => ProcInv
BY InitInv DEF ProcInit, FreshInit, ProcInv, ClockOK

\* Steps of the thread.
LEMMA ThreadInv == ProcInv /\ (SwapStep \/ QuietStep) => ProcInv'
<1> SUFFICES ASSUME ProcInv, SwapStep \/ QuietStep PROVE ProcInv'
  OBVIOUS
<1>1. Next
  BY DEF SwapStep, QuietStep, Next, Thread
<1>2. IInv'
  BY <1>1, NextInv DEF ProcInv
<1>3. ClockOK'
  <2>1. CASE SwapStep
    <3>1. /\ moved' = [s \in Watched |-> IF MarkUpdated /\ s = section THEN 0 ELSE moved[s]]
          /\ setBack' = setBack
      BY <2>1 DEF SwapStep
    <3>2. QED
      BY <3>1 DEF ProcInv, ClockOK
  <2>2. CASE QuietStep
    BY <2>2 DEF QuietStep, clockVars, ProcInv, ClockOK
  <2>3. QED
    BY <2>1, <2>2
<1>4. QED
  BY <1>2, <1>3 DEF ProcInv

\* The thread dies of a mistyped pause.
LEMMA PollerDiesInv == ProcInv /\ PollerDies => ProcInv'
<1> SUFFICES ASSUME ProcInv, PollerDies PROVE ProcInv'
  OBVIOUS
<1>1. /\ section' = "stopped" /\ step' = 1 /\ callTime' = 0 /\ sectionTime' = 0
      /\ UNCHANGED <<sinceSlow, stop, hist, cpu, snap, moved, setBack>>
  BY DEF PollerDies, GoTo, clockVars
<1>2. StampIsHonest' /\ CardMatchesSparkline' /\ OnlyTheFaultyAreBlamed'
  BY <1>1 DEF ProcInv, IInv, StampIsHonest, CardMatchesSparkline, OnlyTheFaultyAreBlamed
<1>3. IInv'
  BY <1>1, <1>2, LeaveInv DEF ProcInv, IInv, TypeOK
<1>4. QED
  BY <1>1, <1>3 DEF ProcInv, ClockOK

\* Time passes, with the thread or without it.
LEMMA TimeInv == ProcInv /\ TimePasses => ProcInv'
<1> SUFFICES ASSUME ProcInv, TimePasses PROVE ProcInv'
  OBVIOUS
<1>1. UNCHANGED <<moved, setBack>>
  BY DEF TimePasses, TimeStep, clockVars
<1>2. CASE TimeStep
  <2>1. Next
    BY <1>2 DEF TimeStep, Next
  <2>2. QED
    BY <1>1, <2>1, NextInv DEF ProcInv, ClockOK
<1>3. CASE section = "stopped" /\ ~TimeStep
  <2>1. /\ snap' = AgedSnap(snap)
        /\ UNCHANGED <<section, step, callTime, sectionTime, sinceSlow, stop, hist, cpu>>
    BY <1>3 DEF TimePasses
  <2>2. /\ snap' \in Snapshots
        /\ StampIsHonest' /\ CardMatchesSparkline' /\ OnlyTheFaultyAreBlamed'
    BY <2>1, AgedSnapInv DEF ProcInv
  <2>3. TypeOK'
    BY <1>3, <2>1, <2>2, CallsLemma DEF ProcInv, IInv, TypeOK
  <2>4. ClocksOK' /\ FreshData' /\ SampleOK' /\ FailureOK'
    BY <1>3, <2>1, CallsLemma, DataAssumption
    DEF ClocksOK, InCall, FreshData, SampleOK, FailureOK
  <2>5. QED
    BY <1>1, <2>2, <2>3, <2>4 DEF ProcInv, IInv, ClockOK
<1>4. QED
  BY <1>2, <1>3 DEF TimePasses

\* Setting the clock touches no age, and is on record.
LEMMA SetClockInv ==
    ASSUME ProcInv, NEW d \in ClockSteps, SetClock(d)
    PROVE  ProcInv'
<1>1. d \in Int
  BY ClockAssumption
<1>2. /\ UNCHANGED <<section, step, callTime, sectionTime, stop, hist, cpu, snap>>
      /\ moved' = [s \in Watched |-> moved[s] + d]
      /\ setBack' = IF d < 0 THEN setBack - d ELSE setBack
      /\ sinceSlow' = IF sinceSlow + d < SlowCap THEN sinceSlow + d ELSE SlowCap
  BY DEF SetClock
<1>3. sinceSlow' \in Int /\ sinceSlow' <= SlowCap
  BY <1>1, <1>2, TimesAssumption DEF ProcInv, IInv, TypeOK
<1>4. IInv'
  BY <1>2, <1>3 DEF ProcInv, IInv, TypeOK, ClocksOK, InCall, FreshData, SampleOK, FailureOK,
     StampIsHonest, CardMatchesSparkline, OnlyTheFaultyAreBlamed, MARK
<1>5. ClockOK'
  BY <1>1, <1>2 DEF ProcInv, ClockOK
<1>6. QED
  BY <1>4, <1>5 DEF ProcInv

\* Every step of the process keeps it.
LEMMA ProcNextInv == ProcInv /\ [ProcNext]_procVars => ProcInv'
<1> SUFFICES ASSUME ProcInv, [ProcNext]_procVars PROVE ProcInv'
  OBVIOUS
<1>1. CASE UNCHANGED <<vars, moved, setBack>>
  BY <1>1, NextInv DEF ProcInv, ClockOK
<1>2. CASE EditFile \/ Start \/ QtComesUp \/ Tick \/ UNCHANGED procVars
  BY <1>1, <1>2 DEF EditFile, Start, QtComesUp, Tick, TakeOverSnapshot, procVars, freshVars,
     clockVars
<1>3. CASE Quit
  BY <1>3, NextInv DEF Quit, Next, ProcInv, ClockOK, clockVars
<1>4. CASE Exit \/ Killed \/ TickAborts
  BY <1>4, GoneInv DEF Exit, Killed, TickAborts
<1>5. CASE PollerRuns
  BY <1>5, ThreadInv DEF PollerRuns, ThreadStep
<1>6. CASE PollerDies
  BY <1>6, PollerDiesInv
<1>7. CASE TimePasses
  BY <1>7, TimeInv
<1>8. CASE \E d \in ClockSteps : ClockIsSet(d)
  BY <1>8, SetClockInv DEF ClockIsSet
<1>9. QED
  BY <1>2, <1>3, <1>4, <1>5, <1>6, <1>7, <1>8 DEF ProcNext, Poller

LEMMA ProcInvariance == ProcSpec => []ProcInv
BY ProcInitInv, ProcNextInv, PTL DEF ProcSpec

-----------------------------------------------------------------------------

\* What does not count as stale is fresh, up to one poll and the time the clock was
\* set back, for any timeouts, limits, clock steps, faults, kills and restarts.
THEOREM FreshnessIsReal == ProcSpec => []FreshIsFresh
<1>1. ProcInv => FreshIsFresh
  <2> SUFFICES ASSUME ProcInv, NEW s \in Watched, ~IsStale(s)
               PROVE  /\ snap.data[s] # Never
                      /\ snap.data[s] <= StaleAfter + LastCall(s) * HttpTimeout + setBack
    BY DEF FreshIsFresh
  <2>1. s \in Watched /\ s \in Sources
    BY DataAssumption
  <2>2. snap.updated[s] # Never /\ ~(snap.updated[s] + moved[s] > StaleAfter)
    BY DEF IsStale
  <2>3. /\ snap.updated[s] \in Nat /\ snap.data[s] \in Nat \cup {-1}
        /\ moved[s] \in Int /\ setBack \in Nat /\ moved[s] >= -setBack
    BY <2>1, <2>2, SnapType DEF ProcInv, IInv, TypeOK, ClockOK, Ages, Never
  <2>4. /\ snap.data[s] # Never
        /\ snap.data[s] <= snap.updated[s] + LastCall(s) * HttpTimeout
    BY <2>1, <2>2 DEF ProcInv, IInv, StampIsHonest
  <2>5. LastCall(s) * HttpTimeout \in Nat
    BY <2>1, CallsLemma, TimesAssumption
  <2>6. QED
    BY <2>2, <2>3, <2>4, <2>5, TimesAssumption
<1>2. QED
  BY <1>1, ProcInvariance, PTL

\* Nor does a restart or a dead thread blame a healthy endpoint.
THEOREM BlameSurvivesRestarts == ProcSpec => []OnlyTheFaultyAreBlamed
BY ProcInvariance, PTL DEF ProcInv, IInv
-----------------------------------------------------------------------------
(* The age of the alerts under a clock that is set *)

\* The clock can still be set, and by no more than is left of the cap: a slow poll
\* that the cap lets pass is let pass whatever is to come.
Reserved(reserve) ==
    /\ SlowCap > PollSlow + reserve
    /\ \A d \in ClockSteps : reserve + (MaxSteps - steps) * d >= 0

\* As long as the thread lives, the alerts' age is bounded as without a clock, but
\* for what it was set back.
ClockGap ==
    /\ steps \in 0 .. MaxSteps
    /\ section # "stopped" /\ AlertsFollowed
         => \E r \in Nat : Reserved(r) /\ GapInv(setBack, r)

\* Multiples keep the order.
LEMMA TimesLemma ==
    ASSUME NEW m \in Nat, NEW x \in Int, NEW y \in Int, x <= y
    PROVE  m * x \in Int /\ m * y \in Int /\ m * x <= m * y
<1>1. y - x \in Nat /\ m * (y - x) \in Nat
  OBVIOUS
<1>2. m * y = m * x + m * (y - x)
  OBVIOUS
<1>3. QED
  BY <1>1, <1>2

\* All of what the cap leaves is reserved at first, for any number of steps.
LEMMA ReserveExists ==
    ASSUME steps \in 0 .. MaxSteps
    PROVE  \E r \in Nat : Reserved(r)
<1> DEFINE r == SlowCap - PollSlow - 1
<1>1. r \in Nat /\ SlowCap > PollSlow + r
  BY TimesAssumption
<1>2. ASSUME NEW d \in ClockSteps
      PROVE  r + (MaxSteps - steps) * d >= 0
  <2> DEFINE m == MaxSteps - steps
  <2>1. m \in Nat /\ steps \in Nat /\ d \in Int /\ MaxSteps \in Nat
    BY ClockAssumption
  <2>2. r + MaxSteps * d >= 0 /\ MaxSteps * d \in Int
    BY <2>1, ClockAssumption, TimesAssumption
  <2>3. CASE d >= 0
    <3>1. m * d >= m * 0 /\ m * 0 = 0 /\ m * d \in Int
      BY <2>1, <2>3, TimesLemma
    <3> HIDE DEF r, m
    <3>2. QED
      BY <1>1, <3>1 DEF m
  <2>4. CASE d < 0
    <3>1. steps * d <= steps * 0 /\ steps * 0 = 0 /\ steps * d \in Int
      BY <2>1, <2>4, TimesLemma
    <3>2. MaxSteps * d = m * d + steps * d
      BY <2>1
    <3>3. m * d \in Int
      BY <2>1
    <3> HIDE DEF r
    <3>4. r + m * d >= 0
      <4> HIDE DEF m
      <4> QED
        BY <1>1, <2>2, <3>1, <3>2, <3>3
    <3>5. QED
      BY <3>4
  <2>5. QED
    BY <2>1, <2>3, <2>4
<1>3. QED
  BY <1>1, <1>2 DEF Reserved
\* A step of the clock uses up what it takes of the reserve.
LEMMA ReserveLasts ==
    ASSUME NEW r \in Nat, Reserved(r), NEW d \in ClockSteps,
           steps \in Nat, steps < MaxSteps, steps' = steps + 1
    PROVE  \E left \in Nat : Reserved(left)' /\ left <= r /\ left <= r + d
<1> DEFINE left == IF d < 0 THEN r + d ELSE r
           m    == MaxSteps - (steps + 1)
<1>1. m \in Nat /\ MaxSteps - steps = m + 1 /\ d \in Int
  BY ClockAssumption
<1>2. ASSUME NEW e \in ClockSteps
      PROVE  e \in Int /\ m * e \in Int /\ r + (m * e + e) >= 0
  <2>1. e \in Int /\ r + (m + 1) * e >= 0
    BY <1>1, <1>2, ClockAssumption DEF Reserved
  <2>2. (m + 1) * e = m * e + e /\ m * e \in Int
    <3> HIDE DEF m
    <3>1. QED
      BY <1>1, <2>1
  <2>3. QED
    BY <2>1, <2>2
<1> HIDE DEF m
<1>3. m * d \in Int /\ (d >= 0 => m * d >= 0) /\ (d < 0 => m * d <= 0)
  <2>1. m * 0 = 0
    BY <1>1
  <2>2. QED
    BY <1>1, <2>1, TimesLemma
<1>4. left \in Nat
  BY <1>1, <1>2, <1>3
<1>5. ASSUME NEW e \in ClockSteps
      PROVE  left + m * e >= 0
  <2>1. e \in Int /\ m * e \in Int /\ r + (m * e + e) >= 0
    BY <1>2
  <2>2. CASE e >= 0
    <3>1. m * e >= 0
      BY <1>1, <2>1, <2>2, TimesLemma
    <3>2. QED
      BY <1>4, <2>1, <3>1
  <2>3. CASE e < 0 /\ d >= e
    BY <1>1, <2>1, <2>3
  <2>4. CASE e < 0 /\ d < e
    <3>1. m * d <= m * e
      BY <1>1, <2>1, <2>4, TimesLemma
    <3>2. r + (m * d + d) >= 0
      BY <1>2
    <3>3. QED
      BY <1>1, <1>3, <2>1, <2>4, <3>1, <3>2
  <2>5. QED
    BY <1>1, <2>1, <2>2, <2>3, <2>4
<1>6. left <= r /\ left <= r + d
  BY <1>1
<1>7. SlowCap > PollSlow + left
  BY <1>4, <1>6, TimesAssumption DEF Reserved
<1>8. Reserved(left)'
  <2>1. MaxSteps - steps' = m
    BY DEF m
  <2> HIDE DEF left
  <2>2. QED
    BY <1>5, <1>7, <2>1 DEF Reserved
<1>9. QED
  BY <1>4, <1>6, <1>8

\* The same for a rigid slack, which is how the thread's lemmas state it.
LEMMA SlackLemma ==
    ASSUME NEW k, NEW r
    PROVE  /\ setBack = k => (GapInv(setBack, r) <=> GapInv(k, r))
           /\ setBack' = k => (GapInv(setBack, r)' <=> GapInv(k, r)')
BY DEF GapInv, SlowIsDue

\* A clock that is set leaves the stamp's age, and moves last_slow by no more than it
\* adds to setBack.
LEMMA SetClockGap ==
    ASSUME ProcInv, ClockGap, NEW d \in ClockSteps, SetClock(d)
    PROVE  ClockGap'
<1>1. /\ UNCHANGED <<section, step, callTime, sectionTime, stop, hist, cpu, snap>>
      /\ steps < MaxSteps /\ steps' = steps + 1
      /\ setBack' = IF d < 0 THEN setBack - d ELSE setBack
      /\ sinceSlow' = IF sinceSlow + d < SlowCap THEN sinceSlow + d ELSE SlowCap
  BY DEF SetClock
<1>2. /\ d \in Int /\ setBack \in Nat /\ sinceSlow \in Int /\ sinceSlow <= SlowCap
      /\ steps \in Nat /\ MaxSteps \in Nat /\ SlowCap \in Nat /\ PollSlow \in Nat
  BY ClockAssumption, TimesAssumption DEF ProcInv, ClockOK, IInv, TypeOK, ClockGap
<1>3. steps' \in 0 .. MaxSteps
  BY <1>1, <1>2
<1> SUFFICES ASSUME section # "stopped", AlertsFollowed
             PROVE  \E r \in Nat : (Reserved(r) /\ GapInv(setBack, r))'
  BY <1>1, <1>3 DEF ClockGap
<1>4. PICK r \in Nat : Reserved(r) /\ GapInv(setBack, r)
  BY DEF ClockGap
<1>5. PICK left \in Nat : Reserved(left)' /\ left <= r /\ left <= r + d
  BY <1>1, <1>2, <1>4, ReserveLasts
<1> DEFINE u == snap.updated["alerts"]
           g == GapAt(section, sectionTime, callTime)
<1>6. u \in Int /\ SlowGap \in Nat /\ g \in Int
  <2>1. SlowGap \in Nat
    BY GapLemma, TimesAssumption DEF SlowGap
  <2>2. section \in Sources \cup {"guard", "wait", "stopped"} /\ sectionTime \in Nat /\ callTime \in Nat
    BY DEF ProcInv, IInv, TypeOK
  <2>3. g \in Int
    BY <2>1, <2>2, GapLemma, CallsLemma, TimesAssumption DEF GapAt, RoundGap
  <2>4. QED
    BY <2>1, <2>3, StampType DEF ProcInv, IInv, Never
<1>7. u <= g + setBack /\ GapClocks
  BY <1>4 DEF GapInv
<1>8. setBack' >= setBack /\ setBack' \in Int
  BY <1>1, <1>2
<1>9. /\ snap'.updated["alerts"] = u
      /\ GapAt(section', sectionTime', callTime') = g
  BY <1>1
<1>10. GapClocks'
  BY <1>1, <1>7 DEF GapClocks, InCall
<1>11. SlowIsDue(setBack, left)'
  <2> SUFFICES ASSUME section \in {"wait", "prom", "nodes", "guard"}
               PROVE  u <= SlowGap + sinceSlow' + setBack' \/ sinceSlow' > PollSlow + left
    BY <1>1, <1>9 DEF SlowIsDue
  <2>1. u <= SlowGap + sinceSlow + setBack \/ sinceSlow > PollSlow + r
    BY <1>4 DEF GapInv, SlowIsDue
  <2>2. CASE sinceSlow > PollSlow + r
    <3>1. sinceSlow' > PollSlow + left
      <4>1. SlowCap > PollSlow + left
        BY <1>5 DEF Reserved
      <4>2. sinceSlow + d > PollSlow + left
        BY <1>2, <1>5, <2>2
      <4>3. QED
        BY <1>1, <4>1, <4>2
    <3>2. QED
      BY <3>1
  <2>3. CASE u <= SlowGap + sinceSlow + setBack
    <3>1. sinceSlow + setBack <= sinceSlow' + setBack'
      BY <1>1, <1>2
    <3>2. sinceSlow' \in Int
      BY <1>1, <1>2
    <3>3. u \in Int /\ SlowGap \in Nat /\ u <= SlowGap + sinceSlow + setBack
      BY <1>6, <2>3
    <3>4. QED
      BY <1>2, <1>8, <3>1, <3>2, <3>3
  <2>4. QED
    BY <2>1, <2>2, <2>3
<1>12. u <= g + setBack'
  <2>1. u \in Int /\ g \in Int /\ u <= g + setBack
    BY <1>6, <1>7
  <2>2. setBack \in Int /\ setBack' \in Int /\ setBack <= setBack'
    BY <1>2, <1>8
  <2>3. QED
    BY <2>1, <2>2
<1>13. GapInv(setBack, left)'
  BY <1>9, <1>10, <1>11, <1>12 DEF GapInv
<1>14. QED
  BY <1>5, <1>13

\* What the thread does, or the time that passes for it, keeps the bound.
LEMMA ThreadGap ==
    ASSUME ProcInv, ClockGap, [Next]_vars, section # "stopped", UNCHANGED <<setBack, steps>>
    PROVE  ClockGap'
<1>1. steps' \in 0 .. MaxSteps
  BY DEF ClockGap
<1> SUFFICES ASSUME AlertsFollowed
             PROVE  \E r \in Nat : (Reserved(r) /\ GapInv(setBack, r))'
  BY <1>1 DEF ClockGap
<1>2. PICK r \in Nat : Reserved(r) /\ GapInv(setBack, r)
  BY DEF ClockGap
<1>3. PICK k \in Nat : setBack = k
  BY DEF ProcInv, ClockOK
<1>4. GapInv(k, r)
  BY <1>2, <1>3, SlackLemma
<1>5. SlowCap > PollSlow + r
  BY <1>2 DEF Reserved
<1>6. GapInv(k, r)'
  BY <1>4, <1>5, NextGap DEF ProcInv
<1>7. GapInv(setBack, r)'
  BY <1>3, <1>6, SlackLemma
<1>8. Reserved(r)'
  BY <1>2 DEF Reserved
<1>9. QED
  BY <1>7, <1>8

\* A process that is started anew has no alerts yet, and its last_slow is long past.
LEMMA NewGap == Init /\ setBack = 0 /\ steps \in 0 .. MaxSteps => ClockGap
<1> SUFFICES ASSUME Init, setBack = 0, steps \in 0 .. MaxSteps, AlertsFollowed
             PROVE  \E r \in Nat : Reserved(r) /\ GapInv(setBack, r)
  BY DEF ClockGap
<1>1. PICK r \in Nat : Reserved(r)
  BY ReserveExists
<1>2. SlowCap > PollSlow + r
  BY <1>1 DEF Reserved
<1>3. GapInv(0, r)
  BY <1>2, InitGap
<1>4. QED
  BY <1>1, <1>3, SlackLemma

LEMMA NewGapPrimed == (Init /\ setBack = 0 /\ steps \in 0 .. MaxSteps)' => ClockGap'
BY NewGap, PTL

\* What leaves the thread and the clock alone leaves the bound.
LEMMA IdleGap == ClockGap /\ UNCHANGED <<vars, setBack, steps>> => ClockGap'
BY DEF ClockGap, Reserved, GapInv, GapClocks, SlowIsDue, InCall, vars

\* Every step of the process keeps the bound.
LEMMA ProcNextGap == ProcInv /\ ClockGap /\ [ProcNext]_procVars => ClockGap'
<1> SUFFICES ASSUME ProcInv, ClockGap, [ProcNext]_procVars PROVE ClockGap'
  OBVIOUS
<1>0. steps \in 0 .. MaxSteps
  BY DEF ClockGap
<1>1. CASE EditFile \/ Start \/ QtComesUp \/ Tick \/ UNCHANGED procVars
  <2>1. UNCHANGED <<vars, setBack, steps>>
    BY <1>1 DEF EditFile, Start, QtComesUp, Tick, TakeOverSnapshot, procVars, freshVars, clockVars
  <2>2. QED
    BY <2>1, IdleGap
<1>2. CASE Exit \/ Killed \/ TickAborts
  <2>1. Gone
    BY <1>2 DEF Exit, Killed, TickAborts
  <2>2. (Init /\ setBack = 0 /\ steps \in 0 .. MaxSteps)'
    BY <1>0, <2>1 DEF Gone, Init
  <2>3. QED
    BY <2>2, NewGapPrimed
<1>3. CASE section' = "stopped" /\ steps' = steps
  BY <1>0, <1>3 DEF ClockGap
<1>4. CASE [Next]_vars /\ UNCHANGED <<setBack, steps>>
  <2>1. CASE section # "stopped"
    BY <1>4, <2>1, ThreadGap
  <2>2. CASE section = "stopped"
    <3>1. section' = "stopped"
      BY <1>4, <2>2, CallsLemma
      DEF Next, Thread, CallReturns, CallFails, Publish, MarkUpdated, MarkError, Guard, Wake,
          Stop, Elapse, InCall, vars
    <3>2. QED
      BY <1>3, <1>4, <3>1
  <2>3. QED
    BY <2>1, <2>2
<1>5. CASE Quit
  BY <1>4, <1>5 DEF Quit, Next, clockVars
<1>6. CASE PollerRuns
  <2>1. SwapStep \/ QuietStep
    BY <1>6 DEF PollerRuns, ThreadStep
  <2>2. [Next]_vars
    BY <2>1 DEF SwapStep, QuietStep, Next, Thread
  <2>3. UNCHANGED <<setBack, steps>>
    BY <2>1 DEF SwapStep, QuietStep, clockVars
  <2>4. QED
    BY <1>4, <2>2, <2>3
<1>7. CASE PollerDies
  BY <1>3, <1>7 DEF PollerDies, GoTo, clockVars
<1>8. CASE TimePasses
  <2>1. UNCHANGED <<setBack, steps>>
    BY <1>8 DEF TimePasses, TimeStep, clockVars
  <2>2. CASE TimeStep
    BY <1>4, <2>1, <2>2 DEF TimeStep, Next
  <2>3. CASE ~TimeStep
    BY <1>3, <1>8, <2>1, <2>3 DEF TimePasses
  <2>4. QED
    BY <2>2, <2>3
<1>9. CASE \E d \in ClockSteps : ClockIsSet(d)
  BY <1>9, SetClockGap DEF ClockIsSet
<1>10. QED
  BY <1>1, <1>2, <1>5, <1>6, <1>7, <1>8, <1>9 DEF ProcNext, Poller

\* For any clock steps, faults, kills and restarts, and any times: while the thread
\* lives, the alerts are never older than AlertGap and what the clock was set back.
THEOREM ClockDelaysOnly == ProcSpec => []AlertsSurviveTheClock
<1>1. ProcInit => ClockGap
  BY NewGap, ClockAssumption DEF ProcInit, FreshInit
<1>2. ProcInv /\ ClockGap => AlertsSurviveTheClock
  <2> SUFFICES ASSUME ProcInv, ClockGap, AlertsFollowed, section # "stopped"
               PROVE  snap.updated["alerts"] <= AlertGap + setBack
    BY DEF AlertsSurviveTheClock, AlertsFollowed
  <2>1. PICK r \in Nat : GapInv(setBack, r)
    BY DEF ClockGap
  <2>2. PICK k \in Nat : setBack = k
    BY DEF ProcInv, ClockOK
  <2>3. GapInv(k, r)
    BY <2>1, <2>2, SlackLemma
  <2>4. snap.updated["alerts"] <= AlertGap + k
    BY <2>3, GapBound DEF ProcInv
  <2>5. QED
    BY <2>2, <2>4
<1>3. QED
  BY <1>1, <1>2, ProcNextGap, ProcInvariance, PTL DEF ProcSpec

-----------------------------------------------------------------------------
(* The refinement of Feeds *)

\* Nothing is to be vouched for outside a section's last step.
LEMMA UnvouchedLemma ==
    /\ Unvouched = IF section \in Sources /\ step = MARK(section) THEN {section} ELSE {}
    /\ step = 1 => Unvouched = {}
<1>1. ASSUME section \in Sources PROVE MARK(section) # 1
  BY <1>1, CallsLemma DEF MARK
<1>2. QED
  BY <1>1 DEF Unvouched

\* The same after a step.
LEMMA UnvouchedNext ==
    /\ Unvouched' = IF section' \in Sources /\ step' = MARK(section') THEN {section'} ELSE {}
    /\ step' = 1 => Unvouched' = {}
<1>1. ASSUME section' \in Sources PROVE MARK(section') # 1
  BY <1>1, CallsLemma DEF MARK
<1>2. QED
  BY <1>1 DEF Unvouched

\* What leaves the snapshot alone and is no last step before or after is no step of a feed.
LEMMA QuietFeeds ==
    ASSUME UNCHANGED snap, Unvouched' = Unvouched
    PROVE  UNCHANGED Promise!feedVars
BY DEF Promise!feedVars

\* The thread's calls and its loop are no steps of a feed.
LEMMA QuietStepRefines ==
    ASSUME ProcInv, CallReturns \/ CallFails \/ Guard \/ Wake \/ Stop \/ PollerDies
    PROVE  UNCHANGED Promise!feedVars
<1>1. UNCHANGED snap
  BY DEF CallReturns, CallFails, Guard, Wake, Stop, PollerDies
<1>2. CASE CallReturns \/ CallFails
  <2>1. /\ section \in Sources /\ step \in 1 .. LastCall(section) /\ section' = section
        /\ step' = step + 1 \/ step' = FAILED
    BY <1>2 DEF CallReturns, CallFails, InCall
  <2>2. LastCall(section) \in Nat
    BY <2>1, CallsLemma
  <2>3. step # MARK(section) /\ step' # MARK(section)
    BY <2>1, <2>2 DEF MARK, FAILED
  <2>4. Unvouched = {} /\ Unvouched' = {}
    BY <2>1, <2>3, UnvouchedLemma, UnvouchedNext
  <2>5. QED
    BY <1>1, <2>4, QuietFeeds
<1>3. CASE Guard \/ Wake \/ PollerDies
  <2>1. section \notin Sources /\ step' = 1
    BY <1>3, CallsLemma DEF Guard, Wake, PollerDies, GoTo
  <2>2. Unvouched = {} /\ Unvouched' = {}
    BY <2>1, UnvouchedLemma, UnvouchedNext
  <2>3. QED
    BY <1>1, <2>2, QuietFeeds
<1>4. CASE Stop
  BY <1>1, <1>4, QuietFeeds DEF Stop, Unvouched
<1>5. QED
  BY <1>2, <1>3, <1>4

\* _update is new data of one feed.
LEMMA PublishRefines ==
    ASSUME ProcInv, Publish
    PROVE  Promise!FeedsNext
<1>1. /\ section \in Sources /\ step = UPDATE(section) /\ step' = MARK(section)
      /\ section' = section
  BY DEF Publish
<1>2. /\ snap'.data = [s \in Watched |->
                          IF s = section THEN Capped(sectionTime) ELSE snap.data[s]]
      /\ snap'.updated = snap.updated /\ snap'.errors = snap.errors
  BY DEF Publish, ProcInv, IInv, TypeOK, Snapshots
<1>3. sectionTime \in 0 .. LastCall(section) * HttpTimeout
  <2>1. LastCall(section) \in Nat /\ step > LastCall(section)
    BY <1>1, CallsLemma DEF UPDATE
  <2>2. /\ sectionTime \in Nat /\ sectionTime <= LastCall(section) * HttpTimeout
        /\ LastCall(section) * HttpTimeout \in Nat
    BY <1>1, <2>1, TimesAssumption DEF ProcInv, IInv, TypeOK, ClocksOK
  <2>3. QED
    BY <2>2
<1>4. section \notin Unvouched /\ Unvouched' = Unvouched \cup {section}
  <2>1. UPDATE(section) # MARK(section)
    BY <1>1, CallsLemma DEF UPDATE, MARK
  <2>2. Unvouched = {} /\ Unvouched' = {section}
    BY <1>1, <2>1, UnvouchedLemma, UnvouchedNext
  <2>3. QED
    BY <2>2
<1>5. Capped(sectionTime) = Promise!Within(sectionTime)
  BY DEF Capped, Promise!Within
<1>6. Promise!Replace(section)
  <2>1. [s \in Sources |-> LastCall(s) * HttpTimeout][section] = LastCall(section) * HttpTimeout
    BY <1>1
  <2>2. QED
    BY <1>2, <1>3, <1>4, <1>5, <2>1 DEF Promise!Replace
<1>7. QED
  BY <1>1, <1>6 DEF Promise!FeedsNext

\* _mark without an error vouches for them.
LEMMA MarkUpdatedRefines ==
    ASSUME ProcInv, MarkUpdated
    PROVE  Promise!FeedsNext
<1>1. section \in Sources /\ step = MARK(section) /\ step' = 1
  BY DEF MarkUpdated, Leave, GoTo
<1>2. /\ snap'.updated = [s \in Watched |-> IF s = section THEN 0 ELSE snap.updated[s]]
      /\ snap'.errors = [snap.errors EXCEPT ![section] = FALSE]
      /\ snap'.data = snap.data
  BY DEF MarkUpdated, ProcInv, IInv, TypeOK, Snapshots
<1>3. section \in Unvouched /\ Unvouched' = Unvouched \ {section}
  <2>1. Unvouched = {section} /\ Unvouched' = {}
    BY <1>1, UnvouchedLemma, UnvouchedNext
  <2>2. QED
    BY <2>1
<1>4. Promise!Vouch(section)
  BY <1>2, <1>3 DEF Promise!Vouch
<1>5. QED
  BY <1>1, <1>4 DEF Promise!FeedsNext

\* _mark with an error blames one feed, which uses an endpoint that may fail.
LEMMA MarkErrorRefines ==
    ASSUME ProcInv, MarkError
    PROVE  Promise!FeedsNext
<1>1. section \in Sources /\ step = FAILED /\ step' = 1
  BY DEF MarkError, Leave, GoTo
<1>2. /\ snap'.errors = [snap.errors EXCEPT ![section] = TRUE]
      /\ snap'.updated = snap.updated /\ snap'.data = snap.data
  BY DEF MarkError, ProcInv, IInv, TypeOK, Snapshots
<1>3. section \notin Reachable
  BY <1>1 DEF Reachable, ProcInv, IInv, FailureOK
<1>4. section \notin Unvouched /\ Unvouched' = Unvouched
  <2>1. FAILED # MARK(section)
    BY <1>1, CallsLemma DEF FAILED, MARK
  <2>2. Unvouched = {} /\ Unvouched' = {}
    BY <1>1, <2>1, UnvouchedLemma, UnvouchedNext
  <2>3. QED
    BY <2>2
<1>5. Promise!Blame(section)
  BY <1>2, <1>3, <1>4 DEF Promise!Blame
<1>6. QED
  BY <1>1, <1>5 DEF Promise!FeedsNext

\* Time ages every feed, and never passes between the two swaps.
LEMMA TimeRefines ==
    ASSUME ProcInv, TimePasses
    PROVE  Promise!FeedsNext
<1>1. snap' = AgedSnap(snap) /\ UNCHANGED <<section, step>>
  BY DEF TimePasses, TimeStep, Elapse
<1>2. Unvouched = {} /\ Unvouched' = {}
  <2>1. InCall \/ section \in {"wait", "stopped"}
    BY DEF TimePasses, TimeStep, Elapse
  <2>2. section \in Sources => step # MARK(section)
    BY <2>1, CallsLemma DEF InCall, MARK
  <2>3. Unvouched = {}
    BY <2>2, UnvouchedLemma
  <2>4. QED
    BY <1>1, <2>2, <2>3, UnvouchedNext
<1>3. \A age : Older(age) = IF age = Promise!Nothing THEN Promise!Nothing
                            ELSE Promise!Within(age + 1)
  BY DEF Older, Capped, Never, Promise!Nothing, Promise!Within
<1>4. /\ snap'.data = [s \in Watched |-> Older(snap.data[s])]
      /\ snap'.updated = [s \in Watched |-> Older(snap.updated[s])]
      /\ snap'.errors = snap.errors
  BY <1>1 DEF AgedSnap, ProcInv, IInv, TypeOK, Snapshots
<1>5. Promise!Age
  BY <1>2, <1>3, <1>4 DEF Promise!Age
<1>6. QED
  BY <1>5 DEF Promise!FeedsNext

\* The end of the process forgets every feed.
LEMMA GoneRefines == Gone => Promise!FeedsNext
<1> SUFFICES ASSUME Gone PROVE Promise!Forget
  BY DEF Promise!FeedsNext
<1>1. snap' = EmptySnapshot /\ Unvouched' = {}
  BY UnvouchedNext DEF Gone
<1>2. QED
  BY <1>1 DEF EmptySnapshot, Never, Promise!Forget, Promise!Nothing

\* For any endpoints, times, clocks, faults, kills and restarts, the snapshot is a set of
\* independent feeds: new data, then their stamp; blame that touches nothing else
\* (collector.py:1-2, 41-54).
THEOREM FeedsAreIndependent == ProcSpec => ImplementsFeeds
<1>1. ProcInit => Promise!FeedsInit
  <2> SUFFICES ASSUME ProcInit PROVE Promise!FeedsInit
    OBVIOUS
  <2>1. snap = EmptySnapshot /\ Unvouched = {}
    BY UnvouchedLemma DEF ProcInit, FreshInit, Init
  <2>2. QED
    BY <2>1 DEF EmptySnapshot, Never, Promise!FeedsInit, Promise!Nothing
<1>2. ProcInv /\ [ProcNext]_procVars => [Promise!FeedsNext]_(Promise!feedVars)
  <2> SUFFICES ASSUME ProcInv, [ProcNext]_procVars
               PROVE  Promise!FeedsNext \/ UNCHANGED Promise!feedVars
    OBVIOUS
  <2>1. CASE EditFile \/ Start \/ QtComesUp \/ Tick \/ UNCHANGED procVars
    <3>1. UNCHANGED <<section, step, snap>>
      BY <2>1 DEF EditFile, Start, QtComesUp, Tick, TakeOverSnapshot, procVars, freshVars, vars
    <3>2. QED
      BY <3>1, QuietFeeds DEF Unvouched
  <2>2. CASE Quit
    BY <2>2, QuietStepRefines DEF Quit
  <2>3. CASE Exit \/ Killed \/ TickAborts
    BY <2>3, GoneRefines DEF Exit, Killed, TickAborts
  <2>4. CASE PollerRuns
    <3>1. SwapStep \/ QuietStep
      BY <2>4 DEF PollerRuns, ThreadStep
    <3>2. QED
      BY <3>1, PublishRefines, MarkUpdatedRefines, MarkErrorRefines, QuietStepRefines
      DEF SwapStep, QuietStep
  <2>5. CASE PollerDies
    BY <2>5, QuietStepRefines
  <2>6. CASE TimePasses
    BY <2>6, TimeRefines
  <2>7. CASE \E d \in ClockSteps : ClockIsSet(d)
    <3>1. UNCHANGED <<section, step, snap>>
      BY <2>7 DEF ClockIsSet, SetClock
    <3>2. QED
      BY <3>1, QuietFeeds DEF Unvouched
  <2>8. QED
    BY <2>1, <2>2, <2>3, <2>4, <2>5, <2>6, <2>7 DEF ProcNext, Poller
<1>3. QED
  BY <1>1, <1>2, ProcInvariance, PTL DEF ProcSpec, ImplementsFeeds, Promise!FeedsSpec
=============================================================================
