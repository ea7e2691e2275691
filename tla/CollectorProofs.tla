--------------------------- MODULE CollectorProofs ---------------------------
(***************************************************************************)
(* Proofs about Collector.tla, for every choice of its constants.          *)
(***************************************************************************)
EXTENDS Collector, TLAPS

\* Five sources, each with at least one call and at most eight.
LEMMA CallsLemma ==
    /\ Sources = {"prom", "nodes", "alerts", "kube", "series"}
    /\ \A s \in Sources : LastCall(s) \in 1 .. 8
<1>1. Sources = {"prom", "nodes", "alerts", "kube", "series"}
  BY DEF Sources, Calls
<1>2. /\ LastCall("prom") = 5 /\ LastCall("nodes") = 8 /\ LastCall("alerts") = 1
      /\ LastCall("kube") = 1 /\ LastCall("series") = 6
  BY DEF LastCall, Calls
<1>3. QED
  BY <1>1, <1>2

\* The deque keeps at most HistMax samples, the newest last.
LEMMA AppendLemma ==
    ASSUME NEW h \in Seq(Samples), NEW x \in Samples, Len(h) <= HistMax
    PROVE  /\ AppendBounded(h, x) \in Seq(Samples)
           /\ Len(AppendBounded(h, x)) \in 1 .. HistMax
           /\ AppendBounded(h, x)[Len(AppendBounded(h, x))] = x
<1>1. CASE Len(h) < HistMax
  <2>1. AppendBounded(h, x) = Append(h, x)
    BY <1>1 DEF AppendBounded
  <2>2. QED
    BY <1>1, <2>1, DataAssumption
<1>2. CASE ~(Len(h) < HistMax)
  <2>1. h # <<>> /\ Len(h) = HistMax
    BY <1>2, DataAssumption
  <2>2. Tail(h) \in Seq(Samples) /\ Len(Tail(h)) = HistMax - 1
    BY <2>1
  <2>3. AppendBounded(h, x) = Append(Tail(h), x)
    BY <1>2 DEF AppendBounded
  <2>4. QED
    BY <2>2, <2>3, DataAssumption
<1>3. QED
  BY <1>1, <1>2

\* The except branch of one more call costs one more timeout.
LEMMA OneMoreCall == \A k \in Nat : (k - 1) * HttpTimeout + HttpTimeout = k * HttpTimeout
BY TimesAssumption

-----------------------------------------------------------------------------
(* The inductive invariant *)

\* A section's clock runs for at most one timeout per call.
ClocksOK ==
    /\ InCall => callTime <= HttpTimeout
                 /\ sectionTime <= (step - 1) * HttpTimeout + callTime
    /\ section \in Sources /\ step > LastCall(section)
         => sectionTime <= LastCall(section) * HttpTimeout

\* Between a poll's two swaps its data are already there, at the age of the poll.
FreshData ==
    section \in Watched /\ step = MARK(section)
        => /\ snap.data[section] # Never
           /\ snap.data[section] <= LastCall(section) * HttpTimeout

\* From its second call on, a poll of prom holds a sample; from its third call
\* on that sample is the last point of the deque.
SampleOK ==
    section = "prom" =>
        /\ step >= 2 => cpu \in Samples
        /\ step >= 3 => hist # <<>> /\ hist[Len(hist)] = cpu

\* A section fails only because of a faulty endpoint that it uses.
FailureOK ==
    section \in Sources /\ step = FAILED => Uses(section) \cap Faulty # {}

IInv == /\ TypeOK /\ ClocksOK /\ FreshData /\ SampleOK /\ FailureOK
        /\ StampIsHonest /\ CardMatchesSparkline /\ OnlyTheFaultyAreBlamed

\* A thread that was just started satisfies it.
LEMMA InitInv == Init => IInv
<1> SUFFICES ASSUME Init PROVE IInv
  OBVIOUS
<1> USE CallsLemma, TimesAssumption, DataAssumption DEF Init, EmptySnapshot
<1>1. snap \in Snapshots
  BY DEF Snapshots
<1>2. TypeOK
  <2>1. hist \in Seq(Samples) /\ Len(hist) = 0
    OBVIOUS
  <2>2. sinceSlow \in Int /\ sinceSlow <= SlowCap /\ Len(hist) <= HistMax
    BY <2>1
  <2>3. section \in Sources /\ 1 <= MARK("prom")
    BY DEF MARK
  <2>4. QED
    BY <1>1, <2>1, <2>2, <2>3 DEF TypeOK
<1>3. ClocksOK
  BY DEF ClocksOK
<1>4. FreshData /\ SampleOK /\ FailureOK
  BY DEF FreshData, SampleOK, FailureOK, MARK, FAILED
<1>5. StampIsHonest /\ CardMatchesSparkline /\ OnlyTheFaultyAreBlamed
  BY DEF StampIsHonest, CardMatchesSparkline, OnlyTheFaultyAreBlamed
<1>6. QED
  BY <1>2, <1>3, <1>4, <1>5 DEF IInv

\* An answered call keeps it.
LEMMA CallReturnsInv == IInv /\ CallReturns => IInv'
<1> SUFFICES ASSUME IInv, CallReturns PROVE IInv'
  OBVIOUS
<1> USE CallsLemma, TimesAssumption DEF IInv
<1>1. /\ section' = section /\ step' = step + 1 /\ callTime' = 0
      /\ sectionTime' = sectionTime /\ snap' = snap
      /\ sinceSlow' = sinceSlow /\ stop' = stop
      /\ section \in Sources /\ step \in 1 .. LastCall(section)
  BY DEF CallReturns, InCall
<1>2. TypeOK' /\ SampleOK'
  <2>1. CASE section # "prom"
    <3>1. cpu' = cpu /\ hist' = hist
      BY <2>1 DEF CallReturns
    <3>2. QED
      BY <1>1, <2>1, <3>1 DEF TypeOK, SampleOK, MARK
  <2>2. CASE section = "prom" /\ step = 1
    <3>1. cpu' \in Samples /\ hist' = hist
      BY <2>2 DEF CallReturns
    <3>2. QED
      BY <1>1, <2>2, <3>1 DEF TypeOK, SampleOK, MARK
  <2>3. CASE section = "prom" /\ step = 2
    <3>1. cpu' = cpu /\ hist' = AppendBounded(hist, cpu) /\ cpu \in Samples
      BY <2>3 DEF CallReturns, SampleOK
    <3>2. /\ hist' \in Seq(Samples) /\ Len(hist') \in 1 .. HistMax
          /\ hist'[Len(hist')] = cpu
      BY <3>1, AppendLemma DEF TypeOK
    <3>3. QED
      BY <1>1, <2>3, <3>1, <3>2, DataAssumption DEF TypeOK, SampleOK, MARK
  <2>4. CASE section = "prom" /\ step > 2
    <3>1. cpu' = cpu /\ hist' = hist
      BY <2>4 DEF CallReturns
    <3>2. QED
      BY <1>1, <2>4, <3>1 DEF TypeOK, SampleOK, MARK
  <2>5. QED
    BY <1>1, <2>1, <2>2, <2>3, <2>4
<1>3. ClocksOK'
  <2>1. sectionTime <= (step - 1) * HttpTimeout + HttpTimeout
    <3>1. (step - 1) * HttpTimeout \in Int
      BY <1>1
    <3>2. QED
      BY <1>1, <3>1 DEF ClocksOK, InCall, TypeOK
  <2>2. sectionTime <= step * HttpTimeout
    BY <1>1, <2>1, OneMoreCall
  <2>3. CASE step < LastCall(section)
    BY <1>1, <2>2, <2>3 DEF ClocksOK, InCall, TypeOK
  <2>4. CASE step = LastCall(section)
    BY <1>1, <2>2, <2>4 DEF ClocksOK, InCall, TypeOK
  <2>5. QED
    BY <1>1, <2>3, <2>4
<1>4. FreshData' /\ FailureOK'
  BY <1>1 DEF FreshData, FailureOK, MARK, FAILED
<1>5. StampIsHonest' /\ CardMatchesSparkline' /\ OnlyTheFaultyAreBlamed'
  BY <1>1 DEF StampIsHonest, CardMatchesSparkline, OnlyTheFaultyAreBlamed
<1>6. QED
  BY <1>2, <1>3, <1>4, <1>5

\* So does a failed one.
LEMMA CallFailsInv == IInv /\ CallFails => IInv'
<1> SUFFICES ASSUME IInv, CallFails PROVE IInv'
  OBVIOUS
<1> USE CallsLemma, TimesAssumption DEF IInv
<1>1. /\ UNCHANGED <<section, sectionTime, sinceSlow, stop, hist, cpu, snap>>
      /\ step' = FAILED /\ callTime' = 0
      /\ section \in Sources /\ step \in 1 .. LastCall(section)
  BY DEF CallFails, InCall
<1>2. TypeOK' /\ ClocksOK' /\ SampleOK'
  BY <1>1 DEF TypeOK, ClocksOK, SampleOK, MARK, FAILED, InCall
<1>3. FailureOK'
  BY <1>1 DEF FailureOK, CallFails, Uses
<1>4. FreshData'
  BY <1>1 DEF FreshData, MARK, FAILED
<1>5. StampIsHonest' /\ CardMatchesSparkline' /\ OnlyTheFaultyAreBlamed'
  BY <1>1 DEF StampIsHonest, CardMatchesSparkline, OnlyTheFaultyAreBlamed
<1>6. QED
  BY <1>2, <1>3, <1>4, <1>5

\* The fields of a snapshot.
LEMMA SnapType ==
    ASSUME snap \in Snapshots
    PROVE  /\ snap.cpu \in Samples \cup {NoSample} /\ snap.history \in Seq(Samples)
           /\ snap.data \in [Watched -> Ages \cup {Never}]
           /\ snap.updated \in [Watched -> Ages \cup {Never}]
           /\ snap.errors \in [Sources -> BOOLEAN]
BY DEF Snapshots

\* The first swap of a poll keeps it.
LEMMA PublishInv == IInv /\ Publish => IInv'
<1> SUFFICES ASSUME IInv, Publish PROVE IInv'
  OBVIOUS
<1> USE CallsLemma, TimesAssumption DEF IInv
<1> DEFINE data == [s \in Watched |->
                      IF s = section THEN Capped(sectionTime) ELSE snap.data[s]]
           card == IF section = "prom" THEN cpu ELSE snap.cpu
           line == IF section = "prom" THEN hist ELSE snap.history
<1>1. /\ UNCHANGED <<section, callTime, sectionTime, sinceSlow, stop, hist, cpu>>
      /\ section \in Sources /\ step = UPDATE(section) /\ step' = MARK(section)
  BY DEF Publish
<1>2. snap' = [snap EXCEPT !.cpu = card, !.history = line, !.data = data]
  BY DEF Publish
<1>3. /\ snap'.cpu = card /\ snap'.history = line /\ snap'.data = data
      /\ snap'.updated = snap.updated /\ snap'.errors = snap.errors
  BY <1>2 DEF TypeOK, Snapshots
<1>4. sectionTime \in Nat /\ sectionTime <= LastCall(section) * HttpTimeout
  BY <1>1 DEF ClocksOK, UPDATE, TypeOK
<1>5. /\ Capped(sectionTime) \in Ages
      /\ Capped(sectionTime) <= LastCall(section) * HttpTimeout
      /\ Capped(sectionTime) # Never
  BY <1>1, <1>4 DEF Capped, Ages, Never
<1>6. data \in [Watched -> Ages \cup {Never}]
  BY <1>5, SnapType DEF TypeOK
<1>7. section = "prom" => cpu \in Samples /\ hist # <<>> /\ hist[Len(hist)] = cpu
  <2>1. section = "prom" => step >= 3
    BY <1>1 DEF UPDATE, LastCall, Calls
  <2>2. QED
    BY <2>1 DEF SampleOK, TypeOK
<1>8. card \in Samples \cup {NoSample} /\ line \in Seq(Samples)
  BY SnapType DEF TypeOK
<1>9. snap' \in Snapshots
  BY <1>2, <1>6, <1>8, SnapType DEF TypeOK, Snapshots
<1>10. TypeOK'
  BY <1>1, <1>9 DEF TypeOK, MARK
<1>11. ClocksOK' /\ FailureOK'
  BY <1>1, <1>4 DEF ClocksOK, InCall, MARK, FailureOK, FAILED
<1>12. SampleOK'
  BY <1>1, <1>7 DEF SampleOK
<1>13. FreshData'
  BY <1>1, <1>3, <1>5 DEF FreshData
<1>14. CardMatchesSparkline'
  BY <1>3, <1>7, DataAssumption DEF CardMatchesSparkline
<1>15. StampIsHonest'
  <2> SUFFICES ASSUME NEW s \in Watched, snap.updated[s] # Never
               PROVE  /\ data[s] # Never
                      /\ data[s] <= snap.updated[s] + LastCall(s) * HttpTimeout
    BY <1>3 DEF StampIsHonest
  <2>1. snap.updated[s] \in Ages
    BY SnapType DEF TypeOK
  <2>2. CASE s = section
    <3>1. LastCall(s) * HttpTimeout \in Int
      BY <1>1, <2>2
    <3>2. QED
      BY <1>5, <2>1, <2>2, <3>1 DEF Ages
  <2>3. CASE s # section
    BY <2>3 DEF StampIsHonest
  <2>4. QED
    BY <2>2, <2>3
<1>16. OnlyTheFaultyAreBlamed'
  BY <1>3 DEF OnlyTheFaultyAreBlamed
<1>17. QED
  BY <1>10, <1>11, <1>12, <1>13, <1>14, <1>15, <1>16

\* Outside a section nothing but the snapshot has to be looked at.
LEMMA LeaveInv ==
    ASSUME IInv, section' \in Sources \cup {"guard", "wait", "stopped"},
           step' = 1, callTime' = 0, sectionTime' = 0,
           sinceSlow' \in Int, sinceSlow' <= SlowCap, stop' \in BOOLEAN,
           UNCHANGED <<hist, cpu>>,
           snap' \in Snapshots, StampIsHonest', CardMatchesSparkline', OnlyTheFaultyAreBlamed'
    PROVE  IInv'
<1> USE CallsLemma, TimesAssumption DEF IInv
<1>1. TypeOK'
  <2>1. section' \in Sources => step' <= MARK(section')
    BY DEF MARK
  <2>2. QED
    BY <2>1 DEF TypeOK
<1>2. ClocksOK'
  BY DEF ClocksOK, InCall
<1>3. FreshData' /\ SampleOK' /\ FailureOK'
  <2>1. section' \in Sources => step' # MARK(section')
    BY DEF MARK
  <2>2. QED
    BY <2>1, DataAssumption DEF FreshData, SampleOK, FailureOK, FAILED
<1>4. QED
  BY <1>1, <1>2, <1>3

\* Where a section leads to is a section or a step of the loop.
LEMMA FollowingLemma ==
    \A s \in Sources : Following(s) \in Sources \cup {"guard", "wait", "stopped"}
BY CallsLemma DEF Following

\* The second swap of a successful poll keeps it.
LEMMA MarkUpdatedInv == IInv /\ MarkUpdated => IInv'
<1> SUFFICES ASSUME IInv, MarkUpdated PROVE IInv'
  OBVIOUS
<1> USE CallsLemma, TimesAssumption DEF IInv
<1> DEFINE updated == [s \in Watched |-> IF s = section THEN 0 ELSE snap.updated[s]]
           errors  == [snap.errors EXCEPT ![section] = FALSE]
<1>1. /\ section \in Sources /\ step = MARK(section) /\ Leave(section)
      /\ snap' = [snap EXCEPT !.updated = updated, !.errors[section] = FALSE]
  BY DEF MarkUpdated
<1>2. /\ snap'.cpu = snap.cpu /\ snap'.history = snap.history /\ snap'.data = snap.data
      /\ snap'.updated = updated /\ snap'.errors = errors
  BY <1>1 DEF TypeOK, Snapshots
<1>3. updated \in [Watched -> Ages \cup {Never}] /\ errors \in [Sources -> BOOLEAN]
  <2>1. 0 \in Ages
    BY DEF Ages
  <2>2. updated \in [Watched -> Ages \cup {Never}]
    BY <2>1, SnapType DEF TypeOK
  <2>3. errors \in [Sources -> BOOLEAN]
    BY SnapType DEF TypeOK
  <2>4. QED
    BY <2>2, <2>3
<1>4. snap' \in Snapshots
  BY <1>1, <1>3, SnapType DEF TypeOK, Snapshots
<1>5. StampIsHonest'
  <2> SUFFICES ASSUME NEW s \in Watched, updated[s] # Never
               PROVE  /\ snap.data[s] # Never
                      /\ snap.data[s] <= updated[s] + LastCall(s) * HttpTimeout
    BY <1>2 DEF StampIsHonest
  <2>1. CASE s = section
    BY <1>1, <2>1 DEF FreshData
  <2>2. CASE s # section
    BY <2>2 DEF StampIsHonest
  <2>3. QED
    BY <2>1, <2>2
<1>6. CardMatchesSparkline'
  BY <1>2 DEF CardMatchesSparkline
<1>7. OnlyTheFaultyAreBlamed'
  BY <1>2, SnapType DEF OnlyTheFaultyAreBlamed, TypeOK
<1>8. QED
  BY <1>1, <1>4, <1>5, <1>6, <1>7, LeaveInv, FollowingLemma DEF Leave, GoTo, TypeOK

\* So does the swap of a failed one.
LEMMA MarkErrorInv == IInv /\ MarkError => IInv'
<1> SUFFICES ASSUME IInv, MarkError PROVE IInv'
  OBVIOUS
<1> USE CallsLemma, TimesAssumption DEF IInv
<1> DEFINE errors == [snap.errors EXCEPT ![section] = TRUE]
<1>1. /\ section \in Sources /\ step = FAILED /\ Leave(section)
      /\ snap' = [snap EXCEPT !.errors[section] = TRUE]
  BY DEF MarkError
<1>2. /\ snap'.cpu = snap.cpu /\ snap'.history = snap.history /\ snap'.data = snap.data
      /\ snap'.updated = snap.updated /\ snap'.errors = errors
  BY <1>1 DEF TypeOK, Snapshots
<1>3. errors \in [Sources -> BOOLEAN]
  BY SnapType DEF TypeOK
<1>4. snap' \in Snapshots
  BY <1>1, <1>3, SnapType DEF TypeOK, Snapshots
<1>5. StampIsHonest' /\ CardMatchesSparkline'
  BY <1>2 DEF StampIsHonest, CardMatchesSparkline
<1>6. OnlyTheFaultyAreBlamed'
  BY <1>1, <1>2, SnapType DEF OnlyTheFaultyAreBlamed, FailureOK, TypeOK
<1>7. QED
  BY <1>1, <1>4, <1>5, <1>6, LeaveInv, FollowingLemma DEF Leave, GoTo, TypeOK

\* The loop's own steps keep it.
LEMMA LoopInv == IInv /\ (Guard \/ Wake \/ Stop) => IInv'
<1> SUFFICES ASSUME IInv, Guard \/ Wake \/ Stop PROVE IInv'
  OBVIOUS
<1> USE CallsLemma, TimesAssumption DEF IInv
<1>1. snap' = snap /\ UNCHANGED <<sinceSlow, hist, cpu>> /\ stop' \in BOOLEAN
  BY DEF Guard, Wake, Stop, TypeOK
<1>2. StampIsHonest' /\ CardMatchesSparkline' /\ OnlyTheFaultyAreBlamed'
  BY <1>1 DEF StampIsHonest, CardMatchesSparkline, OnlyTheFaultyAreBlamed
<1>3. CASE Guard \/ Wake
  <2>1. /\ section' \in Sources \cup {"guard", "wait", "stopped"}
        /\ step' = 1 /\ callTime' = 0 /\ sectionTime' = 0
    BY <1>3 DEF Guard, Wake, GoTo
  <2>2. QED
    BY <1>1, <1>2, <2>1, LeaveInv DEF TypeOK
<1>4. CASE Stop
  <2>1. UNCHANGED <<section, step, callTime, sectionTime>>
    BY <1>4 DEF Stop
  <2>2. TypeOK' /\ ClocksOK' /\ FreshData' /\ SampleOK' /\ FailureOK'
    BY <1>1, <2>1 DEF TypeOK, ClocksOK, InCall, FreshData, SampleOK, FailureOK, MARK
  <2>3. QED
    BY <1>2, <2>2
<1>5. QED
  BY <1>3, <1>4

\* Two ages that grow together keep their distance, up to the cap.
LEMMA OlderLemma ==
    ASSUME NEW a \in Ages \cup {Never}
    PROVE  /\ Older(a) \in Ages \cup {Never}
           /\ Older(a) = Never <=> a = Never
           /\ \A b \in Ages, k \in Nat : a # Never /\ a <= b + k => Older(a) <= Older(b) + k
BY TimesAssumption DEF Older, Capped, Ages, Never

\* A snapshot stays sound while it grows older.
LEMMA AgedSnapInv ==
    ASSUME IInv, snap' = AgedSnap(snap)
    PROVE  /\ snap' \in Snapshots
           /\ StampIsHonest' /\ CardMatchesSparkline' /\ OnlyTheFaultyAreBlamed'
           /\ snap'.data = [s \in Watched |-> Older(snap.data[s])]
           /\ snap'.updated = [s \in Watched |-> Older(snap.updated[s])]
<1> USE CallsLemma, TimesAssumption DEF IInv
<1> DEFINE data    == [s \in Watched |-> Older(snap.data[s])]
           updated == [s \in Watched |-> Older(snap.updated[s])]
<1>1. snap' = [snap EXCEPT !.data = data, !.updated = updated]
  BY DEF AgedSnap
<1>2. /\ snap'.cpu = snap.cpu /\ snap'.history = snap.history /\ snap'.errors = snap.errors
      /\ snap'.data = data /\ snap'.updated = updated
  BY <1>1 DEF TypeOK, Snapshots
<1>3. /\ data \in [Watched -> Ages \cup {Never}]
      /\ updated \in [Watched -> Ages \cup {Never}]
  BY SnapType, OlderLemma DEF TypeOK
<1>4. snap' \in Snapshots
  BY <1>1, <1>3, SnapType DEF TypeOK, Snapshots
<1>5. StampIsHonest'
  <2> SUFFICES ASSUME NEW s \in Watched, updated[s] # Never
               PROVE  /\ data[s] # Never
                      /\ data[s] <= updated[s] + LastCall(s) * HttpTimeout
    BY <1>2 DEF StampIsHonest
  <2>1. /\ snap.updated[s] \in Ages \cup {Never} /\ snap.data[s] \in Ages \cup {Never}
        /\ LastCall(s) * HttpTimeout \in Nat
    BY SnapType, DataAssumption DEF TypeOK
  <2>2. snap.updated[s] # Never
    BY <2>1, OlderLemma
  <2>3. /\ snap.data[s] # Never
        /\ snap.data[s] <= snap.updated[s] + LastCall(s) * HttpTimeout
    BY <2>2 DEF StampIsHonest
  <2>4. QED
    BY <2>1, <2>2, <2>3, OlderLemma
<1>6. CardMatchesSparkline' /\ OnlyTheFaultyAreBlamed'
  BY <1>2 DEF CardMatchesSparkline, OnlyTheFaultyAreBlamed
<1>7. QED
  BY <1>2, <1>4, <1>5, <1>6

\* The passing of time keeps it: a section waits for a call that has not timed
\* out yet.
LEMMA ElapseInv == IInv /\ Elapse => IInv'
<1> SUFFICES ASSUME IInv, Elapse PROVE IInv'
  OBVIOUS
<1> USE CallsLemma, TimesAssumption DEF IInv
<1>1. /\ UNCHANGED <<section, step, stop, hist, cpu>>
      /\ callTime' = callTime + 1
      /\ sinceSlow' = IF sinceSlow < SlowCap THEN sinceSlow + 1 ELSE sinceSlow
      /\ snap' = AgedSnap(snap)
      /\ \/ InCall /\ callTime < HttpTimeout /\ sectionTime' = sectionTime + 1
         \/ section = "wait" /\ sectionTime' = sectionTime
  BY DEF Elapse
<1>2. /\ snap' \in Snapshots
      /\ StampIsHonest' /\ CardMatchesSparkline' /\ OnlyTheFaultyAreBlamed'
  BY <1>1, AgedSnapInv
<1>3. TypeOK'
  BY <1>1, <1>2 DEF TypeOK, MARK
<1>4. ClocksOK'
  <2>1. CASE InCall
    <3>1. (step - 1) * HttpTimeout \in Int
      BY <2>1 DEF InCall
    <3>2. QED
      BY <1>1, <2>1, <3>1 DEF ClocksOK, InCall, TypeOK
  <2>2. CASE section = "wait"
    BY <1>1, <2>2 DEF ClocksOK, InCall
  <2>3. QED
    BY <1>1, <2>1, <2>2
<1>5. FreshData'
  BY <1>1, DataAssumption DEF FreshData, InCall, MARK
<1>6. SampleOK' /\ FailureOK'
  BY <1>1 DEF SampleOK, FailureOK
<1>7. QED
  BY <1>2, <1>3, <1>4, <1>5, <1>6

\* Every step keeps the invariant.
LEMMA NextInv == IInv /\ [Next]_vars => IInv'
<1>1. IInv /\ UNCHANGED vars => IInv'
  BY DEF IInv, vars, TypeOK, ClocksOK, InCall, FreshData, SampleOK, FailureOK,
         StampIsHonest, CardMatchesSparkline, OnlyTheFaultyAreBlamed, MARK
<1>2. QED
  BY <1>1, CallReturnsInv, CallFailsInv, PublishInv, MarkUpdatedInv, MarkErrorInv,
     LoopInv, ElapseInv DEF Next, Thread

\* The strengthening that the theorems rest on.
LEMMA Invariance == Spec => []IInv
BY InitInv, NextInv, PTL DEF Spec

-----------------------------------------------------------------------------
(* The theorems *)

\* Every variable of the polling thread stays in its domain.
THEOREM TypeCorrect == Spec => []TypeOK
BY Invariance, PTL DEF IInv

\* The data on a panel are never older than the stamp by more than one poll, for
\* any timeout, any pauses and any pattern of failures.
THEOREM HonestStamps == Spec => []StampIsHonest
BY Invariance, PTL DEF IInv

\* Card and sparkline agree in every snapshot the GUI can read.
THEOREM CardsMatch == Spec => []CardMatchesSparkline
BY Invariance, PTL DEF IInv

\* Whatever set of endpoints is faulty, no source that avoids it is blamed.
THEOREM BlameIsRight == Spec => []OnlyTheFaultyAreBlamed
BY Invariance, PTL DEF IInv

-----------------------------------------------------------------------------
(* How long the alerts can go without a new stamp *)

\* The longest a section takes: one call that fails, the others answered.
SectionGap(s) == (LastCall(s) - 1) * ReplyTime + HttpTimeout
SlowGap       == SectionGap("kube") + SectionGap("series")
RoundGap      == SlowGap + PollSlow + PollFast

GapClocks ==
    /\ InCall => callTime <= HttpTimeout
                 /\ sectionTime <= (step - 1) * ReplyTime + callTime
    /\ section \in Sources /\ ~InCall => sectionTime <= SectionGap(section)
    /\ section = "wait" => callTime <= PollFast
    /\ section = "alerts" => sectionTime <= ReplyTime

\* When the alerts are older than the slow poll took, and than the clock was set back,
\* the guard lets them pass, and will if the clock is set back further, by `reserve`.
SlowIsDue(back, reserve) ==
    section \in {"wait", "prom", "nodes", "guard"} =>
        \/ snap.updated["alerts"] <= SlowGap + sinceSlow + back
        \/ sinceSlow > PollSlow + reserve

\* The most that can have passed since the alerts were stamped, when the section
\* has lasted `time` and the pause `pause`.
GapAt(where, time, pause) ==
    CASE where = "kube"   -> time
      [] where = "series" -> SectionGap("kube") + time
      [] where = "wait"   -> SlowGap + PollSlow + pause
      [] where = "prom"   -> RoundGap + time
      [] where = "nodes"  -> RoundGap + SectionGap("prom") + time
      [] where = "guard"  -> RoundGap + SectionGap("prom") + SectionGap("nodes")
      [] where = "alerts" -> RoundGap + SectionGap("prom") + SectionGap("nodes") + time
      [] OTHER            -> RoundGap

AlertsFollowed == "alertmanager" \notin Faulty /\ "alerts" \in Watched

\* With a clock that is never set, back and reserve are zero.
GapInv(back, reserve) ==
    /\ GapClocks
    /\ SlowIsDue(back, reserve)
    /\ snap.updated["alerts"] <= GapAt(section, sectionTime, callTime) + back

\* The gaps in numbers.
LEMMA GapLemma ==
    /\ SectionGap("prom") = 4 * ReplyTime + HttpTimeout
    /\ SectionGap("nodes") = 7 * ReplyTime + HttpTimeout
    /\ SectionGap("alerts") = HttpTimeout
    /\ SectionGap("kube") = HttpTimeout
    /\ SectionGap("series") = 5 * ReplyTime + HttpTimeout
    /\ \A s \in Sources : SectionGap(s) \in Nat
<1>1. /\ LastCall("prom") = 5 /\ LastCall("nodes") = 8 /\ LastCall("alerts") = 1
      /\ LastCall("kube") = 1 /\ LastCall("series") = 6
  BY DEF LastCall, Calls
<1>2. QED
  BY <1>1, CallsLemma, TimesAssumption DEF SectionGap

\* Calls that have been answered take at most ReplyTime each.
LEMMA AnsweredLemma ==
    ASSUME NEW s \in Sources, NEW k \in 1 .. LastCall(s)
    PROVE  /\ (k - 1) * ReplyTime \in Nat
           /\ (k - 1) * ReplyTime + ReplyTime = k * ReplyTime
           /\ (k - 1) * ReplyTime <= (LastCall(s) - 1) * ReplyTime
<1>1. LastCall(s) \in 1 .. 8
  BY CallsLemma
<1>2. PICK m \in Nat : LastCall(s) = k + m
  <2>1. LastCall(s) - k \in Nat /\ LastCall(s) = k + (LastCall(s) - k)
    BY <1>1
  <2>2. QED
    BY <2>1
<1>3. ReplyTime \in Nat
  BY TimesAssumption
<1>4. (LastCall(s) - 1) * ReplyTime = (k - 1) * ReplyTime + m * ReplyTime
  BY <1>1, <1>2, <1>3
<1>5. m * ReplyTime \in Nat /\ (k - 1) * ReplyTime \in Nat
  BY <1>3, <1>1
<1>6. QED
  BY <1>3, <1>4, <1>5

\* The bound in numbers.
LEMMA GapValues ==
    ASSUME NEW time \in Nat, NEW pause \in Nat
    PROVE  LET A == 5 * ReplyTime + 2 * HttpTimeout + PollSlow
           IN  /\ GapAt("kube", time, pause) = time
               /\ GapAt("series", time, pause) = HttpTimeout + time
               /\ GapAt("wait", time, pause) = A + pause
               /\ GapAt("prom", time, pause) = A + PollFast + time
               /\ GapAt("nodes", time, pause) = A + PollFast + 4 * ReplyTime + HttpTimeout + time
               /\ GapAt("guard", time, pause) = A + PollFast + 11 * ReplyTime + 2 * HttpTimeout
               /\ GapAt("alerts", time, pause)
                    = A + PollFast + 11 * ReplyTime + 2 * HttpTimeout + time
               /\ GapAt("stopped", time, pause) = A + PollFast
BY GapLemma, TimesAssumption DEF GapAt, RoundGap, SlowGap

\* The age of the alerts' stamp is a number.
LEMMA StampType ==
    TypeOK /\ AlertsFollowed => snap.updated["alerts"] \in Nat \cup {Never}
BY SnapType DEF TypeOK, AlertsFollowed, Ages

LEMMA InitGap ==
    ASSUME NEW k \in Nat, NEW r \in Nat, SlowCap > PollSlow + r
    PROVE  Init /\ AlertsFollowed => GapInv(k, r)
<1> SUFFICES ASSUME Init, AlertsFollowed PROVE GapInv(k, r)
  OBVIOUS
<1>1. snap.updated["alerts"] = -1
  BY DEF Init, EmptySnapshot, AlertsFollowed, Never
<1>2. GapClocks
  BY TimesAssumption, CallsLemma DEF Init, GapClocks, InCall
<1>3. SlowIsDue(k, r)
  BY TimesAssumption DEF Init, SlowIsDue
<1>4. GapAt(section, sectionTime, callTime) \in Nat
  BY GapValues, TimesAssumption DEF Init
<1>5. QED
  BY <1>1, <1>2, <1>3, <1>4 DEF GapInv

\* A call that ends, either way.
LEMMA CallGap ==
    ASSUME NEW k \in Nat, NEW r \in Nat, SlowCap > PollSlow + r
    PROVE  IInv /\ GapInv(k, r) /\ AlertsFollowed /\ (CallReturns \/ CallFails) => GapInv(k, r)'
<1> SUFFICES ASSUME IInv, GapInv(k, r), AlertsFollowed, CallReturns \/ CallFails PROVE GapInv(k, r)'
  OBVIOUS
<1> USE CallsLemma, TimesAssumption
<1>1. /\ section' = section /\ sectionTime' = sectionTime /\ sinceSlow' = sinceSlow
      /\ snap' = snap /\ callTime' = 0
      /\ section \in Sources /\ step \in 1 .. LastCall(section)
  BY DEF CallReturns, CallFails, InCall
<1>2. /\ sectionTime \in Nat /\ callTime \in Nat
      /\ callTime <= HttpTimeout /\ sectionTime <= (step - 1) * ReplyTime + callTime
      /\ section = "alerts" => sectionTime <= ReplyTime
  BY <1>1 DEF IInv, TypeOK, GapInv, GapClocks, InCall
<1>3. /\ (step - 1) * ReplyTime \in Nat
      /\ (step - 1) * ReplyTime + ReplyTime = step * ReplyTime
      /\ (step - 1) * ReplyTime <= (LastCall(section) - 1) * ReplyTime
      /\ (LastCall(section) - 1) * ReplyTime \in Int
  BY <1>1, AnsweredLemma
<1>4. sectionTime <= SectionGap(section)
  BY <1>2, <1>3 DEF SectionGap
<1>5. CallReturns => step' = step + 1 /\ sectionTime <= step * ReplyTime
  BY <1>2, <1>3 DEF CallReturns
<1>6. CallFails => step' = 0
  BY DEF CallFails, FAILED
<1>7. GapClocks'
  <2>1. InCall' => step' = step + 1 /\ sectionTime <= step * ReplyTime
    BY <1>5, <1>6 DEF InCall
  <2>2. InCall' => sectionTime' <= (step' - 1) * ReplyTime + callTime'
    <3>1. step * ReplyTime \in Int /\ step + 1 - 1 = step
      BY <1>1
    <3>2. QED
      BY <1>1, <2>1, <3>1
  <2>3. QED
    BY <1>1, <1>2, <1>4, <2>2 DEF GapClocks
<1>8. SlowIsDue(k, r)' /\ snap'.updated["alerts"] <= GapAt(section', sectionTime', callTime') + k
  <2>1. SlowIsDue(k, r)'
    BY <1>1 DEF GapInv, SlowIsDue
  <2>2. GapAt(section, sectionTime, 0) = GapAt(section, sectionTime, callTime)
    BY <1>1, <1>2, GapValues
  <2>3. QED
    BY <1>1, <2>1, <2>2 DEF GapInv
<1>9. QED
  BY <1>7, <1>8 DEF GapInv

\* A swap of data, or the event being set, does not touch a stamp.
LEMMA PublishGap ==
    ASSUME NEW k \in Nat, NEW r \in Nat, SlowCap > PollSlow + r
    PROVE  IInv /\ GapInv(k, r) /\ (Publish \/ Stop) => GapInv(k, r)'
<1> SUFFICES ASSUME IInv, GapInv(k, r), Publish \/ Stop PROVE GapInv(k, r)'
  OBVIOUS
<1>1. CASE Publish
  <2>1. UNCHANGED <<section, callTime, sectionTime, sinceSlow>>
    BY <1>1 DEF Publish
  <2>2. ~InCall /\ ~InCall'
    BY <1>1, CallsLemma DEF Publish, InCall, UPDATE, MARK
  <2>3. snap'.updated = snap.updated
    BY <1>1, SnapType DEF Publish, IInv, TypeOK, Snapshots
  <2>4. GapClocks'
    BY <2>1, <2>2 DEF GapInv, GapClocks
  <2>5. QED
    BY <2>1, <2>3, <2>4 DEF GapInv, SlowIsDue
<1>2. CASE Stop
  BY <1>2 DEF Stop, GapInv, GapClocks, SlowIsDue, InCall
<1>3. QED
  BY <1>1, <1>2

\* A section or a step of the loop that has just begun.
LEMMA BeginGap ==
    ASSUME NEW k \in Nat, NEW r \in Nat, GoTo(section'), SlowIsDue(k, r)',
           snap'.updated["alerts"] <= GapAt(section', 0, 0) + k
    PROVE  GapInv(k, r)'
<1>1. step' = 1 /\ callTime' = 0 /\ sectionTime' = 0
  BY DEF GoTo
<1>2. InCall' => sectionTime' <= (step' - 1) * ReplyTime + callTime'
  BY <1>1, TimesAssumption
<1>3. section' \in Sources => InCall'
  BY <1>1, CallsLemma DEF InCall
<1>4. GapClocks'
  BY <1>1, <1>2, <1>3, TimesAssumption DEF GapClocks
<1>5. QED
  BY <1>1, <1>4 DEF GapInv

\* The end of a section: the next one's bound takes this one in.
LEMMA MarkGap ==
    ASSUME NEW k \in Nat, NEW r \in Nat, SlowCap > PollSlow + r
    PROVE  IInv /\ GapInv(k, r) /\ AlertsFollowed /\ (MarkUpdated \/ MarkError) => GapInv(k, r)'
<1> SUFFICES ASSUME IInv, GapInv(k, r), AlertsFollowed, MarkUpdated \/ MarkError PROVE GapInv(k, r)'
  OBVIOUS
<1> USE CallsLemma, TimesAssumption
<1> DEFINE u == snap.updated["alerts"]
<1>1. section \in Sources /\ ~InCall /\ Leave(section)
  BY DEF MarkUpdated, MarkError, MARK, FAILED, InCall
<1>2. sectionTime \in Nat /\ callTime \in Nat /\ sectionTime <= SectionGap(section)
  BY <1>1 DEF IInv, TypeOK, GapInv, GapClocks
<1>3. section' = Following(section) /\ GoTo(section')
  BY <1>1 DEF Leave, GoTo
<1>4. u \in Nat \cup {-1} /\ u <= GapAt(section, sectionTime, callTime) + k
  BY StampType DEF IInv, GapInv, Never
<1>5. snap'.updated["alerts"] = IF section = "alerts" THEN 0 ELSE u
  <2>1. CASE MarkUpdated
    BY <2>1, SnapType DEF MarkUpdated, IInv, TypeOK, Snapshots, AlertsFollowed
  <2>2. CASE MarkError
    <3>1. snap'.updated = snap.updated
      BY <2>2, SnapType DEF MarkError, IInv, TypeOK, Snapshots
    <3>2. section # "alerts"
      <4>1. Uses(section) \cap Faulty # {}
        BY <2>2 DEF MarkError, IInv, FailureOK
      <4>2. Uses("alerts") = {"alertmanager"}
        BY DEF Uses, LastCall, Calls
      <4>3. QED
        BY <4>1, <4>2 DEF AlertsFollowed
    <3>3. QED
      BY <3>1, <3>2
  <2>3. QED
    BY <2>1, <2>2
<1> HIDE DEF u
<1>6. snap'.updated["alerts"] <= GapAt(section', 0, 0) + k
  <2>1. /\ section = "prom" => section' = "nodes"
        /\ section = "nodes" => section' = "guard"
        /\ section = "alerts" => section' = "kube"
        /\ section = "kube" => section' = "series"
        /\ section = "series" => section' = "wait"
    BY <1>3 DEF Following
  <2>2. CASE section = "prom"
    BY <1>2, <1>4, <1>5, <2>1, <2>2, GapLemma, GapValues
  <2>3. CASE section = "nodes"
    BY <1>2, <1>4, <1>5, <2>1, <2>3, GapLemma, GapValues
  <2>4. CASE section = "alerts"
    BY <1>5, <2>1, <2>4, GapValues
  <2>5. CASE section = "kube"
    BY <1>2, <1>4, <1>5, <2>1, <2>5, GapLemma, GapValues
  <2>6. CASE section = "series"
    BY <1>2, <1>4, <1>5, <2>1, <2>6, GapLemma, GapValues
  <2>7. QED
    BY <1>1, <2>2, <2>3, <2>4, <2>5, <2>6
<1>7. SlowIsDue(k, r)'
  <2>1. CASE section = "series"
    <3>1. sinceSlow' = 0 /\ snap'.updated["alerts"] = u
      BY <1>1, <1>5, <2>1 DEF Leave
    <3>2. u <= SlowGap + k
      BY <1>2, <1>4, <2>1, GapLemma, GapValues DEF SlowGap
    <3>3. SlowGap \in Nat
      BY GapLemma DEF SlowGap
    <3>4. QED
      BY <1>4, <3>1, <3>2, <3>3 DEF SlowIsDue
  <2>2. CASE section \in {"prom", "nodes"}
    <3>1. sinceSlow' = sinceSlow /\ snap'.updated["alerts"] = u
      BY <1>1, <1>5, <2>2 DEF Leave
    <3>2. u <= SlowGap + sinceSlow + k \/ sinceSlow > PollSlow + r
      BY <2>2 DEF GapInv, SlowIsDue, u
    <3>3. QED
      BY <3>1, <3>2 DEF SlowIsDue
  <2>3. CASE section \in {"alerts", "kube"}
    BY <1>3, <2>3 DEF Following, SlowIsDue
  <2>4. QED
    BY <1>1, <2>1, <2>2, <2>3
<1>8. QED
  BY <1>3, <1>6, <1>7, BeginGap

\* The guard lets the alerts pass before they are too old, and the pause is short.
LEMMA LoopGap ==
    ASSUME NEW k \in Nat, NEW r \in Nat, SlowCap > PollSlow + r
    PROVE  IInv /\ GapInv(k, r) /\ AlertsFollowed /\ (Guard \/ Wake) => GapInv(k, r)'
<1> SUFFICES ASSUME IInv, GapInv(k, r), AlertsFollowed, Guard \/ Wake PROVE GapInv(k, r)'
  OBVIOUS
<1> USE CallsLemma, TimesAssumption
<1> DEFINE u == snap.updated["alerts"]
<1>1. GoTo(section') /\ snap' = snap /\ sinceSlow' = sinceSlow
  BY DEF Guard, Wake, GoTo
<1>2. /\ u \in Nat \cup {-1} /\ u <= GapAt(section, sectionTime, callTime) + k
      /\ sectionTime \in Nat /\ callTime \in Nat /\ sinceSlow \in Int
      /\ section = "wait" => callTime <= PollFast
  BY StampType DEF IInv, TypeOK, GapInv, GapClocks, Never
<1>3. section \in {"wait", "guard"} /\ (u <= SlowGap + sinceSlow + k \/ sinceSlow > PollSlow + r)
  BY DEF Guard, Wake, GapInv, SlowIsDue
<1> HIDE DEF u
<1>4. SlowGap = 5 * ReplyTime + 2 * HttpTimeout
  BY GapLemma DEF SlowGap
<1>5. u <= GapAt(section', 0, 0) + k
  <2>1. CASE Guard
    <3>1. section = "guard" /\ section' = IF sinceSlow > PollSlow THEN "alerts" ELSE "wait"
      BY <2>1 DEF Guard, GoTo
    <3>2. QED
      BY <1>2, <1>3, <1>4, <3>1, GapValues
  <2>2. CASE Wake
    <3> DEFINE A == 5 * ReplyTime + 2 * HttpTimeout + PollSlow
    <3>1. section = "wait" /\ section' \in {"stopped", "prom"}
      BY <2>2 DEF Wake, GoTo
    <3>2. A \in Nat
      OBVIOUS
    <3>3. GapAt("wait", sectionTime, callTime) = A + callTime
      BY <1>2, GapValues
    <3>4. GapAt("prom", 0, 0) = A + PollFast + 0 /\ GapAt("stopped", 0, 0) = A + PollFast
      BY GapValues
    <3> HIDE DEF A
    <3>5. u <= A + callTime + k /\ callTime <= PollFast
      BY <1>2, <3>1, <3>3
    <3>6. u <= A + PollFast + k
      BY <1>2, <3>2, <3>5
    <3>7. GapAt(section', 0, 0) = A + PollFast
      BY <3>1, <3>2, <3>4
    <3>8. QED
      BY <3>6, <3>7
  <2>3. QED
    BY <2>1, <2>2
<1>6. SlowIsDue(k, r)'
  BY <1>1, <1>3 DEF SlowIsDue, u
<1>7. QED
  BY <1>1, <1>5, <1>6, BeginGap DEF u

\* Time adds to the stamp's age no more than to the bound.
LEMMA ElapseGap ==
    ASSUME NEW k \in Nat, NEW r \in Nat, SlowCap > PollSlow + r
    PROVE  IInv /\ GapInv(k, r) /\ AlertsFollowed /\ Elapse => GapInv(k, r)'
<1> SUFFICES ASSUME IInv, GapInv(k, r), AlertsFollowed, Elapse PROVE GapInv(k, r)'
  OBVIOUS
<1> USE CallsLemma, TimesAssumption
<1> DEFINE u == snap.updated["alerts"]
<1>1. /\ UNCHANGED <<section, step>>
      /\ callTime' = callTime + 1
      /\ sinceSlow' = IF sinceSlow < SlowCap THEN sinceSlow + 1 ELSE sinceSlow
      /\ snap' = AgedSnap(snap)
  BY DEF Elapse
<1>2. /\ u \in Nat \cup {-1} /\ u <= GapAt(section, sectionTime, callTime) + k
      /\ sectionTime \in Nat /\ callTime \in Nat /\ step \in Nat
      /\ sinceSlow \in Int /\ sinceSlow <= SlowCap
  BY StampType DEF IInv, TypeOK, GapInv, Never
<1>3. snap'.updated["alerts"] \in {-1} \cup 0 .. u + 1
  <2>1. snap'.updated["alerts"] = Older(u)
    BY <1>1, AgedSnapInv DEF AlertsFollowed
  <2>2. QED
    BY <1>2, <2>1 DEF Older, Capped, Never
<1>4. SlowIsDue(k, r)'
  <2>1. SlowGap \in Nat
    BY GapLemma DEF SlowGap
  <2> SUFFICES ASSUME section \in {"wait", "prom", "nodes", "guard"}
               PROVE  snap'.updated["alerts"] <= SlowGap + sinceSlow' + k \/ sinceSlow' > PollSlow + r
    BY <1>1 DEF SlowIsDue
  <2>2. u <= SlowGap + sinceSlow + k \/ sinceSlow > PollSlow + r
    BY DEF GapInv, SlowIsDue
  <2> HIDE DEF u
  <2>3. CASE sinceSlow < SlowCap /\ u <= SlowGap + sinceSlow + k
    <3>1. sinceSlow' = sinceSlow + 1
      BY <1>1, <2>3
    <3>2. CASE snap'.updated["alerts"] <= u + 1
      BY <1>2, <1>3, <2>1, <2>3, <3>1, <3>2
    <3>3. CASE snap'.updated["alerts"] = -1 /\ ~(-1 <= u + 1)
      BY <1>2, <3>3
    <3>4. QED
      BY <1>2, <1>3, <3>2, <3>3
  <2>4. CASE sinceSlow > PollSlow + r
    BY <1>1, <1>2, <2>4
  <2>5. CASE sinceSlow = SlowCap
    BY <1>1, <2>5
  <2>6. QED
    BY <1>2, <2>2, <2>3, <2>4, <2>5
<1> HIDE DEF u
<1>5. CASE section = "wait"
  <2>1. callTime < PollFast /\ sectionTime' = sectionTime
    BY <1>5 DEF Elapse, InCall
  <2>2. GapClocks'
    BY <1>1, <1>5, <2>1 DEF GapClocks, InCall, IInv, TypeOK
  <2>3. snap'.updated["alerts"] <= GapAt("wait", sectionTime, callTime + 1) + k
    BY <1>2, <1>3, <1>5, GapValues
  <2>4. QED
    BY <1>1, <1>4, <1>5, <2>1, <2>2, <2>3 DEF GapInv
<1>6. CASE InCall
  <2>1. /\ callTime < HttpTimeout /\ sectionTime' = sectionTime + 1
        /\ callTime < ReplyTime \/ Calls[section][step] \in Faulty
    BY <1>6, CallsLemma DEF Elapse, InCall
  <2>2. sectionTime' <= (step' - 1) * ReplyTime + callTime'
    <3>1. (step - 1) * ReplyTime \in Int
      BY <1>2
    <3>2. sectionTime <= (step - 1) * ReplyTime + callTime
      BY <1>6 DEF GapInv, GapClocks
    <3>3. QED
      BY <1>1, <1>2, <2>1, <3>1, <3>2
  <2>3. section = "alerts" => sectionTime' <= ReplyTime
    <3> SUFFICES ASSUME section = "alerts" PROVE sectionTime' <= ReplyTime
      OBVIOUS
    <3>1. step = 1 /\ Calls[section][step] = "alertmanager"
      BY <1>6 DEF InCall, LastCall, Calls
    <3>2. callTime < ReplyTime
      BY <2>1, <3>1 DEF AlertsFollowed
    <3>3. sectionTime' <= (1 - 1) * ReplyTime + (callTime + 1)
      BY <1>1, <2>2, <3>1
    <3>4. (1 - 1) * ReplyTime = 0
      OBVIOUS
    <3>5. QED
      BY <1>2, <2>1, <3>2, <3>3, <3>4
  <2>4. GapClocks'
    BY <1>1, <1>2, <1>6, <2>1, <2>2, <2>3 DEF GapClocks, InCall
  <2>5. snap'.updated["alerts"] <= GapAt(section, sectionTime + 1, callTime + 1) + k
    <3>1. section \in {"prom", "nodes", "alerts", "kube", "series"}
      BY <1>6 DEF InCall
    <3>2. CASE section = "prom"
      BY <1>2, <1>3, <3>2, GapValues
    <3>3. CASE section = "nodes"
      BY <1>2, <1>3, <3>3, GapValues
    <3>4. CASE section = "alerts"
      BY <1>2, <1>3, <3>4, GapValues
    <3>5. CASE section = "kube"
      BY <1>2, <1>3, <3>5, GapValues
    <3>6. CASE section = "series"
      BY <1>2, <1>3, <3>6, GapValues
    <3>7. QED
      BY <3>1, <3>2, <3>3, <3>4, <3>5, <3>6
  <2>6. QED
    BY <1>1, <1>4, <2>1, <2>4, <2>5 DEF GapInv
<1>7. QED
  BY <1>5, <1>6 DEF Elapse

LEMMA NextGap ==
    ASSUME NEW k \in Nat, NEW r \in Nat, SlowCap > PollSlow + r
    PROVE  IInv /\ GapInv(k, r) /\ AlertsFollowed /\ [Next]_vars => GapInv(k, r)'
<1>1. IInv /\ GapInv(k, r) /\ UNCHANGED vars => GapInv(k, r)'
  BY DEF vars, GapInv, GapClocks, SlowIsDue, InCall
<1>2. QED
  BY <1>1, CallGap, PublishGap, MarkGap, LoopGap, ElapseGap DEF Next, Thread

\* Wherever the thread is, the bound for that place is within that for all of them.
LEMMA GapBound ==
    ASSUME NEW k \in Nat, NEW r \in Nat, IInv, GapInv(k, r), AlertsFollowed
    PROVE  snap.updated["alerts"] <= AlertGap + k
<1>1. /\ snap.updated["alerts"] \in Nat \cup {-1}
      /\ snap.updated["alerts"] <= GapAt(section, sectionTime, callTime) + k
      /\ sectionTime \in Nat /\ callTime \in Nat
  BY StampType DEF IInv, TypeOK, GapInv, Never
<1>2. section \in Sources => sectionTime <= SectionGap(section)
  <2>1. CASE InCall
    <3>1. section \in Sources /\ step \in 1 .. LastCall(section)
      BY <2>1 DEF InCall
    <3>2. callTime <= HttpTimeout /\ sectionTime <= (step - 1) * ReplyTime + callTime
      BY <2>1 DEF GapInv, GapClocks
    <3> DEFINE answered == (step - 1) * ReplyTime
               all      == (LastCall(section) - 1) * ReplyTime
    <3>3. LastCall(section) \in 1 .. LastCall(section)
      BY <3>1, CallsLemma
    <3>4. answered \in Nat /\ all \in Nat /\ answered <= all
      BY <3>1, <3>3, AnsweredLemma
    <3>5. SectionGap(section) = all + HttpTimeout
      BY DEF SectionGap
    <3> HIDE DEF answered, all
    <3>6. sectionTime <= answered + callTime
      BY <3>2 DEF answered
    <3>7. QED
      BY <1>1, <3>2, <3>4, <3>5, <3>6, TimesAssumption
  <2>2. CASE ~InCall
    BY <2>2 DEF GapInv, GapClocks
  <2>3. QED
    BY <2>1, <2>2
<1>3. section \in Sources \cup {"guard", "wait", "stopped"}
  BY DEF IInv, TypeOK
<1>4. /\ section = "wait" => callTime <= PollFast
      /\ section = "alerts" => sectionTime <= ReplyTime
  BY DEF GapInv, GapClocks
<1> DEFINE u == snap.updated["alerts"]
<1>5. u \in Nat \cup {-1} /\ u <= GapAt(section, sectionTime, callTime) + k
  BY <1>1
<1> HIDE DEF u
<1> SUFFICES u <= AlertGap + k
  BY DEF u
<1> USE <1>1, <1>2, <1>4, <1>5, GapLemma, GapValues, TimesAssumption DEF AlertGap
<1>6. CASE section = "kube"
  BY <1>6, CallsLemma
<1>7. CASE section = "series"
  BY <1>7, CallsLemma
<1>8. CASE section = "prom"
  BY <1>8, CallsLemma
<1>9. CASE section = "nodes"
  BY <1>9, CallsLemma
<1>10. CASE section = "alerts"
  BY <1>10
<1>11. CASE section = "guard"
  BY <1>11
<1>12. CASE section = "wait"
  BY <1>12
<1>13. CASE section = "stopped"
  BY <1>13
<1>14. QED
  BY <1>3, <1>6, <1>7, <1>8, <1>9, <1>10, <1>11, <1>12, <1>13, CallsLemma

\* Whatever the timeout, the pauses and the reply times: however Prometheus and the
\* Kubernetes API fail, the alerts are stamped again within the bound.
THEOREM AlertsInTime == Spec => []AlertsKeepComing
<1>0. SlowCap > PollSlow + 0
  BY TimesAssumption
<1>1. Init => (AlertsFollowed => GapInv(0, 0))
  BY <1>0, InitGap
<1>2. IInv /\ (AlertsFollowed => GapInv(0, 0)) /\ [Next]_vars
        => (AlertsFollowed => GapInv(0, 0))'
  BY <1>0, NextGap DEF AlertsFollowed
<1>3. IInv /\ (AlertsFollowed => GapInv(0, 0)) => AlertsKeepComing
  <2>1. AlertGap \in Nat /\ AlertGap + 0 = AlertGap
    BY TimesAssumption DEF AlertGap
  <2>2. QED
    BY <2>1, GapBound DEF AlertsKeepComing, AlertsFollowed
<1>4. QED
  BY <1>1, <1>2, <1>3, Invariance, PTL DEF Spec
=============================================================================
