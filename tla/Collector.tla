------------------------------ MODULE Collector ------------------------------
(***************************************************************************)
(* The polling thread (kw_dashboard/collector.py): one thread that asks    *)
(* three endpoints for five sources, one call after the other, and the     *)
(* snapshot it publishes for the GUI thread.                               *)
(*                                                                         *)
(* The snapshot is immutable and swapped under a lock, so whatever the GUI *)
(* thread can read is the value of `snap` between two steps here: new data *)
(* and the time stamp that vouches for them are two swaps (_update, then   *)
(* _mark).                                                                 *)
(*                                                                         *)
(* Data.  Of a source's data only their AGE is kept: the time since the    *)
(* poll that fetched them began, capped at AgeCap.  The thread never reads *)
(* an age, so an instance may follow the sources of Watched alone.         *)
(* Of the cards and sparklines only the CPU ones are kept: one sample is   *)
(* the pair that a poll appends to _cpu_hist and _mem_hist.                *)
(***************************************************************************)
EXTENDS Integers, Sequences, FiniteSets

CONSTANTS
    HttpTimeout,   \* the longest a call takes        (config.py:35)
    PollFast,      \* pause between two rounds        (config.py:33)
    PollSlow,      \* least gap between slow polls    (config.py:34)
    StaleAfter,    \* age limit of is_stale           (config.py:36)
    HistMax,       \* length of a sparkline           (collector.py:34-35)
    Samples,       \* values of a card
    NoSample,      \* a card before its first sample (0.0 in model.py:40-60)
    ReplyTime,     \* the longest an ANSWERED call takes
    Faulty,        \* endpoints whose calls may fail
    Watched,       \* sources whose ages are followed
    AgeCap,        \* the bound on ages
    SlowCap        \* the bound on the time since the last slow poll

Endpoints == {"prometheus", "kube", "alertmanager"}

\* The calls of each source's section, in order (collector.py:56-134, 161-181).
Calls == [prom   |-> <<"prometheus", "prometheus", "prometheus", "prometheus", "prometheus">>,
          nodes  |-> <<"kube", "kube", "prometheus", "prometheus", "prometheus",
                       "prometheus", "prometheus", "prometheus">>,
          alerts |-> <<"alertmanager">>,
          kube   |-> <<"kube">>,
          series |-> <<"kube", "prometheus", "prometheus", "prometheus", "prometheus",
                       "prometheus">>]
Sources == DOMAIN Calls
LastCall(s) == Len(Calls[s])
Uses(s)     == {Calls[s][i] : i \in 1 .. LastCall(s)}

ASSUME TimesAssumption ==
    /\ HttpTimeout \in Nat \ {0}
    /\ PollFast \in Nat /\ PollSlow \in Nat /\ StaleAfter \in Nat
    /\ ReplyTime \in 0 .. HttpTimeout
    /\ AgeCap \in Nat
    /\ SlowCap \in Nat /\ SlowCap > PollSlow
ASSUME DataAssumption ==
    /\ HistMax \in Nat \ {0}
    /\ Samples # {} /\ NoSample \notin Samples
    /\ Faulty \subseteq Endpoints
    /\ Watched \subseteq Sources

Ages  == 0 .. AgeCap
Never == -1    \* no entry in `updated`, or no data yet

VARIABLES
    section,       \* the source being polled, or what the loop does in between
    step,          \* progress within a section, see below
    callTime,      \* how long the call in flight, or the pause, has lasted
    sectionTime,   \* how long the section has lasted
    sinceSlow,     \* time since last_slow, up to SlowCap
    stop,          \* the _stop event
    hist,          \* the deque _cpu_hist (and _mem_hist)
    cpu,           \* the sample read by the poll of prom under way
    snap           \* the published snapshot

vars == <<section, step, callTime, sectionTime, sinceSlow, stop, hist, cpu, snap>>

\* Steps of a section: 1 .. LastCall(s) is the call in flight, one more the
\* _update, two more the _mark of success; FAILED is the except branch.
FAILED       == 0
UPDATE(s)    == LastCall(s) + 1
MARK(s)      == LastCall(s) + 2

InCall == section \in Sources /\ step \in 1 .. LastCall(section)

\* Snapshot() (model.py:40-60)
EmptySnapshot == [cpu     |-> NoSample,
                  history |-> <<>>,
                  data    |-> [s \in Watched |-> Never],
                  updated |-> [s \in Watched |-> Never],
                  errors  |-> [s \in Sources |-> FALSE]]

Init ==
    /\ section = "prom" /\ step = 1
    /\ callTime = 0 /\ sectionTime = 0
    /\ sinceSlow = SlowCap          \* last_slow = 0.0 (collector.py:196)
    /\ stop = FALSE
    /\ hist = <<>> /\ cpu = NoSample
    /\ snap = EmptySnapshot

-----------------------------------------------------------------------------
(* The calls of a section *)

\* Starting a section, or the loop's own steps, resets the clocks of the last.
GoTo(where) ==
    /\ section' = where /\ step' = 1
    /\ callTime' = 0 /\ sectionTime' = 0

\* Slip: a list instead of a deque with a limit.
AppendForever(h, x) == Append(h, x)

\* Slip: appendleft.
AppendFirst(h, x) ==
    IF Len(h) < HistMax THEN <<x>> \o h ELSE <<x>> \o SubSeq(h, 1, HistMax - 1)

\* deque(maxlen=HistMax).append
AppendBounded(h, x) == IF Len(h) < HistMax THEN Append(h, x) ELSE Append(Tail(h), x)

\* A call is answered.  The second scalar of prom puts the sample on the
\* sparkline at once, three calls before anything is published
\* (collector.py:58-61).
CallReturns ==
    /\ InCall /\ callTime <= ReplyTime
    /\ step' = step + 1 /\ callTime' = 0
    /\ IF section = "prom" /\ step = 1 THEN cpu' \in Samples ELSE UNCHANGED cpu
    /\ hist' = IF section = "prom" /\ step = 2 THEN AppendBounded(hist, cpu) ELSE hist
    /\ UNCHANGED <<section, sectionTime, sinceSlow, stop, snap>>

\* Slip: nothing catches the exception, and the thread is gone.
CallKillsTheThread ==
    /\ InCall /\ Calls[section][step] \in Faulty
    /\ GoTo("stopped")
    /\ UNCHANGED <<sinceSlow, stop, hist, cpu, snap>>

\* A call fails: no connection, an error reply, a timeout after HttpTimeout, or
\* a reply that cannot be parsed.  Any of them leaves the section by its except.
CallFails ==
    /\ InCall /\ Calls[section][step] \in Faulty
    /\ step' = FAILED /\ callTime' = 0
    /\ UNCHANGED <<section, sectionTime, sinceSlow, stop, hist, cpu, snap>>

Capped(age) == IF age < AgeCap THEN age ELSE AgeCap

\* _update: one swap with everything the section fetched.
Publish ==
    /\ section \in Sources /\ step = UPDATE(section)
    /\ step' = MARK(section)
    /\ snap' = [snap EXCEPT
                  !.cpu     = IF section = "prom" THEN cpu ELSE @,
                  !.history = IF section = "prom" THEN hist ELSE @,
                  !.data    = [s \in Watched |-> IF s = section THEN Capped(sectionTime) ELSE @[s]]]
    /\ UNCHANGED <<section, callTime, sectionTime, sinceSlow, stop, hist, cpu>>

\* What follows a section: _poll_prom runs prom and nodes, _poll_slow the rest.
Following(s) ==
    CASE s = "prom"   -> "nodes"
      [] s = "nodes"  -> "guard"
      [] s = "alerts" -> "kube"
      [] s = "kube"   -> "series"
      [] s = "series" -> "wait"

\* `last_slow = time.time()` follows _poll_slow (collector.py:200-201).
Leave(s) ==
    /\ GoTo(Following(s))
    /\ sinceSlow' = IF s = "series" THEN 0 ELSE sinceSlow
    /\ UNCHANGED <<stop, hist, cpu>>

\* _mark: a second swap, with the stamp or with the error.
MarkUpdated ==
    /\ section \in Sources /\ step = MARK(section)
    /\ snap' = [snap EXCEPT
                  !.updated = [s \in Watched |-> IF s = section THEN 0 ELSE @[s]],
                  !.errors[section] = FALSE]
    /\ Leave(section)

\* Slip: the time of the last attempt instead of the last success.
MarkErrorWithStamp ==
    /\ section \in Sources /\ step = FAILED
    /\ snap' = [snap EXCEPT
                  !.updated = [s \in Watched |-> IF s = section THEN 0 ELSE @[s]],
                  !.errors[section] = TRUE]
    /\ Leave(section)

\* Slip: one error for all that the slow poll asks for.
MarkErrorOnAll ==
    /\ section \in Sources /\ step = FAILED
    /\ snap' = [snap EXCEPT !.errors = [s \in Sources |-> @[s] \/ s \notin {"prom", "nodes"}]]
    /\ Leave(section)

MarkError ==
    /\ section \in Sources /\ step = FAILED
    /\ snap' = [snap EXCEPT !.errors[section] = TRUE]
    /\ Leave(section)

-----------------------------------------------------------------------------
(* The loop of _run *)

\* Slip: last_slow is set whenever it is looked at.
GuardThatForgets ==
    /\ section = "guard"
    /\ GoTo(IF sinceSlow > PollSlow THEN "alerts" ELSE "wait")
    /\ sinceSlow' = 0
    /\ UNCHANGED <<stop, hist, cpu, snap>>

Guard ==
    /\ section = "guard"
    /\ GoTo(IF sinceSlow > PollSlow THEN "alerts" ELSE "wait")
    /\ UNCHANGED <<sinceSlow, stop, hist, cpu, snap>>

\* _stop.wait returns after PollFast, or at once when the event is set; the loop
\* tests the event only here.
Wake ==
    /\ section = "wait" /\ (callTime = PollFast \/ stop)
    /\ GoTo(IF stop THEN "stopped" ELSE "prom")
    /\ UNCHANGED <<sinceSlow, stop, hist, cpu, snap>>

\* Collector.stop, called by main.py when the GUI's event loop ends.
Stop ==
    /\ ~stop /\ stop' = TRUE
    /\ UNCHANGED <<section, step, callTime, sectionTime, sinceSlow, hist, cpu, snap>>

Older(age)  == IF age = Never THEN Never ELSE Capped(age + 1)
AgedSnap(n) == [n EXCEPT !.data    = [s \in Watched |-> Older(@[s])],
                         !.updated = [s \in Watched |-> Older(@[s])]]

\* Time passes only while the thread waits for a reply or sleeps: its own steps
\* take none next to those.
Elapse ==
    /\ \/ /\ InCall /\ callTime < HttpTimeout
          /\ callTime < ReplyTime \/ Calls[section][step] \in Faulty
          /\ sectionTime' = sectionTime + 1
       \/ /\ section = "wait" /\ callTime < PollFast
          /\ UNCHANGED sectionTime
    /\ callTime' = callTime + 1
    /\ sinceSlow' = IF sinceSlow < SlowCap THEN sinceSlow + 1 ELSE sinceSlow
    /\ snap' = AgedSnap(snap)
    /\ UNCHANGED <<section, step, stop, hist, cpu>>

Thread == CallReturns \/ CallFails \/ Publish \/ MarkUpdated \/ MarkError \/ Guard \/ Wake

Next == Thread \/ Stop \/ Elapse

\* The thread runs, and time passes; nothing says that a call is ever answered,
\* only that it ends (the timeout of http.py:38).
Fairness == WF_vars(Thread) /\ WF_vars(Elapse)

Spec == Init /\ [][Next]_vars /\ Fairness

-----------------------------------------------------------------------------
(* Invariants *)

Snapshots == [cpu     : Samples \cup {NoSample},
              history : Seq(Samples),
              data    : [Watched -> Ages \cup {Never}],
              updated : [Watched -> Ages \cup {Never}],
              errors  : [Sources -> BOOLEAN]]

\* Every variable stays in its domain: no section runs past its mark, no clock
\* past its limit, and no sparkline grows past its deque.
TypeOK ==
    /\ section \in Sources \cup {"guard", "wait", "stopped"}
    /\ step \in Nat /\ (section \in Sources => step <= MARK(section))
    /\ callTime \in Nat /\ sectionTime \in Nat
    /\ sinceSlow \in Int /\ sinceSlow <= SlowCap    \* negative if last_slow is in the future
    /\ stop \in BOOLEAN
    /\ hist \in Seq(Samples) /\ Len(hist) <= HistMax
    /\ cpu \in Samples \cup {NoSample}
    /\ snap \in Snapshots

\* A time stamp vouches for data of the poll that set it: the data on a panel
\* are never older than the stamp that is_stale reads by more than one poll of
\* that source, whichever calls failed in between (collector.py:41-54 are two
\* swaps, and the GUI reads between them).
StampIsHonest ==
    \A s \in Watched : snap.updated[s] # Never =>
        /\ snap.data[s] # Never
        /\ snap.data[s] <= snap.updated[s] + LastCall(s) * HttpTimeout

\* The number on the card is the last point of the sparkline next to it, though
\* a poll that fails half way leaves a point in the deque that no card ever
\* showed (collector.py:60-61 append before the last three calls).
CardMatchesSparkline ==
    IF snap.cpu = NoSample
    THEN snap.history = <<>>
    ELSE snap.history # <<>> /\ snap.history[Len(snap.history)] = snap.cpu

\* "each source fails independently" (collector.py:1-2): an endpoint that never
\* fails is never blamed, whatever the others do.
OnlyTheFaultyAreBlamed ==
    \A s \in Sources : Uses(s) \cap Faulty = {} => ~snap.errors[s]

\* How long the alerts can go without a new stamp: the rest of the slow poll,
\* the time the guard lets pass, and one more round of fast polls.  Each
\* section waits HttpTimeout for the call that fails, ReplyTime for the rest.
AlertGap == 4 * HttpTimeout + 17 * ReplyTime + PollSlow + PollFast

\* A dead or hanging Prometheus or Kubernetes API delays the alerts, which
\* share their thread, by a bounded time only.
AlertsKeepComing ==
    "alertmanager" \notin Faulty /\ "alerts" \in Watched
        => snap.updated["alerts"] <= AlertGap

=============================================================================
