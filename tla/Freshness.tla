----------------------------- MODULE Freshness -----------------------------
(***************************************************************************)
(* How the age of the data is told: the collector thread (Collector.tla),  *)
(* the wall clock its stamps are read from, the bridge's 500 ms tick,      *)
(* which takes over a snapshot that differs from its last one and emits    *)
(* snapshotChanged, and the `stale` property, notified by that signal      *)
(* (qt/bridge.py:138-140, 227-234).                                        *)
(*                                                                         *)
(* Every stamp is time.time(), and somebody may set the clock.  Ages stay  *)
(* the true ones here; next to a stamp stands by how much the clock has    *)
(* been moved since.  Waits and timeouts run on the monotonic clock.       *)
(***************************************************************************)
EXTENDS Collector

CONSTANTS
    ClockSteps,   \* by how much the clock may be moved, forward or back
    MaxSteps      \* bounds how often

\* What is capped stays beyond the limit it is compared with.
ASSUME ClockAssumption ==
    /\ ClockSteps \subseteq Int /\ MaxSteps \in Nat
    /\ \A d \in ClockSteps : /\ SlowCap + MaxSteps * d > PollSlow
                            /\ AgeCap + MaxSteps * d > StaleAfter

VARIABLES
    moved,        \* by how much the clock has moved since each source was stamped
    setBack,      \* by how much it has been set back altogether
    steps,        \* how often it has been moved
    changed,      \* the snapshot differs from Bridge._last_snap
    shownStale    \* what made bridge.stale true when a binding to it last read it

clockVars  == <<moved, setBack, steps>>
bridgeVars == <<changed, shownStale>>
freshVars  == <<vars, clockVars, bridgeVars>>

\* Slip: a source that was never reached is not old.
IsStaleOnceStamped(s) ==
    snap.updated[s] # Never /\ snap.updated[s] + moved[s] > StaleAfter

\* is_stale
IsStale(s) == snap.updated[s] = Never \/ snap.updated[s] + moved[s] > StaleAfter

\* _STALE_SOURCES, and Bridge._stale: a value of the property stands for the set of
\* the sources that are stale, so that an instance may follow some of them; the code's
\* any(...) is that this set is not empty, where all of them are watched.
StaleSources  == {"prom", "nodes", "alerts", "kube"}
StaleNow      == {s \in StaleSources \cap Watched : IsStale(s)}
AllAreWatched == StaleSources \subseteq Watched

FreshInit ==
    /\ Init
    /\ moved = [s \in Watched |-> 0] /\ setBack = 0 /\ steps = 0
    /\ changed = FALSE
    /\ shownStale = StaleNow

\* What a swap does to the comparison with the last snapshot: a new stamp always
\* differs; data and error texts may be what they were before, and a first error
\* never is.
Differs ==
    CASE MarkUpdated -> changed' = TRUE
      [] MarkError /\ ~snap.errors[section] -> changed' = TRUE
      [] OTHER -> changed' \in {changed, TRUE}

\* The two swaps, and what the thread does in between.
SwapStep ==
    /\ Publish \/ MarkUpdated \/ MarkError
    /\ moved' = [s \in Watched |-> IF MarkUpdated /\ s = section THEN 0 ELSE moved[s]]
    /\ UNCHANGED <<setBack, steps>>

QuietStep ==
    /\ CallReturns \/ CallFails \/ Guard \/ Wake
    /\ UNCHANGED clockVars

ThreadStep ==
    \/ SwapStep /\ Differs /\ UNCHANGED shownStale
    \/ QuietStep /\ UNCHANGED bridgeVars

StopStep == Stop /\ UNCHANGED <<clockVars, bridgeVars>>

TimeStep == Elapse /\ UNCHANGED <<clockVars, bridgeVars>>

\* The clock is set: all stamps, and last_slow, look older or younger by d.
SetClock(d) ==
    /\ steps < MaxSteps /\ steps' = steps + 1
    /\ moved' = [s \in Watched |-> moved[s] + d]
    /\ setBack' = IF d < 0 THEN setBack - d ELSE setBack
    /\ sinceSlow' = IF sinceSlow + d < SlowCap THEN sinceSlow + d ELSE SlowCap
    /\ UNCHANGED <<section, step, callTime, sectionTime, stop, hist, cpu, snap, bridgeVars>>

\* Slip: the snapshot is taken over and QML is not told.
TakeOverSilently ==
    /\ changed /\ changed' = FALSE
    /\ UNCHANGED <<vars, clockVars, shownStale>>

\* The end of Bridge._tick.
TakeOverSnapshot ==
    /\ changed /\ changed' = FALSE
    /\ shownStale' = StaleNow
    /\ UNCHANGED <<vars, clockVars>>

FreshNext ==
    \/ ThreadStep \/ StopStep \/ TimeStep \/ TakeOverSnapshot
    \/ \E d \in ClockSteps : SetClock(d)

FreshFairness ==
    /\ WF_freshVars(ThreadStep)
    /\ WF_freshVars(TimeStep)
    /\ WF_freshVars(TakeOverSnapshot)

FreshSpec == FreshInit /\ [][FreshNext]_freshVars /\ FreshFairness

-----------------------------------------------------------------------------

\* What does not count as stale is fresh: whatever failed, and however the clock
\* was set, the data are at most as old as the limit, the poll that fetched them and the time
\* the clock was set back (collector.py:24, 41-54).
FreshIsFresh ==
    \A s \in Watched :
        ~IsStale(s) =>
            /\ snap.data[s] # Never
            /\ snap.data[s] <= StaleAfter + LastCall(s) * HttpTimeout + setBack

\* "A dashboard confidently showing five-minute-old numbers is worse than one
\* admitting it lost contact" (design, section 6, Staleness): data that stay old are
\* said to be.  They need not be: once every call fails as it did before, no snapshot
\* differs from the last, and nothing notifies `stale`.
OldDataAreAdmitted ==
    AllAreWatched /\ <>[](StaleNow # {} /\ ~stop) => <>[](shownStale # {})
=============================================================================
