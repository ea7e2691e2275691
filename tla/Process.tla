------------------------------ MODULE Process ------------------------------
(***************************************************************************)
(* The process as a whole (qt/main.py, config.py) and the systemd unit     *)
(* that keeps it running (deploy/kw-dashboard.service, Restart=always):    *)
(* the configuration file is read, the collector thread started, then Qt   *)
(* and the bridge brought up next to it; when the GUI's event loop ends,   *)
(* stop() joins the thread for a while, and the process exits.             *)
(*                                                                         *)
(* load_config checks neither types nor ranges, so what is wrong in the    *)
(* file shows where it is used.  Of a process that is down nothing is      *)
(* left: nothing is persisted, and no time needs to pass in it.            *)
(***************************************************************************)
EXTENDS Freshness

CONSTANT JoinLimit    \* the longest stop() waits for the thread (collector.py:211)

ASSUME JoinAssumption == JoinLimit \in Nat

\* What the configuration file may be: absent, which gives the defaults, as good
\* as any file in order; not TOML; or with a text where a number is meant, for
\* the pauses of the collector thread or for the limits of Nav.
Files == {"absent", "malformed", "pollTimes", "navTimes"}

VARIABLES
    main,      \* "down", "starting" (the collector thread), "loop" or "joining"
    file,      \* the configuration file
    joined     \* how long stop() has been waiting

procVars == <<freshVars, main, file, joined>>

\* Slip: an error for every file that cannot be read.
LoadsOnlyAFile(f) == f \notin {"absent", "malformed"}

\* load_config: the defaults for a file that cannot be read; an error of the
\* parser is not caught.
Loads(f) == f # "malformed"

ProcInit ==
    /\ FreshInit
    /\ main = "down" /\ file \in Files /\ joined = 0

\* Somebody writes the file, which is read at the next start only.
EditFile ==
    /\ main = "down"
    /\ \E f \in Files \ {file} : file' = f
    /\ UNCHANGED <<freshVars, main, joined>>

\* main up to collector.start().  A file that does not load ends the process
\* there, and systemd's next attempt finds it as it is.
Start ==
    /\ main = "down" /\ Loads(file)
    /\ main' = "starting"
    /\ UNCHANGED <<freshVars, file, joined>>

\* Qt is up, Bridge() has taken the snapshot of the moment, QML has read it.
QtComesUp ==
    /\ main = "starting"
    /\ main' = "loop"
    /\ changed' = FALSE /\ shownStale' = StaleNow
    /\ UNCHANGED <<vars, clockVars, file, joined>>

\* Nobody looks at the bridge.
NoBridge == changed' = FALSE /\ shownStale' = StaleSources \cap Watched

\* The finally branch: Bridge() raises (log_ring_size is a text), QML does not
\* load, or the event loop ends.
Quit ==
    /\ main \in {"starting", "loop"}
    /\ main' = "joining"
    /\ Stop /\ NoBridge
    /\ UNCHANGED <<clockVars, file, joined>>

\* The process is gone, and its daemon threads with it.
Gone ==
    /\ main' = "down" /\ joined' = 0
    /\ section' = "prom" /\ step' = 1 /\ callTime' = 0 /\ sectionTime' = 0
    /\ sinceSlow' = SlowCap /\ stop' = FALSE
    /\ hist' = <<>> /\ cpu' = NoSample /\ snap' = EmptySnapshot
    /\ moved' = [s \in Watched |-> 0] /\ setBack' = 0
    /\ NoBridge
    /\ UNCHANGED <<file, steps>>

Exit ==
    /\ main = "joining" /\ (section = "stopped" \/ joined = JoinLimit)
    /\ Gone

\* A signal, which runs no finally, or an abort in Qt.
Killed == main # "down" /\ Gone

\* The first tick compares a time with a text, and an exception in a slot aborts.
TickAborts == main = "loop" /\ file = "navTimes" /\ Gone

-----------------------------------------------------------------------------
(* The threads of the running process *)

Running == main \in {"starting", "loop", "joining"}
Ticking == main = "loop" /\ file # "navTimes"

\* A text is compared with a number in _run, outside of any try.
PollerDies ==
    /\ Running /\ file = "pollTimes" /\ section \in {"guard", "wait"}
    /\ GoTo("stopped")
    /\ UNCHANGED <<sinceSlow, stop, hist, cpu, snap, clockVars, bridgeVars>>
    /\ UNCHANGED <<main, file, joined>>

PollerRuns ==
    /\ Running /\ (section = "wait" => file # "pollTimes")
    /\ \/ main = "loop" /\ ThreadStep
       \/ main # "loop" /\ (SwapStep \/ QuietStep) /\ UNCHANGED bridgeVars
    /\ UNCHANGED <<main, file, joined>>

Poller == PollerRuns \/ PollerDies

\* Time passes for the thread, or without it.
TimePasses ==
    /\ main = "starting" \/ Ticking \/ (main = "joining" /\ joined < JoinLimit)
    /\ \/ ~(section = "wait" /\ file = "pollTimes") /\ TimeStep
       \/ /\ section = "stopped" /\ main # "joining"
          /\ snap' = AgedSnap(snap)
          /\ UNCHANGED <<section, step, callTime, sectionTime, sinceSlow, stop, hist, cpu>>
          /\ UNCHANGED <<clockVars, bridgeVars>>
    /\ joined' = IF main = "joining" THEN joined + 1 ELSE joined
    /\ UNCHANGED <<main, file>>

Tick == Ticking /\ TakeOverSnapshot /\ UNCHANGED <<main, file, joined>>

ClockIsSet(d) == Running /\ SetClock(d) /\ UNCHANGED <<main, file, joined>>

ProcNext ==
    \/ EditFile \/ Start \/ QtComesUp \/ Quit \/ Exit \/ Killed \/ TickAborts
    \/ Poller \/ TimePasses \/ Tick
    \/ \E d \in ClockSteps : ClockIsSet(d)

\* systemd starts what is down, an interpreter and an event loop that run go on,
\* time passes; and Qt comes up if it is tried often enough.
ProcFairness ==
    /\ WF_procVars(Start) /\ SF_procVars(QtComesUp)
    /\ WF_procVars(Exit) /\ WF_procVars(TickAborts)
    /\ WF_procVars(Poller) /\ WF_procVars(TimePasses) /\ WF_procVars(Tick)

ProcSpec == ProcInit /\ [][ProcNext]_procVars /\ ProcFairness

-----------------------------------------------------------------------------

\* Between the two swaps of a section its data are newer than their stamp.
Unvouched == {s \in Sources : section = s /\ step = MARK(s)}
Reachable == {s \in Sources : Uses(s) \cap Faulty = {}}

\* Whatever fails, hangs, is restarted or set: the snapshot is a set of independent
\* feeds, each with data of a complete poll, a stamp set right after them and by nothing
\* else, and no blame but its own (collector.py:1-2, 41-54).
Promise == INSTANCE Feeds WITH
               AllFeeds <- Sources, Followed <- Watched, Reliable <- Reachable,
               Longest <- [s \in Sources |-> LastCall(s) * HttpTimeout], Oldest <- AgeCap,
               data <- snap.data, stamp <- snap.updated, blamed <- snap.errors,
               unvouched <- Unvouched
ImplementsFeeds == Promise!FeedsSpec

\* A clock that is set back delays the alerts, whose poll waits for last_slow, by no
\* more than that; one that is set forward never does, nor do dead endpoints, nor a
\* restart (collector.py:199).
AlertsSurviveTheClock ==
    "alertmanager" \notin Faulty /\ "alerts" \in Watched /\ section # "stopped"
        => snap.updated["alerts"] <= AlertGap + setBack

\* Whatever has failed, exited or been killed: once the configuration file stays one
\* that can be used, the panel comes back, again and again (main.py:48, 63-75, config.py:50).
PanelComesBack == <>[](file = "absent") => []<>(main = "loop")

\* As long as the panel runs with such a file, every source that needs healthy endpoints
\* only is stamped again and again, though the one thread waits in turn for calls
\* that may all fail (collector.py:56-134, 195-202).
HealthySourcesKeepComing ==
    \A s \in Watched : Uses(s) \cap Faulty = {} =>
        (<>[](main = "loop" /\ file = "absent") => []<>(snap.updated[s] = 0))

\* When contact with a source is back and stays, it no longer makes `stale` true for
\* whoever is bound to that, though it is notified of new snapshots only; with contact
\* to all of them, `stale` is cleared (bridge.py:138-140, 234).
RecoveryIsShown ==
    \A s \in StaleSources \cap Watched :
        <>[](main = "loop" /\ ~IsStale(s)) => <>[](s \notin shownStale)
=============================================================================
