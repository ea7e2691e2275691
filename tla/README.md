# KW-Dashboard in TLA+

KW-Dashboard is a wall panel for a k3s cluster: one Python process that polls
Prometheus, Alertmanager and the Kubernetes API and shows four pages that turn
by themselves, with detail views below them, on a touch screen. This directory
models what happens in it over time. TLC checks the models on small instances;
TLAPS proves what matters most for every instance. `PROJECT.json` lists the
runs, the source lines every definition translates, the hazards and the theorems.

Paths below are relative to `src/kw_dashboard/`; "the design" is
`src/docs/superpowers/specs/2026-08-16-kw-dashboard-design.md`.

## 1. The system and its parts

| Part | State | Operations | Talks to | What makes it correct |
|---|---|---|---|---|
| `nav.py` | page, view stack, last touch, last rotation, pre-empted | touch, push, pop, jump_to_page, preempt_for_alert, clear_preempt, tick | called by the bridge only | never moves under a user's finger; comes back to the carousel; a critical alert seizes it |
| `qt/bridge.py`, nav half | last nav state, alert latch | 500 ms `_tick`, navigation slots | owns the Nav, reads the collector's snapshot, emits `navChanged` | what QML shows is the Nav; one takeover per episode |
| `qml/` | what is on the screen, page-local state (`loaded`, lists) | presses, taps, drags, swipes | calls the slots; re-reads properties when they are notified | rows, totals and lists of different pages agree; no page loads for ever |
| `collector.py` | snapshot, sparkline deques, stop event | the polling loop: `_poll_prom`, `_node_and_ns`, `_poll_slow`, `_poll_series`, `_update`, `_mark`, `stop` | the three HTTP clients; its snapshot is read by the bridge | stamps vouch for the data; sources fail independently; the thread survives and ends |
| `qt/bridge.py`, fetch half | one thread per fetch, the log stream | `fetchPods`, `fetchLogs`, `podsFetched`, `logsFetched` | Kubernetes client, the pages that are connected | an answer reaches the page it is for, and no other |
| `logstream.py` | ring buffer, follow flag, position | append, scroll, jump, visible | the bridge appends and reads all lines | nothing lost but the oldest; a paused window stands still |
| `sources/`, `model.py` | none | parse, rank, join | called by the collector and the fetch threads | no node shows another's load; a critical alert is listed first |
| `series.py` | none | downsample, stats | called by the collector | ends kept, order kept, evenly thinned |
| `qt/main.py`, `config.py`, the systemd unit | which phase the process is in; the configuration file | start, event loop, `stop()` and join, exit; systemd restarts it | starts and stops the collector; reads the file once | the panel comes back whatever ended it |
| `sorting.py`, `logfmt.py`, drawing | none of their own | | | see section 7 |

Three kinds of threads (GUI, collector, one per fetch) share state through one
immutable snapshot that is swapped under a lock, a deque, and signals that Qt
queues. What is hard:

- **Stale copies.** QML shows a copy of the Nav that is refreshed by `navChanged`
  only, and `_tick` emits it by comparing with the last *tick*, not with what QML
  was told. `stale` depends on the clock and is notified by the snapshot.
- **A clock that is set.** Stamps, the slow poll's `last_slow` and the Nav read the wall clock.
- **Ends and restarts.** Nothing is persisted: an abort, a signal, a failed start or an exit
  with the daemon thread in a call leaves nothing but the configuration file.
- **Timers against people and alerts.** Dwell, pause and idle reset interact with
  touches, drill-downs and takeovers, in every order.
- **Partial failure.** A poll is up to eight calls. Each may fail or take its whole
  timeout, after earlier ones have had an effect, and all sources share one thread.
- **Late and early answers.** Fetches outlive the pages that asked for them.
- **Cluster against poll.** Nodes and pods change between the calls of one poll.
- **Limits.** Rings that wrap, tables that overflow, rounding at the halves.

`PROJECT.json` names each hazard at its line, with the properties aimed at it.

## 2. The modules

| Module | Models | Uses |
|---|---|---|
| `Nav` | every method of `Nav` as an operator over a record | |
| `Carousel` | *abstract*: the promise to a passer-by (turn, grab, go home, let go) | |
| `Screen` | tick, slots, gestures, alert publications, time | `EXTENDS Nav`; implements `Carousel` |
| `Collector` | the polling thread, call by call and swap by swap | |
| `Freshness` | collector thread + wall clock + tick + `stale` | `EXTENDS Collector` |
| `Feeds` | *abstract*: the promise of the snapshot to its reader (new data, their stamp, blame), source by source | |
| `Process` (`MCProcess`) | `main`, the configuration file, exits, kills, systemd | `EXTENDS Freshness`; implements `Feeds` |
| `Ring` | `deque(maxlen)` | |
| `LogStream` | `logstream.py` | `EXTENDS Ring` |
| `Pods` | pod fetch threads, `podsFetched`, NamespaceDetail.qml | |
| `Logs` | log fetch threads, the shared stream, Logs.qml | `EXTENDS Ring` |
| `Table` | a QML table with a fixed number of slots | |
| `Sorting` | Python's `sorted` and JavaScript's `sort` | |
| `AlertList` (`MCAlertList`) | Alertmanager's answer, parsing, ranking, the page | `EXTENDS Table, Sorting` |
| `Inventory` (`MCInventory`) | `_node_and_ns` against a changing cluster, and the numbers of four pages | `EXTENDS Table, Sorting` |
| `Series` | `parse_matrix`, `downsample`, `stats` of one series | `EXTENDS Sorting` |
| `ScreenProofs`, `CollectorProofs`, `ProcessProofs`, `LogStreamProofs`, `PodsProofs`, `LogsProofs`, `PagesProofs`, `SeriesProofs` | the theorems | each `EXTENDS` its module; `PagesProofs` both `Inventory` and `AlertList` |

A definition that begins with the comment "Slip:" is not part of a model. It is
what a plausible bug would make of the definition that follows; for each property
`PROJECT.json` ("mutants") names the slip that breaks it.

### How state and actions correspond to the code

**Nav and Screen.** `nav` is the `Nav` object. Its two timestamps are kept as ages,
because nav.py only compares ages with limits; an age is capped just past the
largest limit it is compared with, which loses nothing. `lastNavState`,
`preemptActive` and `lastSnap` are the bridge's fields of those names (of a snapshot
only the level of its alerts is kept). `shown` is what QML last read, so a control
exists, and leads where it leads, according to `shown` and not to `nav`. `OnTick` is
the navigation half of `Bridge._tick`: `Nav.tick`, the takeover on top, the latch, the comparison,
the emission, one step, as it runs without interruption in the GUI thread.
`Press` is the passive handler of Main.qml that calls `touch()`; the gestures of the
release are `PushView`, `PopView`, `TapDot`, `Swipe` and `ClearPreemptSlot`, one per
slot. Ticks, gestures, publications and time interleave freely: the event loop may
be late by any amount.

**Collector.** `section`/`step` is the program counter: which source, which of its
calls, then `_update`, then `_mark`. `CallReturns`/`CallFails` end a call, `Publish`
and `MarkUpdated`/`MarkError` are the two swaps of the snapshot, `Guard` is the
`last_slow` test, `Wake` the end of `_stop.wait`. A source's data are represented by their age.
Time passes in `Elapse`, within calls and the pause only.

**Freshness** adds the snapshot half of the tick and the wall clock. Ages stay the true
ones; `moved` says for every stamp by how much the clock has been set since it was taken, and
`setBack` by how much it has been set back in all, so that `is_stale`, which subtracts two
readings of the clock, is computed from both. `sinceSlow` is such a difference itself and
moves with the clock. `changed` is the comparison with `_last_snap`, `shownStale` is `stale` as a
binding to it last read it (no page has one, see section 6). The code's `any(...)` over its four sources is
represented by the set of those that are stale: `stale` is true when the set is not empty. An instance that
watches all four (`claim_old_data_admitted`) has the property itself; one that watches fewer (`process`)
follows the members it watches, says what it says per source, and never of the property as a whole.

**Process** runs Freshness inside `main`: `main` is the place in `main()` (down, starting,
event loop, joining), `file` the kind of configuration file. `Start` is `load_config` and
`collector.start()`, `QtComesUp` the rest up to `app.exec()`, `Quit` the finally branch with
`stop()`, `Exit` the end of its join, by the thread's end or after `JoinLimit`. `Killed` is a signal or an
abort at any point. A file that is not TOML keeps `Start` disabled (`load_config` raises, and
systemd's next attempt finds the same file); a text where a number is meant ends the collector
thread in its first guard (`PollerDies`) or aborts the GUI in its first tick (`TickAborts`). With
the process its memory goes: `Gone` is `Init` again.

**LogStream.** `buf`, `follow` and `end` are the object's fields. A line is the number
of its arrival, which makes order and gaps visible.

**Pods, Logs.** A thread is idle, in its call, or about to emit. Qt queues a signal of
another thread: `queue` holds what is on its way to the page, and a page that is not
connected when the signal is emitted, or is gone when it is delivered, does not get it. Logs.qml
connects only once it is complete, after `fetchLogs` has started its thread.

**AlertList, Inventory.** The cluster and Alertmanager are external: they change at any
time, between any two calls of a poll. A poll's local variables are `poll`; one step
publishes them. What the pages show is defined over `snap`, as their bindings are.
A measured value is represented by the address it was measured at, and a node's row takes
the sample that `build_ip_map` assigns to it, so that a wrong join puts a foreign address in a row.
`SortedBy` gives each element the place that is the number of elements before it, for a strict and
total order; `rank_alerts` is stable, so that its order is the rank and, between equals, the old place.
Names in AlertList carry the prefix `Alert` where Inventory has the same name, because the proofs
about both, which share the lemmas on sorting, are in one module.

**Series.** `answer` is consumed point by point; `Pick` is one index of
`round(i * step)`, where a tie may go either way, because of floating point.

## 3. The runs

| Run | Instance | Shows |
|---|---|---|
| `screen` | limits 1 < 2 < 3, two objects per detail view | `ScreenLag`, `StackIsADrillDown`, `LatchIsCurrent`, `TickRespectsTheUser`, `EveryEpisodeSeizesTheNav`; refinement of `Carousel`; liveness `ScreenCatchesUp`, `CarouselResumes` |
| `collector` | timeout 1, two sample values, deque of 2, Prometheus and Kubernetes faulty, nodes and alerts watched | `StampIsHonest`, `CardMatchesSparkline`, `AlertsKeepComing` |
| `process` | two faulty endpoints, alerts watched, four kinds of files, the clock set once by one unit either way, a join of one unit | `FreshIsFresh`, `AlertsSurviveTheClock`; refinement of `Feeds`; liveness `PanelComesBack`, `HealthySourcesKeepComing`, `RecoveryIsShown` |
| `log_stream` | ring of 6, 20 lines, batches up to 4, windows of 1 to 7 rows | `BufferIsTheTail`, `WindowIsFull`, `PausedViewStays` |
| `pods` | two namespaces, three fetches at a time | `ListIsOfThisNamespace`, `PageHearsItsFetch`; liveness `EveryPageLoads` |
| `logs` | two containers, three fetches, ring of 3 | `OwnLinesAreShown`; liveness `HeardFetchesLoad` |
| `alert_list` | five alerts in two slots | `TakeoverShowsItsAlert`, `ListIsWhatFires` |
| `inventory` | three nodes, two of one address; two pods; two changes | `PagesAgree`, `LoadIsOfTheNode`, `ProblemsComeFirst`; liveness `SnapshotCatchesUp` |
| `series` | up to seven points, limits 1 to 5 | `PicksAscend`, `EndsArePicked`, `GapsAreEven`, `LegendIsOfTheChart` |
| `claim_takeover_halts`, `claim_failure_differs` | | see section 6 |
| `claim_old_data_admitted` | all four sources of `stale` watched, all endpoints faulty, ages up to one past the limit | see section 6 |

`TypeOK` is checked for Screen, Collector, LogStream, Pods and Logs. Series, Inventory and
AlertList have properties that say more of the same variables; Freshness and Process add a few
flags to Collector's state.

**Why the bounds are enough.** *Screen*: ages matter only against three limits, so any
three that are in the order of the defaults show every order of events; the stack
needs no bound, because rows lead from kind to kind without a cycle. *collector*: the
deque wraps (2 entries, unlimited polls), and the age cap lies beyond both bounds that the
properties state: eight calls of one unit for the nodes' data, and `AlertGap` = 6, which is
tight (5 is exceeded). With the defaults of 8, 5 and 20 s and instant answers `AlertGap` is 57 s; that
it holds for them too is theorem `AlertsInTime`. *process*: one step of the clock in each direction
is the unit that `FreshIsFresh` and `AlertsSurviveTheClock` allow for, the caps lie beyond the
limits even after it, and restarts, kills and edits are unlimited; that the process never deadlocks is checked. Only the alerts are watched, because the ages
of all four sources, next to a clock that is set and a process that is killed anywhere, are more than 20 million states;
what it says of a stamp it says per source, and theorem `FreshnessIsReal` is for any number of watched sources. Nor do
calls take time unless they hang (`ReplyTime` = 0) in `collector` and `process`; the theorems `HonestStamps`,
`FreshnessIsReal` and those of the alerts are for any `ReplyTime`. `AlertsKeepComing` and `AlertsSurviveTheClock` say
nothing before the first stamp; that it comes is `HealthySourcesKeepComing`. *claim_old_data_admitted*: all four
sources are watched, for one that was never stamped would keep `stale` true. *log_stream*: the ring wraps more
than twice, windows are smaller than, equal to and larger than it. *pods*, *logs*: an
answer to an earlier page of the same and of another name, and a third fetch in
flight with both; the ring of logs holds as many fetches as can be under way, and wraps after.
*alert_list*: two critical alerts compete for the one slot next to the note; a tie, a missing
start, an unknown and a missing severity are among the five. *inventory*: two changes suffice for one before
and one after any call. *series*: seven points to five and fewer produce fractional steps
with and without exact halves; it is the contract of the function, for the panel asks Prometheus for 61 points with
a limit of 120.

`CHECK_DEADLOCK FALSE` is set for `collector` and `claim_old_data_admitted`, whose thread ends when it
is stopped, and for `series`, a computation that ends.

## 4. Fairness

- *Screen*: weak fairness of `OnTick` (a QTimer fires while the event loop lives) and
  of `Elapse` (time passes). The user and the cluster owe nothing.
- *Freshness*: weak fairness of the thread, of time, and of the tick that takes over a
  snapshot. No call need ever be answered; the timeout ends it, and each section catches every
  exception. Nobody needs to set the clock, to stop the process or to edit the file.
- *Process*: the same within a running process, and weak fairness of `Start` (systemd,
  `Restart=always`), of `Exit` (a join has a limit) and of `TickAborts` (the timer fires). Strong
  fairness of `QtComesUp`: the process may be killed before Qt is up any number of times, but not
  for ever. Nothing is assumed of `Quit` or `Killed`.
- *Pods, Logs*: weak fairness of delivery and of `Connect` (the event loop) and of each
  fetch thread. `_fetch_pods_thread` and `_fetch_logs_thread` emit after `except Exception`,
  so that a thread ends by an answer or a failure.
- *Inventory*: strong fairness of every call's success: whatever fails, each succeeds
  again and again. That is an assumption about the network and no promise of the code;
  without it nothing could be shown.

## 5. Theorems

TLAPS proves, for every value of the constants under the named assumptions of the
modules:

- **Screen** (`ScreenProofs`): `TypeOK`, `ScreenLag`, `StackIsADrillDown`,
  `LatchIsCurrent`, `TickRespectsTheUser`, `EveryEpisodeSeizesTheNav`, and the refinement
  of `Carousel`. The inductive invariant is the conjunction of the four invariants.
  `StackIsADrillDown` is not inductive alone: a row is tapped on the *shown* page, and only
  `ScreenLag` tells that a stale screen implies an empty stack, so that the view pushed
  from it has nothing under it. The refinement maps "held" to paused, drilled
  down or pre-empted; a tick is split into what `Nav.tick` can do (stay, turn, reset) and
  the takeover (`TickCases`, `TickRefines`).
- **Collector** (`CollectorProofs`): `TypeOK`, `StampIsHonest`, `CardMatchesSparkline`,
  `AlertsKeepComing`, for any timeouts, deque length, samples and faulty endpoints. The
  invariant adds `ClocksOK` (a section at its k-th call has lasted at most k timeouts),
  `FreshData` (between `_update` and `_mark` the data are at most one section old), `SampleOK`
  (after the second call of prom the last entry of the deque is the sample read) and `FailureOK` (only a section with a
  faulty endpoint reaches its except branch). For `AlertsKeepComing`, `GapInv` bounds the age of the alerts'
  stamp by the place the thread is at (`GapAt`: the sections done since, at most `SectionGap` each, the
  guard's `PollSlow`, one pause), bounds each section by the calls it has made, and says that
  alerts older than the guard lets pass are let pass (`SlowIsDue`).
- **Process** (`ProcessProofs`): `FreshIsFresh`, `AlertsSurviveTheClock`,
  `OnlyTheFaultyAreBlamed` and the refinement of `Feeds`, of `ProcSpec`. The
  invariant of the thread holds in every process, because a restart is its initial state; to it
  comes that no stamp looks younger than it is by more than the clock was set back (`ClockOK`). For
  the alerts, `GapInv` has two parameters: how far the clock was set back, which adds to the bound, and how
  far it can still be set back before a `sinceSlow` at its cap no longer passes the guard (`Reserved`); for
  `AlertsKeepComing` both are zero. The refinement maps the three parts of the snapshot to the abstract
  variables of those names, and the place between a section's two swaps to "not vouched for yet" (`Unvouched`). A call
  or a step of the loop is a stutter, the swaps of a section are `Replace`, then `Vouch` or, from its except
  branch, `Blame`; that the data are not older then than a poll may last is `ClocksOK`, that only a source
  which uses a faulty endpoint is blamed is `FailureOK`, that time never passes between the two swaps is
  `TimeRefines`. The end of a process forgets everything.
- **LogStream** (`LogStreamProofs`): `TypeOK`, `BufferIsTheTail`, `WindowIsFull`,
  `PausedViewStays`, for any ring, batch, scroll and window sizes.
- **Pods** (`PodsProofs`): `TypeOK`, `ListIsOfThisNamespace`, `PageHearsItsFetch`, for any
  number of threads and namespaces. The last one follows a page's own fetch from its thread to the
  queue: delivering another page's answer and a step of another thread lose neither.
- **Logs** (`LogsProofs`): `TypeOK` and `OwnLinesAreShown`, for any number of threads that the ring
  can hold a batch of. Invariant (`OwnInv`): once the page's own fetch has signalled lines, they are in
  the ring, behind at most one batch for each fetch that was under way with it (`Later`); a fetch
  appends once only, so that a ring with a place for every thread still has them on delivery.
- **Sorting** (in `PagesProofs`): `SortedBy` lists every element of a finite set once and in order, for any
  strict and total order (`SortedLemma`): the number of elements before each is below their number, and grows along the
  order, so that it is an injection, hence a surjection, of the set into that many numbers. No induction is
  needed.
- **Inventory** (`PagesProofs`): `LoadIsOfTheNode`, `PagesAgree` and `ProblemsComeFirst`, for any nodes, addresses,
  namespaces, changes and finitely many pods. That
  `build_ip_map` gives an address to one of its own nodes needs that the last of them exists; that is
  the least element of a set of numbers, taken from the well-foundedness of `<`, because induction
  is out of the prover's reach. For `PagesAgree` the invariant `SnapInv` says that the node rows and the
  namespace rows of the snapshot are counted from its pods; that the counts of all namespaces add up to the number of
  pods is `SumOfParts`, about a recursion over sets: were it wrong, there would be a least set for which it is, and it
  holds for that set without one element (well-foundedness of the proper-subset order).
- **AlertList** (`PagesProofs`): `TakeoverShowsItsAlert` and the action property `ListIsWhatFires`, for any alerts,
  labels, starts, number of slots and order of the answer. Invariant (`AlertInv`): Alertmanager
  answers with each alert at most once, and no alert on the list ranks above one before it (`IsRanked`). The first row is
  then critical if any is, and the latest of them; what is cut off stands after all that is shown.
  `ParseLemma` and `RankLemma` say that parsing takes each active alert once and that ranking permutes.
- **Series** (`SeriesProofs`): `PicksAscend`, `EndsArePicked`, `GapsAreEven` and `LegendIsOfTheChart`, for any series and limit and
  any rounding of ties. Invariant: each pick is a rounding of its multiple, and
  there are more points than picks. The step then exceeds one, so two neighbouring
  multiples cannot be rounded to the same point (`RoundsAscend`), and the first and the last are
  exact (`RoundIsExact`). Two gaps could differ by two only
  if one were the step plus one and the other the step less one; the step would then be a whole number, and
  every gap equal to it (`WholeStep`).

For the legend, `DrawnInv` says that what was drawn is a chart of
  the points: the picks ascend, so `sorted(set(...))` gives them back as they are (`SortedPicks`), their number is
  the limit and the last is the last point; extremes of finitely many values are among
  them (`ExtremesExist`).

The theorems rest on the named assumptions of the modules. Those of the pages' modules say that the pods are
finitely many (`PodsAssumption`), that each is in one of the namespaces (`NamespaceAssumption`), that lists of names are sequences
(`OrderAssumption`), and that a start is a number (`StartsAssumption`), 0 for one that is missing:
rank_alerts takes the epoch for it.

Model-checked only: all liveness, for the prover has no rule for fairness and ENABLED here. Every invariant and
every action property of the runs, and both refinements, are theorems as well.

## 6. Where the code and its documents disagree

Three disagreements are runs of their own:

- `claim_takeover_halts`: "halts the carousel until acknowledged by touch" (design, section 7). `Nav.tick`
  resets a pre-empted Nav once the last *touch* is older than the idle limit; a panel nobody
  touched for two minutes loses the takeover at the next tick, and the latch keeps it from
  coming back while the alert fires.
- `claim_failure_differs`: "An empty namespace and a FAILED fetch must never look the same"
  (NamespaceDetail.qml:12-13). A failed fetch answers `[]`, and the page looks at the error of the collector's
  poll, which knows nothing of it.
- `claim_old_data_admitted`: "A dashboard confidently showing five-minute-old numbers is worse than one
  admitting it lost contact" (design, section 6). `stale` is notified for snapshots that differ only; once
  every call fails with the text it failed with before, none does, and a binding to `stale` keeps
  the FALSE it read last. In the run all four sources have answered; then each fails once, which is the last
  difference, taken over while all of them are still fresh; from there they only grow old. No page has such a binding: of the age of the data the pages show
  nothing, and of errors NamespaceDetail.qml:47 and Logs.qml:54 read that of `kube` alone.

Others show in the models as the conditions that the checked properties need:

- A takeover may go unannounced: if the last tick saw the alerts page and the user has moved
  away since, `_tick` compares equal and emits nothing (qt/bridge.py:134). `ScreenLag` describes exactly
  these states, `ScreenCatchesUp` says how they end.
- DISMISS clears the latch, and the next tick takes over again while the alert still fires
  (qt/bridge.py:291, against the comment at 119-120). `LatchIsCurrent` is about the other direction.
- The first tick turns the first page without any dwell, because `_last_rotate` starts at
  0.0 (nav.py:27).
- The sources share one thread, so that slow but correct answers of one delay another past
  `stale_after_seconds` (design, section 5: "its own independent interval"); `AlertGap` is the
  bound, for the defaults 57 s with hanging endpoints and instant answers, against 45.
- "Unhandled exceptions [...] restart the unit" (design, section 10): a text for `poll_fast_seconds` or
  `poll_slow_seconds` raises in the daemon thread (collector.py:199, 202), which ends in silence while the GUI
  runs on, so that `HealthySourcesKeepComing` needs a usable file.
- A paused log window moves once the ring drops lines (logstream.py:49, against 19-20);
  `PausedViewStays` ends there.
- A log page that connects after its answer was signalled loads for ever (PodDetail.qml:209-216);
  `HeardFetchesLoad` requires the connection. It also shows the lines of every container
  fetched before, for the one stream is never cleared (qt/bridge.py:321); `OwnLinesAreShown` is
  about its own.
- "all quiet" is shown as well when Alertmanager never answered (Alerts.qml:193).
- An alert labelled "Critical" is drawn as CRITICAL and seizes nothing (sources/alerts.py:53, Alerts.qml:45-55).
- "Recent events for that pod" (design, section 8) are those among the cluster-wide feed of 30
  (PodDetail.qml:73-79), which the API server cuts off before parse_events sorts by time (sources/kube.py:186).
- A pending pod is counted as pending and as failing (qt/bridge.py:236-240), and both stand on Pulse.qml.
- An exception without a text would be booked as a success: `_mark` asks for the error's truth
  (collector.py:49). Those raised in `sources/` all have one.
- A silent node exporter is shown as a load of 0 (model.py:88), where its temperature and uptime are absent.
- Explore has no row for a namespace without pods (Explore.qml:5), and sorts the rest by name where the design
  says by use; `sorting.py` is never imported.

## 7. Not modelled

Argument parsing and the token's text; the values of the configuration in range (constants of the
models) and unknown keys, which are dropped; `logfmt.py` and the wrapping and scrolling of drawn log lines,
animation and layout, the Pulse page (text and pixels); `normalise`, `nice_axis` and `sorting.py` (unused); the
names and means of series; HTTP, TLS and tokens (a call returns or fails, within its timeout: the timeout of
`urllib` is one per socket operation, so that an answer that trickles in could last longer); deployment, tools.

Listed as hazards without a property: a wall clock that is set under the Nav (its run is at the size that
can be checked, and a clock that goes back stops its carousel for that long by construction); two answers to the
same namespace that overtake each other, which nothing in the code prevents and nothing promises; the number of
fetch threads, which is unlimited; Kubernetes events, cut off before they are sorted, whose loss depends
on the server's order; the first turn of the carousel; the empty list of an Alertmanager that never answered.

## 8. Plan

Done in this order: `Nav`, `Carousel`, `Screen`, proofs; `Collector`, proofs; `Ring`,
`LogStream`, proofs; `Pods`, proofs; `Logs`; `Freshness`; `Table`, `AlertList`; `Inventory`; `Series`, proofs;
the wall clock in `Freshness`; `Process`, proofs; the proofs of `AlertsKeepComing`, `OwnLinesAreShown` and
`LoadIsOfTheNode`; those of `AlertsSurviveTheClock` and `GapsAreEven`; those of `PagesAgree`,
`ProblemsComeFirst`, `LegendIsOfTheChart`, `TakeoverShowsItsAlert` and `ListIsWhatFires`, with `Sorting`; `Feeds` and its refinement.

Next, models: `recent_events` as a part of the slow poll; the naming of series; the scrolling of
Logs.qml with `split_log_line`; a Nav of its own, without Screen, under a clock that is set.

Next, proofs: abstract specifications of the log stream (an endless log and a window into it) and of
the fetches (a question and its answer), with their refinements.
