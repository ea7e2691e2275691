------------------------------- MODULE Screen -------------------------------
(***************************************************************************)
(* The panel's navigation as a whole: the nav half of the bridge           *)
(* (qt/bridge.py: the 500 ms _tick and the navigation slots), the Nav it   *)
(* owns (Nav.tla), the QML shell that shows a view and turns gestures into *)
(* slot calls (qml/Main.qml and the pages), and the alert list that the    *)
(* collector thread publishes behind their back.                           *)
(*                                                                         *)
(* The crux: QML re-reads pageIndex, viewKind, viewParams and depth only   *)
(* when navChanged is emitted, so what is SHOWN, and with it the gestures  *)
(* the user has, is a copy of the Nav that can be out of date.             *)
(*                                                                         *)
(* Nothing relates the rate of ticks to the rate of time here: the event   *)
(* loop may be late by any amount.                                         *)
(***************************************************************************)
EXTENDS Nav

CONSTANT NoNavState   \* `_last_nav_state = None` before the first tick

VARIABLES
    nav,             \* the Nav object
    lastNavState,    \* Bridge._last_nav_state
    preemptActive,   \* Bridge._preempt_active
    lastSnap,        \* Bridge._last_snap, as far as its alerts go
    shown,           \* the nav properties as QML last read them
    alerts,          \* alerts in the collector's current snapshot
    finger           \* up, or the kind of view the panel was pressed on

vars == <<nav, lastNavState, preemptActive, lastSnap, shown, alerts, finger>>

Kinds == DetailKinds \cup {PAGES[i] : i \in DOMAIN PAGES}

\* A snapshot's alert list: empty, firing but none critical, or with a critical.
AlertLevels == {"none", "warning", "critical"}

\* The tuple of bridge.py:128-133, which is also all that QML reads of the Nav.
NavState(n) == [page   |-> n.page,
                kind   |-> CurrentView(n).kind,
                params |-> CurrentView(n).params,
                depth  |-> Depth(n)]

\* The views that the rows of a page lead to.
ClusterRows         == {"nodeDetail"}
ExploreRows         == {"namespaceDetail"}
NodeDetailRows      == {"podDetail"}
NamespaceDetailRows == {"podDetail"}
PodDetailRows       == {"logs"}

LeadsTo(kind) ==
    CASE kind = "cluster"         -> ClusterRows
      [] kind = "explore"         -> ExploreRows
      [] kind = "nodeDetail"      -> NodeDetailRows
      [] kind = "namespaceDetail" -> NamespaceDetailRows
      [] kind = "podDetail"       -> PodDetailRows
      [] OTHER                    -> {}

\* When the controls of the shell, and the button of the alerts page, are there.
BackButtonVisible == shown.depth > 0
DotsVisible       == shown.depth = 0
SwipeEnabled      == shown.depth = 0
DismissVisible    == shown.kind = "alerts" /\ lastSnap # "none"

Init ==
    /\ nav = FreshNav
    /\ lastNavState = NoNavState
    /\ preemptActive = FALSE
    /\ lastSnap = "none"
    /\ shown = NavState(FreshNav)
    /\ alerts = "none"
    /\ finger = "up"

-----------------------------------------------------------------------------
(* The 500 ms timer *)

TakeoverDue == alerts = "critical" /\ ~preemptActive

\* Slip: the takeover first, and the tick on top of it.
TickThatUndoesTheTakeover == IF TakeoverDue THEN NavTick(PreemptForAlert(nav)) ELSE NavTick(nav)

\* Bridge._tick: the Nav's own tick first, then the takeover on top of it, and
\* navChanged only if the outcome differs from that of the LAST TICK.
TickOutcome == IF TakeoverDue THEN PreemptForAlert(NavTick(nav)) ELSE NavTick(nav)

\* Slip: the latch is set by an episode and not cleared after it.
OnTickThatNeverRearms ==
    /\ nav' = TickOutcome
    /\ preemptActive' = (preemptActive \/ alerts = "critical")
    /\ lastNavState' = NavState(nav')
    /\ shown' = IF NavState(nav') # lastNavState THEN NavState(nav') ELSE shown
    /\ lastSnap' = alerts
    /\ UNCHANGED <<alerts, finger>>

OnTick ==
    /\ nav' = TickOutcome
    /\ preemptActive' = (alerts = "critical")
    /\ lastNavState' = NavState(nav')
    /\ shown' = IF NavState(nav') # lastNavState THEN NavState(nav') ELSE shown
    /\ lastSnap' = alerts
    /\ UNCHANGED <<alerts, finger>>

-----------------------------------------------------------------------------
(* The user.  A press reaches bridge.touch() (Main.qml:23-26); the release  *)
(* activates what was pressed, if it is still there: the rows and DISMISS   *)
(* belong to one page, the dots, the swipe and the back button to the shell *)
(* that outlives it.  A slot changes the Nav and emits navChanged, but      *)
(* leaves lastNavState alone.                                               *)

Press ==
    /\ finger = "up"
    /\ finger' = shown.kind
    /\ nav' = Touch(nav)
    /\ UNCHANGED <<lastNavState, preemptActive, lastSnap, shown, alerts>>

\* Slip: a slot changes the Nav and does not emit navChanged.
SilentRelease(n) ==
    /\ finger # "up"
    /\ finger' = "up"
    /\ nav' = n
    /\ UNCHANGED <<lastNavState, lastSnap, shown, alerts>>

Release(n) ==
    /\ finger # "up"
    /\ finger' = "up"
    /\ nav' = n
    /\ shown' = NavState(n)
    /\ UNCHANGED <<lastNavState, lastSnap, alerts>>

\* A tap on nothing, or a drag that stays short of 60 px.
ReleaseOnNothing ==
    /\ finger # "up"
    /\ finger' = "up"
    /\ UNCHANGED <<nav, lastNavState, preemptActive, lastSnap, shown, alerts>>

PushView(v) ==
    /\ finger = shown.kind /\ v.kind \in LeadsTo(shown.kind)
    /\ Release(Push(nav, v))
    /\ UNCHANGED preemptActive

\* Slip: popView forgets to emit.
SilentPopView ==
    /\ finger \in DetailKinds /\ BackButtonVisible
    /\ SilentRelease(Pop(nav))
    /\ UNCHANGED preemptActive

PopView ==
    /\ finger \in DetailKinds /\ BackButtonVisible
    /\ Release(Pop(nav))
    /\ UNCHANGED preemptActive

TapDot(i) ==
    /\ finger \notin DetailKinds /\ DotsVisible
    /\ Release(JumpToPage(nav, i))
    /\ UNCHANGED preemptActive

\* The swipe reads pageIndex afresh when the finger lifts.
Swipe ==
    /\ finger \notin DetailKinds /\ SwipeEnabled
    /\ \E step \in {1, Len(PAGES) - 1} :
          Release(JumpToPage(nav, (nav.page + step) % Len(PAGES)))
    /\ UNCHANGED preemptActive

ClearPreemptSlot ==
    /\ finger = "alerts" /\ DismissVisible
    /\ Release(ClearPreempt(nav))
    /\ preemptActive' = FALSE

Gesture ==
    \/ \E v \in View : PushView(v)
    \/ PopView
    \/ \E i \in PageIndices : TapDot(i)
    \/ Swipe
    \/ ClearPreemptSlot

UserStep == Press \/ ReleaseOnNothing \/ Gesture

-----------------------------------------------------------------------------
(* The collector thread and the clock *)

AlertsPublished ==
    /\ alerts' \in AlertLevels
    /\ UNCHANGED <<nav, lastNavState, preemptActive, lastSnap, shown, finger>>

Elapse ==
    /\ nav' = Aged(nav)
    /\ UNCHANGED <<lastNavState, preemptActive, lastSnap, shown, alerts, finger>>

Next == OnTick \/ UserStep \/ AlertsPublished \/ Elapse

\* The QTimer keeps firing while the event loop lives, and time passes.  The
\* user and the cluster owe nothing.
Fairness == WF_vars(OnTick) /\ WF_vars(Elapse)

Spec == Init /\ [][Next]_vars /\ Fairness

-----------------------------------------------------------------------------
(* Invariants *)

NavStates == [page   : PageIndices,
              kind   : Kinds,
              params : Params \cup {NoParams},
              depth  : Nat]

\* Every variable stays in its domain.
TypeOK ==
    /\ nav \in NavRecord
    /\ lastNavState \in NavStates \cup {NoNavState}
    /\ preemptActive \in BOOLEAN
    /\ lastSnap \in AlertLevels
    /\ shown \in NavStates
    /\ alerts \in AlertLevels
    /\ finger \in Kinds \cup {"up"}

\* navChanged can be missed in one way only: a tick brings the Nav back to
\* where the last tick left it, on a page without detail views, after gestures
\* moved the screen away (bridge.py:134 compares with the last TICK, and the
\* slots at 272-292 do not record theirs).  In every other state QML shows the
\* Nav as it is.
ScreenLag ==
    shown # NavState(nav) => /\ nav.stack = <<>>
                             /\ NavState(nav) = lastNavState

\* Opening a view from a stale screen never mixes two drill-downs: every view
\* on the stack was opened from the one right under it, so Back always returns
\* to where the user came from (pushView trusts QML; nav.py:53-55 checks
\* nothing).
StackIsADrillDown ==
    \A i \in 1 .. Len(nav.stack) - 1 :
        nav.stack[i + 1].kind \in LeadsTo(nav.stack[i].kind)

\* preempt_active remembers a takeover of THIS episode: it never survives a tick
\* that saw no critical alert (bridge.py:121-126), so the next episode is not
\* swallowed.
LatchIsCurrent == preemptActive => lastSnap = "critical"

-----------------------------------------------------------------------------
(* What a step may do *)

\* The timer never moves the picture under a user: for as long as the last touch
\* is within both limits a tick leaves the screen alone, stale copy or not,
\* unless a takeover is due; and past the pause a picture that was there for
\* less than the dwell still stays, unless it is reset (nav.py:83-95).
TickRespectsTheUser ==
    [][OnTick /\ shown' # shown /\ ~TakeoverDue
         => \/ nav.touchAge > IdleResetSeconds
            \/ nav.touchAge >= PauseSeconds /\ nav.rotateAge >= RotateSeconds]_vars

\* The first tick that sees a critical alert after one that saw none seizes the
\* Nav, whatever was open and however recent the last touch (bridge.py:121-124).
EveryEpisodeSeizesTheNav ==
    [][OnTick /\ alerts = "critical" /\ lastSnap # "critical"
         => nav'.preempted /\ nav'.stack = <<>> /\ nav'.page = AlertsIndex]_vars

\* Through all of it (ticks that rotate, reset and pre-empt in one go, gestures
\* on a stale screen) the page in front obeys the carousel's promise.
Held    == Paused(nav) \/ nav.stack # <<>> \/ nav.preempted
Promise == INSTANCE Carousel WITH PageCount <- Len(PAGES), page <- nav.page, held <- Held
ImplementsCarousel == Promise!CarouselSpec

-----------------------------------------------------------------------------
(* Liveness *)

\* A stale screen mends itself once the user stops: the idle reset moves the Nav
\* to a state the last tick did not see, however the alerts come and go.
ScreenCatchesUp == <>[][~UserStep]_vars => <>[](shown = NavState(nav))

\* A panel left alone goes back to showing every page in turn, even while the
\* critical alert that seized it is still firing (nav.py:80-95; the latch keeps
\* the takeover from firing again).
CarouselResumes ==
    <>[][~UserStep /\ ~AlertsPublished]_vars
        => \A i \in PageIndices : []<>(shown.page = i /\ shown.depth = 0)

-----------------------------------------------------------------------------

\* What the repository says and the code does not keep: "A firing critical alert
\* seizes the screen regardless of the current page and halts the carousel until
\* acknowledged by touch" (design, section 7).  No tick would end a takeover.  The
\* idle reset does, and on a panel nobody touched for two minutes it is due at the
\* very next tick, 500 ms after the takeover.
TakeoverHaltsTheCarousel == [][OnTick /\ nav.preempted => nav'.preempted]_vars
=============================================================================
