---------------------------- MODULE ScreenProofs ----------------------------
(***************************************************************************)
(* Proofs about Screen.tla, for every set of params and every choice of    *)
(* the three limits.                                                       *)
(***************************************************************************)
EXTENDS Screen, TLAPS

(* The Nav of Nav.tla *)

\* There are four top-level pages, and the alerts page is one of them.
LEMMA PagesLemma ==
    /\ Len(PAGES) = 4
    /\ PageIndices = 0 .. 3
    /\ AlertsIndex \in PageIndices
    /\ DOMAIN PAGES = 1 .. 4
BY DEF PAGES, PageIndices, AlertsIndex

\* The caps are ages, and every limit lies within them.
LEMMA CapsLemma ==
    /\ TouchCap \in Nat /\ RotateCap \in Nat
    /\ PauseSeconds <= TouchCap
    /\ IdleResetSeconds < TouchCap \/ IdleResetSeconds < PauseSeconds
BY TimersAssumption DEF TouchCap, RotateCap

\* The Nav of main.py is a Nav.
LEMMA FreshNavType == FreshNav \in NavRecord
BY PagesLemma, CapsLemma DEF FreshNav, NavRecord

\* Every method of Nav maps a Nav to a Nav: the page stays one of the four, the
\* stack stays a sequence of views.
LEMMA MethodsType ==
    ASSUME NEW n \in NavRecord
    PROVE  /\ Touch(n) \in NavRecord
           /\ \A v \in View : Push(n, v) \in NavRecord
           /\ Pop(n) \in NavRecord
           /\ \A i \in Nat : JumpToPage(n, i) \in NavRecord
           /\ PreemptForAlert(n) \in NavRecord
           /\ ClearPreempt(n) \in NavRecord
           /\ NavTick(n) \in NavRecord
           /\ Aged(n) \in NavRecord
<1> USE PagesLemma, CapsLemma
<1>a. <<>> \in Seq(View) /\ 0 \in PageIndices /\ 0 \in 0 .. RotateCap
  OBVIOUS
<1>1. Touch(n) \in NavRecord
  BY DEF Touch, NavRecord
<1>2. ASSUME NEW v \in View
      PROVE  Push(n, v) \in NavRecord
  <2>1. Append(Touch(n).stack, v) \in Seq(View)
    BY <1>1 DEF NavRecord
  <2>2. QED
    BY <1>1, <2>1 DEF Push, NavRecord
<1>3. Pop(n) \in NavRecord
  <2>1. CASE n.stack = <<>>
    BY <2>1 DEF Pop
  <2>2. CASE n.stack # <<>>
    <3>1. n.stack \in Seq(View) /\ Len(n.stack) - 1 \in 0 .. Len(n.stack)
      BY <2>2 DEF NavRecord
    <3>2. SubSeq(n.stack, 1, Len(n.stack) - 1) \in Seq(View)
      BY <3>1
    <3>3. QED
      BY <2>2, <3>2 DEF Pop, NavRecord
  <2>3. QED
    BY <2>1, <2>2
<1>4. \A i \in Nat : JumpToPage(n, i) \in NavRecord
  <2>1. ASSUME NEW i \in Nat
        PROVE  i % Len(PAGES) \in PageIndices
    OBVIOUS
  <2>2. QED
    BY <1>1, <1>a, <2>1 DEF JumpToPage, NavRecord
<1>5. PreemptForAlert(n) \in NavRecord
  BY <1>a DEF PreemptForAlert, NavRecord
<1>6. ClearPreempt(n) \in NavRecord
  BY <1>1 DEF ClearPreempt, NavRecord
<1>7. NavTick(n) \in NavRecord
  <2>1. (n.page + 1) % Len(PAGES) \in PageIndices
    BY DEF NavRecord
  <2>2. QED
    BY <1>a, <2>1 DEF NavTick, NavRecord
<1>8. Aged(n) \in NavRecord
  <2>1. /\ Older(n.touchAge, TouchCap) \in 0 .. TouchCap
        /\ Older(n.rotateAge, RotateCap) \in 0 .. RotateCap
    BY DEF Older, NavRecord
  <2>2. QED
    BY <2>1 DEF Aged, NavRecord
<1>9. QED
  BY <1>1, <1>2, <1>3, <1>4, <1>5, <1>6, <1>7, <1>8

\* A tick either leaves the page where it is, and the stack with it, or resets
\* a Nav that was held past the idle limit, or turns the page of one that was
\* not held at all.
LEMMA TickCases ==
    ASSUME NEW n \in NavRecord
    PROVE  \/ NavTick(n) = n
           \/ /\ IdleResetDue(n)
              /\ NavTick(n).page = 0 /\ NavTick(n).stack = <<>>
              /\ NavTick(n).touchAge = n.touchAge
              /\ NavTick(n).preempted = FALSE
           \/ /\ RotateDue(n)
              /\ NavTick(n).page = (n.page + 1) % Len(PAGES)
              /\ NavTick(n).stack = <<>>
              /\ NavTick(n).touchAge = n.touchAge
              /\ NavTick(n).preempted = FALSE
BY DEF NavTick, NavRecord, RotateDue, Rotating, Depth

(* The screen *)

\* The top-level page names and the detail kinds do not overlap, so the kind of
\* a view tells which of the two it is.
LEMMA KindsLemma ==
    /\ {PAGES[i] : i \in DOMAIN PAGES} = {"cluster", "pulse", "explore", "alerts"}
    /\ \A i \in PageIndices : PAGES[i + 1] \in {PAGES[j] : j \in DOMAIN PAGES}
<1>1. DOMAIN PAGES = 1 .. 4 /\ PageIndices = 0 .. 3
  BY PagesLemma
<1>2. {PAGES[i] : i \in 1 .. 4} = {"cluster", "pulse", "explore", "alerts"}
  BY DEF PAGES
<1>3. \A i \in 0 .. 3 : i + 1 \in 1 .. 4
  OBVIOUS
<1>4. QED
  BY <1>1, <1>2, <1>3

\* What QML reads of a Nav is a nav state.
LEMMA NavStateType ==
    ASSUME NEW n \in NavRecord
    PROVE  NavState(n) \in NavStates
<1>1. CASE n.stack = <<>>
  <2>1. n.page \in PageIndices /\ Len(n.stack) = 0
    BY <1>1 DEF NavRecord
  <2>2. QED
    BY <1>1, <2>1, KindsLemma DEF NavState, NavStates, Kinds, CurrentView, Depth
<1>2. CASE n.stack # <<>>
  <2>1. n.stack \in Seq(View) /\ n.page \in PageIndices
    BY DEF NavRecord
  <2>2. n.stack[Len(n.stack)] \in View /\ Len(n.stack) \in Nat
    BY <1>2, <2>1
  <2>3. CurrentView(n) \in View
    BY <1>2, <2>2 DEF CurrentView
  <2>4. QED
    BY <2>1, <2>2, <2>3 DEF NavState, NavStates, Kinds, Depth, View
<1>3. QED
  BY <1>1, <1>2

-----------------------------------------------------------------------------
(* The inductive invariant.  ScreenLag is what makes StackIsADrillDown       *)
(* inductive: a view is pushed onto the one that is shown, and the shown one *)
(* is the top of the stack unless the stack is empty.                        *)

Inv == TypeOK /\ ScreenLag /\ StackIsADrillDown /\ LatchIsCurrent

\* A fresh bridge satisfies it.
LEMMA InitInv == Init => Inv
<1> SUFFICES ASSUME Init PROVE Inv
  OBVIOUS
<1>1. TypeOK
  BY FreshNavType, NavStateType DEF Init, TypeOK, AlertLevels
<1>2. ScreenLag
  BY DEF Init, ScreenLag
<1>3. StackIsADrillDown
  BY DEF Init, StackIsADrillDown, FreshNav
<1>4. LatchIsCurrent
  BY DEF Init, LatchIsCurrent
<1>5. QED
  BY <1>1, <1>2, <1>3, <1>4 DEF Inv

\* The outcome of a tick: a Nav, and either the one before or one without views.
LEMMA OutcomeLemma ==
    ASSUME nav \in NavRecord
    PROVE  /\ TickOutcome \in NavRecord
           /\ TickOutcome = nav \/ TickOutcome.stack = <<>>
<1>1. CASE TakeoverDue
  <2>1. NavTick(nav) \in NavRecord
    BY MethodsType
  <2>2. PreemptForAlert(NavTick(nav)) \in NavRecord
    BY <2>1, MethodsType
  <2>3. PreemptForAlert(NavTick(nav)).stack = <<>>
    BY <2>1 DEF PreemptForAlert, NavRecord
  <2>4. QED
    BY <1>1, <2>2, <2>3 DEF TickOutcome
<1>2. CASE ~TakeoverDue
  BY <1>2, MethodsType, TickCases DEF TickOutcome
<1>3. QED
  BY <1>1, <1>2

\* A tick keeps it: the screen lags only if the outcome is the state that the
\* last tick saw while QML has shown something since.
LEMMA OnTickInv == Inv /\ OnTick => Inv'
<1> SUFFICES ASSUME Inv, OnTick PROVE Inv'
  OBVIOUS
<1> USE DEF Inv
<1>1. nav' \in NavRecord /\ (nav' = nav \/ nav'.stack = <<>>)
  BY OutcomeLemma DEF TypeOK, OnTick
<1>2. TypeOK'
  BY <1>1, NavStateType DEF TypeOK, OnTick, AlertLevels
<1>3. ScreenLag'
  <2>1. CASE NavState(nav') # lastNavState
    BY <2>1 DEF OnTick, ScreenLag
  <2>2. CASE NavState(nav') = lastNavState /\ nav' = nav
    BY <2>2 DEF OnTick, ScreenLag
  <2>3. CASE nav'.stack = <<>>
    BY <2>3 DEF OnTick, ScreenLag
  <2>4. QED
    BY <1>1, <2>1, <2>2, <2>3
<1>4. StackIsADrillDown'
  <2>1. CASE nav' = nav
    BY <2>1 DEF StackIsADrillDown
  <2>2. CASE nav'.stack = <<>>
    <3>1. 1 .. Len(nav'.stack) - 1 = {}
      BY <2>2
    <3>2. QED
      BY <3>1 DEF StackIsADrillDown
  <2>3. QED
    BY <1>1, <2>1, <2>2
<1>5. LatchIsCurrent'
  BY DEF OnTick, LatchIsCurrent
<1>6. QED
  BY <1>2, <1>3, <1>4, <1>5

\* Opening a view keeps it.
LEMMA PushViewInv ==
    ASSUME Inv, NEW v \in View, PushView(v)
    PROVE  Inv'
<1> USE DEF Inv
<1>1. nav' = Push(nav, v) /\ nav \in NavRecord /\ nav.stack \in Seq(View)
  BY DEF PushView, Release, TypeOK, NavRecord
<1>2. nav' \in NavRecord
  BY <1>1, MethodsType
<1>3. TypeOK'
  BY <1>2, NavStateType DEF TypeOK, PushView, Release
<1>4. ScreenLag'
  BY DEF ScreenLag, PushView, Release
<1>5. StackIsADrillDown'
  <2>1. nav'.stack = Append(nav.stack, v)
    BY <1>1 DEF Push, Touch, NavRecord
  <2>2. /\ Len(nav'.stack) = Len(nav.stack) + 1
        /\ \A i \in 1 .. Len(nav.stack) : nav'.stack[i] = nav.stack[i]
        /\ nav'.stack[Len(nav.stack) + 1] = v
    BY <1>1, <2>1
  <2>3. ASSUME NEW i \in 1 .. Len(nav'.stack) - 1
        PROVE  nav'.stack[i + 1].kind \in LeadsTo(nav'.stack[i].kind)
    <3>1. CASE i = Len(nav.stack)
      <4>1. nav.stack # <<>> /\ shown = NavState(nav)
        BY <1>1, <3>1 DEF ScreenLag
      <4>2. shown.kind = nav.stack[i].kind
        BY <3>1, <4>1 DEF NavState, CurrentView
      <4>3. QED
        BY <1>1, <2>2, <3>1, <4>2 DEF PushView
    <3>2. CASE i # Len(nav.stack)
      <4>1. i \in 1 .. Len(nav.stack) - 1 /\ i + 1 \in 1 .. Len(nav.stack)
        BY <1>1, <2>2, <3>2
      <4>2. QED
        BY <1>1, <2>2, <4>1 DEF StackIsADrillDown
    <3>3. QED
      BY <3>1, <3>2
  <2>4. QED
    BY <2>3 DEF StackIsADrillDown
<1>6. LatchIsCurrent'
  BY DEF LatchIsCurrent, PushView, Release
<1>7. QED
  BY <1>3, <1>4, <1>5, <1>6

\* Going back keeps it.
LEMMA PopViewInv ==
    ASSUME Inv, PopView
    PROVE  Inv'
<1> USE DEF Inv
<1>1. nav' = Pop(nav) /\ nav \in NavRecord /\ nav.stack \in Seq(View)
  BY DEF PopView, Release, TypeOK, NavRecord
<1>2. nav' \in NavRecord
  BY <1>1, MethodsType
<1>3. TypeOK'
  BY <1>2, NavStateType DEF TypeOK, PopView, Release
<1>4. ScreenLag' /\ LatchIsCurrent'
  BY DEF ScreenLag, LatchIsCurrent, PopView, Release
<1>5. StackIsADrillDown'
  <2>1. CASE nav.stack = <<>>
    BY <1>1, <2>1 DEF Pop, StackIsADrillDown
  <2>2. CASE nav.stack # <<>>
    <3>1. nav'.stack = SubSeq(nav.stack, 1, Len(nav.stack) - 1)
      BY <1>1, <2>2 DEF Pop, NavRecord
    <3>2. /\ Len(nav'.stack) = Len(nav.stack) - 1
          /\ \A i \in 1 .. Len(nav.stack) - 1 : nav'.stack[i] = nav.stack[i]
      BY <1>1, <2>2, <3>1
    <3>3. QED
      BY <1>1, <3>2 DEF StackIsADrillDown
  <2>3. QED
    BY <2>1, <2>2
<1>6. QED
  BY <1>3, <1>4, <1>5

\* Every other gesture leaves the stack alone or empties it.
LEMMA FlatGestureInv ==
    ASSUME Inv, NEW n \in NavRecord, Release(n),
           n.stack = nav.stack \/ n.stack = <<>>,
           preemptActive' = preemptActive \/ preemptActive' = FALSE
    PROVE  Inv'
<1> USE DEF Inv
<1>1. TypeOK'
  BY NavStateType DEF TypeOK, Release
<1>2. ScreenLag'
  BY DEF ScreenLag, Release
<1>3. LatchIsCurrent'
  BY DEF LatchIsCurrent, Release
<1>4. StackIsADrillDown'
  <2>1. CASE n.stack = nav.stack
    BY <2>1 DEF StackIsADrillDown, Release
  <2>2. CASE n.stack = <<>>
    <3>1. 1 .. Len(nav'.stack) - 1 = {}
      BY <2>2 DEF Release
    <3>2. QED
      BY <3>1 DEF StackIsADrillDown
  <2>3. QED
    BY <2>1, <2>2
<1>5. QED
  BY <1>1, <1>2, <1>3, <1>4

\* A press, an idle release, a publication and the passing of time touch neither
\* the stack nor what is shown of the Nav.
LEMMA AgeOnlyInv ==
    ASSUME Inv, nav' \in NavRecord,
           nav'.stack = nav.stack, nav'.page = nav.page,
           finger' \in Kinds \cup {"up"}, alerts' \in AlertLevels,
           UNCHANGED <<lastNavState, preemptActive, lastSnap, shown>>
    PROVE  Inv'
<1> USE DEF Inv
<1>1. NavState(nav') = NavState(nav)
  BY DEF NavState, CurrentView, Depth
<1>2. TypeOK'
  BY DEF TypeOK
<1>3. ScreenLag' /\ LatchIsCurrent'
  BY <1>1 DEF ScreenLag, LatchIsCurrent
<1>4. StackIsADrillDown'
  BY DEF StackIsADrillDown
<1>5. QED
  BY <1>2, <1>3, <1>4

\* Every step keeps the invariant.
LEMMA NextInv == Inv /\ [Next]_vars => Inv'
<1> SUFFICES ASSUME Inv, [Next]_vars PROVE Inv'
  OBVIOUS
<1>0. nav \in NavRecord /\ TypeOK
  BY DEF Inv, TypeOK
<1>1. CASE OnTick
  BY <1>1, OnTickInv
<1>2. CASE Press
  <2>1. Touch(nav) \in NavRecord
    BY <1>0, MethodsType
  <2>2. Touch(nav).stack = nav.stack /\ Touch(nav).page = nav.page
    BY <1>0 DEF Touch, NavRecord
  <2>3. QED
    BY <1>0, <1>2, <2>1, <2>2, AgeOnlyInv DEF Press, TypeOK, NavStates
<1>3. CASE ReleaseOnNothing
  BY <1>0, <1>3, AgeOnlyInv DEF ReleaseOnNothing, TypeOK
<1>4. CASE \E v \in View : PushView(v)
  BY <1>4, PushViewInv
<1>5. CASE PopView
  BY <1>5, PopViewInv
<1>6. ASSUME NEW i \in Nat, Release(JumpToPage(nav, i)), UNCHANGED preemptActive
      PROVE  Inv'
  <2>1. JumpToPage(nav, i) \in NavRecord
    BY <1>0, MethodsType
  <2>2. JumpToPage(nav, i).stack = <<>>
    BY <1>0 DEF JumpToPage, Touch, NavRecord
  <2>3. QED
    BY <1>6, <2>1, <2>2, FlatGestureInv
<1>7. CASE \E i \in PageIndices : TapDot(i)
  BY <1>6, <1>7, PagesLemma DEF TapDot
<1>8. CASE Swipe
  <2>1. \A step \in {1, Len(PAGES) - 1} : (nav.page + step) % Len(PAGES) \in Nat
    BY <1>0, PagesLemma DEF NavRecord
  <2>2. QED
    BY <1>6, <1>8, <2>1 DEF Swipe
<1>9. CASE ClearPreemptSlot
  <2>1. ClearPreempt(nav) \in NavRecord
    BY <1>0, MethodsType
  <2>2. ClearPreempt(nav).stack = nav.stack
    BY <1>0 DEF ClearPreempt, Touch, NavRecord
  <2>3. QED
    BY <1>9, <2>1, <2>2, FlatGestureInv DEF ClearPreemptSlot
<1>10. CASE AlertsPublished
  BY <1>0, <1>10, AgeOnlyInv DEF AlertsPublished, TypeOK
<1>11. CASE Elapse
  <2>1. Aged(nav) \in NavRecord
    BY <1>0, MethodsType
  <2>2. Aged(nav).stack = nav.stack /\ Aged(nav).page = nav.page
    BY <1>0 DEF Aged, NavRecord
  <2>3. QED
    BY <1>0, <1>11, <2>1, <2>2, AgeOnlyInv DEF Elapse, TypeOK
<1>12. CASE UNCHANGED vars
  BY <1>0, <1>12, AgeOnlyInv DEF vars, TypeOK
<1>13. QED
  BY <1>1, <1>2, <1>3, <1>4, <1>5, <1>7, <1>8, <1>9, <1>10, <1>11, <1>12
     DEF Next, UserStep, Gesture

\* The strengthening that the safety theorems rest on.
LEMMA Invariance == Spec => []Inv
BY InitInv, NextInv, PTL DEF Spec

-----------------------------------------------------------------------------
(* The theorems *)

\* Every variable of the bridge and its screen stays in its domain.
THEOREM TypeCorrect == Spec => []TypeOK
BY Invariance, PTL DEF Inv

\* QML shows the Nav as it is, or else the Nav is on a top-level page that the
\* last tick already saw.
THEOREM LagIsBounded == Spec => []ScreenLag
BY Invariance, PTL DEF Inv

\* Back always returns to the view from which the current one was opened.
THEOREM DrillDown == Spec => []StackIsADrillDown
BY Invariance, PTL DEF Inv

\* The memory of a takeover never outlives the episode.
THEOREM LatchCorrect == Spec => []LatchIsCurrent
BY Invariance, PTL DEF Inv

\* The timer never moves the picture under a user, for any three limits.
THEOREM UserIsRespected == Spec => TickRespectsTheUser
<1> DEFINE Calm == OnTick /\ shown' # shown /\ ~TakeoverDue
                     => \/ nav.touchAge > IdleResetSeconds
                        \/ nav.touchAge >= PauseSeconds /\ nav.rotateAge >= RotateSeconds
<1>1. Inv => Calm
  <2> SUFFICES ASSUME Inv, OnTick, shown' # shown, ~TakeoverDue
               PROVE  \/ nav.touchAge > IdleResetSeconds
                      \/ nav.touchAge >= PauseSeconds /\ nav.rotateAge >= RotateSeconds
    OBVIOUS
  <2>1. nav \in NavRecord /\ nav' = NavTick(nav)
    BY DEF Inv, TypeOK, OnTick, TickOutcome
  <2>2. nav' # nav
    BY DEF OnTick, Inv, ScreenLag
  <2>3. CASE IdleResetDue(nav)
    BY <2>3 DEF IdleResetDue
  <2>4. CASE RotateDue(nav)
    BY <2>1, <2>4, TimersAssumption DEF RotateDue, Rotating, Paused, NavRecord
  <2>5. QED
    BY <2>1, <2>2, <2>3, <2>4, TickCases
<1>2. QED
  BY <1>1, Invariance, PTL DEF TickRespectsTheUser

\* No new critical episode is swallowed, whatever the user was doing.
THEOREM EpisodesSeize == Spec => EveryEpisodeSeizesTheNav
<1> DEFINE Seized == OnTick /\ alerts = "critical" /\ lastSnap # "critical"
                       => nav'.preempted /\ nav'.stack = <<>> /\ nav'.page = AlertsIndex
<1>1. Inv => Seized
  <2> SUFFICES ASSUME Inv, OnTick, alerts = "critical", lastSnap # "critical"
               PROVE  nav'.preempted /\ nav'.stack = <<>> /\ nav'.page = AlertsIndex
    OBVIOUS
  <2>1. TakeoverDue
    BY DEF Inv, LatchIsCurrent, TakeoverDue
  <2>2. NavTick(nav) \in NavRecord /\ nav' = PreemptForAlert(NavTick(nav))
    BY <2>1, MethodsType DEF Inv, TypeOK, OnTick, TickOutcome
  <2>3. QED
    BY <2>2 DEF PreemptForAlert, NavRecord
<1>2. QED
  BY <1>1, Invariance, PTL DEF EveryEpisodeSeizesTheNav

-----------------------------------------------------------------------------
(* The screen implements the carousel *)

\* A step that leaves the page in front can only take hold of the screen, let it
\* go, or do neither.
LEMMA SamePage ==
    ASSUME nav \in NavRecord, nav'.page = nav.page
    PROVE  [Promise!CarouselNext]_(Promise!carouselVars)
<1>1. Held \in BOOLEAN /\ Held' \in BOOLEAN
  BY DEF Held, Paused, NavRecord
<1>2. nav.page \in 0 .. Len(PAGES) - 1
  BY DEF NavRecord, PageIndices
<1>3. CASE Held'
  BY <1>2, <1>3 DEF Promise!CarouselNext, Promise!Grab
<1>4. CASE ~Held' /\ Held
  BY <1>4 DEF Promise!CarouselNext, Promise!LetGo
<1>5. CASE ~Held' /\ ~Held
  <2>1. Held' = Held
    BY <1>1, <1>5
  <2>2. QED
    BY <2>1 DEF Promise!carouselVars
<1>6. QED
  BY <1>1, <1>3, <1>4, <1>5

\* A touch holds the screen, and so does a takeover.
LEMMA GrabLemma ==
    ASSUME nav'.page \in PageIndices,
           nav'.touchAge = 0 \/ nav'.preempted
    PROVE  Promise!CarouselNext
<1>1. Held'
  BY PauseAssumption, TimersAssumption DEF Held, Paused
<1>2. QED
  BY <1>1 DEF PageIndices, Promise!CarouselNext, Promise!Grab

\* What a tick does to the page is a turn of a free carousel, a return home of a
\* held one, or a takeover.
LEMMA TickRefines ==
    ASSUME nav \in NavRecord, OnTick
    PROVE  [Promise!CarouselNext]_(Promise!carouselVars)
<1>1. NavTick(nav) \in NavRecord
  BY MethodsType
<1>2. CASE TakeoverDue
  <2>1. nav' = PreemptForAlert(NavTick(nav))
    BY <1>2 DEF OnTick, TickOutcome
  <2>2. nav'.preempted /\ nav'.page = AlertsIndex
    BY <1>1, <2>1 DEF PreemptForAlert, NavRecord
  <2>3. QED
    BY <2>2, PagesLemma, GrabLemma
<1>3. CASE ~TakeoverDue
  <2>1. nav' = NavTick(nav)
    BY <1>3 DEF OnTick, TickOutcome
  <2>2. CASE nav' = nav
    BY <2>2, SamePage
  <2>3. CASE IdleResetDue(nav) /\ nav'.page = 0
    <3>1. Held /\ Held' \in BOOLEAN
      BY <2>1, <1>1, <2>3 DEF IdleResetDue, Held, Paused, NavRecord
    <3>2. QED
      BY <2>3, <3>1 DEF Promise!CarouselNext, Promise!GoHome
  <2>4. CASE /\ RotateDue(nav) /\ nav'.page = (nav.page + 1) % Len(PAGES)
             /\ nav'.stack = <<>> /\ nav'.touchAge = nav.touchAge
             /\ nav'.preempted = FALSE
    <3>1. nav.stack = <<>>
      BY <2>4 DEF RotateDue, Rotating, Depth, NavRecord
    <3>2. ~Held /\ ~Held'
      BY <2>4, <3>1 DEF RotateDue, Rotating, Held, Paused
    <3>3. Held' = Held
      BY <3>2 DEF Held, Paused
    <3>4. QED
      BY <2>4, <3>2, <3>3 DEF Promise!CarouselNext, Promise!Turn
  <2>5. QED
    BY <2>1, <2>2, <2>3, <2>4, TickCases
<1>4. QED
  BY <1>2, <1>3

\* The page in front keeps the carousel's promise: a step of the bridge, the
\* user, the collector or the clock is a step of the carousel or none at all.
THEOREM Refinement == Spec => ImplementsCarousel
<1>1. Init => Promise!CarouselInit
  BY TimersAssumption
     DEF Init, FreshNav, Promise!CarouselInit, Held, Paused, TouchCap
<1>2. TypeOK /\ [Next]_vars => [Promise!CarouselNext]_(Promise!carouselVars)
  <2> SUFFICES ASSUME TypeOK, [Next]_vars
               PROVE  [Promise!CarouselNext]_(Promise!carouselVars)
    OBVIOUS
  <2>0. nav \in NavRecord
    BY DEF TypeOK
  <2>1. CASE OnTick
    BY <2>0, <2>1, TickRefines
  <2>2. CASE Press
    <3>1. nav'.page = nav.page
      BY <2>0, <2>2 DEF Press, Touch, NavRecord
    <3>2. QED
      BY <2>0, <3>1, SamePage
  <2>3. CASE ReleaseOnNothing \/ AlertsPublished \/ UNCHANGED vars
    BY <2>0, <2>3, SamePage DEF ReleaseOnNothing, AlertsPublished, vars
  <2>4. CASE \E v \in View : PushView(v)
    <3>1. nav'.page = nav.page
      BY <2>0, <2>4 DEF PushView, Release, Push, Touch, NavRecord
    <3>2. QED
      BY <2>0, <3>1, SamePage
  <2>5. CASE PopView
    <3>1. nav'.page = nav.page
      BY <2>0, <2>5 DEF PopView, Release, Pop, NavRecord
    <3>2. QED
      BY <2>0, <3>1, SamePage
  <2>6. ASSUME NEW i \in Nat, Release(JumpToPage(nav, i))
        PROVE  Promise!CarouselNext
    <3>1. nav'.page = i % Len(PAGES) /\ nav'.touchAge = 0
      BY <2>0, <2>6 DEF Release, JumpToPage, Touch, NavRecord
    <3>2. nav'.page \in PageIndices
      BY <3>1, PagesLemma
    <3>3. QED
      BY <3>1, <3>2, GrabLemma
  <2>7. CASE \E i \in PageIndices : TapDot(i)
    BY <2>6, <2>7, PagesLemma DEF TapDot
  <2>8. CASE Swipe
    <3>1. \A step \in {1, Len(PAGES) - 1} : (nav.page + step) % Len(PAGES) \in Nat
      BY <2>0, PagesLemma DEF NavRecord
    <3>2. QED
      BY <2>6, <2>8, <3>1 DEF Swipe
  <2>9. CASE ClearPreemptSlot
    <3>1. nav'.page = nav.page
      BY <2>0, <2>9 DEF ClearPreemptSlot, Release, ClearPreempt, Touch, NavRecord
    <3>2. QED
      BY <2>0, <3>1, SamePage
  <2>10. CASE Elapse
    <3>1. nav'.page = nav.page
      BY <2>0, <2>10 DEF Elapse, Aged, NavRecord
    <3>2. QED
      BY <2>0, <3>1, SamePage
  <2>11. QED
    BY <2>1, <2>2, <2>3, <2>4, <2>5, <2>7, <2>8, <2>9, <2>10 DEF Next, UserStep, Gesture
<1>3. QED
  BY <1>1, <1>2, TypeCorrect, PTL DEF Spec, ImplementsCarousel, Promise!CarouselSpec
=============================================================================
