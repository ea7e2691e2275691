--------------------------------- MODULE Nav ---------------------------------
(***************************************************************************)
(* The view stack and the carousel of kw_dashboard/nav.py, as operators    *)
(* over one record: Screen.tla, which owns a Nav, applies them to its      *)
(* variable.                                                               *)
(*                                                                         *)
(* Time.  nav.py keeps two timestamps and compares their AGE with three    *)
(* limits (nav.py:47, 83, 93).  The record keeps the two ages and Elapse   *)
(* makes them grow.  An age is capped at the first value past its largest  *)
(* limit, which is exact: beyond it every comparison is settled.  The two  *)
(* timestamps of a fresh Nav, -1e9 and 0.0, lie decades before any wall    *)
(* clock that main.py can read, so both ages start at their caps.          *)
(***************************************************************************)
EXTENDS Naturals, Sequences

CONSTANTS
    Params,            \* what a detail view is about: a node, namespace or pod
    NoParams,          \* the empty params of a top-level page
    RotateSeconds,     \* carousel dwell                (nav.py:20)
    PauseSeconds,      \* quiet time after a touch      (nav.py:21)
    IdleResetSeconds   \* untouched time before a reset (nav.py:22)

ASSUME ParamsAssumption == NoParams \notin Params
ASSUME TimersAssumption ==
    /\ RotateSeconds \in Nat
    /\ PauseSeconds \in Nat
    /\ IdleResetSeconds \in Nat
\* config.py does not insist, but without a pause a touch holds nothing.
ASSUME PauseAssumption == PauseSeconds > 0

-----------------------------------------------------------------------------
(* Pages and views *)

PAGES       == <<"cluster", "pulse", "explore", "alerts">>
PageIndices == 0 .. Len(PAGES) - 1
AlertsIndex == 3

DetailKinds == {"nodeDetail", "namespaceDetail", "podDetail", "logs"}
View        == [kind : DetailKinds, params : Params]

TouchCap  == IF IdleResetSeconds < PauseSeconds THEN PauseSeconds ELSE IdleResetSeconds + 1
RotateCap == RotateSeconds

NavRecord == [page      : PageIndices,
              stack     : Seq(View),
              touchAge  : 0 .. TouchCap,
              rotateAge : 0 .. RotateCap,
              preempted : BOOLEAN]

FreshNav == [page      |-> 0,
             stack     |-> <<>>,
             touchAge  |-> TouchCap,
             rotateAge |-> RotateCap,
             preempted |-> FALSE]

Depth(n)    == Len(n.stack)
Paused(n)   == n.touchAge < PauseSeconds

\* Slip: a touch does not pause the carousel.
RotatingThroughTouches(n) == Depth(n) = 0 /\ ~n.preempted

Rotating(n) == Depth(n) = 0 /\ ~Paused(n) /\ ~n.preempted

CurrentView(n) ==
    IF n.stack = <<>>
    THEN [kind |-> PAGES[n.page + 1], params |-> NoParams]
    ELSE n.stack[Len(n.stack)]

-----------------------------------------------------------------------------
(* The methods of Nav *)

Touch(n)   == [n EXCEPT !.touchAge = 0]

\* Slip: the params are dropped on the way.
PushWithoutParams(n, v) ==
    [Touch(n) EXCEPT !.stack = Append(@, [v EXCEPT !.params = NoParams])]

Push(n, v) == [Touch(n) EXCEPT !.stack = Append(@, v)]

\* pop() is the one gesture that does not touch.
Pop(n) == IF n.stack = <<>>
          THEN n
          ELSE [n EXCEPT !.stack = SubSeq(@, 1, Len(@) - 1)]

\* Slip: a jump does not count as a touch.
JumpWithoutTouch(n, index) ==
    [n EXCEPT !.stack = <<>>,
              !.page = index % Len(PAGES),
              !.rotateAge = 0]

JumpToPage(n, index) ==
    [Touch(n) EXCEPT !.stack = <<>>,
                     !.page = index % Len(PAGES),
                     !.rotateAge = 0]

PreemptForAlert(n) ==
    [n EXCEPT !.stack = <<>>,
              !.page = AlertsIndex,
              !.preempted = TRUE,
              !.rotateAge = 0]

ClearPreempt(n) == [Touch(n) EXCEPT !.preempted = FALSE]

\* Slip: only open detail views are reset, so a takeover lasts for ever.
IdleResetOfViewsOnly(n) == n.touchAge > IdleResetSeconds /\ n.stack # <<>>

\* Slip: a carousel that is turning is reset too.
IdleResetAlways(n) == n.touchAge > IdleResetSeconds

IdleResetDue(n) ==
    /\ n.touchAge > IdleResetSeconds
    /\ n.stack # <<>> \/ n.preempted

RotateDue(n) ==
    /\ ~IdleResetDue(n)
    /\ Rotating(n)
    /\ n.rotateAge >= RotateSeconds

NavTick(n) ==
    CASE IdleResetDue(n) ->
           [n EXCEPT !.stack = <<>>, !.page = 0,
                     !.preempted = FALSE, !.rotateAge = 0]
      [] RotateDue(n) ->
           [n EXCEPT !.page = (@ + 1) % Len(PAGES), !.rotateAge = 0]
      [] OTHER -> n

Older(age, cap) == IF age < cap THEN age + 1 ELSE cap

Aged(n) == [n EXCEPT !.touchAge  = Older(@, TouchCap),
                     !.rotateAge = Older(@, RotateCap)]
=============================================================================
