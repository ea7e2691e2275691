------------------------------- MODULE Series -------------------------------
(***************************************************************************)
(* A series from Prometheus's answer to the chart and its legend: dropping *)
(* what is not finite (parse_matrix), thinning out for display             *)
(* (downsample), the legend's numbers (stats).                             *)
(*                                                                         *)
(* downsample rounds i * step in floating point.  Where that lies halfway  *)
(* between two points, either may be taken: Python rounds a half to the    *)
(* even side, and the product may be off by its last bit.  The comprehen-  *)
(* sion is modelled one index at a time.                                   *)
(***************************************************************************)
EXTENDS Sorting, Integers, Sequences, SequencesExt, FiniteSetsExt

CONSTANTS
    Values,      \* of a point
    NotFinite,   \* NaN, or an infinity
    Longest,     \* bounds the answers
    Limits       \* the max_points considered (120 in collector.py:15)

ASSUME SeriesAssumption ==
    Values \subseteq Int /\ NotFinite \notin Values /\ Longest \in Nat /\ Limits \subseteq Nat \ {0}

VARIABLES
    answer,      \* the values in Prometheus's answer that are still to parse, by time
    maxPoints,
    phase,       \* "parse", "pick", "draw", "done"
    points,      \* the parsed points
    picked,      \* picked[i + 1] = round(i * step)
    drawn,       \* the points in the chart
    legend       \* its numbers

vars == <<answer, maxPoints, phase, points, picked, drawn, legend>>

AnswersUpTo(n) == UNION {[1 .. k -> Values \cup {NotFinite}] : k \in 0 .. n}

Init ==
    /\ answer \in AnswersUpTo(Longest)
    /\ maxPoints \in Limits
    /\ phase = "parse"
    /\ points = <<>> /\ picked = <<>> /\ drawn = <<>>
    /\ legend = [min |-> 0, max |-> 0, last |-> 0]

\* parse_matrix
ParsePoint ==
    /\ phase = "parse" /\ answer # <<>>
    /\ points' = IF Head(answer) = NotFinite THEN points ELSE Append(points, Head(answer))
    /\ answer' = Tail(answer)
    /\ UNCHANGED <<maxPoints, phase, picked, drawn, legend>>

\* Slip: a series that fits is thinned out as well.
ThinOutAlways ==
    /\ phase = "parse" /\ answer = <<>>
    /\ phase' = IF maxPoints <= 1 THEN "draw" ELSE "pick"
    /\ UNCHANGED <<answer, maxPoints, points, picked, drawn, legend>>

\* The early returns of downsample.
ThinOut ==
    /\ phase = "parse" /\ answer = <<>>
    /\ phase' = IF Len(points) <= maxPoints \/ maxPoints <= 1 THEN "draw" ELSE "pick"
    /\ UNCHANGED <<answer, maxPoints, points, picked, drawn, legend>>

\* Slip: the step is taken from the number of points.
RoundOfShortStep(k, i) ==
    LET twice == 2 * (k * maxPoints - i * (Len(points) - 1))
    IN  -maxPoints <= twice /\ twice <= maxPoints

\* Slip: every n-th point, and the last.
EveryNthAndTheLast(k, i) ==
    k = IF i = maxPoints - 1 THEN Len(points) - 1
        ELSE i * ((Len(points) - 1) \div (maxPoints - 1))

\* k = round(i * step), where step = (len(points) - 1) / (max_points - 1)
IsRound(k, i) ==
    LET twice == 2 * (k * (maxPoints - 1) - i * (Len(points) - 1))
    IN  -(maxPoints - 1) <= twice /\ twice <= maxPoints - 1

Pick ==
    /\ phase = "pick"
    /\ \E k \in 0 .. Len(points) - 1 :
          /\ IsRound(k, Len(picked))
          /\ picked' = Append(picked, k)
    /\ phase' = IF Len(picked') = maxPoints THEN "draw" ELSE "pick"
    /\ UNCHANGED <<answer, maxPoints, points, drawn, legend>>

\* sorted(set(...)), or one of the early returns.
Kept ==
    IF Len(points) <= maxPoints THEN points
    ELSE IF maxPoints <= 1 THEN <<points[Len(points)]>>
    ELSE LET order == SortedBy(ToSet(picked), <)
         IN  [j \in DOMAIN order |-> points[order[j] + 1]]

\* stats
Stats(list) ==
    IF list = <<>> THEN [min |-> 0, max |-> 0, last |-> 0]
    ELSE [min |-> Min(ToSet(list)), max |-> Max(ToSet(list)), last |-> list[Len(list)]]

\* Slip: the numbers of all points, whether they are drawn or not.
DrawWithStatsOfAll ==
    /\ phase = "draw"
    /\ drawn' = Kept
    /\ legend' = Stats(points)
    /\ phase' = "done"
    /\ UNCHANGED <<answer, maxPoints, points, picked>>

\* _series_dicts
Draw ==
    /\ phase = "draw"
    /\ drawn' = Kept
    /\ legend' = Stats(drawn')
    /\ phase' = "done"
    /\ UNCHANGED <<answer, maxPoints, points, picked>>

Next == ParsePoint \/ ThinOut \/ Pick \/ Draw

Spec == Init /\ [][Next]_vars

-----------------------------------------------------------------------------

\* However the halves are rounded, the picks ascend strictly, so that sorted(set(...))
\* loses none of them: the chart has max_points points, no more and no fewer
\* (series.py:29, 36).
PicksAscend ==
    \A i \in 1 .. Len(picked) - 1 : picked[i] < picked[i + 1]

\* "always keeping the first and last point" (series.py:28): the first pick is the
\* oldest point and the last the newest.
EndsArePicked ==
    /\ Len(picked) > 0 => picked[1] = 0
    /\ Len(picked) = maxPoints /\ maxPoints > 1 => picked[maxPoints] = Len(points) - 1

\* "Evenly" (series.py:28): no two gaps differ by more than one point.
GapsAreEven ==
    \A i, j \in 1 .. Len(picked) - 1 :
        (picked[i + 1] - picked[i]) - (picked[j + 1] - picked[j]) \in -1 .. 1

\* What the legend says, the chart shows: its extremes are points of the chart, and
\* its "last" is the newest finite value, the chart's last point.
LegendIsOfTheChart ==
    phase = "done" /\ points # <<>> =>
        /\ Len(drawn) = Min({Len(points), maxPoints})
        /\ {legend.min, legend.max} \subseteq ToSet(drawn)
        /\ \A v \in ToSet(drawn) : legend.min <= v /\ v <= legend.max
        /\ legend.last = drawn[Len(drawn)] /\ legend.last = points[Len(points)]
=============================================================================
