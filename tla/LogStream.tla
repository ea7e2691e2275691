----------------------------- MODULE LogStream -----------------------------
(***************************************************************************)
(* The log buffer with follow and pause (kw_dashboard/logstream.py): lines *)
(* arrive in batches at any time, while a reader scrolls and looks at      *)
(* windows of any height.  A line is the number of its arrival.            *)
(***************************************************************************)
EXTENDS Ring

CONSTANTS
    RingSize,    \* lines kept (2000 in config.py:39)
    MaxBatch,    \* bound: lines that arrive together
    MaxLines,    \* bound: lines that ever arrive
    MaxScroll,   \* bound: lines scrolled at once
    Rows         \* window heights

ASSUME SizesAssumption ==
    /\ RingSize \in Nat \ {0}
    /\ MaxBatch \in Nat /\ MaxLines \in Nat /\ MaxScroll \in Nat
    /\ Rows \subseteq Nat \ {0}

VARIABLES
    buf,      \* _buf
    follow,   \* follow
    end,      \* _end: how many lines of buf are before the paused window's end
    arrived   \* how many lines ever arrived; the reader does not see this

vars == <<buf, follow, end, arrived>>

Least(a, b)    == IF a < b THEN a ELSE b
Greatest(a, b) == IF a < b THEN b ELSE a

Init == buf = <<>> /\ follow = TRUE /\ end = 0 /\ arrived = 0

AppendLines(k) ==
    /\ arrived + k <= MaxLines
    /\ buf' = Extend(buf, [i \in 1 .. k |-> arrived + i], RingSize)
    /\ arrived' = arrived + k
    /\ UNCHANGED <<follow, end>>

ScrollUp(n) ==
    LET from == IF follow THEN Len(buf) ELSE end
    IN  /\ end' = IF from > n THEN from - n ELSE 1
        /\ follow' = FALSE
        /\ UNCHANGED <<buf, arrived>>

\* Slip: the end of the buffer is overrun.
ScrollDownPastTheEnd(n) ==
    /\ end' = end + n
    /\ UNCHANGED <<buf, follow, arrived>>

ScrollDown(n) ==
    /\ end' = Least(Len(buf), end + n)
    /\ follow' = (follow \/ end' = Len(buf))
    /\ UNCHANGED <<buf, arrived>>

JumpToLive ==
    /\ follow' = TRUE /\ end' = Len(buf)
    /\ UNCHANGED <<buf, arrived>>

Next ==
    \/ \E k \in 0 .. MaxBatch : AppendLines(k)
    \/ \E n \in 1 .. MaxScroll : ScrollUp(n) \/ ScrollDown(n)
    \/ JumpToLive

Spec == Init /\ [][Next]_vars

-----------------------------------------------------------------------------
(* visible(rows): the lines after the first From(rows), up to the To(rows)-th. *)

\* Slip: always the end of the buffer.
BottomOfAll == Len(buf)

Bottom == IF follow THEN Len(buf) ELSE Least(end, Len(buf))

From(rows) == IF Bottom > rows THEN Bottom - rows ELSE 0

\* Slip: the window is not filled up when it is scrolled to the top.
ToTheBottom(rows) == Bottom

\* The window stays full when it is scrolled to the top.
To(rows) == IF Bottom < rows THEN Least(Len(buf), rows) ELSE Bottom

Visible(rows) == SubSeq(buf, From(rows) + 1, To(rows))

-----------------------------------------------------------------------------

\* Every variable stays in its domain: the end of a paused window is a position
\* in the buffer, or 1 while the buffer was empty when it was paused.
TypeOK ==
    /\ buf \in Seq(Nat)
    /\ follow \in BOOLEAN
    /\ end \in Nat /\ end <= Greatest(1, Len(buf))
    /\ arrived \in Nat

\* The buffer is the tail of what arrived: bounded, in order, without a gap.
BufferIsTheTail ==
    /\ Len(buf) = Least(arrived, RingSize)
    /\ \A i \in 1 .. Len(buf) : buf[i] = arrived - Len(buf) + i

\* Whatever was scrolled, a window shows as many lines as it has rows or as there
\* are lines; scrolled to the top it is filled up from below
\* (logstream.py:51-52).
WindowIsFull == \A rows \in Rows : Len(Visible(rows)) = Least(rows, Len(buf))

\* As long as nothing is dropped, lines that arrive do not move a paused window
\* (test_logstream.py:26-32).
PausedViewStays ==
    [][~follow /\ arrived' > arrived /\ arrived' <= RingSize
         => \A rows \in Rows : rows <= Len(buf) => Visible(rows)' = Visible(rows)]_vars
=============================================================================
