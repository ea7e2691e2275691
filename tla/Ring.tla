-------------------------------- MODULE Ring --------------------------------
(***************************************************************************)
(* The bounded deque of kw_dashboard/logstream.py, collections.deque with  *)
(* a maxlen, as the sequence of its elements.                              *)
(***************************************************************************)
EXTENDS Naturals, Sequences

\* The last `size` elements of a sequence, or all of them.
Latest(seq, size) ==
    IF Len(seq) <= size THEN seq ELSE SubSeq(seq, Len(seq) - size + 1, Len(seq))

\* Slip: what does not fit is not taken.
ExtendUntilFull(buf, lines, size) ==
    IF Len(buf \o lines) <= size THEN buf \o lines ELSE SubSeq(buf \o lines, 1, size)

\* Slip: a list instead of a deque with a limit.
ExtendForever(buf, lines, size) == buf \o lines

\* deque(maxlen=size).extend(lines)
Extend(buf, lines, size) == Latest(buf \o lines, size)
=============================================================================
