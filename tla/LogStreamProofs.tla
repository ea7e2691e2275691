-------------------------- MODULE LogStreamProofs --------------------------
(***************************************************************************)
(* Proofs about LogStream.tla, for rings, batches, scrolls and windows of  *)
(* every size.                                                             *)
(***************************************************************************)
EXTENDS LogStream, TLAPS

\* What a ring keeps: the last elements, in order, as many as fit.
LEMMA LatestLemma ==
    ASSUME NEW S, NEW seq \in Seq(S), NEW size \in Nat \ {0}
    PROVE  /\ Latest(seq, size) \in Seq(S)
           /\ Len(Latest(seq, size)) = Least(Len(seq), size)
           /\ \A i \in 1 .. Least(Len(seq), size) :
                 Latest(seq, size)[i] = seq[Len(seq) - Least(Len(seq), size) + i]
<1>1. CASE Len(seq) <= size
  <2>1. Latest(seq, size) = seq /\ Least(Len(seq), size) = Len(seq)
    BY <1>1 DEF Latest, Least
  <2>2. \A i \in 1 .. Len(seq) : Len(seq) - Len(seq) + i = i
    OBVIOUS
  <2>3. QED
    BY <2>1, <2>2
<1>2. CASE Len(seq) > size
  <2> DEFINE m == Len(seq) - size + 1
  <2>1. m \in 1 .. Len(seq) /\ Len(seq) - m + 1 = size
    BY <1>2
  <2>2. Latest(seq, size) = SubSeq(seq, m, Len(seq))
    BY <1>2 DEF Latest
  <2>3. /\ SubSeq(seq, m, Len(seq)) \in Seq(S)
        /\ Len(SubSeq(seq, m, Len(seq))) = size
        /\ \A i \in 1 .. size : SubSeq(seq, m, Len(seq))[i] = seq[m + i - 1]
    BY <2>1
  <2>4. Least(Len(seq), size) = size
    BY <1>2 DEF Least
  <2>5. QED
    BY <2>2, <2>3, <2>4
<1>3. QED
  BY <1>1, <1>2

-----------------------------------------------------------------------------
(* The invariant: the window lemmas need both parts. *)

Inv == TypeOK /\ BufferIsTheTail

\* An empty stream satisfies it.
LEMMA InitInv == Init => Inv
BY SizesAssumption DEF Init, Inv, TypeOK, BufferIsTheTail, Least, Greatest

\* A batch keeps it, however much of it the ring drops again.
LEMMA AppendInv ==
    ASSUME Inv, NEW k \in 0 .. MaxBatch, AppendLines(k)
    PROVE  Inv'
<1> USE SizesAssumption
<1> DEFINE lines == [i \in 1 .. k |-> arrived + i]
           all   == buf \o lines
           kept  == Least(Len(all), RingSize)
<1>1. /\ buf \in Seq(Nat) /\ arrived \in Nat /\ k \in Nat
      /\ follow' = follow /\ end' = end /\ arrived' = arrived + k
      /\ buf' = Latest(all, RingSize)
  BY DEF Inv, TypeOK, AppendLines, Extend
<1>2. lines \in Seq(Nat) /\ Len(lines) = k /\ \A i \in 1 .. k : lines[i] = arrived + i
  BY <1>1
<1>3. /\ all \in Seq(Nat) /\ Len(all) = Len(buf) + k
      /\ \A i \in 1 .. Len(buf) : all[i] = buf[i]
      /\ \A i \in Len(buf) + 1 .. Len(buf) + k : all[i] = lines[i - Len(buf)]
  BY <1>1, <1>2
<1>4. \A i \in 1 .. Len(all) : all[i] = arrived' - Len(all) + i
  <2> SUFFICES ASSUME NEW i \in 1 .. Len(buf) + k
               PROVE  all[i] = arrived + k - (Len(buf) + k) + i
    BY <1>1, <1>3
  <2> HIDE DEF all, lines
  <2>1. CASE i <= Len(buf)
    BY <1>1, <1>3, <2>1 DEF Inv, BufferIsTheTail
  <2>2. CASE i > Len(buf)
    <3>1. i - Len(buf) \in 1 .. k
      BY <1>1, <2>2
    <3>2. QED
      BY <1>1, <1>2, <1>3, <2>2, <3>1
  <2>3. QED
    BY <1>1, <2>1, <2>2
<1>5. /\ buf' \in Seq(Nat) /\ Len(buf') = kept
      /\ \A i \in 1 .. kept : buf'[i] = all[Len(all) - kept + i]
  <2> HIDE DEF all
  <2>1. QED
    BY <1>1, <1>3, LatestLemma
<1> HIDE DEF all, lines
<1>6. kept \in Nat /\ kept <= Len(all) /\ kept = Least(arrived', RingSize)
  BY <1>1, <1>3 DEF Least, Inv, BufferIsTheTail
<1>7. BufferIsTheTail'
  <2>1. \A i \in 1 .. kept : buf'[i] = arrived' - kept + i
    <3> SUFFICES ASSUME NEW i \in 1 .. kept
                 PROVE  buf'[i] = arrived' - kept + i
      OBVIOUS
    <3>1. Len(all) - kept + i \in 1 .. Len(all)
      BY <1>3, <1>6
    <3>2. QED
      BY <1>1, <1>3, <1>4, <1>5, <1>6, <3>1
  <2>2. QED
    BY <1>5, <1>6, <2>1 DEF BufferIsTheTail
<1>8. TypeOK'
  <2>1. Len(buf) <= kept
    BY <1>1, <1>3 DEF Least, Inv, BufferIsTheTail
  <2>2. QED
    BY <1>1, <1>5, <1>6, <2>1 DEF Inv, TypeOK, Greatest
<1>9. QED
  BY <1>7, <1>8 DEF Inv

\* Every step keeps it.
LEMMA NextInv == Inv /\ [Next]_vars => Inv'
<1> SUFFICES ASSUME Inv, [Next]_vars PROVE Inv'
  OBVIOUS
<1> USE SizesAssumption
<1>1. CASE \E k \in 0 .. MaxBatch : AppendLines(k)
  BY <1>1, AppendInv
<1>2. CASE \E n \in 1 .. MaxScroll : ScrollUp(n)
  <2>1. PICK n \in 1 .. MaxScroll : ScrollUp(n)
    BY <1>2
  <2>2. /\ buf \in Seq(Nat) /\ end \in Nat /\ end <= Greatest(1, Len(buf)) /\ arrived \in Nat
        /\ n \in Nat \ {0} /\ BufferIsTheTail
    BY DEF Inv, TypeOK
  <2>3. follow' = FALSE /\ buf' = buf /\ arrived' = arrived
    BY <2>1 DEF ScrollUp
  <2>4. end' \in Nat /\ end' <= Greatest(1, Len(buf))
    <3> DEFINE from == IF follow THEN Len(buf) ELSE end
    <3>1. from \in Nat /\ from <= Greatest(1, Len(buf))
      BY <2>2 DEF Greatest
    <3>2. end' = IF from > n THEN from - n ELSE 1
      BY <2>1 DEF ScrollUp
    <3> HIDE DEF from
    <3>3. QED
      BY <2>2, <3>1, <3>2 DEF Greatest
  <2>5. QED
    BY <2>2, <2>3, <2>4 DEF Inv, TypeOK, BufferIsTheTail
<1>3. CASE \E n \in 1 .. MaxScroll : ScrollDown(n)
  <2>1. PICK n \in 1 .. MaxScroll : ScrollDown(n)
    BY <1>3
  <2>2. /\ buf \in Seq(Nat) /\ end \in Nat /\ arrived \in Nat
        /\ n \in Nat \ {0} /\ BufferIsTheTail
    BY DEF Inv, TypeOK
  <2>3. buf' = buf /\ arrived' = arrived /\ end' = Least(Len(buf), end + n)
    BY <2>1 DEF ScrollDown
  <2>4. follow' \in BOOLEAN
    BY <2>1, Zenon DEF ScrollDown
  <2>5. end' \in Nat /\ end' <= Greatest(1, Len(buf))
    BY <2>2, <2>3 DEF Least, Greatest
  <2>6. QED
    BY <2>2, <2>3, <2>4, <2>5 DEF Inv, TypeOK, BufferIsTheTail
<1>4. CASE JumpToLive
  BY <1>4 DEF JumpToLive, Inv, TypeOK, BufferIsTheTail, Greatest
<1>5. CASE UNCHANGED vars
  BY <1>5 DEF vars, Inv, TypeOK, BufferIsTheTail
<1>6. QED
  BY <1>1, <1>2, <1>3, <1>4, <1>5 DEF Next

LEMMA Invariance == Spec => []Inv
BY InitInv, NextInv, PTL DEF Spec

-----------------------------------------------------------------------------
(* The windows *)

\* Where a window of a given height begins and ends.
LEMMA WindowLemma ==
    ASSUME TypeOK, NEW rows \in Nat \ {0}
    PROVE  /\ From(rows) \in Nat /\ To(rows) \in Nat
           /\ From(rows) <= To(rows) /\ To(rows) <= Len(buf)
           /\ To(rows) - From(rows) = Least(rows, Len(buf))
<1>1. Len(buf) \in Nat /\ end \in Nat
  BY DEF TypeOK
<1>2. Bottom \in Nat /\ Bottom <= Len(buf)
  BY <1>1 DEF Bottom, Least
<1> DEFINE b == Bottom
           n == Len(buf)
<1>3. b \in Nat /\ n \in Nat /\ b <= n
  BY <1>1, <1>2
<1>4. From(rows) = IF b > rows THEN b - rows ELSE 0
  BY DEF From
<1>5. To(rows) = IF b < rows THEN Least(n, rows) ELSE b
  BY DEF To
<1> HIDE DEF b
<1>6. CASE b < rows
  <2>1. From(rows) = 0
    BY <1>3, <1>4, <1>6
  <2>2. To(rows) = Least(n, rows)
    BY <1>3, <1>5, <1>6
  <2>3. /\ Least(n, rows) = Least(rows, n)
        /\ Least(rows, n) \in Nat /\ Least(rows, n) <= n
    BY <1>3 DEF Least
  <2>4. QED
    BY <1>3, <2>1, <2>2, <2>3
<1>7. CASE b >= rows
  <2>1. From(rows) = b - rows
    BY <1>3, <1>4, <1>7
  <2>2. To(rows) = b
    BY <1>3, <1>5, <1>7
  <2>3. Least(rows, n) = rows
    BY <1>3, <1>7 DEF Least
  <2>4. QED
    BY <1>3, <1>7, <2>1, <2>2, <2>3
<1>8. QED
  BY <1>3, <1>6, <1>7

\* A window is that many lines, and which ones.
LEMMA VisibleLemma ==
    ASSUME TypeOK, NEW rows \in Nat \ {0}
    PROVE  /\ Visible(rows) \in Seq(Nat)
           /\ Len(Visible(rows)) = Least(rows, Len(buf))
           /\ \A i \in 1 .. Least(rows, Len(buf)) : Visible(rows)[i] = buf[From(rows) + i]
<1>1. /\ From(rows) \in Nat /\ To(rows) \in Nat
      /\ From(rows) <= To(rows) /\ To(rows) <= Len(buf)
      /\ To(rows) - From(rows) = Least(rows, Len(buf))
  BY WindowLemma
<1>2. /\ buf \in Seq(Nat) /\ From(rows) + 1 \in 1 .. Len(buf) + 1 /\ To(rows) \in 0 .. Len(buf)
      /\ To(rows) - (From(rows) + 1) + 1 = Least(rows, Len(buf))
  BY <1>1 DEF TypeOK
<1> DEFINE f == From(rows)
           t == To(rows)
           n == Least(rows, Len(buf))
<1>3. /\ buf \in Seq(Nat) /\ f \in Nat /\ t \in Nat /\ f <= t /\ t <= Len(buf) /\ t - f = n
      /\ n \in Nat
  BY <1>1, <1>2
<1>4. Visible(rows) = SubSeq(buf, f + 1, t)
  BY DEF Visible
<1> HIDE DEF f, t, n
<1>5. SubSeq(buf, f + 1, t) \in Seq(Nat) /\ Len(SubSeq(buf, f + 1, t)) = n
  BY <1>3
<1>6. \A i \in 1 .. n : SubSeq(buf, f + 1, t)[i] = buf[f + i]
  BY <1>3
<1>7. QED
  BY <1>4, <1>5, <1>6 DEF f, n

-----------------------------------------------------------------------------
(* The theorems *)

\* Every variable of the stream stays in its domain.
THEOREM TypeCorrect == Spec => []TypeOK
BY Invariance, PTL DEF Inv

\* The ring holds the tail of what arrived, whatever its size and the batches'.
THEOREM TailIsKept == Spec => []BufferIsTheTail
BY Invariance, PTL DEF Inv

\* Windows of every height are as full as the buffer allows.
THEOREM WindowsAreFull == Spec => []WindowIsFull
<1>1. TypeOK => WindowIsFull
  BY VisibleLemma, SizesAssumption DEF WindowIsFull
<1>2. QED
  BY <1>1, TypeCorrect, PTL

\* A paused window does not move as long as nothing is dropped.
THEOREM PauseHolds == Spec => PausedViewStays
<1> DEFINE Stays == ~follow /\ arrived' > arrived /\ arrived' <= RingSize
                      => \A rows \in Rows : rows <= Len(buf) => Visible(rows)' = Visible(rows)
<1>1. Inv /\ Inv' /\ [Next]_vars => Stays
  <2> SUFFICES ASSUME Inv, Inv', [Next]_vars,
                      ~follow, arrived' > arrived, arrived' <= RingSize,
                      NEW rows \in Rows, rows <= Len(buf)
               PROVE  Visible(rows)' = Visible(rows)
    OBVIOUS
  <2> USE SizesAssumption
  <2>1. /\ buf \in Seq(Nat) /\ buf' \in Seq(Nat) /\ end \in Nat
        /\ arrived \in Nat /\ arrived' \in Nat /\ rows \in Nat \ {0}
    BY DEF Inv, TypeOK
  <2>2. follow' = follow /\ end' = end
    <3>1. arrived' # arrived
      BY <2>1
    <3>2. \E k \in 0 .. MaxBatch : AppendLines(k)
      BY <3>1 DEF Next, ScrollUp, ScrollDown, JumpToLive, vars
    <3>3. QED
      BY <3>2 DEF AppendLines
  <2>3. Len(buf) = arrived /\ \A i \in 1 .. arrived : buf[i] = i
    <3>1. Len(buf) = arrived
      BY <2>1 DEF Inv, BufferIsTheTail, Least
    <3>2. \A i \in 1 .. Len(buf) : buf[i] = arrived - Len(buf) + i
      BY DEF Inv, BufferIsTheTail
    <3>3. QED
      BY <2>1, <3>1, <3>2
  <2>4. Len(buf') = arrived' /\ \A i \in 1 .. arrived' : buf'[i] = i
    <3>1. Len(buf') = arrived'
      BY <2>1 DEF Inv, BufferIsTheTail, Least
    <3>2. \A i \in 1 .. Len(buf') : buf'[i] = arrived' - Len(buf') + i
      BY DEF Inv, BufferIsTheTail
    <3>3. QED
      BY <2>1, <3>1, <3>2
  <2>5. end <= Greatest(1, arrived) /\ rows <= arrived
    BY <2>3 DEF Inv, TypeOK
  <2>6. Bottom \in Nat /\ Bottom <= arrived
    BY <2>1, <2>3 DEF Bottom, Least
  <2>7. Bottom' = Bottom \/ arrived = 0
    BY <2>1, <2>2, <2>3, <2>4, <2>5 DEF Bottom, Least, Greatest
  <2>8. arrived # 0
    BY <2>1, <2>5
  <2>9. From(rows)' = From(rows) /\ To(rows)' = To(rows)
    <3>1. Bottom' = Bottom
      BY <2>7, <2>8
    <3>2. From(rows)' = From(rows)
      BY <3>1 DEF From
    <3>3. CASE Bottom < rows
      <4>1. Bottom' < rows
        BY <3>1, <3>3
      <4>2. To(rows) = Least(Len(buf), rows) /\ To(rows)' = Least(Len(buf'), rows)
        BY <3>3, <4>1 DEF To
      <4>3. Least(Len(buf), rows) = rows /\ Least(Len(buf'), rows) = rows
        BY <2>1, <2>3, <2>4, <2>5 DEF Least
      <4>4. QED
        BY <3>2, <4>2, <4>3
    <3>4. CASE ~(Bottom < rows)
      <4>1. ~(Bottom' < rows)
        BY <3>1, <3>4
      <4>2. To(rows) = Bottom /\ To(rows)' = Bottom'
        BY <3>4, <4>1 DEF To
      <4>3. QED
        BY <3>1, <3>2, <4>2
    <3>5. QED
      BY <3>3, <3>4
  <2>10. To(rows) <= arrived /\ From(rows) \in Nat /\ To(rows) \in Nat
    BY <2>1, <2>3, WindowLemma DEF Inv
  <2>11. SubSeq(buf', From(rows) + 1, To(rows)) = SubSeq(buf, From(rows) + 1, To(rows))
    <3> DEFINE f == From(rows)
               t == To(rows)
    <3>1. f \in Nat /\ t \in Nat /\ t <= Len(buf) /\ t <= Len(buf')
      BY <2>1, <2>3, <2>4, <2>10
    <3>2. \A i \in f + 1 .. t : buf'[i] = buf[i]
      BY <2>1, <2>3, <2>4, <2>10
    <3> HIDE DEF f, t
    <3>3. SubSeq(buf', f + 1, t) = SubSeq(buf, f + 1, t)
      BY <2>1, <3>1, <3>2
    <3>4. QED
      BY <3>3 DEF f, t
  <2>12. QED
    BY <2>9, <2>11 DEF Visible
<1>2. QED
  BY <1>1, Invariance, PTL DEF Spec, PausedViewStays
=============================================================================
