------------------------------ MODULE Sorting ------------------------------
(***************************************************************************)
(* Python's sorted() and JavaScript's sort().                              *)
(***************************************************************************)
EXTENDS Naturals, FiniteSets

\* A finite set as a sequence: the k-th element is the one that k - 1 others stand
\* before.  Before must be a strict and total order of the set.
SortedBy(S, Before(_, _)) ==
    LET ahead == [x \in S |-> Cardinality({y \in S : Before(y, x)})]
    IN  [k \in 1 .. Cardinality(S) |-> CHOOSE x \in S : ahead[x] = k - 1]
=============================================================================
