------------------------------- MODULE Feeds -------------------------------
(***************************************************************************)
(* What the snapshot promises its reader about every source, without       *)
(* calls, threads, clocks and processes (collector.py:1-2, model.py:40-60, *)
(* and the design, section 6): data of bounded age are put there first and *)
(* vouched for next; what goes wrong with one source is told of that       *)
(* source, leaves its data and its stamp as they were, and touches no      *)
(* other.  Everything may be forgotten at once, when the process ends.     *)
(***************************************************************************)
EXTENDS Integers

CONSTANTS
    AllFeeds,    \* the sources
    Followed,    \* those whose ages are followed
    Reliable,    \* those for which nothing can go wrong
    Longest,     \* of each, the age of its data when they appear, at most
    Oldest       \* the bound on ages

Nothing == -1    \* no data, or no stamp, yet

VARIABLES
    data,        \* the age of each feed's data
    stamp,       \* the age of the stamp that vouches for them
    blamed,      \* what is said to be failing
    unvouched    \* feeds with data newer than their stamp

feedVars == <<data, stamp, blamed, unvouched>>

FeedsInit ==
    /\ data = [f \in Followed |-> Nothing]
    /\ stamp = [f \in Followed |-> Nothing]
    /\ blamed = [f \in AllFeeds |-> FALSE]
    /\ unvouched = {}

Within(age) == IF age < Oldest THEN age ELSE Oldest

\* New data appear.
Replace(f) ==
    /\ f \notin unvouched /\ unvouched' = unvouched \cup {f}
    /\ \E age \in 0 .. Longest[f] :
          data' = [g \in Followed |-> IF g = f THEN Within(age) ELSE data[g]]
    /\ UNCHANGED <<stamp, blamed>>

\* They are vouched for, and what was said of this feed is taken back.
Vouch(f) ==
    /\ f \in unvouched /\ unvouched' = unvouched \ {f}
    /\ stamp' = [g \in Followed |-> IF g = f THEN 0 ELSE stamp[g]]
    /\ blamed' = [blamed EXCEPT ![f] = FALSE]
    /\ UNCHANGED data

\* Something goes wrong with it.
Blame(f) ==
    /\ f \notin Reliable /\ f \notin unvouched
    /\ blamed' = [blamed EXCEPT ![f] = TRUE]
    /\ UNCHANGED <<data, stamp, unvouched>>

\* Time passes, but not between new data and their stamp.
Age ==
    /\ unvouched = {}
    /\ LET aged(ages) == [f \in Followed |-> IF ages[f] = Nothing THEN Nothing
                                             ELSE Within(ages[f] + 1)]
       IN  data' = aged(data) /\ stamp' = aged(stamp)
    /\ UNCHANGED <<blamed, unvouched>>

\* The process ends, and with it what it knew.
Forget ==
    /\ data' = [f \in Followed |-> Nothing]
    /\ stamp' = [f \in Followed |-> Nothing]
    /\ blamed' = [f \in AllFeeds |-> FALSE]
    /\ unvouched' = {}

FeedsNext == Age \/ Forget \/ \E f \in AllFeeds : Replace(f) \/ Vouch(f) \/ Blame(f)

FeedsSpec == FeedsInit /\ [][FeedsNext]_feedVars
=============================================================================
