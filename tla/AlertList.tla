----------------------------- MODULE AlertList -----------------------------
(***************************************************************************)
(* The alerts from Alertmanager's answer to the list on the screen:        *)
(* parsing and ranking (sources/alerts.py), the collector's poll           *)
(* (collector.py) and the Alerts page (qml/pages/Alerts.qml).              *)
(*                                                                         *)
(* An alert's severity label and start are part of what it is, so they are *)
(* constants; what changes is whether it fires, whether it is silenced,    *)
(* and where it stands in Alertmanager's answer.  The bridge hands one     *)
(* snapshot after the other to the page: what holds of every snapshot      *)
(* holds of the page.                                                      *)
(***************************************************************************)
EXTENDS Table, Sorting, Integers, Sequences, SequencesExt

CONSTANTS
    Alerts,
    SeverityLabel,   \* of each alert; "none" if it carries no such label
    StartsAt,        \* of each alert; 0 if it is missing or cannot be parsed
    AlertSlots       \* rows of the list (5 in Alerts.qml:39)

ASSUME AlertSlotsAssumption  == AlertSlots \in Nat \ {0}
ASSUME StartsAssumption == StartsAt \in [Alerts -> Int]

VARIABLES
    firing,   \* what Alertmanager would answer: alerts with their states, in order
    alerts    \* snap.alerts

alertVars == <<firing, alerts>>

AlertInit == firing = <<>> /\ alerts = <<>>

-----------------------------------------------------------------------------
(* sources/alerts.py *)

\* Slip: silenced alerts are alerts.
ParseAll(payload) == [i \in DOMAIN payload |-> payload[i].alert]

\* Suppressed and silenced alerts must not seize the screen.
ParseAlerts(payload) ==
    LET active == SortedBy({i \in DOMAIN payload : payload[i].state = "active"}, <)
    IN  [k \in DOMAIN active |-> payload[active[k]].alert]

Severity(a) == IF SeverityLabel[a] = "none" THEN "info" ELSE SeverityLabel[a]

Order(a) ==
    CASE Severity(a) = "critical" -> 0
      [] Severity(a) = "warning"  -> 1
      [] Severity(a) = "info"     -> 2
      [] OTHER                    -> 99

\* A missing start counts as the epoch: it ranks behind the others.
Precedes(a, b) ==
    \/ Order(a) < Order(b)
    \/ Order(a) = Order(b) /\ StartsAt[a] > StartsAt[b]

\* Slip: only the start counts.
RankByStart(list) == SortSeq(list, LAMBDA a, b : StartsAt[a] > StartsAt[b])

\* sorted(): alerts with equal keys stay in their order.
RankAlerts(list) ==
    LET before(i, j) == \/ Precedes(list[i], list[j])
                        \/ ~Precedes(list[j], list[i]) /\ i < j
        order == SortedBy(DOMAIN list, before)
    IN  [k \in DOMAIN list |-> list[order[k]]]

HasCritical(list) == \E i \in DOMAIN list : Severity(list[i]) = "critical"

-----------------------------------------------------------------------------
(* Alertmanager *)

IsFiring(a) == \E i \in DOMAIN firing : firing[i].alert = a

Fire(a) ==
    /\ ~IsFiring(a)
    /\ \E i \in 1 .. Len(firing) + 1 :
          firing' = InsertAt(firing, i, [alert |-> a, state |-> "active"])
    /\ UNCHANGED alerts

Resolve(a) ==
    /\ \E i \in DOMAIN firing :
          /\ firing[i].alert = a
          /\ firing' = RemoveAt(firing, i)
    /\ UNCHANGED alerts

\* A silence begins or ends.
Silence(a) ==
    /\ \E i \in DOMAIN firing :
          /\ firing[i].alert = a
          /\ firing' = [firing EXCEPT ![i].state =
                           IF @ = "active" THEN "suppressed" ELSE "active"]
    /\ UNCHANGED alerts

-----------------------------------------------------------------------------
(* The collector *)

\* A call that fails, or whose answer cannot be parsed, leaves the old list: a
\* stutter.
PollAnswered ==
    /\ UNCHANGED firing
    /\ alerts' = RankAlerts(ParseAlerts(firing))

AlertNext ==
    \/ \E a \in Alerts : Fire(a) \/ Resolve(a) \/ Silence(a)
    \/ PollAnswered

AlertSpec == AlertInit /\ [][AlertNext]_alertVars

-----------------------------------------------------------------------------
(* The page *)

RowsOnPage == RowsShown(alerts, AlertSlots)

-----------------------------------------------------------------------------

\* The takeover is for a critical alert, and the page it switches to begins with
\* one, the latest; none is hidden in the note while the page shows anything less
\* (bridge.py:121-123 decides on the list, Alerts.qml cuts it off).
TakeoverShowsItsAlert ==
    HasCritical(alerts) /\ AlertSlots > 1 =>
        /\ RowsOnPage # <<>> /\ Severity(RowsOnPage[1]) = "critical"
        /\ \A i \in DOMAIN alerts :
              Severity(alerts[i]) = "critical"
                => /\ StartsAt[alerts[i]] <= StartsAt[RowsOnPage[1]]
                   /\ i > Len(RowsOnPage)
                        => \A k \in DOMAIN RowsOnPage : Severity(RowsOnPage[k]) = "critical"

\* An answered poll lists every alert that fires unsilenced, each once, and no other
\* (alerts.py:22-23).
ListIsWhatFires ==
    [][PollAnswered =>
          /\ IsInjective(alerts')
          /\ \A a \in Alerts :
                a \in ToSet(alerts') <=> [alert |-> a, state |-> "active"] \in ToSet(firing)]_alertVars
=============================================================================
