---------------------------- MODULE MCAlertList ----------------------------
(***************************************************************************)
(* An instance of AlertList.tla for TLC, with alerts of every kind that    *)
(* the ranking tells apart and two that it does not: two criticals, one of *)
(* them without a start; an unknown severity; and two without a severity   *)
(* that tie.                                                               *)
(***************************************************************************)
EXTENDS AlertList

FiveAlerts == {"down", "downToo", "odd", "bare", "bareToo"}
FiveLabels == [a \in FiveAlerts |-> CASE a \in {"down", "downToo"} -> "critical"
                                      [] a = "odd" -> "page" [] OTHER -> "none"]
FiveStarts == [a \in FiveAlerts |-> CASE a = "downToo" -> 0 [] a = "odd" -> 2 [] OTHER -> 1]
=============================================================================
