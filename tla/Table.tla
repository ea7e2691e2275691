------------------------------- MODULE Table -------------------------------
(***************************************************************************)
(* The pages' tables with a fixed number of slots: when the items do not   *)
(* fit, the last slot becomes the note "+ N more" (qml/pages/Alerts.qml,   *)
(* qml/pages/Cluster.qml).                                                 *)
(***************************************************************************)
EXTENDS Naturals, Sequences

\* The rows that are visible: index < shownRows.
RowsShown(items, slots) ==
    LET shown == IF Len(items) > slots THEN slots - 1 ELSE slots
    IN  SubSeq(items, 1, IF Len(items) < shown THEN Len(items) ELSE shown)

\* The number in the note, 0 if there is none.
More(items, slots) == IF Len(items) > slots THEN Len(items) - (slots - 1) ELSE 0
=============================================================================
