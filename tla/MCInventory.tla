---------------------------- MODULE MCInventory ----------------------------
(***************************************************************************)
(* An instance of Inventory.tla for TLC.                                   *)
(***************************************************************************)
EXTENDS Inventory

\* "old" and "new" are the same machine under two names.
ThreeNodes      == <<"new", "old", "other">>
ThreeAddresses  == [n \in ToSet(ThreeNodes) |-> IF n = "other" THEN 2 ELSE 1]

TwoNamespaces   == <<"apps", "jobs">>
TwoPods         == {"web", "job"}
HomeNamespaces  == [p \in TwoPods |-> IF p = "job" THEN "jobs" ELSE "apps"]

Crashing        == [phase |-> "Running", allReady |-> FALSE]
Done            == [phase |-> "Succeeded", allReady |-> FALSE]
TwoStatuses     == {Crashing, Done}
=============================================================================
