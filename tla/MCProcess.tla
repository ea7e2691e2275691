----------------------------- MODULE MCProcess -----------------------------
(* The clock is set forward or back, by one unit, once (MaxSteps). *)
EXTENDS Process

BackAndForth == {-1, 1}
=============================================================================
