---------------------------- MODULE MCNotifyQueue ----------------------------
(* Two producers with two nodes each against a budget of two: a batch or    *)
(* both producers exhaust the budget, so that the re-check and the          *)
(* re-notification at the end of the callback happen.                       *)
EXTENDS NotifyQueue

CONSTANTS p1, p2

TwoProducers == {p1, p2}
MCNodes == Producers \X (1..Batch)
=============================================================================
