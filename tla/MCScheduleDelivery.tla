------------------------- MODULE MCScheduleDelivery -------------------------
(* Small instances of the delivery of scheduled runs for TLC.              *)
EXTENDS ScheduleDelivery, TLC

CONSTANTS w1, w2, d1, d2, t1, t2, t3, t4

FullSymmetry == Permutations({t1, t2, t3, t4}) \cup Permutations({w1, w2})

Sent     == [state |-> "sent", reason |-> "none"]
TimedOut == [state |-> "timed_out", reason |-> "result_timeout"]
Broken   == [state |-> "undeliverable", reason |-> "connector_error"]

SentOrTimedOut == {Sent, TimedOut}
SentOrError    == {Sent, Broken}
=============================================================================
