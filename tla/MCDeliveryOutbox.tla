-------------------------- MODULE MCDeliveryOutbox --------------------------
(* Small instances of the delivery outbox for TLC.                         *)
EXTENDS DeliveryOutbox, TLC

CONSTANTS d1, d2, d3, t1, t2, t3

Symmetry == Permutations({t1, t2, t3})
TokenSymmetry2 == Permutations({t1, t2})

AllScopes    == {Intents}
SplitScopes  == {Intents, {d1}}

SentOrTimedOut == {v \in Verdict : v.state \in {"sent", "timed_out"}}
SentOnly       == {v \in Verdict : v.state = "sent"}
=============================================================================
