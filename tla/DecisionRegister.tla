--------------------------- MODULE DecisionRegister ---------------------------
(***************************************************************************)
(* What the approval workflow promises those who decide and those who wait, *)
(* with no copies of the store, no saves that fail and no crash: a request  *)
(* is decided once, a granted one is executed once, and what was refused,   *)
(* executed or closed stays so.                                             *)
(***************************************************************************)
CONSTANT Requests

VARIABLE standing  \* "open", "granted", "refused", "executed" or "closed"

Init == standing = [r \in Requests |-> "open"]

Becomes(r, from, to) == standing[r] \in from /\ standing'[r] = to

\* The decision that the caller is told of, and the prompt that follows a grant.
Grant(r)   == Becomes(r, {"open"}, "granted")
Refuse(r)  == Becomes(r, {"open"}, "refused")
Execute(r) == Becomes(r, {"granted"}, "executed")

\* It expired, was cleaned up, or was decided by a handler that never answered.
Close(r) == Becomes(r, {"open", "granted"}, "closed")

Idle(r) == standing'[r] = standing[r]

Step(r) == Grant(r) \/ Refuse(r) \/ Execute(r) \/ Close(r) \/ Idle(r)

\* A clean-up or a crash may close several at once.
Next == \A r \in Requests : Step(r)

Spec == Init /\ [][Next]_standing
=============================================================================
