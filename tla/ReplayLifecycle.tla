--------------------------- MODULE ReplayLifecycle ---------------------------
(***************************************************************************)
(* The in-memory table with which a connector decides whether an event or  *)
(* an action that a chat platform delivers again is to be processed again  *)
(* (services/connector_replay_lifecycle.py).  A table is a function from   *)
(* keys to records; the operators below are its methods, each on a table   *)
(* whose expired records are gone (Unexpired), as every method of the      *)
(* class first removes them.  A method runs under the table's lock, so it  *)
(* is one step of its caller.                                              *)
(*                                                                         *)
(* `left' is what is left until expires_at, `idle' the time since          *)
(* updated_at.  Nothing in the table names the caller that holds a claim.  *)
(***************************************************************************)
EXTENDS Naturals, FiniteSets

CONSTANTS
  LIFECYCLE_TTL,  \* ttl_sec, in ticks
  MAX_ENTRIES     \* max_entries

ASSUME LifecycleAssumption ==
  LIFECYCLE_TTL \in Nat \ {0} /\ MAX_ENTRIES \in Nat \ {0}

Finals          == {"delivered", "terminal_failure"}
LifecycleState  == {"claimed", "retryable_failure"} \cup Finals
LifecycleRecord ==
  [state : LifecycleState \cup {"absent"}, left : 0 .. LIFECYCLE_TTL, idle : 0 .. LIFECYCLE_TTL]

NoEntry      == [state |-> "absent", left |-> 0, idle |-> 0]
EntryIn(s)   == [state |-> s, left |-> LIFECYCLE_TTL, idle |-> 0]
Entries(m)   == {k \in DOMAIN m : m[k].state # "absent"}
With(m, k, r) == [x \in DOMAIN m |-> IF x = k THEN r ELSE m[x]]
Unexpired(m) == [k \in DOMAIN m |-> IF m[k].left = 0 THEN NoEntry ELSE m[k]]

\* Mutations: what another delivery holds, or has committed, is accepted again.
AcceptsInFlight(m, k)   == m[k].state \notin Finals
AcceptsCommitted(m, k)  == m[k].state # "claimed"

\* What claim accepts: a key without a record, or one that was released.
Accepts(m, k) == m[k].state \in {"absent", "retryable_failure"}

\* The record that _enforce_cap_locked drops: the one not updated for longest.
\* The table holds at most one too many, and the new record is never the oldest.
LeastRecent(m) == {v \in Entries(m) : \A w \in Entries(m) : m[w].idle <= m[v].idle}

\* Mutation: the bound is not enforced.
ClaimsUnbounded(m, k) ==
  {IF Accepts(m, k) THEN With(m, k, EntryIn("claimed")) ELSE With(m, k, [m[k] EXCEPT !.idle = 0])}

\* claim: a new record may push out another; a duplicate only counts as an update.
Claims(m, k) ==
  IF Accepts(m, k)
  THEN LET n == With(m, k, EntryIn("claimed"))
       IN  IF Cardinality(Entries(n)) <= MAX_ENTRIES THEN {n}
           ELSE {With(n, v, NoEntry) : v \in LeastRecent(m)}
  ELSE {With(m, k, [m[k] EXCEPT !.idle = 0])}

\* release_retryable and, below, commit_success and fail_terminal.
Released(m, k) ==
  IF m[k].state = "claimed" THEN With(m, k, EntryIn("retryable_failure")) ELSE m

Closed(m, k, s) ==
  IF m[k].state \in {"claimed", "retryable_failure"} THEN With(m, k, EntryIn(s)) ELSE m

\* A tick of the clock.
Elapsed(m) ==
  [k \in DOMAIN m |-> IF m[k].left = 0 THEN m[k]
                      ELSE [m[k] EXCEPT !.left = @ - 1, !.idle = @ + 1]]
=============================================================================
