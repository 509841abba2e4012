--------------------------- MODULE ExecutionBudgets ---------------------------
(***************************************************************************)
(* The concurrency budgets of prompt submissions (acquire of               *)
(* services/execution_budgets.py): a submission checks the global, its     *)
(* source's and its tenant's semaphore without waiting, is denied if one   *)
(* is locked, and then acquires them in the order global, tenant, source.  *)
(*                                                                         *)
(* Submissions run in several threads with an event loop each (handlers in *)
(* the server's, the bridge's in pool threads, the scheduler's in its own) *)
(* and share one limiter.  A semaphore of asyncio is not made for that:    *)
(* its acquire tests the value and then decrements it, and a thread can be *)
(* switched in between, so that two take the last slot and the value turns *)
(* negative, which `locked' does not count as locked.  A submission that   *)
(* finds a slot gone waits inside acquire, where it may be cancelled,      *)
(* which is no Exception, or fail, because a semaphore serves the waiters  *)
(* of one event loop only.                                                 *)
(*                                                                         *)
(* A submission without a semaphore of its own (an unknown source, or a    *)
(* tenant when tenants are off) has none to check.                         *)
(***************************************************************************)
EXTENDS Integers, FiniteSets

CONSTANTS
  Submits,        \* submissions
  Gates,          \* the semaphores: the global one, of sources, of tenants
  GlobalGate,     \* _global_semaphore
  SourceGate,     \* of each submission: its source's semaphore, or "none"
  TenantGate,     \* of each submission: its tenant's semaphore, or "none"
  CAP             \* of each semaphore: its initial value

ASSUME BudgetsAssumption ==
  /\ IsFiniteSet(Submits)
  /\ GlobalGate \in Gates /\ "none" \notin Gates
  /\ SourceGate \in [Submits -> (Gates \ {GlobalGate}) \cup {"none"}]
  /\ TenantGate \in [Submits -> (Gates \ {GlobalGate}) \cup {"none"}]
  /\ \A s, t \in Submits : SourceGate[s] # "none" => SourceGate[s] # TenantGate[t]
  /\ CAP \in [Gates -> Nat \ {0}]

VARIABLES
  stage,     \* what each submission is about to check or to acquire
  looked,    \* whether it has found that semaphore open and not yet taken a slot
  free,      \* the value of each semaphore
  inflight,  \* _inflight_total
  leaked     \* slots that no submission holds and that were never released

budgetVars == <<stage, looked, free, inflight, leaked>>

CheckStage   == {"check_global", "check_source", "check_tenant"}
AcquireStage == {"acquire_global", "acquire_tenant", "acquire_source"}
Stage        == CheckStage \cup AcquireStage \cup {"posting", "over"}

Beyond == [check_global   |-> "check_source",   check_source   |-> "check_tenant",
           check_tenant   |-> "acquire_global", acquire_global |-> "acquire_tenant",
           acquire_tenant |-> "acquire_source", acquire_source |-> "posting"]

\* The semaphore that a stage is about, if the submission has it.
GateOf(s) ==
  (CASE stage[s] \in {"check_global", "acquire_global"} -> {GlobalGate}
     [] stage[s] \in {"check_source", "acquire_source"} -> {SourceGate[s]}
     [] OTHER                                           -> {TenantGate[s]}) \ {"none"}

\* The semaphores a submission needs, and those it holds at its stage.
Needs(s) == {GlobalGate, TenantGate[s], SourceGate[s]} \ {"none"}
Held(s) ==
  CASE stage[s] = "acquire_tenant" -> {GlobalGate}
    [] stage[s] = "acquire_source" -> {GlobalGate, TenantGate[s]} \ {"none"}
    [] stage[s] = "posting"        -> Needs(s)
    [] OTHER                       -> {}
Holders(g) == {s \in Submits : g \in Held(s)}

Locked(s)  == \E g \in GateOf(s) : free[g] = 0
Release(G) == free' = [g \in Gates |-> IF g \in G THEN free[g] + 1 ELSE free[g]]

\* One of the three checks: the submission goes on, or is denied.
CheckBudget(s) ==
  /\ stage[s] \in CheckStage
  /\ stage' = [stage EXCEPT ![s] = IF Locked(s) THEN "over" ELSE Beyond[@]]
  /\ UNCHANGED <<looked, free, inflight, leaked>>

\* The semaphore's acquire finds a slot, at once or after a wait ...
FindSlot(s) ==
  /\ stage[s] \in AcquireStage /\ ~ looked[s] /\ ~ Locked(s)
  /\ looked' = [looked EXCEPT ![s] = TRUE]
  /\ UNCHANGED <<stage, free, inflight, leaked>>

\* ... and takes one; with the last one the submission counts as in flight.
TakeSlot(s) ==
  /\ looked[s]
  /\ free' = [g \in Gates |-> IF g \in GateOf(s) THEN free[g] - 1 ELSE free[g]]
  /\ stage' = [stage EXCEPT ![s] = Beyond[@]]
  /\ looked' = [looked EXCEPT ![s] = FALSE]
  /\ inflight' = IF stage[s] = "acquire_source" THEN inflight + 1 ELSE inflight
  /\ UNCHANGED leaked

Waiting(s) == stage[s] \in AcquireStage /\ ~ looked[s] /\ Locked(s)

\* Mutation: the tenant's slot is not given back.
WaitFailsKeepsTenant(s) ==
  /\ Waiting(s)
  /\ Release(Held(s) \cap {GlobalGate})
  /\ stage' = [stage EXCEPT ![s] = "over"]
  /\ UNCHANGED <<looked, inflight, leaked>>

\* The wait raises: what is held is released.
WaitFails(s) ==
  /\ Waiting(s)
  /\ Release(Held(s))
  /\ stage' = [stage EXCEPT ![s] = "over"]
  /\ UNCHANGED <<looked, inflight, leaked>>

\* The wait is cancelled: CancelledError passes the handlers, and nothing is released.
WaitCancelled(s) ==
  /\ Waiting(s)
  /\ leaked' = [g \in Gates |-> IF g \in Held(s) THEN leaked[g] + 1 ELSE leaked[g]]
  /\ stage' = [stage EXCEPT ![s] = "over"]
  /\ UNCHANGED <<looked, free, inflight>>

\* The submission ends, whichever way: all slots are released.
Leave(s) ==
  /\ stage[s] = "posting"
  /\ Release(Held(s))
  /\ inflight' = inflight - 1
  /\ stage' = [stage EXCEPT ![s] = "over"]
  /\ UNCHANGED <<looked, leaked>>

BudgetsInit ==
  /\ stage = [s \in Submits |-> "check_global"]
  /\ looked = [s \in Submits |-> FALSE]
  /\ free = CAP
  /\ inflight = 0
  /\ leaked = [g \in Gates |-> 0]

BudgetsNext ==
  \E s \in Submits : \/ CheckBudget(s) \/ FindSlot(s) \/ TakeSlot(s)
                     \/ WaitFails(s) \/ WaitCancelled(s) \/ Leave(s)

BudgetsSpec == BudgetsInit /\ [][BudgetsNext]_budgetVars

-----------------------------------------------------------------------------
(* Properties.                                                             *)

BudgetsTypeOK ==
  /\ stage \in [Submits -> Stage] /\ looked \in [Submits -> BOOLEAN]
  /\ free \in [Gates -> Int] /\ leaked \in [Gates -> Nat]
  /\ inflight \in Nat

\* However the threads interleave, every slot is free, held by a submission, or
\* leaked by a cancelled wait, and get_stats counts the submissions that post.
SlotsAccounted ==
  /\ \A g \in Gates : free[g] + Cardinality(Holders(g)) + leaked[g] = CAP[g]
  /\ inflight = Cardinality({s \in Submits : stage[s] = "posting"})
=============================================================================
