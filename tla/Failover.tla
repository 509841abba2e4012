------------------------------- MODULE Failover -------------------------------
(***************************************************************************)
(* The choice of a model for a request (services/failover.py and the       *)
(* failover loop of services/llm_client.py).  Requests run in threads, each *)
(* with a client of its own; they share the cooldowns, the record of recent *)
(* failures and the times of the last attempts, without a lock.  The        *)
(* cooldowns are kept in a file.                                            *)
(*                                                                         *)
(* One tick is the window of both storm controls (two seconds).  Health     *)
(* scores only order the candidates: the order is any order.                *)
(***************************************************************************)
EXTENDS Integers, SequencesExt

CONSTANTS
  Candidates,              \* pairs of a provider and a model
  Callers,                 \* threads with a request
  Failures,                \* the categories that make a request fail over
  Cooldown,                \* how long each of them cools a candidate
  MAX_FAILOVER_CANDIDATES, \* how many candidates one request may try
  MAX_RETRIES,
  MISSES                   \* bound on lost saves and restarts

ASSUME FailoverAssumption ==
  /\ IsFiniteSet(Candidates) /\ Candidates # {}
  /\ IsFiniteSet(Failures) /\ Failures # {}
  /\ Cooldown \in [Failures -> Nat \ {0, 1}]
  /\ MAX_FAILOVER_CANDIDATES \in Nat \ {0} /\ MAX_RETRIES \in Nat
  /\ MISSES \in Nat

VARIABLES
  usable,     \* candidates with an API key and a permitted address
  cooldowns,  \* what is left of each cooldown; 0: expired and still there; -1: none
  file,       \* what is left of those in the file
  deduped,    \* candidates and categories that failed in this window
  attempts,   \* candidates that were attempted in this window
  caller,     \* the request of each thread
  failed,     \* how long ago each candidate last failed over
  unwritten,    \* candidates whose cooldown a save has missed
  missed,     \* how many saves were lost and servers stopped
  stolen      \* candidates whose cooldown was deleted for its expired predecessor

failoverVars ==
  <<usable, cooldowns, file, deduped, attempts, caller, failed, unwritten, missed, stolen>>

Longest  == CHOOSE d \in {Cooldown[f] : f \in Failures} : \A f \in Failures : Cooldown[f] <= d
Shortest == CHOOSE d \in {Cooldown[f] : f \in Failures} : \A f \in Failures : d <= Cooldown[f]

LongAgo  == Shortest - 1  \* ages are counted up to here

\* The candidates of a request, in the order of their health, cut to the maximum.
Cut(s) == SubSeq(s, 1, IF Len(s) < MAX_FAILOVER_CANDIDATES THEN Len(s) ELSE MAX_FAILOVER_CANDIDATES)
Orders == {Cut(s) : s \in SetToSeqs(Candidates)}

Idle == [at |-> "idle", left |-> <<>>, tries |-> 0, sent |-> FALSE, why |-> {}]

FailoverTypeOK ==
  /\ usable \subseteq Candidates
  /\ cooldowns \in [Candidates -> -1..Longest] /\ file \in [Candidates -> 0..Longest]
  /\ deduped \subseteq Candidates \X Failures /\ attempts \subseteq Candidates
  /\ \A r \in Callers :
       caller[r].at \in {"idle", "look", "expired", "gate", "request", "cool", "exhausted"}
  /\ failed \in [Candidates -> 0..Shortest - 1]

Candidate(r) == Head(caller[r].left)
IsLast(r)  == Len(caller[r].left) = 1

CoolingBegins(c) == \E r \in Callers : caller[r].at = "cool" /\ Candidate(r) = c

To(r, at) == caller' = [caller EXCEPT ![r].at = at]

PassOver(r) ==
  caller' = [caller EXCEPT ![r].left = IF IsLast(r) THEN @ ELSE Tail(@),
                           ![r].at = IF IsLast(r) THEN "exhausted" ELSE "look",
                           ![r].tries = 0, ![r].why = {}]

\* A save may fail, or be overwritten by the older copy of another thread.
Save(c, held) ==
  \/ /\ file' = [d \in Candidates |-> IF held[d] > 0 THEN held[d] ELSE 0]
     /\ unwritten' = {} /\ UNCHANGED missed
  \/ /\ missed < MISSES /\ missed' = missed + 1
     /\ file' = file /\ unwritten' = unwritten \cup {c}
-----------------------------------------------------------------------------
Ask(r) ==
  /\ caller[r].at \in {"idle", "exhausted"}
  /\ \E o \in Orders : caller' = [caller EXCEPT ![r] = [Idle EXCEPT !.at = "look", !.left = o]]
  /\ UNCHANGED <<usable, cooldowns, file, deduped, attempts, failed, unwritten, missed, stolen>>

\* Mutation: the last candidate is looked at like the others.
CheckCooldownOfAll(r) ==
  /\ caller[r].at = "look"
  /\ IF cooldowns[Candidate(r)] > 0 THEN PassOver(r)
     ELSE To(r, IF cooldowns[Candidate(r)] = 0 THEN "expired" ELSE "gate")
  /\ UNCHANGED <<usable, cooldowns, file, deduped, attempts, failed, unwritten, missed, stolen>>

\* is_cooling_down: a candidate that cools is passed over unless it is the last.
CheckCooldown(r) ==
  /\ caller[r].at = "look"
  /\ IF cooldowns[Candidate(r)] > 0 /\ ~IsLast(r) THEN PassOver(r)
     ELSE To(r, IF cooldowns[Candidate(r)] = 0 THEN "expired" ELSE "gate")
  /\ UNCHANGED <<usable, cooldowns, file, deduped, attempts, failed, unwritten, missed, stolen>>

\* The entry was found expired, and is deleted, whatever it is by now.
DeleteExpired(r) ==
  LET c == Candidate(r)
      held == [cooldowns EXCEPT ![c] = -1]
  IN  /\ caller[r].at = "expired" /\ cooldowns[c] # -1
      /\ cooldowns' = held /\ Save(c, held)
      /\ stolen' = IF cooldowns[c] > 0 THEN stolen \cup {c} ELSE stolen
      /\ To(r, "gate")
      /\ UNCHANGED <<usable, deduped, attempts, failed>>

\* Another thread has deleted it: the KeyError ends the request.
DeletedAlready(r) ==
  /\ caller[r].at = "expired" /\ cooldowns[Candidate(r)] = -1
  /\ caller' = [caller EXCEPT ![r] = Idle]
  /\ UNCHANGED <<usable, cooldowns, file, deduped, attempts, failed, unwritten, missed, stolen>>

\* The address, the key, and the interval between attempts, which is marked at
\* once: nothing between the two waits.
Gate(r) ==
  LET c == Candidate(r)
      passed == c \in usable /\ (c \notin attempts \/ IsLast(r))
  IN  /\ caller[r].at = "gate"
      /\ IF passed
         THEN caller' = [caller EXCEPT ![r].at = "request", ![r].tries = 1, ![r].sent = TRUE]
         ELSE PassOver(r)
      /\ attempts' = IF passed THEN attempts \cup {c} ELSE attempts
      /\ UNCHANGED <<usable, cooldowns, file, deduped, failed, unwritten, missed, stolen>>

Answered(r) ==
  /\ caller[r].at = "request"
  /\ caller' = [caller EXCEPT ![r] = Idle]
  /\ UNCHANGED <<usable, cooldowns, file, deduped, attempts, failed, unwritten, missed, stolen>>

\* A timeout or a refusal for the rate: the same candidate again, then the next.
FailsForNow(r) ==
  /\ caller[r].at = "request"
  /\ IF caller[r].tries <= MAX_RETRIES THEN caller' = [caller EXCEPT ![r].tries = @ + 1]
                                       ELSE PassOver(r)
  /\ UNCHANGED <<usable, cooldowns, file, deduped, attempts, failed, unwritten, missed, stolen>>

\* Mutation: the key of a failure does not name the candidate.
SuppressedForAll(c, f) == \E d \in Candidates : <<d, f>> \in deduped

\* should_suppress_duplicate
Suppressed(c, f) == <<c, f>> \in deduped

\* A failure of any other kind: a repetition within the window is not recorded.
FailsOver(r) ==
  /\ caller[r].at = "request"
  /\ \E f \in Failures :
       IF Suppressed(Candidate(r), f)
       THEN PassOver(r) /\ UNCHANGED deduped
       ELSE /\ deduped' = deduped \cup {<<Candidate(r), f>>}
            /\ caller' = [caller EXCEPT ![r].at = "cool", ![r].why = {f}]
  /\ failed' = [failed EXCEPT ![Candidate(r)] = 0]
  /\ UNCHANGED <<usable, cooldowns, file, attempts, unwritten, missed, stolen>>

\* set_cooldown
SetCooldown(r) ==
  LET c == Candidate(r) IN
  /\ caller[r].at = "cool"
  /\ \E f \in caller[r].why :
       LET held == [cooldowns EXCEPT ![c] = Cooldown[f]]
       IN  cooldowns' = held /\ Save(c, held)
  /\ stolen' = stolen \ {c}
  /\ PassOver(r)
  /\ UNCHANGED <<usable, deduped, attempts, failed>>
-----------------------------------------------------------------------------
Passes(n) == IF n > 0 THEN n - 1 ELSE n

FailoverTick ==
  /\ cooldowns' = [c \in Candidates |-> Passes(cooldowns[c])]
  /\ file' = [c \in Candidates |-> Passes(file[c])]
  /\ failed' = [c \in Candidates |-> IF failed[c] < LongAgo THEN failed[c] + 1 ELSE LongAgo]
  /\ deduped' = {} /\ attempts' = {}
  /\ UNCHANGED <<usable, caller, unwritten, missed, stolen>>

\* The server stops, and a new one loads the cooldowns that are still active.
FailoverRestart ==
  /\ missed < MISSES /\ missed' = missed + 1
  /\ cooldowns' = [c \in Candidates |-> IF file[c] > 0 THEN file[c] ELSE -1]
  /\ failed' = [c \in Candidates |-> IF c \in unwritten \/ CoolingBegins(c) THEN LongAgo ELSE failed[c]]
  /\ deduped' = {} /\ attempts' = {} /\ unwritten' = {}
  /\ caller' = [r \in Callers |-> Idle]
  /\ UNCHANGED <<usable, file, stolen>>

FailoverInit ==
  /\ usable \in SUBSET Candidates
  /\ cooldowns = [c \in Candidates |-> -1] /\ file = [c \in Candidates |-> 0]
  /\ deduped = {} /\ attempts = {} /\ unwritten = {} /\ stolen = {} /\ missed = 0
  /\ caller = [r \in Callers |-> Idle]
  /\ failed = [c \in Candidates |-> LongAgo]

FailoverNext ==
  \/ \E r \in Callers :
       \/ Ask(r) \/ CheckCooldown(r) \/ DeleteExpired(r) \/ DeletedAlready(r) \/ Gate(r)
       \/ Answered(r) \/ FailsForNow(r) \/ FailsOver(r) \/ SetCooldown(r)
  \/ FailoverTick
  \/ FailoverRestart

FailoverSpec == FailoverInit /\ [][FailoverNext]_failoverVars
-----------------------------------------------------------------------------
(* Properties.                                                             *)

\* A request gives up without having asked anyone only if the last candidate of
\* its list could not be asked ("Never hard-block the final candidate").
TriedBeforeGivingUp ==
  \A r \in Callers :
    caller[r].at = "exhausted" /\ ~caller[r].sent =>
      Candidate(r) \notin usable

\* A candidate that failed over cools for the shortest cooldown less one window,
\* whichever requests meet and although repetitions are not recorded, also across
\* restarts, unless a save missed it or another thread deleted it by mistake.
FailureCools ==
  \A c \in Candidates :
    failed[c] < LongAgo =>
      \/ cooldowns[c] > 0 \/ c \in stolen
      \/ CoolingBegins(c)
=============================================================================
