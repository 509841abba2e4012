--------------------------- MODULE DeliveryOutbox ---------------------------
(***************************************************************************)
(* The durable outbox of schedule deliveries                               *)
(* (services/scheduler/delivery_outbox.py).                                *)
(*                                                                         *)
(* The outbox keeps one intent per scheduled run.  Connectors claim        *)
(* intents under a time-boxed lease and acknowledge one outcome each.      *)
(* Every operation runs under one lock, works on an in-memory dictionary   *)
(* and rewrites a JSON file; the process may stop between any two          *)
(* operations and reload that file.                                        *)
(*                                                                         *)
(* Time: timestamps are kept relative to the present.  `created' and       *)
(* `updated' are the ages of created_at and updated_at, `lease' is what is *)
(* left of lease_expires_at; Tick ages every record and each age stops     *)
(* growing once no comparison of the code can tell it from a larger one.   *)
(*                                                                         *)
(* Tokens: secrets.token_urlsafe never repeats a token that anyone still   *)
(* knows.  Tokens nobody remembers are recycled, so a finite set stands    *)
(* for the unbounded supply.                                               *)
(***************************************************************************)
EXTENDS Naturals, FiniteSets

CONSTANTS
  Intents,           \* delivery ids, one per idempotency key of a scheduled run
  Addressed,         \* intents whose platform is one of CONNECTOR_PLATFORMS
  Scopes,            \* the sets of intents that a (tenant, platforms) pair selects
  Token,             \* lease tokens (bound: how many are remembered at once)
  NoToken,           \* lease_token_hash = None
  Verdicts,          \* the (outcome, reason) pairs that callers acknowledge
  PENDING_TTL,       \* PENDING_TTL_SEC, in ticks
  RETENTION,         \* TERMINAL_RETENTION_SEC, in ticks
  MAX_RECORDS,       \* capacity of the outbox
  MAX_CLAIM_BATCH,   \* most intents one claim may lease
  MIN_LEASE,         \* shortest lease after clamping, in ticks
  MAX_LEASE,         \* longest lease after clamping, in ticks
  Faults             \* I/O faults that happen: a subset of {"save", "load"}

OutcomeStates  == {"sent", "job_failed", "timed_out", "undeliverable"}
TerminalStates == OutcomeStates \cup {"expired"}
LiveStates     == {"pending", "claimed"}
AllStates      == LiveStates \cup TerminalStates \cup {"absent"}

\* ACK_REASONS: the reasons each acknowledged outcome may carry.
AckReasons ==
  [sent          |-> {"none"},
   job_failed    |-> {"job_error"},
   timed_out     |-> {"result_timeout"},
   undeliverable |-> {"target_not_allowed", "platform_unavailable", "connector_error"}]

Verdict == {v \in [state : OutcomeStates, reason : UNION {AckReasons[o] : o \in OutcomeStates}] :
              v.reason \in AckReasons[v.state]}
NoVerdict == [state |-> "absent", reason |-> "none"]

Reasons == {"none", "no_connector_adapter", "not_claimed", "capacity"}
             \cup UNION {AckReasons[o] : o \in OutcomeStates}

ASSUME ConstantsAssumption ==
  /\ Addressed \subseteq Intents
  /\ Scopes \subseteq SUBSET Intents
  /\ NoToken \notin Token
  /\ Verdicts \subseteq Verdict
  /\ PENDING_TTL \in Nat /\ RETENTION \in Nat
  /\ MAX_RECORDS \in Nat /\ MAX_CLAIM_BATCH \in Nat \ {0}
  /\ MIN_LEASE \in Nat \ {0} /\ MAX_LEASE \in Nat /\ MIN_LEASE <= MAX_LEASE
  /\ Faults \subseteq {"save", "load"}

VARIABLES
  intents,   \* the dictionary _intents; "absent" where it has no such key
  disk,      \* the rows of delivery_outbox.json
  loaded,    \* _loaded: FALSE from a (re)start to the first operation
  held,      \* for each intent, the lease tokens some caller still knows
  told       \* for each intent, the outcome last confirmed to a caller

vars == <<intents, disk, loaded, held, told>>

Lease == 0 .. MAX_LEASE
Intent == [state   : AllStates,
           reason  : Reasons,
           created : 0 .. PENDING_TTL + 1,
           updated : 0 .. RETENTION + 1,
           lease   : Lease,
           token   : Token \cup {NoToken}]

Absent == [state |-> "absent", reason |-> "none", created |-> 0,
           updated |-> 0, lease |-> 0, token |-> NoToken]
Empty  == [d \in Intents |-> Absent]

\* A record's intent as it is created: no adapter means it is final at once.
NewIntent(d) ==
  IF d \in Addressed
    THEN [Absent EXCEPT !.state = "pending"]
    ELSE [Absent EXCEPT !.state = "undeliverable", !.reason = "no_connector_adapter"]

\* Mutation: a lease that runs one tick over its limit.
LeasedLonger(r, t, lease) ==
  [r EXCEPT !.state = "claimed", !.lease = lease + 1, !.token = t, !.updated = 0]

Leased(r, t, lease) ==
  [r EXCEPT !.state = "claimed", !.lease = lease, !.token = t, !.updated = 0]

Finished(r, v) ==
  [r EXCEPT !.state = v.state, !.reason = v.reason, !.updated = 0]

Expire(r, why) ==
  [r EXCEPT !.state = "expired", !.reason = why, !.updated = 0]

-----------------------------------------------------------------------------
(* Maintenance: every mutating entry point but ack runs it first or last.  *)

Terminal(r)  == r.state \in TerminalStates
Present(m)   == {d \in Intents : m[d].state # "absent"}

\* The first loop: expire unclaimed intents, prune old terminal records.
Swept(m) ==
  [d \in Intents |->
     IF m[d].state = "pending" /\ m[d].created > PENDING_TTL
       THEN Expire(m[d], "not_claimed")
     ELSE IF Terminal(m[d]) /\ m[d].updated > RETENTION
       THEN Absent
     ELSE m[d]]

\* The eviction order: terminal records first, then the least recently updated.
EvictedBefore(r, s) ==
  \/ Terminal(r) /\ ~ Terminal(s)
  \/ (Terminal(r) <=> Terminal(s)) /\ r.updated > s.updated

\* Mutation: eviction leaves one record too many.
VictimsOneShort(m) ==
  LET over == IF Cardinality(Present(m)) > MAX_RECORDS + 1
                THEN Cardinality(Present(m)) - MAX_RECORDS - 1 ELSE 0
  IN  {V \in SUBSET Present(m) :
         /\ Cardinality(V) = over
         /\ \A d \in V, e \in Present(m) \ V : ~ EvictedBefore(m[e], m[d])}

\* The possible victims; equal ages within a tick are ordered either way.
Victims(m) ==
  LET over == IF Cardinality(Present(m)) > MAX_RECORDS
                THEN Cardinality(Present(m)) - MAX_RECORDS ELSE 0
  IN  {V \in SUBSET Present(m) :
         /\ Cardinality(V) = over
         /\ \A d \in V, e \in Present(m) \ V : ~ EvictedBefore(m[e], m[d])}

Evict(m, V) ==
  [d \in Intents |->
     IF d \notin V THEN m[d]
     ELSE IF Terminal(m[d]) THEN Absent
     ELSE Expire(m[d], "capacity")]

Maintained(m) == {Evict(Swept(m), V) : V \in Victims(Swept(m))}

-----------------------------------------------------------------------------
(* Loading and saving.                                                     *)

\* What the dictionary holds once _ensure_loaded has run; an unreadable file
\* leaves it empty.
Views ==
  IF loaded THEN {intents}
  ELSE {disk} \cup (IF "load" \in Faults THEN {Empty} ELSE {})

\* Whether the atomic replace of the file succeeds.
SaveResults == IF "save" \in Faults THEN BOOLEAN ELSE {TRUE}

\* Adopt m as the dictionary and write it; a failed write leaves the file alone.
Commit(m, ok) ==
  /\ intents' = m
  /\ loaded' = TRUE
  /\ disk' = IF ok THEN m ELSE disk

\* Adopt m without writing.
Keep(m) == intents' = m /\ loaded' = TRUE /\ UNCHANGED disk

-----------------------------------------------------------------------------
(* Operations.  What a call tells its caller (tokens, held) is left to the *)
(* step that makes the call.                                               *)

Record(d, ok) ==
  /\ \E cur \in Views :
       \/ cur[d].state # "absent" /\ Keep(cur)
       \/ /\ cur[d].state = "absent"
          /\ \E m \in Maintained([cur EXCEPT ![d] = NewIntent(d)]) : Commit(m, ok)
  /\ UNCHANGED told

\* list_intents writes only when maintenance changed something.
List(ok) ==
  /\ \E cur \in Views : \E m \in Maintained(cur) :
       IF m = cur THEN Keep(cur) ELSE Commit(m, ok)
  /\ UNCHANGED told

\* summaries_for_keys only reads, but it may be what loads the file.
Read == (\E cur \in Views : Keep(cur)) /\ UNCHANGED told

\* Mutations: a lease is taken over a tick early; it is never taken over.
ClaimableEarly(m, scope) ==
  {d \in scope \cap Addressed :
     \/ m[d].state = "pending"
     \/ m[d].state = "claimed" /\ m[d].lease <= 1}
ClaimablePending(m, scope) == {d \in scope \cap Addressed : m[d].state = "pending"}

Claimable(m, scope) ==
  {d \in scope \cap Addressed :
     \/ m[d].state = "pending"
     \/ m[d].state = "claimed" /\ m[d].lease = 0}

\* The sets of at most batch candidates, oldest created_at first.
Batches(m, scope, batch) ==
  LET cands == Claimable(m, scope)
      size  == IF Cardinality(cands) < batch THEN Cardinality(cands) ELSE batch
  IN  {C \in SUBSET cands :
         /\ Cardinality(C) = size
         /\ \A d \in C, e \in cands \ C : m[e].created <= m[d].created}

\* Tokens that nobody remembers for any intent.
FreshTokens ==
  Token \ UNION {held[d] \cup {intents[d].token, disk[d].token} : d \in Intents}

\* One claim leases the batch `chosen'.  Every intent of it gets a token of its
\* own; tokens are only compared with those of the same intent, so one name t
\* stands for all of them.
Claim(scope, batch, lease, t, chosen, ok) ==
  \E cur \in Views : \E m \in Maintained(cur) :
    /\ chosen \in Batches(m, scope, batch)
    /\ LET new == [d \in Intents |-> IF d \in chosen THEN Leased(m[d], t, lease) ELSE m[d]]
       IN  IF chosen = {} /\ m = cur THEN Keep(cur) ELSE Commit(new, ok)
    /\ UNCHANGED told

\* Mutations: an acknowledgement is not written; it replaces an earlier one.
AckFinalUnsaved(d, t, v, ok) ==
  /\ \E cur \in Views :
       /\ cur[d].state = "claimed" /\ cur[d].token = t
       /\ Keep([cur EXCEPT ![d] = Finished(cur[d], v)])
  /\ told' = [told EXCEPT ![d] = v]
AckFinalReplaces(d, t, v, ok) ==
  /\ \E cur \in Views :
       /\ cur[d].token = t
       /\ Commit([cur EXCEPT ![d] = Finished(cur[d], v)], ok)
  /\ told' = IF ok THEN [told EXCEPT ![d] = v] ELSE told

\* ack as the first answer of the current lease holder.
AckFinal(d, t, v, ok) ==
  /\ \E cur \in Views :
       /\ cur[d].state = "claimed" /\ cur[d].token = t
       /\ Commit([cur EXCEPT ![d] = Finished(cur[d], v)], ok)
  /\ told' = IF ok THEN [told EXCEPT ![d] = v] ELSE told

\* ack repeating the recorded outcome: confirmed again, nothing is written.
AckRepeated(d, t, v) ==
  /\ \E cur \in Views :
       /\ cur[d].token = t
       /\ cur[d].state = v.state /\ cur[d].reason = v.reason
       /\ Keep(cur)
  /\ told' = [told EXCEPT ![d] = v]

\* ack of an unknown intent, a stale lease or another outcome: an error.
AckRejected(d, t, v) ==
  /\ \E cur \in Views :
       /\ \/ cur[d].token # t
          \/ /\ cur[d].state # "claimed"
             /\ cur[d].state # v.state \/ cur[d].reason # v.reason
       /\ Keep(cur)
  /\ UNCHANGED told

\* The process stops, or reset_delivery_outbox drops the singleton.
Restart ==
  /\ loaded' = FALSE
  /\ intents' = Empty
  /\ UNCHANGED <<disk, told>>

Aged(r) ==
  IF r.state = "absent" THEN r
  ELSE [r EXCEPT !.created = IF @ <= PENDING_TTL THEN @ + 1 ELSE @,
                 !.updated = IF @ <= RETENTION THEN @ + 1 ELSE @,
                 !.lease   = IF @ = 0 THEN 0 ELSE @ - 1]

Tick ==
  /\ intents' = [d \in Intents |-> Aged(intents[d])]
  /\ disk' = [d \in Intents |-> Aged(disk[d])]
  /\ UNCHANGED <<loaded, told>>

-----------------------------------------------------------------------------
Init ==
  /\ intents = Empty /\ disk = Empty
  /\ loaded = FALSE
  /\ held = [d \in Intents |-> {}]
  /\ told = [d \in Intents |-> NoVerdict]

DoRecord == (\E d \in Intents, ok \in SaveResults : Record(d, ok)) /\ UNCHANGED held
DoList   == (\E ok \in SaveResults : List(ok)) /\ UNCHANGED held
DoRead   == Read /\ UNCHANGED held

\* Only a saved claim answers; its caller then knows the token.
DoClaim ==
  \E scope \in Scopes, batch \in 1 .. MAX_CLAIM_BATCH, lease \in MIN_LEASE .. MAX_LEASE,
     t \in FreshTokens, chosen \in SUBSET Intents, ok \in SaveResults :
    /\ Claim(scope, batch, lease, t, chosen, ok)
    /\ held' = [d \in Intents |-> IF ok /\ d \in chosen THEN held[d] \cup {t} ELSE held[d]]

DoAck ==
  /\ \E d \in Intents : \E t \in held[d], v \in Verdicts :
       \/ \E ok \in SaveResults : AckFinal(d, t, v, ok)
       \/ AckRepeated(d, t, v)
       \/ AckRejected(d, t, v)
  /\ UNCHANGED held

\* A caller forgets a token: its answer was lost, its task ended or it stopped.
DropToken ==
  /\ \E d \in Intents : \E t \in held[d] : held' = [held EXCEPT ![d] = @ \ {t}]
  /\ UNCHANGED <<intents, disk, loaded, told>>

DoRestart == Restart /\ UNCHANGED held
DoTick    == Tick /\ UNCHANGED held

Next == DoRecord \/ DoList \/ DoRead \/ DoClaim \/ DoAck \/ DropToken \/ DoRestart \/ DoTick

Spec == Init /\ [][Next]_vars

-----------------------------------------------------------------------------
(* Properties.                                                             *)

\* The outbox as the next operation will see it.
Current == IF loaded THEN intents ELSE disk

\* Every record, in memory and on disk, is well formed.
TypeOK ==
  /\ intents \in [Intents -> Intent]
  /\ disk \in [Intents -> Intent]
  /\ loaded \in BOOLEAN
  /\ held \in [Intents -> SUBSET Token]
  /\ told \in [Intents -> Verdict \cup {NoVerdict}]

\* A caller was given the current lease on d and the lease has not run out.
Leaseholder(d) ==
  /\ Current[d].state = "claimed"
  /\ Current[d].lease > 0
  /\ Current[d].token \in held[d]

\* A lease that was handed out is never handed to someone else before it runs
\* out, whatever claims, failed writes and restarts come in between: the next
\* operation still finds the same token on the intent.
LeaseRespected ==
  [][\A d \in Intents : Leaseholder(d) => Current'[d].token = Current[d].token]_vars

\* Once a caller was told that an outcome is recorded, the outbox keeps it until
\* it prunes the record: no restart brings the intent back to be claimed again.
ConfirmedStaysFinal ==
  [][\A d \in Intents :
       told[d] # NoVerdict /\ Current[d].state = told[d].state
         => Current'[d].state \in {told[d].state, "absent"}]_vars

\* Whatever one operation changes in memory is on disk when it returns, for all
\* the paths that change the dictionary (record, list, claim, ack, maintenance).
WrittenThrough == loaded => disk = intents

\* Eviction keeps the outbox within one record of its capacity, in memory and in
\* the file, however records, leases, expiries and restarts interleave.
Bounded ==
  \A m \in {intents, disk} :
    /\ Cardinality(Present(m)) <= MAX_RECORDS + 1
    /\ Cardinality({d \in Intents : m[d].state \in LiveStates}) <= MAX_RECORDS

\* The outbox seen as a table of leases, whatever is in memory or only on disk.
Table == INSTANCE LeaseTable WITH
  Final  <- TerminalStates,
  phase  <- [d \in Intents |-> Current[d].state],
  holder <- [d \in Intents |-> Current[d].token],
  lapsed <- [d \in Intents |-> Current[d].lease = 0]

\* Crashes, restarts, eviction and the file are invisible to the callers: the
\* outbox implements the table of leases (delivery_outbox.py:1-8).
TableSpec == Table!Spec
=============================================================================
