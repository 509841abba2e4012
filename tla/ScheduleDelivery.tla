-------------------------- MODULE ScheduleDelivery --------------------------
(***************************************************************************)
(* The delivery of scheduled runs: the outbox of the core process and the  *)
(* connector processes that serve it over HTTP                             *)
(* (connector/schedule_delivery.py, connector/openclaw_client.py).         *)
(*                                                                         *)
(* A connector polls for intents, runs one task per claimed intent (wait   *)
(* for the job, post to the chat, acknowledge) and retries a failed        *)
(* acknowledgement with the newest lease token it has.  Either process may *)
(* stop, a request or its answer may be lost or late, and the outbox may   *)
(* fail to write its file; every such event, and every tick that passes    *)
(* while a connector has a call or a post unfinished, spends one of        *)
(* MaxFaults.                                                              *)
(***************************************************************************)
EXTENDS Naturals, FiniteSets

CONSTANTS
  Worker,            \* connector processes
  JOB_TIMEOUT,       \* delivery_timeout_sec, in ticks
  LEASE_GRACE,       \* LEASE_GRACE_SEC, in ticks
  MAX_ACTIVE,        \* MAX_ACTIVE_DELIVERIES
  CLAIM_BATCH,       \* CLAIM_BATCH_LIMIT
  ACK_ATTEMPTS,      \* acknowledgement calls per task
  MaxFaults,         \* bound: stops, losses, failed writes and slow ticks
  Intents, Token, NoToken, Verdicts,
  PENDING_TTL, RETENTION, MAX_RECORDS, Faults

VARIABLES
  intents, disk, loaded, told,   \* the outbox: see DeliveryOutbox
  offered,   \* the runs whose intent the scheduler has recorded
  poll,      \* each connector's poll loop: "idle", "out", "answered" or "asleep"
  limit,     \* the batch limit of its latest claim call
  answer,    \* the lease tokens in the answer to that call
  lease,     \* _lease_tokens: the newest token per intent
  task,      \* _active: the delivery task of each intent
  requests,  \* acknowledgements on their way to the core
  posts,     \* how often each intent's result was posted to the chat
  faultsLeft \* faults that may still happen

outboxVars == <<intents, disk, loaded, told>>
pollVars == <<poll, limit, answer>>
vars == <<outboxVars, offered, pollVars, lease, task, requests, posts, faultsLeft>>

\* The tokens that a connector or a message still carries.
Known ==
  [d \in Intents |->
     ({lease[w][d] : w \in Worker} \cup {answer[w][d] : w \in Worker}
        \cup {r.token : r \in {q \in requests : q.id = d}}) \ {NoToken}]

\* Mutation: a lease as long as the wait for the job.
LEASE_NO_GRACE == JOB_TIMEOUT

LEASE == JOB_TIMEOUT + LEASE_GRACE

Outbox == INSTANCE DeliveryOutbox WITH
  held <- Known, Addressed <- Intents, Scopes <- {Intents},
  MAX_CLAIM_BATCH <- CLAIM_BATCH, MIN_LEASE <- 1, MAX_LEASE <- LEASE

ASSUME WorkerAssumption ==
  /\ IsFiniteSet(Worker) /\ IsFiniteSet(Intents)
  /\ JOB_TIMEOUT \in Nat \ {0} /\ LEASE_GRACE \in Nat \ {0}
  /\ MAX_ACTIVE \in Nat \ {0} /\ CLAIM_BATCH \in Nat \ {0}
  /\ ACK_ATTEMPTS \in Nat \ {0} /\ MaxFaults \in Nat

\* What the outbox asks of its own constants.
ASSUME OutboxAssumption ==
  /\ NoToken \notin Token /\ Verdicts \subseteq Outbox!Verdict
  /\ PENDING_TTL \in Nat /\ RETENTION \in Nat /\ MAX_RECORDS \in Nat
  /\ Faults \subseteq {"save", "load"}

\* A task waits for its job ("job", for at most `left' more ticks), posts and
\* acknowledges ("ack": between calls; "call": a call is out), and is over
\* ("done") until its done-callback takes it off _active ("none").
Phase  == {"none", "job", "ack", "call", "done"}
Task   == [phase : Phase, left : 0 .. JOB_TIMEOUT, tries : 0 .. ACK_ATTEMPTS,
           verdict : Verdicts \cup {Outbox!NoVerdict}]
NoTask == [phase |-> "none", left |-> 0, tries |-> 0, verdict |-> Outbox!NoVerdict]

\* `live' is FALSE once the connector no longer waits for the answer.
Request == [from : Worker, id : Intents, token : Token, verdict : Verdicts, live : BOOLEAN]

NoLeases == [d \in Intents |-> NoToken]
Active(w) == {d \in Intents : task[w][d].phase # "none"}

Fault == faultsLeft > 0 /\ faultsLeft' = faultsLeft - 1
NoFault == UNCHANGED faultsLeft

\* A write of the outbox file succeeds, or fails at the cost of a fault.
Saved(ok) == ok \in Outbox!SaveResults /\ IF ok THEN NoFault ELSE Fault

-----------------------------------------------------------------------------
(* The core process.                                                       *)

\* The scheduler records the intent of a run it submitted, once.
RecordIntent(d) ==
  /\ d \notin offered
  /\ offered' = offered \cup {d}
  /\ \E ok \in BOOLEAN : Saved(ok) /\ Outbox!Record(d, ok)
  /\ UNCHANGED <<pollVars, lease, task, requests, posts>>

\* A claim call reaches the core; a failed write is answered with an error.
ServeClaim(w) ==
  /\ poll[w] = "out"
  /\ \E ok \in BOOLEAN, t \in Outbox!FreshTokens, chosen \in SUBSET Intents :
       /\ Saved(ok)
       /\ Outbox!Claim(Intents, limit[w], LEASE, t, chosen, ok)
       /\ poll' = [poll EXCEPT ![w] = IF ok THEN "answered" ELSE "asleep"]
       /\ answer' = [answer EXCEPT ![w] =
            [d \in Intents |-> IF ok /\ d \in chosen THEN t ELSE NoToken]]
  /\ UNCHANGED <<offered, limit, lease, task, requests, posts>>

\* How a task goes on when its call is answered for good, or failed.
Over(k)  == [k EXCEPT !.phase = "done"]
Retry(k) == [k EXCEPT !.phase = IF k.tries < ACK_ATTEMPTS THEN "ack" ELSE "done"]

\* A handled acknowledgement: recorded, recorded before, or refused (4xx).
HandleAck(r) ==
  \/ Outbox!AckFinal(r.id, r.token, r.verdict, TRUE)
  \/ Outbox!AckRepeated(r.id, r.token, r.verdict)
  \/ Outbox!AckRejected(r.id, r.token, r.verdict)

\* An acknowledgement reaches the core: it is handled and the task that waits
\* for it is over, or the outbox fails to save it (5xx) and the task retries.
ServeAck(r) ==
  /\ requests' = requests \ {r}
  /\ \/ /\ HandleAck(r) /\ NoFault
        /\ task' = IF r.live THEN [task EXCEPT ![r.from][r.id] = Over(@)] ELSE task
     \/ /\ FALSE \in Outbox!SaveResults /\ Fault
        /\ Outbox!AckFinal(r.id, r.token, r.verdict, FALSE)
        /\ task' = IF r.live THEN [task EXCEPT ![r.from][r.id] = Retry(@)] ELSE task
  /\ UNCHANGED <<offered, pollVars, lease, posts>>

\* The core process stops and starts again; calls in flight fail.
CoreRestart ==
  /\ loaded /\ Fault
  /\ Outbox!Restart
  /\ requests' = {}
  /\ poll' = [w \in Worker |-> IF poll[w] = "out" THEN "asleep" ELSE poll[w]]
  /\ task' = [w \in Worker |-> [d \in Intents |->
       IF task[w][d].phase = "call" THEN Retry(task[w][d]) ELSE task[w][d]]]
  /\ UNCHANGED <<offered, limit, answer, lease, posts>>

-----------------------------------------------------------------------------
(* A connector process.                                                    *)

\* Mutation: a claim asks for a full batch whatever room there is.
PollFull(w) ==
  /\ poll[w] = "idle"
  /\ poll' = [poll EXCEPT ![w] = "out"]
  /\ limit' = [limit EXCEPT ![w] = CLAIM_BATCH]
  /\ UNCHANGED <<outboxVars, offered, answer, lease, task, requests, posts, faultsLeft>>

\* poll_once sends a claim if it has room for more tasks, or sleeps.
Poll(w) ==
  LET room == MAX_ACTIVE - Cardinality(Active(w))
  IN  /\ poll[w] = "idle"
      /\ IF room > 0
           THEN /\ poll' = [poll EXCEPT ![w] = "out"]
                /\ limit' = [limit EXCEPT ![w] = IF room < CLAIM_BATCH THEN room ELSE CLAIM_BATCH]
           ELSE poll' = [poll EXCEPT ![w] = "asleep"] /\ UNCHANGED limit
      /\ UNCHANGED <<outboxVars, offered, answer, lease, task, requests, posts, faultsLeft>>

\* poll_once takes the answer: the newest token of every intent replaces the
\* old one, and intents without a task get one.
TakeAnswer(w) ==
  LET items == {d \in Intents : answer[w][d] # NoToken}
  IN  /\ poll[w] = "answered"
      /\ poll' = [poll EXCEPT ![w] = "asleep"]
      /\ answer' = [answer EXCEPT ![w] = NoLeases]
      /\ lease' = [lease EXCEPT ![w] =
           [d \in Intents |-> IF d \in items THEN answer[w][d] ELSE @[d]]]
      /\ task' = [task EXCEPT ![w] =
           [d \in Intents |-> IF d \in items \ Active(w)
                                THEN [NoTask EXCEPT !.phase = "job", !.left = JOB_TIMEOUT]
                                ELSE @[d]]]
      /\ UNCHANGED <<outboxVars, offered, limit, requests, posts, faultsLeft>>

\* The claim call's answer, or the call itself, is lost or comes too late.
LoseClaim(w) ==
  /\ poll[w] \in {"out", "answered"} /\ Fault
  /\ poll' = [poll EXCEPT ![w] = "asleep"]
  /\ answer' = [answer EXCEPT ![w] = NoLeases]
  /\ UNCHANGED <<outboxVars, offered, limit, lease, task, requests, posts>>

\* Whether a delivery that ends with the verdict v posts to the chat: a failed job
\* only if the schedule asks for an alert, and a post may fail half way.
PostsFor(v) ==
  CASE v.state \in {"sent", "timed_out"} -> {TRUE}
    [] v.state = "job_failed" \/ v.reason = "connector_error" -> BOOLEAN
    [] OTHER -> {FALSE}

\* _deliver ends with an outcome; only a task that waited its full time reports
\* a timeout.
Deliver(w, d, v) ==
  /\ task[w][d].phase = "job"
  /\ v.state = "timed_out" => task[w][d].left = 0
  /\ task' = [task EXCEPT ![w][d].phase = "ack", ![w][d].verdict = v]
  /\ \E post \in PostsFor(v) : posts' = [posts EXCEPT ![d] = IF post THEN @ + 1 ELSE @]
  /\ UNCHANGED <<outboxVars, offered, pollVars, lease, requests, faultsLeft>>

\* _ack sends its next call with the newest token.
SendAck(w, d) ==
  /\ task[w][d].phase = "ack"
  /\ task' = [task EXCEPT ![w][d].phase = "call", ![w][d].tries = @ + 1]
  /\ requests' = requests \cup {[from |-> w, id |-> d, token |-> lease[w][d],
                                 verdict |-> task[w][d].verdict, live |-> TRUE]}
  /\ UNCHANGED <<outboxVars, offered, pollVars, lease, posts, faultsLeft>>

\* A call fails: throttled or lost, or given up by the connector while the
\* request is still on its way.
AckCallFails(r) ==
  /\ r.live /\ Fault
  /\ \/ requests' = requests \ {r}
     \/ requests' = (requests \ {r}) \cup {[r EXCEPT !.live = FALSE]}
  /\ task' = [task EXCEPT ![r.from][r.id] = Retry(@)]
  /\ UNCHANGED <<outboxVars, offered, pollVars, lease, posts>>

\* The core handles the request but its answer is lost.
AckAnswerLost(r) ==
  /\ r.live /\ Fault
  /\ requests' = requests \ {r}
  /\ HandleAck(r)
  /\ task' = [task EXCEPT ![r.from][r.id] = Retry(@)]
  /\ UNCHANGED <<offered, pollVars, lease, posts>>

\* The done-callback of a finished task forgets the task and its token.
ForgetTask(w, d) ==
  /\ task[w][d].phase = "done"
  /\ task' = [task EXCEPT ![w][d] = NoTask]
  /\ lease' = [lease EXCEPT ![w][d] = NoToken]
  /\ UNCHANGED <<outboxVars, offered, pollVars, requests, posts, faultsLeft>>

\* A connector stops and starts again: nothing is acknowledged, nothing is kept.
ConnectorRestart(w) ==
  /\ poll[w] \in {"out", "answered"} \/ Active(w) # {}
  /\ Fault
  /\ poll' = [poll EXCEPT ![w] = "idle"]
  /\ answer' = [answer EXCEPT ![w] = NoLeases]
  /\ UNCHANGED limit
  /\ lease' = [lease EXCEPT ![w] = NoLeases]
  /\ task' = [task EXCEPT ![w] = [d \in Intents |-> NoTask]]
  /\ requests' = {IF r.from = w THEN [r EXCEPT !.live = FALSE] ELSE r : r \in requests}
  /\ UNCHANGED <<outboxVars, offered, posts>>

-----------------------------------------------------------------------------
(* Time.                                                                   *)

\* No claim or acknowledgement is in flight and no post is going on.
Quiet ==
  \A w \in Worker :
    /\ poll[w] \in {"idle", "asleep"}
    /\ \A d \in Intents : task[w][d].phase \in {"none", "job"}

\* wait_for_job gives up after JOB_TIMEOUT; a tick outside quiet times is slow;
\* a poll loop sleeps until the next tick.
Tick ==
  /\ \A w \in Worker, d \in Intents : task[w][d].phase = "job" => task[w][d].left > 0
  /\ Outbox!Tick
  /\ IF Quiet THEN NoFault ELSE Fault
  /\ task' = [w \in Worker |-> [d \in Intents |->
       IF task[w][d].phase = "job" THEN [task[w][d] EXCEPT !.left = @ - 1] ELSE task[w][d]]]
  /\ poll' = [w \in Worker |-> IF poll[w] = "asleep" THEN "idle" ELSE poll[w]]
  /\ UNCHANGED <<offered, limit, answer, lease, requests, posts>>

-----------------------------------------------------------------------------
Init ==
  /\ offered = {}
  /\ poll = [w \in Worker |-> "idle"]
  /\ limit = [w \in Worker |-> 0]
  /\ answer = [w \in Worker |-> NoLeases]
  /\ lease = [w \in Worker |-> NoLeases]
  /\ task = [w \in Worker |-> [d \in Intents |-> NoTask]]
  /\ requests = {}
  /\ posts = [d \in Intents |-> 0]
  /\ faultsLeft = MaxFaults
  /\ Outbox!Init

Serve == (\E w \in Worker : ServeClaim(w)) \/ (\E r \in requests : ServeAck(r))

Connector(w) ==
  \/ Poll(w)
  \/ TakeAnswer(w)
  \/ \E d \in Intents, v \in Verdicts : Deliver(w, d, v)
  \/ \E d \in Intents : SendAck(w, d)
  \/ \E d \in Intents : ForgetTask(w, d)

Failure ==
  \/ CoreRestart
  \/ \E w \in Worker : LoseClaim(w)
  \/ \E w \in Worker : ConnectorRestart(w)
  \/ \E r \in requests : AckCallFails(r)
  \/ \E r \in requests : AckAnswerLost(r)

Next ==
  \/ \E d \in Intents : RecordIntent(d)
  \/ Serve
  \/ \E w \in Worker : Connector(w)
  \/ Failure
  \/ Tick

Spec == Init /\ [][Next]_vars

\* The core answers the calls that reach it, each connector's event loop runs
\* its ready tasks, time passes: no fault is ever owed to anyone.
Fairness ==
  /\ WF_vars(Serve)
  /\ \A w \in Worker : WF_vars(Connector(w))
  /\ WF_vars(Tick /\ Quiet)

FairSpec == Spec /\ Fairness

-----------------------------------------------------------------------------
(* Properties.                                                             *)

Current == Outbox!Current
Spent   == MaxFaults - faultsLeft

\* Every component is well formed; a task that still has to acknowledge has a
\* lease token to do it with (schedule_delivery.py:217).
TypeOK ==
  /\ Outbox!TypeOK
  /\ offered \subseteq Intents
  /\ poll \in [Worker -> {"idle", "out", "answered", "asleep"}]
  /\ limit \in [Worker -> 0 .. CLAIM_BATCH]
  /\ answer \in [Worker -> [Intents -> Token \cup {NoToken}]]
  /\ lease \in [Worker -> [Intents -> Token \cup {NoToken}]]
  /\ task \in [Worker -> [Intents -> Task]]
  /\ requests \subseteq Request
  /\ posts \in [Intents -> Nat]
  /\ faultsLeft \in 0 .. MaxFaults
  /\ \A w \in Worker : \A d \in Active(w) : lease[w][d] # NoToken

\* A result is posted a second time only after something went wrong, and each
\* thing that goes wrong costs at most one more post: with no fault every run is
\* posted at most once, however claims, tasks and acknowledgements interleave.
DuplicatesNeedFaults == \A d \in Intents : posts[d] <= 1 + Spent

\* A connector posts a result only while the core still holds its lease, so two
\* connectors never deliver the same run at a time, as long as fewer ticks than
\* LEASE_GRACE were slow.
PostsUnderLease ==
  [][\A w \in Worker, d \in Intents :
       posts'[d] # posts[d] /\ task'[w][d] # task[w][d] /\ Spent < LEASE_GRACE
         => /\ Current[d].state = "claimed"
            /\ Current[d].token = lease[w][d]]_vars

\* The connector never runs more tasks than MAX_ACTIVE_DELIVERIES, although the
\* claim was sized before its answer arrived.
ActiveBounded == \A w \in Worker : Cardinality(Active(w)) <= MAX_ACTIVE

\* A run whose result was recorded for delivery is not left pending or claimed
\* for ever: it is finished by a connector, expires, or is pruned.
EventuallyFinal ==
  \A d \in Intents :
    d \in offered ~> Current[d].state \notin {"pending", "claimed"}
=============================================================================
