------------------------------ MODULE Submission ------------------------------
(***************************************************************************)
(* Prompt submissions that a sender may repeat: the webhook                *)
(* (api/webhook_submit.py) and the bridge (submit_handler of api/bridge.py) *)
(* record the request's idempotency key in the durable store               *)
(* (services/idempotency_store.py), submit the prompt, and add its id to   *)
(* the row.  A repetition is answered from the row.  Each request is a     *)
(* handler of its own; a handler that awaits ComfyUI lets others run.      *)
(*                                                                         *)
(* The key is recorded before the prompt is submitted and nothing removes  *)
(* it when the submission is denied or fails, and a restart loses the      *)
(* handlers but keeps the rows.  A row expires; the post to ComfyUI times  *)
(* out long before that, so a row outlives the handler that recorded it.   *)
(***************************************************************************)
EXTENDS Naturals, FiniteSets

CONSTANTS
  RequestKeys,   \* idempotency keys
  Submitters,    \* handlers
  KEY_TTL        \* the rows' time to live, in ticks

ASSUME SubmissionAssumption == KEY_TTL \in Nat \ {0} /\ "none" \notin RequestKeys

VARIABLES
  rows,      \* of each key: what is left of its row, and whether it has the prompt's id
  handling,  \* the key each handler submits a prompt for, or "none"
  accepted,  \* handlers whose prompt ComfyUI has queued, whether they know it or not
  prompts,   \* prompts queued for a key since its row was recorded
  outcomes   \* what has become of the handlers of a key since its row was recorded

submissionVars == <<rows, handling, accepted, prompts, outcomes>>

NoRow       == [left |-> 0, prompt |-> FALSE]
Outcomes    == {"ok", "failed", "lost"}
InFlight(k) == {h \in Submitters : handling[h] = k}

Record(h, k, ttl) ==
  /\ rows' = [rows EXCEPT ![k] = [left |-> ttl, prompt |-> FALSE]]
  /\ handling' = [handling EXCEPT ![h] = k]
  /\ prompts' = [prompts EXCEPT ![k] = IF rows[k].left = 0 THEN 0 ELSE @]
  /\ outcomes' = [outcomes EXCEPT ![k] = IF rows[k].left = 0 THEN {} ELSE @]
  /\ UNCHANGED accepted

\* Mutation: a row without a prompt's id does not count.
CheckAndRecordByPrompt(h, k) ==
  handling[h] = "none" /\ (rows[k].left = 0 \/ ~ rows[k].prompt) /\ Record(h, k, KEY_TTL)

\* Mutation: the row is valid for a tick more.
CheckAndRecordLong(h, k) ==
  handling[h] = "none" /\ rows[k].left = 0 /\ Record(h, k, KEY_TTL + 1)

\* A request whose key has no row that is still valid: the row is recorded.  (A
\* duplicate is answered from its row and changes nothing.)
CheckAndRecord(h, k) ==
  handling[h] = "none" /\ rows[k].left = 0 /\ Record(h, k, KEY_TTL)

\* Mutation: the sender is told that the prompt was submitted.
NotQueuedIsOk(h, k) ==
  /\ handling[h] = k /\ h \notin accepted
  /\ outcomes' = [outcomes EXCEPT ![k] = @ \cup {"ok"}]
  /\ handling' = [handling EXCEPT ![h] = "none"]
  /\ UNCHANGED <<rows, accepted, prompts>>

\* The template cannot be rendered, a budget denies the submission, or ComfyUI
\* refuses it: the sender is told, and the row stays.
NotQueued(h, k) ==
  /\ handling[h] = k /\ h \notin accepted
  /\ outcomes' = [outcomes EXCEPT ![k] = @ \cup {"failed"}]
  /\ handling' = [handling EXCEPT ![h] = "none"]
  /\ UNCHANGED <<rows, accepted, prompts>>

\* ComfyUI queues the prompt; its answer is on the way.
Accept(h, k) ==
  /\ handling[h] = k /\ h \notin accepted
  /\ accepted' = accepted \cup {h}
  /\ prompts' = [prompts EXCEPT ![k] = @ + 1]
  /\ UNCHANGED <<rows, handling, outcomes>>

\* The answer arrived: the row gets the prompt's id and the sender is told.
UpdatePromptId(h, k) ==
  /\ handling[h] = k /\ h \in accepted
  /\ rows' = [rows EXCEPT ![k].prompt = (rows[k].left > 0)]
  /\ outcomes' = [outcomes EXCEPT ![k] = @ \cup {"ok"}]
  /\ handling' = [handling EXCEPT ![h] = "none"]
  /\ accepted' = accepted \ {h}
  /\ UNCHANGED prompts

\* The answer is lost, or the store cannot be written: the sender is told that the
\* submission failed, although the prompt is queued.
AnswerFails(h, k) ==
  /\ handling[h] = k /\ h \in accepted
  /\ outcomes' = [outcomes EXCEPT ![k] = @ \cup {"failed"}]
  /\ handling' = [handling EXCEPT ![h] = "none"]
  /\ accepted' = accepted \ {h}
  /\ UNCHANGED <<rows, prompts>>

\* A restart of the server: its handlers are gone.
SubmissionRestart ==
  /\ outcomes' = [k \in RequestKeys |-> IF InFlight(k) = {} THEN outcomes[k] ELSE outcomes[k] \cup {"lost"}]
  /\ handling' = [h \in Submitters |-> "none"]
  /\ accepted' = {}
  /\ UNCHANGED <<rows, prompts>>

\* The clock; a post in flight ends before its row does.
SubmissionTick ==
  /\ \A k \in RequestKeys : rows[k].left = 1 => InFlight(k) = {}
  /\ rows' = [k \in RequestKeys |->
                IF rows[k].left <= 1 THEN NoRow ELSE [rows[k] EXCEPT !.left = @ - 1]]
  /\ UNCHANGED <<handling, accepted, prompts, outcomes>>

SubmissionInit ==
  /\ rows = [k \in RequestKeys |-> NoRow]
  /\ handling = [h \in Submitters |-> "none"]
  /\ accepted = {}
  /\ prompts = [k \in RequestKeys |-> 0]
  /\ outcomes = [k \in RequestKeys |-> {}]

SubmissionNext ==
  \/ \E h \in Submitters, k \in RequestKeys :
       \/ CheckAndRecord(h, k) \/ NotQueued(h, k) \/ Accept(h, k)
       \/ UpdatePromptId(h, k) \/ AnswerFails(h, k)
  \/ SubmissionRestart \/ SubmissionTick

SubmissionSpec == SubmissionInit /\ [][SubmissionNext]_submissionVars

-----------------------------------------------------------------------------
(* Properties.                                                             *)

SubmissionTypeOK ==
  /\ rows \in [RequestKeys -> [left : 0 .. KEY_TTL, prompt : BOOLEAN]]
  /\ handling \in [Submitters -> RequestKeys \cup {"none"}]
  /\ accepted \subseteq Submitters
  /\ prompts \in [RequestKeys -> Nat]
  /\ outcomes \in [RequestKeys -> SUBSET Outcomes]

\* However a request is repeated and the server restarts, its prompt is queued at
\* most once while its row is valid (check_and_record).
QueuedOnce == \A k \in RequestKeys : rows[k].left > 0 => prompts[k] <= 1

\* A sender that was told of success can rely on it: the prompt is queued, and a
\* repetition is answered with its id.
OkMeansQueued ==
  \A k \in RequestKeys : rows[k].left > 0 /\ "ok" \in outcomes[k] => prompts[k] = 1 /\ rows[k].prompt

\* A repetition is suppressed only if the request is queued or being submitted,
\* or an earlier sender saw it fail: with an error, or with the connection.
SuppressedForReason ==
  \A k \in RequestKeys :
    rows[k].left > 0 => prompts[k] = 1 \/ InFlight(k) # {} \/ outcomes[k] \cap {"failed", "lost"} # {}

\* The two together: what senders are told, and what is kept from them, is so.
AnswersTrue == OkMeansQueued /\ SuppressedForReason

\* A repetition is answered "Request already processed" (webhook) and with status
\* "queued" (bridge): unless it is being submitted, the prompt is queued.
DedupedWasQueued ==
  \A k \in RequestKeys : rows[k].left > 0 /\ InFlight(k) = {} => prompts[k] = 1
=============================================================================
