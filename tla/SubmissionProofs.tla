--------------------------- MODULE SubmissionProofs ---------------------------
(***************************************************************************)
(* Repeated submissions for any set of keys, any number of handlers and    *)
(* any time to live of the rows: a prompt is queued at most once while its *)
(* row is valid, and what senders are told of it is so.                    *)
(*                                                                         *)
(* Neither is inductive: both speak of a key whose handlers may be at any  *)
(* point.  The invariant says where the one handler of a key can be, and   *)
(* what the key's row, its prompts and its outcomes are then.              *)
(***************************************************************************)
EXTENDS Submission, TLAPS

\* A key has one handler, which works under a valid row, and tells of success last.
Handled(k) ==
  \A h \in Submitters : handling[h] = k =>
    /\ \A g \in Submitters : handling[g] = k => g = h
    /\ rows[k].left > 0 /\ "ok" \notin outcomes[k]
    /\ prompts[k] = IF h \in accepted THEN 1 ELSE 0

\* What is known of a key while its row is valid.
Known(k) ==
  rows[k].left > 0 =>
    /\ prompts[k] <= 1
    /\ "ok" \in outcomes[k] => prompts[k] = 1 /\ rows[k].prompt
    /\ \/ prompts[k] = 1 \/ \E h \in Submitters : handling[h] = k
       \/ "failed" \in outcomes[k] \/ "lost" \in outcomes[k]

SubmissionInv ==
  /\ SubmissionTypeOK
  /\ \A h \in accepted : handling[h] # "none"
  /\ \A k \in RequestKeys : Handled(k) /\ Known(k)

-----------------------------------------------------------------------------
\* What a step does not touch of a key stays as it was.
LEMMA KeyUntouched ==
  ASSUME SubmissionInv, NEW k \in RequestKeys,
         rows'[k] = rows[k], prompts'[k] = prompts[k], outcomes'[k] = outcomes[k],
         \A h \in Submitters : (handling'[h] = k) <=> (handling[h] = k),
         \A h \in Submitters : handling[h] = k => ((h \in accepted') <=> (h \in accepted))
  PROVE  Handled(k)' /\ Known(k)'
BY DEF SubmissionInv, Handled, Known

\* A handler that ends without success: the row stays, the sender is told.
LEMMA EndsFailed ==
  ASSUME SubmissionInv, NEW h \in Submitters, NEW k \in RequestKeys, handling[h] = k,
         outcomes' = [outcomes EXCEPT ![k] = @ \cup {"failed"}],
         handling' = [handling EXCEPT ![h] = "none"],
         accepted' = accepted \ {h},
         UNCHANGED <<rows, prompts>>
  PROVE  SubmissionInv'
<1>1. SubmissionTypeOK'
  BY DEF SubmissionInv, SubmissionTypeOK, Outcomes
<1>2. \A g \in accepted' : handling'[g] # "none"
  BY DEF SubmissionInv, SubmissionTypeOK
<1>3. ASSUME NEW q \in RequestKeys PROVE Handled(q)' /\ Known(q)'
  <2>1. CASE q = k
    <3>1. \A g \in Submitters : handling'[g] # k
      BY <2>1, SubmissionAssumption DEF SubmissionInv, SubmissionTypeOK, Handled
    <3>2. rows'[k] = rows[k] /\ prompts'[k] = prompts[k] /\ outcomes'[k] = outcomes[k] \cup {"failed"}
      BY DEF SubmissionInv, SubmissionTypeOK
    <3>3. Known(k)
      BY DEF SubmissionInv
    <3>4. QED
      BY <2>1, <3>1, <3>2, <3>3 DEF Handled, Known
  <2>2. CASE q # k
    BY <1>3, <2>2, SubmissionAssumption, KeyUntouched DEF SubmissionInv, SubmissionTypeOK
  <2>3. QED
    BY <2>1, <2>2
<1>4. QED
  BY <1>1, <1>2, <1>3 DEF SubmissionInv
-----------------------------------------------------------------------------
(* The steps.                                                              *)

LEMMA InitHolds == SubmissionInit => SubmissionInv
BY SubmissionAssumption
DEF SubmissionInit, SubmissionInv, SubmissionTypeOK, Handled, Known, NoRow, Outcomes

\* The row is recorded: nothing is known of the key but that it has this handler.
LEMMA RecordHolds ==
  ASSUME SubmissionInv, NEW h \in Submitters, NEW k \in RequestKeys, CheckAndRecord(h, k)
  PROVE  SubmissionInv'
<1>1. \A g \in Submitters : handling[g] # k
  BY DEF SubmissionInv, Handled, CheckAndRecord
<1>2. h \notin accepted
  BY DEF SubmissionInv, CheckAndRecord
<1>3. /\ rows'[k] = [left |-> KEY_TTL, prompt |-> FALSE]
      /\ prompts'[k] = 0 /\ outcomes'[k] = {} /\ accepted' = accepted
      /\ handling' = [handling EXCEPT ![h] = k]
  BY DEF SubmissionInv, SubmissionTypeOK, CheckAndRecord, Record
<1>4. SubmissionTypeOK'
  BY SubmissionAssumption
  DEF SubmissionInv, SubmissionTypeOK, CheckAndRecord, Record
<1>5. \A g \in accepted' : handling'[g] # "none"
  BY <1>2, <1>3 DEF SubmissionInv, SubmissionTypeOK
<1>6. ASSUME NEW q \in RequestKeys PROVE Handled(q)' /\ Known(q)'
  <2>1. CASE q = k
    <3>1. \A g \in Submitters : handling'[g] = k <=> g = h
      BY <1>1, <1>3 DEF SubmissionInv, SubmissionTypeOK
    <3>2. QED
      BY <2>1, <3>1, <1>2, <1>3, SubmissionAssumption DEF Handled, Known
  <2>2. CASE q # k
    <3>1. \A g \in Submitters : (handling'[g] = q) <=> (handling[g] = q)
      BY <2>2, <1>3, SubmissionAssumption DEF SubmissionInv, SubmissionTypeOK, CheckAndRecord
    <3>2. /\ rows'[q] = rows[q] /\ prompts'[q] = prompts[q] /\ outcomes'[q] = outcomes[q]
      BY <2>2 DEF SubmissionInv, SubmissionTypeOK, CheckAndRecord, Record
    <3>3. QED
      BY <3>1, <3>2, <1>3, KeyUntouched
  <2>3. QED
    BY <2>1, <2>2
<1>7. QED
  BY <1>4, <1>5, <1>6 DEF SubmissionInv

LEMMA NotQueuedHolds ==
  ASSUME SubmissionInv, NEW h \in Submitters, NEW k \in RequestKeys, NotQueued(h, k)
  PROVE  SubmissionInv'
<1>1. accepted' = accepted \ {h}
  BY DEF NotQueued
<1>2. QED
  BY <1>1, EndsFailed DEF NotQueued

LEMMA AnswerFailsHolds ==
  ASSUME SubmissionInv, NEW h \in Submitters, NEW k \in RequestKeys, AnswerFails(h, k)
  PROVE  SubmissionInv'
BY EndsFailed DEF AnswerFails

\* ComfyUI queues the prompt: the first of its row, for its handler had not been accepted.
LEMMA AcceptHolds ==
  ASSUME SubmissionInv, NEW h \in Submitters, NEW k \in RequestKeys, Accept(h, k)
  PROVE  SubmissionInv'
<1>1. /\ handling[h] = k /\ h \notin accepted /\ accepted' = accepted \cup {h}
      /\ rows' = rows /\ handling' = handling /\ outcomes' = outcomes
      /\ prompts' = [prompts EXCEPT ![k] = @ + 1]
  BY DEF Accept
<1>2. Handled(k) /\ Known(k) /\ SubmissionTypeOK
  BY DEF SubmissionInv
<1>3. prompts[k] = 0 /\ prompts'[k] = 1 /\ \A g \in Submitters : handling[g] = k => g = h
  BY <1>1, <1>2 DEF Handled, SubmissionTypeOK
<1>4. SubmissionTypeOK'
  BY <1>1, <1>2 DEF SubmissionTypeOK
<1>5. \A g \in accepted' : handling'[g] # "none"
  BY <1>1, SubmissionAssumption DEF SubmissionInv
<1>6. ASSUME NEW q \in RequestKeys PROVE Handled(q)' /\ Known(q)'
  <2>1. CASE q = k
    BY <2>1, <1>1, <1>2, <1>3 DEF Handled, Known
  <2>2. CASE q # k
    <3>1. prompts'[q] = prompts[q]
      BY <2>2, <1>1, <1>2 DEF SubmissionTypeOK
    <3>2. QED
      BY <2>2, <3>1, <1>1, KeyUntouched
  <2>3. QED
    BY <2>1, <2>2
<1>7. QED
  BY <1>4, <1>5, <1>6 DEF SubmissionInv

\* The answer arrives while the row is valid: it gets the id, the sender is told.
LEMMA UpdateHolds ==
  ASSUME SubmissionInv, NEW h \in Submitters, NEW k \in RequestKeys, UpdatePromptId(h, k)
  PROVE  SubmissionInv'
<1>1. /\ handling[h] = k /\ h \in accepted /\ accepted' = accepted \ {h}
      /\ rows' = [rows EXCEPT ![k].prompt = (rows[k].left > 0)]
      /\ outcomes' = [outcomes EXCEPT ![k] = @ \cup {"ok"}]
      /\ handling' = [handling EXCEPT ![h] = "none"]
      /\ prompts' = prompts
  BY DEF UpdatePromptId
<1>2. Handled(k) /\ Known(k) /\ SubmissionTypeOK
  BY DEF SubmissionInv
<1>3. rows[k].left > 0 /\ prompts[k] = 1 /\ \A g \in Submitters : handling[g] = k => g = h
  BY <1>1, <1>2 DEF Handled
<1>4. SubmissionTypeOK'
  <2>1. (rows[k].left > 0) = TRUE
    BY <1>3
  <2>2. rows' = [rows EXCEPT ![k].prompt = TRUE]
    BY <1>1, <2>1, Zenon
  <2>3. rows' \in [RequestKeys -> [left : 0 .. KEY_TTL, prompt : BOOLEAN]]
    BY <2>2, <1>2 DEF SubmissionTypeOK
  <2>4. QED
    BY <2>3, <1>1, <1>2 DEF SubmissionTypeOK, Outcomes
<1>5. \A g \in accepted' : handling'[g] # "none"
  BY <1>1 DEF SubmissionInv, SubmissionTypeOK
<1>6. ASSUME NEW q \in RequestKeys PROVE Handled(q)' /\ Known(q)'
  <2>1. CASE q = k
    <3>1. rows'[k].prompt = TRUE /\ rows'[k].left = rows[k].left
      BY <1>1, <1>2, <1>3 DEF SubmissionTypeOK
    <3>2. \A g \in Submitters : handling'[g] # k
      BY <1>1, <1>2, <1>3, SubmissionAssumption DEF SubmissionTypeOK
    <3>3. QED
      BY <2>1, <3>1, <3>2, <1>1, <1>3 DEF Handled, Known
  <2>2. CASE q # k
    <3>1. rows'[q] = rows[q] /\ outcomes'[q] = outcomes[q]
      BY <2>2, <1>1, <1>2 DEF SubmissionTypeOK
    <3>2. \A g \in Submitters : (handling'[g] = q) <=> (handling[g] = q)
      BY <2>2, <1>1, <1>2, SubmissionAssumption DEF SubmissionTypeOK
    <3>3. \A g \in Submitters : handling[g] = q => ((g \in accepted') <=> (g \in accepted))
      BY <2>2, <1>1
    <3>4. QED
      BY <3>1, <3>2, <3>3, <1>1, KeyUntouched
  <2>3. QED
    BY <2>1, <2>2
<1>7. QED
  BY <1>4, <1>5, <1>6 DEF SubmissionInv

\* A key whose handler is gone with the server has an outcome that says so.
LEMMA RestartHolds == ASSUME SubmissionInv, SubmissionRestart PROVE SubmissionInv'
<1>1. SubmissionTypeOK'
  BY DEF SubmissionInv, SubmissionTypeOK, SubmissionRestart, Outcomes
<1>2. ASSUME NEW k \in RequestKeys PROVE Handled(k)' /\ Known(k)'
  <2>1. \A h \in Submitters : handling'[h] # k
    BY SubmissionAssumption DEF SubmissionRestart
  <2>2. rows' = rows /\ prompts' = prompts
    BY DEF SubmissionRestart
  <2>3. Known(k)
    BY DEF SubmissionInv
  <2>4. outcomes'[k] = outcomes[k] \/ outcomes'[k] = outcomes[k] \cup {"lost"}
    BY DEF SubmissionRestart
  <2>5. (\E h \in Submitters : handling[h] = k) => "lost" \in outcomes'[k]
    BY DEF SubmissionRestart, InFlight
  <2>6. QED
    BY <2>1, <2>2, <2>3, <2>4, <2>5 DEF Handled, Known
<1>3. \A h \in accepted' : handling'[h] # "none"
  BY DEF SubmissionRestart
<1>4. QED
  BY <1>1, <1>2, <1>3 DEF SubmissionInv

\* The row of a key that has a handler does not run out.
LEMMA TickHolds == ASSUME SubmissionInv, SubmissionTick PROVE SubmissionInv'
<1>1. SubmissionTypeOK'
  BY SubmissionAssumption DEF SubmissionInv, SubmissionTypeOK, SubmissionTick, NoRow
<1>2. ASSUME NEW k \in RequestKeys PROVE Handled(k)' /\ Known(k)'
  <2>1. rows[k].left \in Nat /\ Handled(k) /\ Known(k)
    BY SubmissionAssumption DEF SubmissionInv, SubmissionTypeOK
  <2>2. UNCHANGED <<handling, accepted, prompts, outcomes>>
    BY DEF SubmissionTick
  <2>3. CASE rows[k].left <= 1
    <3>1. rows'[k].left = 0
      BY <2>3 DEF SubmissionTick, NoRow
    <3>2. \A h \in Submitters : handling[h] # k
      BY <2>1, <2>3 DEF SubmissionTick, InFlight, Handled
    <3>3. QED
      BY <2>2, <3>1, <3>2 DEF Handled, Known
  <2>4. CASE rows[k].left > 1
    <3>1. rows'[k].left > 0 /\ rows'[k].prompt = rows[k].prompt
      BY <2>1, <2>4 DEF SubmissionInv, SubmissionTypeOK, SubmissionTick
    <3>2. QED
      BY <2>1, <2>2, <2>4, <3>1 DEF Handled, Known
  <2>5. QED
    BY <2>1, <2>3, <2>4
<1>3. \A h \in accepted' : handling'[h] # "none"
  BY DEF SubmissionInv, SubmissionTick
<1>4. QED
  BY <1>1, <1>2, <1>3 DEF SubmissionInv

LEMMA StepHolds == SubmissionInv /\ [SubmissionNext]_submissionVars => SubmissionInv'
<1>1. CASE UNCHANGED submissionVars
  BY <1>1
  DEF submissionVars, SubmissionInv, SubmissionTypeOK, Handled, Known
<1>2. CASE SubmissionNext
  BY <1>2, RecordHolds, NotQueuedHolds, AcceptHolds, UpdateHolds, AnswerFailsHolds,
     RestartHolds, TickHolds
  DEF SubmissionNext
<1>3. QED
  BY <1>1, <1>2

-----------------------------------------------------------------------------
\* The invariant is one.
THEOREM InvariantHolds == SubmissionSpec => []SubmissionInv
BY InitHolds, StepHolds, PTL DEF SubmissionSpec

\* Rows, handlers and outcomes are well formed, for any keys and handlers.
THEOREM SubmissionsTyped == SubmissionSpec => []SubmissionTypeOK
<1>1. SubmissionInv => SubmissionTypeOK
  BY DEF SubmissionInv
<1>2. QED
  BY <1>1, InvariantHolds, PTL

\* However many senders repeat a request and whenever the server restarts, its
\* prompt is queued at most once while its row is valid (check_and_record).
THEOREM QueuesOnce == SubmissionSpec => []QueuedOnce
<1>1. SubmissionInv => QueuedOnce
  BY DEF SubmissionInv, Known, QueuedOnce
<1>2. QED
  BY <1>1, InvariantHolds, PTL

\* A sender that was told of success can rely on it, and a repetition is suppressed
\* for a reason, whatever fails in between (submit_handler, webhook_submit_handler).
THEOREM AnswersAreTrue == SubmissionSpec => []AnswersTrue
<1>1. SubmissionInv => OkMeansQueued
  BY DEF SubmissionInv, Known, OkMeansQueued
<1>2. SubmissionInv => SuppressedForReason
  BY DEF SubmissionInv, Known, SuppressedForReason, InFlight
<1>3. QED
  BY <1>1, <1>2, InvariantHolds, PTL DEF AnswersTrue
=============================================================================
