------------------------------ MODULE Approvals ------------------------------
(***************************************************************************)
(* Approval requests: created by triggers, decided over the API, executed  *)
(* once approved, watched by the connector for the requester               *)
(* (services/approvals/, api/approvals.py, api/triggers.py,                *)
(* connector/results_poller.py).                                           *)
(*                                                                         *)
(* The store keeps a dictionary of request objects and rewrites one file;  *)
(* a save that fails is reported by its return value only, and the         *)
(* objects keep the change.  All handlers run on the server's event loop,  *)
(* so each runs alone up to the await of the submission: an approval is    *)
(* decided, saved and put on its way in one step, its prompt is queued in  *)
(* a second, and the prompt id is recorded in a third.                     *)
(*                                                                         *)
(* `due' is what is left until expires_at.  The idempotency key of an      *)
(* execution is not modelled: it belongs to one request, and no request is *)
(* executed twice (ExecutedOnce).                                          *)
(***************************************************************************)
EXTENDS Naturals, FiniteSets

CONSTANTS
  Requests,       \* approval ids; generate_id never repeats one
  TTL,            \* time to live of a request, in ticks
  MAX_APPROVALS,  \* capacity of the store
  SLACK,          \* how far below the capacity a cleanup goes (100 in the code)
  Faults          \* what may fail: a subset of {"save", "load", "post"}

ASSUME ApprovalsAssumption ==
  /\ TTL \in Nat \ {0} /\ MAX_APPROVALS \in Nat \ {0} /\ SLACK \in Nat
  /\ SLACK <= MAX_APPROVALS
  /\ Faults \subseteq {"save", "load", "post"}

VARIABLES
  approvals,   \* the dictionary _approvals; "absent" where it has no such key
  disk,        \* the records of approvals.json
  loaded,      \* _loaded
  issued,      \* the ids that were ever generated
  work,        \* approve_request after its save: "idle", "submit" or "record"
  queued,      \* how many prompts each request has put into the ComfyUI queue
  told,        \* the decision that a caller got a success answer for
  watch        \* the connector's _poll_approval: what it found

store == <<approvals, disk, loaded>>
vars == <<store, issued, work, queued, told, watch>>

Decided  == {"approved", "rejected", "expired"}           \* is_terminal
Status   == {"absent", "pending"} \cup Decided
Request  == [status : Status, due : 0 .. TTL, prompt : BOOLEAN]

Absent   == [status |-> "absent", due |-> 0, prompt |-> FALSE]
Empty    == [r \in Requests |-> Absent]
New      == [status |-> "pending", due |-> TTL, prompt |-> FALSE]

Pending(m, r) == m[r].status = "pending"
Expired(m, r) == m[r].due = 0                             \* is_expired
Mark(m, r, s) == [m EXCEPT ![r].status = s]
Present(m)    == {r \in Requests : m[r].status # "absent"}

-----------------------------------------------------------------------------
(* The store.                                                              *)

\* What _ensure_loaded finds; a file that fails its integrity check counts as empty.
Views ==
  IF loaded THEN {approvals}
  ELSE {disk} \cup (IF "load" \in Faults THEN {Empty} ELSE {})

SaveResults == IF "save" \in Faults THEN BOOLEAN ELSE {TRUE}

Commit(m, ok) ==
  /\ approvals' = m /\ loaded' = TRUE
  /\ disk' = IF ok THEN m ELSE disk

Keep(m) == approvals' = m /\ loaded' = TRUE /\ UNCHANGED disk

\* _cleanup_old_approvals drops decided requests until the store is SLACK below
\* its capacity, and all that are older than the retention besides.
Cleaned(m) ==
  LET decided == {r \in Requests : m[r].status \in Decided}
      few     == Cardinality(Present(m)) - Cardinality(decided) + SLACK < MAX_APPROVALS
  IN  {[r \in Requests |-> IF r \in V THEN Absent ELSE m[r]] :
         V \in {V \in SUBSET decided :
                  IF few THEN Cardinality(Present(m)) - Cardinality(V) + SLACK < MAX_APPROVALS
                         ELSE V = decided}}

\* add makes room first, if there is none.
WithRoom(m) == IF Cardinality(Present(m)) < MAX_APPROVALS THEN {m} ELSE Cleaned(m)

-----------------------------------------------------------------------------
(* The handlers.                                                           *)

\* create_request: a full store refuses; the requester gets the id only after a
\* save, and the connector may then watch it.
Create(r) ==
  /\ r \notin issued /\ issued' = issued \cup {r}
  /\ \E cur \in Views : \E m \in WithRoom(cur), ok \in SaveResults :
       LET room == Cardinality(Present(m)) < MAX_APPROVALS
       IN  /\ IF room THEN Commit([m EXCEPT ![r] = New], ok) ELSE Keep(m)
           /\ watch' \in {watch} \cup (IF room /\ ok THEN {[watch EXCEPT ![r] = "polling"]} ELSE {})
  /\ UNCHANGED <<work, queued, told>>

\* Mutations: the result of the save is ignored; a decided request is approved.
GrantUnsaved(r) ==
  /\ \E cur \in Views, ok \in SaveResults :
       /\ Pending(cur, r) /\ ~ Expired(cur, r)
       /\ Commit(Mark(cur, r, "approved"), ok)
       /\ \/ work' = [work EXCEPT ![r] = "submit"] /\ UNCHANGED told
          \/ told' = [told EXCEPT ![r] = "approved"] /\ UNCHANGED work
  /\ UNCHANGED <<issued, queued, watch>>
GrantDecided(r) ==
  /\ \E cur \in Views, ok \in SaveResults :
       /\ cur[r].status # "absent" /\ ~ Expired(cur, r)
       /\ Commit(Mark(cur, r, "approved"), ok)
       /\ \/ ok /\ work' = [work EXCEPT ![r] = "submit"] /\ UNCHANGED told
          \/ ok /\ told' = [told EXCEPT ![r] = "approved"] /\ UNCHANGED work
          \/ ~ ok /\ UNCHANGED <<work, told>>
  /\ UNCHANGED <<issued, queued, watch>>

\* approve_request on a pending request in time: it executes unless the caller
\* asked otherwise; a failed save is an error and nothing is executed.
Grant(r) ==
  /\ \E cur \in Views, ok \in SaveResults :
       /\ Pending(cur, r) /\ ~ Expired(cur, r)
       /\ Commit(Mark(cur, r, "approved"), ok)
       /\ \/ ok /\ work' = [work EXCEPT ![r] = "submit"] /\ UNCHANGED told
          \/ ok /\ told' = [told EXCEPT ![r] = "approved"] /\ UNCHANGED work
          \/ ~ ok /\ UNCHANGED <<work, told>>
  /\ UNCHANGED <<issued, queued, watch>>

\* approve_request after the time to live: the request expires, saved or not.
GrantLate(r) ==
  /\ \E cur \in Views, ok \in SaveResults :
       /\ Pending(cur, r) /\ Expired(cur, r)
       /\ Commit(Mark(cur, r, "expired"), ok)
  /\ UNCHANGED <<issued, work, queued, told, watch>>

\* reject_request, which does not look at the time to live.
Reject(r) ==
  /\ \E cur \in Views, ok \in SaveResults :
       /\ Pending(cur, r)
       /\ Commit(Mark(cur, r, "rejected"), ok)
       /\ told' = IF ok THEN [told EXCEPT ![r] = "rejected"] ELSE told
  /\ UNCHANGED <<issued, work, queued, watch>>

\* A decision on a request that is unknown or decided, or get_approval: the
\* file may be loaded, nothing else happens.
Look ==
  /\ \E cur \in Views : Keep(cur)
  /\ UNCHANGED <<issued, work, queued, told, watch>>

\* list_approvals expires what is due first, and saves if anything was.
List ==
  /\ \E cur \in Views, ok \in SaveResults :
       LET due == {r \in Requests : Pending(cur, r) /\ Expired(cur, r)}
           m   == [r \in Requests |-> IF r \in due THEN [cur[r] EXCEPT !.status = "expired"]
                                                   ELSE cur[r]]
       IN  IF due = {} THEN Keep(cur) ELSE Commit(m, ok)
  /\ UNCHANGED <<issued, work, queued, told, watch>>

\* The submission is over and approve_request answers: the approval stands.
Answer(r) ==
  /\ work' = [work EXCEPT ![r] = "idle"]
  /\ told' = [told EXCEPT ![r] = "approved"]

\* execute_approved_trigger: the prompt is queued; or it is not; or it is, and
\* the answer, the note of its id or the callback fails.
Submit(r) ==
  /\ work[r] = "submit"
  /\ \/ queued' = [queued EXCEPT ![r] = @ + 1]
        /\ work' = [work EXCEPT ![r] = "record"] /\ UNCHANGED told
     \/ "post" \in Faults /\ UNCHANGED queued /\ Answer(r)
     \/ "post" \in Faults /\ queued' = [queued EXCEPT ![r] = @ + 1] /\ Answer(r)
  /\ UNCHANGED <<store, issued, watch>>

\* record_execution, whose failures are logged: the request may have been
\* cleaned up while its prompt was submitted, and the save may fail.
RecordExecution(r) ==
  /\ work[r] = "record"
  /\ \E cur \in Views, ok \in SaveResults :
       IF cur[r].status = "absent" THEN Keep(cur)
                                   ELSE Commit([cur EXCEPT ![r].prompt = TRUE], ok)
  /\ Answer(r)
  /\ UNCHANGED <<issued, queued, watch>>

-----------------------------------------------------------------------------
(* The connector, time and crashes.                                        *)

\* _poll_approval asks once more: it reports a refusal, or starts to track the
\* job as soon as the approved request names its prompt.
Poll(r) ==
  /\ watch[r] = "polling"
  /\ \E cur \in Views :
       /\ Keep(cur)
       /\ \/ /\ cur[r].status \in {"rejected", "expired"}
             /\ watch' = [watch EXCEPT ![r] = "refused"]
          \/ /\ cur[r].status = "approved" /\ cur[r].prompt
             /\ watch' = [watch EXCEPT ![r] = "tracking"]
  /\ UNCHANGED <<issued, work, queued, told>>

\* The connector gives up after delivery_timeout_sec, or stops.
StopWatch(r) ==
  /\ watch[r] = "polling"
  /\ watch' = [watch EXCEPT ![r] = "gave_up"]
  /\ UNCHANGED <<store, issued, work, queued, told>>

\* The server stops; handlers that were executing never answer.
Crash ==
  /\ loaded' = FALSE /\ approvals' = Empty
  /\ work' = [r \in Requests |-> "idle"]
  /\ UNCHANGED <<disk, issued, queued, told, watch>>

Aged(q) == IF q.status = "absent" \/ q.due = 0 THEN q ELSE [q EXCEPT !.due = @ - 1]

Tick ==
  /\ approvals' = [r \in Requests |-> Aged(approvals[r])]
  /\ disk' = [r \in Requests |-> Aged(disk[r])]
  /\ UNCHANGED <<loaded, issued, work, queued, told, watch>>

Init ==
  /\ approvals = Empty /\ disk = Empty /\ loaded = FALSE
  /\ issued = {}
  /\ work = [r \in Requests |-> "idle"]
  /\ queued = [r \in Requests |-> 0]
  /\ told = [r \in Requests |-> "nothing"]
  /\ watch = [r \in Requests |-> "none"]

Next ==
  \/ \E r \in Requests : \/ Create(r) \/ Grant(r) \/ GrantLate(r) \/ Reject(r)
                         \/ Submit(r) \/ RecordExecution(r) \/ Poll(r) \/ StopWatch(r)
  \/ Look \/ List \/ Crash \/ Tick

Spec == Init /\ [][Next]_vars

-----------------------------------------------------------------------------
(* Properties.                                                             *)

\* The store as the next handler will see it.
Current == IF loaded THEN approvals ELSE disk

\* Every request, in memory and in the file, is well formed.
TypeOK ==
  /\ approvals \in [Requests -> Request] /\ disk \in [Requests -> Request]
  /\ loaded \in BOOLEAN /\ issued \subseteq Requests
  /\ work \in [Requests -> {"idle", "submit", "record"}]
  /\ queued \in [Requests -> Nat]
  /\ told \in [Requests -> {"nothing", "approved", "rejected"}]
  /\ watch \in [Requests -> {"none", "polling", "tracking", "refused", "gave_up"}]

\* A decision that a caller was told stands until the request is cleaned up: no
\* failed save and no restart reopens or reverses it (ApprovalService).
DecisionStands ==
  \A r \in Requests : told[r] # "nothing" => Current[r].status \in {told[r], "absent"}

\* A request is executed at most once, and only when its approval is in the file,
\* so that no restart offers an executed request for decision again.
ExecutedOnce ==
  \A r \in Requests :
    /\ queued[r] <= 1
    /\ queued[r] = 1 => disk[r].status \in {"approved", "absent"}

\* A request whose rejection was confirmed is not executed, before or after.
NeverAfterReject ==
  \A r \in Requests : told[r] = "rejected" => queued[r] = 0 /\ work[r] = "idle"

\* The connector tracks a job for a request only if its prompt was queued, and
\* no restart of the server in between makes it miss or invent one.
TracksQueued == \A r \in Requests : watch[r] = "tracking" => queued[r] = 1

\* The request as a register of decisions has it, whatever is in memory, in the file,
\* or lost with a handler: whether it can still be decided, and what was decided.
Standing(r) ==
  IF told[r] = "rejected" THEN "refused"
  ELSE IF queued[r] > 0 THEN "executed"
  ELSE IF work[r] # "idle" \/ told[r] = "approved" THEN "granted"
  ELSE IF r \notin issued \/ Pending(approvals, r) \/ Pending(disk, r) THEN "open"
  ELSE "closed"

Register == INSTANCE DecisionRegister WITH standing <- [r \in Requests |-> Standing(r)]

\* Every request is decided once and executed once, and never again after it was
\* refused, executed or closed, through failed saves, damaged files and restarts.
DecisionSpec == Register!Spec
=============================================================================
