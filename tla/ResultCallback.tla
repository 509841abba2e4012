---------------------------- MODULE ResultCallback ----------------------------
(***************************************************************************)
(* The delivery of a job's result to the URL that its sender named         *)
(* (services/callback_delivery.py): a task per prompt polls ComfyUI's      *)
(* history, emits the job's event and posts the result, with the retry     *)
(* budget of services/retry_partition.py, which keeps failures of the      *)
(* transport and refusals for the rate in two separate lanes.              *)
(*                                                                         *)
(* Tasks and events live in memory: a restart loses them.  The delays      *)
(* between polls and between attempts are arbitrary.                       *)
(***************************************************************************)
EXTENDS Naturals

CONSTANTS
  WatchedPrompts,
  POLL_MAX_ATTEMPTS,
  CALLBACK_MAX_RETRIES,  \* the budget of the transport lane
  RATE_LIMIT_RETRIES     \* the budget of the other lane

\* The loop makes room for two refusals for the rate; the code's budget is two.
ASSUME WatchAssumption ==
  /\ POLL_MAX_ATTEMPTS \in Nat \ {0} /\ CALLBACK_MAX_RETRIES \in Nat
  /\ RATE_LIMIT_RETRIES \in 1 .. 2

VARIABLES
  job,       \* what ComfyUI's history says of each prompt
  watcher,   \* the task of each prompt
  heard,     \* the events of this life that name each prompt
  delivered, \* how often the receiver got each result
  misled     \* how often an answer of the receiver was lost

watchVars == <<job, watcher, heard, delivered, misled>>

Result == {"completed", "error", "unknown"}
Lane   == {"rate", "transport"}
Budget == [rate |-> RATE_LIMIT_RETRIES, transport |-> CALLBACK_MAX_RETRIES]

NoWatcher == [at |-> "none", polls |-> 0, used |-> [l \in Lane |-> 0], refused |-> FALSE]

WatchTypeOK ==
  /\ job \in [WatchedPrompts -> Result \cup {"pending"}]
  /\ \A p \in WatchedPrompts :
       /\ watcher[p].at \in {"none", "poll", "post", "ended"}
       /\ watcher[p].polls <= POLL_MAX_ATTEMPTS
       /\ watcher[p].used \in [Lane -> Nat]

Tell(p, event) == heard' = [heard EXCEPT ![p] = @ \cup {event}]
Ends(p)        == watcher' = [watcher EXCEPT ![p].at = "ended"]
-----------------------------------------------------------------------------
\* The prompt was queued, and its sender named a callback.
StartWatch(p) ==
  /\ watcher[p].at = "none"
  /\ watcher' = [watcher EXCEPT ![p].at = "poll"]
  /\ UNCHANGED <<job, heard, delivered, misled>>

JobEnds(p) ==
  /\ watcher[p].at # "none" /\ job[p] = "pending"
  /\ \E r \in Result : job' = [job EXCEPT ![p] = r]
  /\ UNCHANGED <<watcher, heard, delivered, misled>>

\* fetch_history answers None to every failure, as if the job were not there yet.
Seen(p) == {job[p], "pending"}

\* The job is over, or the last poll has found something of it.
PollFinds(p) ==
  /\ watcher[p].at = "poll"
  /\ \E r \in Seen(p) :
       /\ \/ r \in {"completed", "error"}
          \/ r = "unknown" /\ watcher[p].polls + 1 = POLL_MAX_ATTEMPTS
       /\ Tell(p, IF r = "completed" THEN "completed" ELSE "failed")
  /\ watcher' = [watcher EXCEPT ![p].at = "post", ![p].polls = @ + 1]
  /\ UNCHANGED <<job, delivered, misled>>

PollAgain(p) ==
  /\ watcher[p].at = "poll" /\ watcher[p].polls + 1 < POLL_MAX_ATTEMPTS
  /\ watcher' = [watcher EXCEPT ![p].polls = @ + 1]
  /\ UNCHANGED <<job, heard, delivered, misled>>

\* The last poll finds nothing: the job counts as failed, whatever becomes of it.
PollTimesOut(p) ==
  /\ watcher[p].at = "poll" /\ watcher[p].polls + 1 = POLL_MAX_ATTEMPTS
  /\ watcher' = [watcher EXCEPT ![p].at = "ended", ![p].polls = @ + 1]
  /\ Tell(p, "failed")
  /\ UNCHANGED <<job, delivered, misled>>
-----------------------------------------------------------------------------
Attempts(p) == watcher[p].used["rate"] + watcher[p].used["transport"]

\* Mutation: the loop makes room for one lane only.
AttemptsLeftForOne(p) == Attempts(p) + 1 < CALLBACK_MAX_RETRIES

\* The loop makes room for the budgets of both lanes.
AttemptsLeft(p) == Attempts(p) + 1 < CALLBACK_MAX_RETRIES + 2

\* record_failure: the lane is charged, and retried unless that exhausts it.
PostFails(p, lane) ==
  LET used == watcher[p].used[lane] + 1
      goesOn == used < Budget[lane] /\ AttemptsLeft(p)
  IN  /\ watcher' = [watcher EXCEPT ![p].used[lane] = used,
                                    ![p].at = IF goesOn THEN "post" ELSE "ended"]
      /\ IF goesOn THEN UNCHANGED heard ELSE Tell(p, "callback_failed")

Posted(p) ==
  /\ watcher[p].at = "post"
  /\ delivered' = [delivered EXCEPT ![p] = @ + 1]
  /\ Ends(p) /\ Tell(p, "callback_sent")
  /\ UNCHANGED <<job, misled>>

\* The receiver has the result, and its answer is lost or late.
AnswerLost(p) ==
  /\ watcher[p].at = "post"
  /\ delivered' = [delivered EXCEPT ![p] = @ + 1]
  /\ misled' = [misled EXCEPT ![p] = @ + 1]
  /\ PostFails(p, "transport")
  /\ UNCHANGED job

NotPosted(p) ==
  /\ watcher[p].at = "post"
  /\ \E lane \in Lane : PostFails(p, lane)
  /\ UNCHANGED <<job, delivered, misled>>

\* An answer that forbids a retry.
Refused(p) ==
  /\ watcher[p].at = "post"
  /\ watcher' = [watcher EXCEPT ![p].at = "ended", ![p].refused = TRUE]
  /\ Tell(p, "callback_failed")
  /\ UNCHANGED <<job, delivered, misled>>

\* The address is not allowed, or does not resolve: there is no event.
Blocked(p) ==
  /\ watcher[p].at = "post"
  /\ Ends(p)
  /\ UNCHANGED <<job, heard, delivered, misled>>

\* The process ends: the tasks and the events are gone.
WatchRestart ==
  /\ watcher' = [p \in WatchedPrompts |->
       IF watcher[p].at = "none" THEN NoWatcher ELSE [watcher[p] EXCEPT !.at = "ended"]]
  /\ heard' = [p \in WatchedPrompts |-> {}]
  /\ UNCHANGED <<job, delivered, misled>>

WatchInit ==
  /\ job = [p \in WatchedPrompts |-> "pending"]
  /\ watcher = [p \in WatchedPrompts |-> NoWatcher]
  /\ heard = [p \in WatchedPrompts |-> {}]
  /\ delivered = [p \in WatchedPrompts |-> 0]
  /\ misled = [p \in WatchedPrompts |-> 0]

WatchNext ==
  \/ \E p \in WatchedPrompts :
       \/ StartWatch(p) \/ JobEnds(p)
       \/ PollFinds(p) \/ PollAgain(p) \/ PollTimesOut(p)
       \/ Posted(p) \/ AnswerLost(p) \/ NotPosted(p) \/ Refused(p) \/ Blocked(p)
  \/ WatchRestart

WatchSpec == WatchInit /\ [][WatchNext]_watchVars
-----------------------------------------------------------------------------
(* Properties.                                                             *)

\* What the events say of a result is true: a job that is told to be completed
\* is, a callback that is told to be sent was received, and one is told to have
\* failed only after the receiver refused it or a lane's whole budget was spent
\* ("429 and transport failures must never consume the same lane budget").  The
\* receiver gets a result again only if its answer was lost.
CallbackEventsTrue ==
  \A p \in WatchedPrompts :
    /\ "completed" \in heard[p] => job[p] = "completed"
    /\ "callback_sent" \in heard[p] => delivered[p] > 0
    /\ "callback_failed" \in heard[p] =>
         watcher[p].refused \/ \E l \in Lane : watcher[p].used[l] >= Budget[l]
    /\ delivered[p] <= misled[p] + 1
=============================================================================
