# ComfyUI-OpenClaw: a TLA+ verification project

ComfyUI-OpenClaw runs inside a ComfyUI server ("the core": `services/`, `api/`, `nodes/`, `web/`) and
next to it as a chat bridge ("the connector": `connector/`, a process of its own that talks HTTP to the
core). The core turns templates, triggers, webhooks and schedules into ComfyUI prompts; the connector
turns chat commands into API calls and carries results back to chats.

This directory models the protocols of that system: what happens when threads, handlers, processes, files
and a lossy network meet. It has three groups.

- **Scheduled runs**, from the edit of a schedule over the tick that finds it due to the message in the
  chat: three threads of the core, the files they write, a SQLite table, an HTTP protocol and one or more
  connector processes.
- **The connector's front**: what it does with events that chat platforms repeat, with the buttons of its
  cards, and with the installation of its Slack app.
- **Services of the core**: approvals, budgets, repeated submissions, downloads, job events, result
  callbacks, failover between models, the audit log.

Contents: [inventory](#inventory) · [modules](#modules-and-their-correspondence-to-the-code) ·
[modelling decisions](#modelling-decisions) · [runs](#runs) · [findings](#findings) ·
[proofs](#proofs) · [plan](#plan) · [not modelled](#what-is-not-modelled)

## Inventory

Components with state, what they do, what is hard about them and what makes them correct. "M" marks what
a module of this project models, "(partly)" that operations are left out, "P" what the plan has.

| Component | State | Operations | Hard behaviour | Correct when |
|---|---|---|---|---|
| **M** delivery outbox, `services/scheduler/delivery_outbox.py` | dictionary of intents, one JSON file | record, list, summaries, claim, ack, maintenance (expiry, retention, eviction), reload | restart between operations, failed writes, leases that run out, capacity | a lease is exclusive until it runs out; a confirmed outcome survives restarts; bounds hold in memory and in the file |
| **M** schedule delivery worker, `connector/schedule_delivery.py` (+ two calls of `openclaw_client.py`, `wait_for_job` of `results_poller.py`) | `_active` tasks, `_lease_tokens` | poll, one task per intent (wait, post, acknowledge with retries), stop | lost or late calls and answers, newest token against old acknowledgement, two connectors, restart of either side | each result is posted once unless something failed; posts happen under a lease; every intent ends |
| **M** scheduler runner, `services/scheduler/runner.py` | thread, stop event, schedules shared with the API | start, stop, tick, execute, skip missed, run now | a loop that outlives its stop, crash between two of an execution's effects, slow ticks, throttling | one queued prompt per key and per tick; cadence; cron fires; a queued prompt keeps its delivery |
| **M** schedule store and API, `storage.py`, `models.py`, `api/schedules.py` | objects shared by threads, one JSON file | create, update, delete, toggle, save all, load | objects edited before they are validated, failed saves, the tick that still holds a deleted schedule | a confirmed edit stands; a schedule nobody deleted is kept |
| **M** (partly) run history, `history.py` | one JSON file | `is_processed`, `add_run`; left out: retention, queries | loads that fail | the history remembers what ran |
| **M** (partly) idempotency store, `services/idempotency_store.py` | SQLite table | `check_and_record`, `update_prompt_id`, expiry; left out: the in-memory fallback | two callers at once, expiry, restart | a key is given once until it expires |
| **M** (partly) submission, `queue_submit.py`, `plugins/async_bridge.py`, `bootstrap/registration.py` | none of its own | render, budget, POST `/prompt` | answer lost though queued; a caller that gives up before the answer | the caller learns of what was queued |
| **M** webhook and bridge submission, `api/webhook_submit.py`, `submit_handler` of `api/bridge.py` | rows of the idempotency store | record the key, submit, add the prompt's id, answer a repetition | a repetition while the first is under way, failure after the key was recorded, restart | queued once; what a sender is told is so |
| **M** execution budgets, `execution_budgets.py` | three kinds of semaphores, counters | acquire, release | threads that share semaphores of asyncio, cancellation between two acquisitions | every slot is free, held or known to be leaked |
| **M** approvals, `services/approvals/`, `api/approvals.py`, `execute_approved_trigger` of `api/triggers.py`, `_poll_approval` of `results_poller.py` | requests in memory and a file | request, approve, reject, expire, clean up, execute, record the execution, watch | save fails after the object changed; the file is damaged or older than the memory; expiry against decision; execution awaits while others decide | a confirmed decision stands; at most one execution, only after approval |
| **M** connector replay lifecycle, callback contract, `connector_replay_lifecycle.py`, `connector_callback_contract.py`, `connector/transport_contract.py` | bounded tables of claimed keys and callback records | claim, release, commit, fail, evict; evaluate, acknowledge, complete | a claim that expires under its owner; eviction of work in flight | no action is executed twice; none is refused for nothing |
| **M** (partly) platform adapters: Slack and Kakao events, Telegram's polling, Feishu's cards | offset and its file, tables above | deliver, route, reply, confirm | redelivery, failed replies, failed saves, restart | nothing is skipped; repetitions have a cause |
| **M** (partly) connector installations, `connector_installation_registry.py`, `slack_installation_manager.py` | installation, token, OAuth states, files | issue, consume, exchange, post, health, rotation, removal | late notices and answers about a former token, a cut between two files | a working installation is refused only for a known reason |
| **M** (partly) model manager, `model_manager*.py` | tasks and their file, workers, staged files | create, transfer, cancel, import, recover | cancel against completion, crash between two files, failed saves | a task ends, once; completed means the file is there; imported once |
| **M** job events, `job_events.py`, `observability/backpressure.py`, `api/events.py` | ring buffer with sequence numbers | emit, stream, reconnect, poll | readers that fall behind, restart of the numbers | a reader sees every event that is still kept, in order |
| **M** result callbacks and retries, `callback_delivery.py`, `retry_partition.py` | watcher tasks, retry lanes | watch, deliver, retry | polls that fail, answers lost, lanes that fill | what the events say is true; given up only when the budget is spent |
| **M** (partly) failover, `failover.py`, loop of `llm_client.py` | cooldowns and file, recent failures, attempts | choose, attempt, fail over, cool | threads without a lock, expiry, failed saves | a candidate that failed is not chosen while it cools |
| **M** audit log, `audit.py`, `audit_pipeline.py` | hash of the last entry, live file and backups | append, rotate, verify | restart with the hash read from a file, torn writes | the retained entries verify as one chain |
| bridge tokens and worker API, `bridge_token_lifecycle.py`, `bridge_handshake.py`, `sidecar/` | tokens | issue, rotate, revoke, validate | — | only validation is wired into the server |
| **P** result watchers of the connector, `results_poller.py` | `active_polls` | track, poll | a prompt watched twice | one report per prompt |
| **P** rate limits, `rate_limit.py`, connector limits | buckets, windows | allow | one lock | — |
| **P** bootstrap and runtime lifecycle | registered services | start, stop, reset | start order, double start | services start once and stop in reverse |
| **P** runtime configuration store | file | update | write in place | no update is lost |
| parameter lab, checkpoints, presets, packs, templates, recipes | files | CRUD | few: one actor, whole-file replacement | round trips |
| secrets and encryption, security posture and doctor, deployment profiles | key files, environment | read, check | few: functions of their input | tables of cases |
| access control, tenants, webhooks' validation, safe I/O, redaction | none | validate | few | tables of cases |
| tools, transforms, planner, refiner, LLM providers | none | external calls | network | — |
| command router, media store | sessions | dispatch, send | third-party transports | — |
| nodes, web front end, scripts, packaging | — | — | — | — |

How the modelled parts meet: the schedule API edits the objects that the scheduler loop (a thread) and the
run-now handler (on the server's event loop) execute; an execution takes an idempotency key, POSTs to the
ComfyUI server it lives in, notes the prompt id, records a *delivery intent* in the outbox, moves the
schedule's cursor and records the run. Connectors poll the outbox over HTTP, claim intents under a lease,
wait for the job, post the result to a chat and acknowledge. The outbox's file and lock are the only thing
the two halves share. Webhooks, the bridge and approved triggers reach the same queue by ways of their own,
each after the budgets; their senders learn of the result by a callback or from the event store. On the
connector's side every chat command, button and event passes the replay table before it becomes a call.

`PROJECT.json` lists all components with their sources, and the hazards with the line at which each
bites.

## Modules and their correspondence to the code

| Module | Models | Role |
|---|---|---|
| `LeaseTable` | nothing in particular | abstract specification: what the outbox promises its callers |
| `DeliveryOutbox` | `DeliveryOutbox` of `delivery_outbox.py` | detailed specification; implements `LeaseTable` |
| `DeliveryOutboxProofs` | | the theorems about `DeliveryOutbox` |
| `ScheduleDelivery`, `ScheduleDeliveryProofs` | `ScheduleDeliveryWorker`, its two HTTP calls, the API handlers | instantiates `DeliveryOutbox`, whose callers are now connector processes; the theorems about it |
| `SchedulerRunner`, `SchedulerRunnerProofs` | `SchedulerRunner`, `RunHistory`, the submit function, `run_now` | the producer of delivery intents; the theorems about it |
| `ScheduleEditing` | `api/schedules.py`, `ScheduleStore` | how schedules are created, changed and kept |
| `SchedulerSettingsProofs` | | the theorems about `ScheduleEditing` and about the settings of `MCSchedulerSettings` |
| `Approvals`, `ApprovalsProofs` | `ApprovalService`, `ApprovalStore`, `approve_request`, `execute_approved_trigger`, `_poll_approval` | the approval workflow and its watcher; the theorems about it |
| `DecisionRegister` | nothing in particular | abstract specification: what the workflow promises those who decide and those who wait; `Approvals` implements it |
| `ReplayLifecycle` | `ConnectorReplayLifecycle` | operators on the table, used by the next three |
| `ConnectorIngress` | Slack's interactions, Kakao's webhook | repeated deliveries, one handler task each |
| `TelegramPolling` | `telegram_polling.py`, `connector/state.py` | one loop, an offset and its file |
| `InteractiveCallback` | `CallbackContract`, `evaluate`, `acknowledge_request`, Feishu's card handler | clicks on signed buttons |
| `Installations` | the registry and Slack's installation manager | OAuth, tokens, health |
| `ConnectorsProofs` | | the theorems about the four modules above, one by one and side by side |
| `ExecutionBudgets` | `acquire` of `execution_budgets.py` | semaphores shared by threads |
| `Submission`, `SubmissionProofs` | `webhook_submit.py`, `submit_handler`, the SQLite path of the store | repetitions of a request; the theorems about them |
| `ModelDownloads` | `model_manager*.py` | tasks, workers, files, crashes |
| `JobEvents` | the event store, its bounded queue, its stream and its polling | two readers |
| `ResultCallback` | `callback_delivery.py`, `retry_partition.py` | the watcher of a prompt |
| `Failover` | `failover.py`, the retry loop of `llm_client.py` | threads that share cooldowns |
| `AuditLog` | `audit.py`, `audit_pipeline.py` | the hash chain |
| `ServicesProofs` | | the theorems about `ExecutionBudgets`, `ResultCallback`, `ModelDownloads`, `Failover`, `JobEvents` and `AuditLog`, and about all the services side by side |
| `MC*` | | small instances and symmetry sets |

Components that share nothing are checked in one run: `MCServices` and `MCConnectors` extend several of the
modules and have a variable `part`, `MCSchedulerSettings` has `setting`; in a behaviour the part that it begins with
moves and the others stay where they are. A run is then as large as the sum of its parts, not their product,
and the fault bounds of each part are its own.

**DeliveryOutbox.** `intents` is the dictionary `_intents`, `disk` the rows of the file, `loaded` the flag
`_loaded`. `Record`, `List`, `Read`, `Claim` and `AckFinal`/`AckRepeated`/`AckRejected` are the entry
points; each is one step because each holds the lock from its first read to its save. `Maintained` is
`_maintain` (expiry of the unclaimed, retention, eviction) and is part of `Record`, `List` and `Claim`, as
in the code. `Commit` is an assignment to the dictionary followed by `_save`, whose failure leaves the
file alone and *not* the dictionary. `Restart` drops the memory. Two variables stand for the callers:
`held`, the lease tokens somebody still knows, and `told`, the outcome a caller was last confirmed.

**ScheduleDelivery.** One connector is a poll loop (`poll`: idle, call out, answered, asleep), a table
of tasks and the newest token per intent. A claim call is three steps (`Poll`, `ServeClaim`,
`TakeAnswer`), an acknowledgement two (`SendAck`, `ServeAck`); `LoseClaim`, `AckCallFails` and
`AckAnswerLost` lose the request or its answer, and a request that its sender gave up may still reach the
core later. `Deliver` ends the wait for the job and posts. `ConnectorRestart` and `CoreRestart` are the
crashes. The operators of `DeliveryOutbox` are used through `INSTANCE`, with `held` mapped to the tokens
that connectors and messages carry.

**SchedulerRunner.** Each thread (a loop, the loop after a restart, the server's event loop) has a program
counter. One execution is nine separately interleaved steps: history check, key, post, note of the prompt
id, intent, cursor with the save of the schedules, run record, and on failure run record and cursor in that
order. `Start`, `Stop`, `LoopEnds`, `Boot` and `Collect` are the loop; `RunNow` enters the same steps from
the API. `GiveUp` and `ServeLate` model a request that blocks the server's event loop for 30 seconds on a
post which only that event loop can serve.

**ScheduleEditing.** `object` are the `Schedule` objects, `listed` the store's dictionary, `file` the
file. An object outlives its deletion, because the tick may still hold it (`due`) or an update that waits for
its body. `OpenUpdate`, `ApplyUpdate` and then `SaveUpdate` or `RefuseApplied` are `update_schedule`, which changes
the object field by field before it validates it; create, delete and toggle are one step each. `CollectDue`,
`RecordEvaluation`, `SaveCursor` and `FlushStore` are what the scheduler's thread does to the same objects
and file. `LoadSchedules` skips what does not validate. `told` is what clients were answered.

**Approvals.** `approvals`, `disk` and `loaded` are the store's dictionary, its file and its flag, as in the
outbox; here a failed save is only a return value, which the service turns into an error for the caller.
Handlers run on one event loop, so each is one step up to its `await`: `Grant` decides and saves, `Submit`
awaits the prompt, `RecordExecution` notes its id; between them any other handler may run and the server
may stop. `GrantLate` and `Reject` show the code's asymmetry: approving checks the time to live, rejecting
does not. `Create` includes the cleanup of a full store (`Cleaned`), which drops decided requests from
memory and reaches the file with the next save. `told` is the decision a caller got a success answer for,
`queued` counts prompts, `watch` is the connector's poll. `Standing` is what all that amounts to for one
request, whatever is in memory, in the file or lost with a handler: open (it is not issued yet, or some copy has it
pending), granted, refused, executed or closed. It is the refinement mapping to `DecisionRegister`, in which a request is decided once,
a granted one executed once, and nothing else happens to it but that it is closed (`DecisionSpec`).

**ReplayLifecycle** has no variables: a table is a function from keys to records, and `claim`,
`commit_success`, `fail_terminal` and `release_retryable` are operators on it (`Claims`, `Closed`,
`Released`). Expired records are gone first, as in the code (`Unexpired`); at the bound the record that was
updated least recently leaves, whatever its state (`LeastRecent`). Its three users keep such a table in a
variable. In **ConnectorIngress** each delivery is a handler
(`Deliver`), which awaits the router until `Returned` or `Raised`; deliveries in between meet its claim. Kakao's
webhook claims before it reads the payload: one without a user (`Malformed`) is closed as failed, one that raises when it is
read (`Misshapen`) leaves its claim to expire, with no handler behind it.
In **TelegramPolling** `PollLoop` is the loop's next step: ask with the offset, take the next update of
the batch, claim it, await the router, await the reply, move and save the offset; what is lost at a
restart is all but `savedOffset`. In **InteractiveCallback** a click (`ClickButton`) is `evaluate` and
`acknowledge_request` in one step, since nothing between them awaits; `RouterReturned` and `RouterRaised`
complete or release it. The signed timestamp of the button is `cardAge`.

**Installations.** `inst` and `kept` are the installation in memory and in the file, `secret` the token
store, `oauth` and `oauthFile` the issued states. A callback consumes its state, exchanges the code
(`exchange_code` does not suspend, so nothing else moves while it waits) and then writes secret,
installation and state with a save each, at any of which it may be cut (`Install`). A post takes the
token, and its answer may come when the token is no longer the installed one. `granted` and `notices` are
Slack. Slack calls only a token invalid that it does not accept; a 401 or 403 counts as the same
(`HealthAfter`), may come for any token, and is among the causes that `InstallationsSound` names.

**ExecutionBudgets.** A submission checks its semaphores without waiting (`CheckBudget`) and then acquires
them one by one; an acquisition is two steps (`FindSlot`, `TakeSlot`), because threads share semaphores
whose `acquire` is only atomic within one event loop. `WaitFails` and `WaitCancelled` are the two ways to end in
between, of which only the first releases what was acquired.

**Submission.** `rows` is the SQLite table; `CheckAndRecord` is the transaction that reserves a key;
`Accept` is ComfyUI's queue, `UpdatePromptId` the answer; `NotQueued` and `AnswerFails` are the two
failures the code does not tell apart. A restart loses the handlers and keeps the rows.

**ModelDownloads.** `tasks` and `tasksFile` are the table and its file, saved whole with every change.
`Pick` and `WorkerStep` are a pool thread, `HandlerStep` the API (create, cancel, import), which blocks
the loop and so excludes other handlers but no worker. `DownloadsCrash` restarts the process and recovers
the tasks that had not ended, up to `REPLAY_LIMIT`.

**JobEvents.** `buffer` is the deque with its bound; `Connect`, `Fetch`, `WriteEvent`, `Receive` and
`Disconnect` are the stream and its client, which reconnects with the last id it saw; `PollEvents` is the
polling client with its cursor, whose answer tells whether the cursor was good, stale or of the future. `polled` are the events
of this life that it was answered with, `skipped` those that a reset, or a first answer, announced as passed over.

**ResultCallback.** `PollFinds`, `PollAgain` and `PollTimesOut` are one iteration of the wait for the job,
`Posted`, `AnswerLost`, `NotPosted`, `Refused` and `Blocked` one attempt of the delivery. `used` counts what
each lane has spent.

**Failover.** A request (`caller`) walks its candidates: `CheckCooldown` and `DeleteExpired` are the two
halves of `is_cooling_down`, which another thread may run as well; `Gate` is the interval between
attempts; `FailsOver` and `SetCooldown` are apart because the record of failures and the cooldowns are.

**AuditLog.** `AppendEntry` is one entry under the lock: read the last hash if the process has none,
rotate if the file is full (left open), write. `AppendFails` and `RotationFails` stop at each place where a file is
touched, with the entry absent, torn or written; an entry that is there although its append raised has a hash that the
process does not know. A file that has to be read may fail to be, and is then passed over (`ReadFailures`). `AuditRestart`
forgets the hash and may change the number of backups. `broken` collects what happened that the chain need not survive.

Definitions introduced by a comment that starts with "Mutation" are not part of the models. They are
deliberately broken variants of the definition that follows them (a dropped save, an off-by-one, a
missing guard), kept to show that each property notices such a slip.

## Modelling decisions

- **Time.** Timestamps are relative. The outbox keeps the age of `created_at` and `updated_at` and what
  is left of a lease; an age stops growing when no comparison can tell it from a larger one, so the
  state space is finite without a bound on time. The replay table, the rows of the idempotency store, the
  events and the cooldowns are kept the same way. The order of two timestamps within one tick is unknown:
  where the code sorts by time, equal ages are ordered either way. The runner keeps absolute periods up
  to `MaxTime`, because its idempotency keys contain the minute.
- **Steps.** What runs under a lock, or on an event loop without an `await`, is one step. Threads that share
  objects without a lock (failover, budgets, the scheduler next to the API) have one step per access that
  another thread could tell apart.
- **Tokens** are never repeated by `secrets.token_urlsafe` while anyone knows them; tokens nobody knows
  are recycled. The intents of one claim share one token name: tokens are only compared for equality
  with a token of the same intent. A claim needs a free token, so `Token` is chosen large enough for
  every claim that matters to find one.
- **Files.** Writes replace the file atomically (`os.replace`) where the code does so, and then a save happens or
  not. The audit log appends, and there a line may be torn. An unreadable file is read as empty, as
  the code does.
- **Faults** are explicit and counted (`MaxFaults`, `MISHAPS`, `CUTS`, ...), so that "nothing went wrong" and
  "one thing went wrong" can be part of a property. In `ScheduleDelivery` and `SchedulerRunner` a period
  that passes while a call, post or execution is unfinished counts as a fault as well.
- **Outcomes.** `Verdicts` is a subset of the pairs in `ACK_REASONS`. A failed job may or may not post
  an alert; a connector error may come before or after the post.
- **Left out.** Every modelled schedule has delivery enabled. The history's retention and jitter lie
  outside the modelled time. `queued` holds prompts that ever reached the queue. Identifiers, targets,
  thread ids and failure texts are not modelled, nor are authentication and the validation of payloads where it comes before
  any state. Where it comes after, it is: a refused update of a schedule, Kakao's payloads.

## Runs

`services` takes about two and a half minutes, `scheduler` one and a half, the others less than one.

| Run | Instance | Shows |
|---|---|---|
| `outbox_crash` | 2 intents, 2 overlapping scopes, 2 tokens, 2 verdicts; restarts | `TypeOK`; `ConfirmedStaysFinal`; the outbox implements `LeaseTable` (`TableSpec`) |
| `outbox_faults` | 3 intents (one without a connector), room for one, 3 tokens, leases of 1 and 2 ticks, batches of 2; failed writes, restarts | `LeaseRespected` also with failed writes and eviction; `Bounded` in memory and in the file |
| `delivery_pair` | 2 connectors, 1 run, 4 tokens, 3 faults of any kind | `DuplicatesNeedFaults`; `PostsUnderLease` |
| `delivery_live` | 1 connector with room for one task, batches of 2, 2 runs, 1 fault | `ActiveBounded`; `EventuallyFinal` under fairness |
| `scheduler` | five settings: `loop`, a cron schedule (with croniter) and an interval schedule, one run per tick, 3 faults (slow ticks, failed posts and writes, mode switches); `handover`, two loop threads, cron without croniter, 3 faults (stop, slow, mode); `restarts`, two loop threads and run-now, one schedule, skipping missed runs, 2 faults (crash, stop, slow, post, save); `throttled`, one loop, cron without croniter and two interval schedules, one run per tick, minutes of 3 periods, intervals of 5, no faults; `editing`, 2 schedules, 2 contents, one update under way, 1 failed read or write | `KeyOnce` everywhere; `LoopOncePerTick`, `LoopOnCadence`; `HandoverDeliveryKept`; `ThrottledCronFires`; `RestartsTypeOK`; `EditsStand` |
| `connectors` | `ingress`, 4 events (one without a user, one that cannot be read), 2 handlers, a table of 2; `telegram`, 3 updates, 2 faults; `callback`, 3 buttons (one of the admin class, one unknown), 2 clicks at a time; `installation`, 2 OAuth flows, 1 post, 2 tokens, 2 cuts | `ConnectorsTypeOK`; `OneRouter`, `NoReroute`, `RefusalsHaveReasons`; `NothingSkipped`, `RepeatsNeedMishaps`, `EventuallyHandled`; `ActionOnce`; `InstallationsSound` |
| `services` | `approvals`, 2 requests, room for 1, failed saves, loads and submissions, restarts at any time; `budgets`, 4 submissions of 2 sources and 2 tenants and one without a source; `submission`, 2 keys, 3 handlers, restarts; `downloads`, 3 tasks, 1 worker, room for 2, 2 crashes or failed saves; `events`, a buffer of 2, 4 events, 1 restart; `callbacks`, 1 prompt, 3 polls, budgets of 3 and 2; `failover`, 2 candidates, 2 threads, 1 lost save or restart; `audit`, 5 entries, 0 to 2 backups, 2 failures or restarts | `ServicesTypeOK`; `DecisionStands`, `ExecutedOnce`; the approvals implement `DecisionRegister` (`DecisionSpec`); `SlotsAccounted`; `QueuedOnce`, `AnswersTrue`; `DownloadsConsistent`, `TerminalIsFinal`, `DownloadsEnd`; `ReadersMissNothing`; `CallbackEventsTrue`; `TriedBeforeGivingUp`, `FailureCools`; `RetainedChainVerifies` |
| `runner_firstcron`, `runner_runnow`, `telegram_drop`, `webhook_dedupe`, `schedule_lost` | minimal, or the instance above | counterexamples, see [findings](#findings) |

Why the bounds suffice.

- *Outbox*: intents interact only through the capacity and the batch, so two intents with
  different scopes show every interaction of two claims and three show an eviction with a choice of
  victim; limits of one tick separate "not yet", "now" and "past".
- *Delivery*: a duplicate takes a lease that runs out and a second claim; two connectors, two
  acknowledgement attempts and three faults are one more than the shortest such story, and four tokens
  cover both connectors' newest and in-flight tokens.
- *Runner*: a duplicate takes two threads at one key or one restart in mid-execution; an hour of two
  minutes of two periods lets the minute and the hour roll over twice within `MaxTime`. The setting `throttled` goes
  through six minutes, so that the intervals meet the minutes in every phase; with minutes of two periods the third schedule takes the
  cron schedule's second chance, and `CronFires` does not hold.
- *Editing*: schedules meet in the file alone, so one that is edited and one whose save carries it are
  enough; an update under way meets every other request and the scheduler's thread.
- *Approvals*: requests meet only in the cleanup and in the copy of the file that a restart finds; with room for
  one, the second request needs the room of a decided one. Three requests were checked as well, with
  symmetry, when the component had a run of its own; the theorems below hold for any number.
- *Replay table*: a table of two and four keys makes it push a record out while both others matter; two
  handlers are the repetition and the repeated. A third would meet the same record.
- *Telegram*: the story of a lost update needs a failed one and a later one in the same batch, and the third shows
  the offset of a batch that ends in a failure.
- *Budgets*: caps of 1 to 3 against four submissions let each kind of gate be the one that is full.
- *Submission*: two repetitions during one attempt, and a key of another request between them.
- *Downloads*: the third task waits for room; crashes meet each of the two files of an import.
- *Events*: a buffer of two drops its oldest while the client holds one fetched and one written.
- *Callbacks*: watchers share nothing, so there is one; both lanes can be spent.
- *Failover*: a thread that is about to delete an expired cooldown and one that sets it; retries of one candidate
  change nothing that is shared, and categories differ only in their duration.
- *Installations*: two flows overlap with a late answer for the former token.
- *Audit*: two backups, both overwritten within five entries.

Clocks stop at bounds and loops stop when execution is delegated, so `scheduler`, `services` and
`runner_firstcron` have states without a successor and say `CHECK_DEADLOCK FALSE`, as do the violation
runs over the same MC modules except `runner_runnow`; deadlock is checked in the others.

**Fairness.** `delivery_live` uses `FairSpec`: the core answers calls that reach it (the
aiohttp server), each connector's event loop runs what is ready (asyncio runs ready callbacks in order; the
poll loop never ends, `_run_loop` catches every exception) and time passes. No fault is ever owed to anyone, and nothing
assumes that a call succeeds: the bounded number of faults is what makes an answer arrive in the end.
`TelegramFairness` is weak fairness of the polling loop's next step: the loop catches every exception and goes on, and
its awaits have timeouts; users need not send anything. `DownloadsFairness` is weak fairness of the pool's
threads (`ThreadPoolExecutor` takes the next task when a thread is free) for each task: a worker's
transfer has a timeout and its loop no other wait. Nothing is assumed of handlers or clients.

## Findings

Runs that end in a counterexample:

- `runner_firstcron`: with croniter, a cron schedule without a cursor that names only minute 0 raises
  whenever it is due (`minute - 1`), is never run, and is disabled after the threshold of errors.
- `runner_runnow`: the run-now handler blocks the server's event loop while the submission posts to the
  same server; it gives up after 30 seconds, reports an error, and the prompt is queued without a
  delivery intent.
- `telegram_drop`: an update whose reply failed is released for a retry and the offset stays, but the
  next update of the batch moves the offset past both, and Telegram forgets the first.
- `webhook_dedupe`: the idempotency key is recorded before the budget is checked and the prompt submitted.
  A submission that is denied (429, `Retry-After`) or fails leaves the key, and the repetition is answered as
  already processed.
- `schedule_lost`: an update that is refused as invalid has already changed the stored object. The next
  save of any schedule writes it, the next start skips it, and the save after that drops it.

Observations that follow from the modelled code and have no run of their own:

- *Outbox.* An acknowledgement whose write fails (`delivery_outbox.py:420`) leaves the final state in memory:
  the retry is confirmed as repeated, without a write, and after a restart the delivered intent is claimed
  again. So `ConfirmedStaysFinal` is checked without failed writes. An intent evicted for capacity may be
  deleted by the maintenance of the very next call, so the eviction is never listed. A claim and an
  acknowledgement in flight together can make the final acknowledgement stale.
- *Runner.* The process stops between the post and the note of the prompt id: the retry finds the key taken
  and no id (`runner.py:557`), and the delivery is lost; if the id was noted, but the restart comes in a later
  minute, the retry has another key, and the first prompt's delivery is lost as well. So `DeliveryKept` is
  checked without crashes. A cron schedule loses a minute with fewer ticks than it takes to get its turn
  (three schedules, one run per tick, two ticks). The key is the minute in which a schedule is *found* due:
  after a crash between the post and the save of the cursor, a restart in the next minute queues the same tick
  again, so `OncePerTick` is checked without crashes. A run-now request before the schedule is due moves an
  interval schedule's cursor to the time of the request and shifts its cadence; `OnCadence` is therefore
  checked without run-now requests.
- *Schedules.* A create, delete or toggle that is answered 500 after a failed save has still taken effect in
  memory, and the next save writes it. An unreadable schedules file is taken for an empty one, and the next
  save replaces it.
- *Approvals.* A request whose approval was not saved, or whose submission failed, can be neither executed nor
  decided again, and a connector may report a rejection that was never saved. `/approve` in the requester's
  own chat tracks the prompt twice, so its results are posted twice.
- *Budgets.* Threads share semaphores of asyncio, so two may take the last slot and a budget may be exceeded.
  A cancelled wait leaks what the submission had acquired.
- *Kakao.* The webhook claims the hash of the body (`kakao_webhook.py:186`) before it reads the payload
  outside any `try` (`kakao_webhook.py:202-205`): a body that is no object, or has null for `userRequest` or
  `utterance`, raises, its claim stays, and repetitions are answered 200 without an effect until it expires,
  where the first was answered 500.
- *Events.* The numbers begin again with the server, and a cursor is only compared with the present counter
  (`events.py:262`): a cursor of a former life which the new numbers have reached is answered "ok", and the
  events up to it are passed over without a warning. The stream does the same with the client's last event id.
  `ReadersMissNothing` promises nothing of such a cursor.
- *Callbacks.* A host name that does not resolve is treated like a forbidden address, without retry and
  without event, although `classify_failure` would call it a transport failure. A job that finishes after the
  last poll is announced as failed. A restart loses the watchers. A transport budget of 3 means two retries.
- *Failover.* If the last candidate has no key or no permitted address the request fails, although a cooling
  candidate could have been asked (`llm_client.py:545-546`). Two threads that delete one expired cooldown: the
  second raises `KeyError`; or it removes a cooldown that was set in between. A later failure of another
  category may shorten a cooldown. Rate limits and timeouts never set one, so `Retry-After` is unused.
- *Installations.* An answer or a notice about the former token that comes late marks a fresh installation as
  refused, until the app is installed again. `exchange_code` blocks the event loop for up to 15 seconds. A
  crash or failed save in the middle leaves an installation without its token or without its health.
- *Audit.* The comment (`audit.py:199-200`) says that no restart and no rotation can fork the chain. These do:
  an entry of more than 8 KiB, such as the errors of a refused configuration update, that is the last one
  before a restart (what is read back of it is no JSON, `audit_pipeline.py:91`, and the chain goes on from an
  older hash); a torn line; an append that raises when its line is already in the file (the process keeps its
  old hash, `audit.py:203-205`); a newest file that cannot be read when the hash has to be
  (`audit_pipeline.py:94-95`); a start with fewer backups; a connector that logs to the same file with a hash
  of its own.
- *Runtime configuration* (not modelled): the file is written in place (`runtime_config_store.py:135`), so a
  crash in the middle leaves it unreadable, which is taken for empty.

## Proofs

**The outbox.** `DeliveryOutboxProofs` proves, for every set of intents, scopes and tokens and every value of the limits
(under `ConstantsAssumption`, which every run evaluates):

| Theorem | Statement | Assumes |
|---|---|---|
| `TypeCorrect` | `Spec => []TypeOK` | — |
| `LeasesHold` | `Spec => LeaseRespected` | the file can be read (`"load" \notin Faults`); writes may fail |
| `AlwaysWritten` | `Spec => []WrittenThrough` | no I/O faults |
| `ConfirmedFinal` | `Spec => ConfirmedStaysFinal` | no I/O faults |
| `OutboxImplementsTable` | `Spec => TableSpec` | no I/O faults |
| `CapacityKept` | `Spec => []Bounded` | — |

*The argument.* Every operation but the clock is one `Upkeep` per record (keep, expire or drop) followed by
at most one move of the operation's own (create, lease, finish); `Operates` says so, with one lemma per operation, and the
action properties are then proved per record instead of per action. `TypeCorrect` is inductive as it
stands. `LeaseRespected` is not: with failed writes the memory may hold a lease that the file does not, and a
restart brings back what the file says. The strengthening is `GrantsDurable`: a token somebody *holds* and
that is current in memory is current in the file as well, because a claim answers only after its save. It is
inductive together with `TypeOK`. `ConfirmedFinal` and the refinement need `WrittenThrough`, without
which a restart may undo an operation (the first of the observations is that case), so they assume no
I/O faults. `CapacityKept` is about what a maintenance leaves: a store may hold one record more than `MAX_RECORDS`,
because the eviction that makes room among live records only ends one of them, and the terminal record stays until the
next maintenance drops it. `Small` says that of a copy of the store, `MaintainedSmall` that a maintenance makes room
in a small one, and `BoundInv` holds it of the memory and of the file, since a restart turns the second into the first.

**The delivery worker.** `ScheduleDeliveryProofs` proves, for any number of connectors, runs, tokens and faults of any
kind (under `WorkerAssumption` and `OutboxAssumption`, the second the constants that the worker hands to the outbox):

| Theorem | Statement | Assumes |
|---|---|---|
| `TypeCorrect` | `Spec => []TypeOK` | — |
| `ActiveBound` | `Spec => []ActiveBounded` | — |
| `DuplicatesPaid` | `Spec => []DuplicatesNeedFaults` | — |
| `PostsLeased` | `Spec => PostsUnderLease` | the file can be read (`"load" \notin Faults`); the outbox has room for every run |
| `ConnectorsKeepLeases` | `Spec => Outbox!LeaseRespected` | the file can be read; writes may fail |
| `DeliveryConfirmed` | `Spec => Outbox!ConfirmedStaysFinal` | no I/O faults |
| `DeliveryImplementsTable` | `Spec => Outbox!TableSpec` | no I/O faults |

*The argument.* `ActiveBound` follows from `RoomKept`: a claim that is under way asked for no more than is free, tasks
only end in the meantime, and its answer holds no more than it asked for. `DuplicatesPaid` counts what may still become a
post. The potential of a run is its posts, the answers that hold a claim of it and the tasks that wait for it;
`ClaimsPaid` says that it is at most one more than the faults so far (`Spent`), and that if it is *exactly* that the
run is `Undisturbed`: its record is final or gone, or a connector goes about it in time, under the current lease and with enough of
it left (`LEASE_GRACE`, which `schedule_delivery.py:36` keeps at one second or more, is what makes the lease outlast the wait). An
undisturbed run cannot be claimed, so a claim never raises a tight potential; whatever disturbs it is a fault, and pays. `PostsLeased` needs
`TokensUnique` (a token that somebody carries names one claim) and `UnderLease` (a task that was not disturbed
still has the lease that its token names), which a record evicted for capacity, or a file read as empty, would
break; hence the two assumptions.

The last three say that what the outbox promises *anybody* still holds with these callers around it. They do not follow
from the outbox's own theorems, because a step of the delivery is no step of `DeliveryOutbox!Spec`: a restart of the
core also ends the calls in flight, a connector that stops drops all its tokens at once, and the tokens that count are
the ones in `Known`, spread over connectors, answers and requests that may still arrive. `OutboxSteps` shows that
a step nevertheless operates the outbox, lets time pass, stops it or leaves it alone, and the lemmas about an
operation, which the proofs about the outbox state without its callers (`RecordOperation`, `ClaimOperation`, `AckOperation`,
`LeaseOperation`, `CurrentOperation`), do the rest. `KnownStep` is the bridge for the leases: somebody comes to know a
token only by the answer to a claim, and that claim is in the file (`OP!GrantsDurable`). `DeliveryImplementsTable` makes
the whole system, connectors and all, a refinement of the table of leases.

**Approvals.** `ApprovalsProofs` proves, for every set of requests, every capacity and time to live and any
faults (under `ApprovalsAssumption`):

| Theorem | Statement |
|---|---|
| `ApprovalsTyped` | `Spec => []TypeOK` |
| `DecisionsHold` | `Spec => []DecisionStands` |
| `ExecutesOnce` | `Spec => []ExecutedOnce` |
| `RejectionFinal` | `Spec => []NeverAfterReject`: what was confirmed as rejected is never executed |
| `TracksOnlyQueued` | `Spec => []TracksQueued`: the connector watches only prompts that were queued |
| `ApprovalsImplementRegister` | `Spec => DecisionSpec` |

*The argument.* None of them is inductive: a restart replaces the memory by the file, a damaged file by
nothing, and a failed save leaves the two apart. The invariant therefore speaks of *copies* of the store.
`Faithful(m)` says what a copy may claim about each request in view of what was queued and confirmed (a
request that is under way, queued or confirmed as approved is approved or gone; one confirmed as rejected
is rejected or gone; a prompt id appears only where a prompt was queued), and `IInv` holds it of the
dictionary and of the file, together with how far each request has come (`Course`). Whatever a handler
finds is then faithful (`ViewFaithful`); a pending record in a faithful copy is one that nothing was
decided about (`MarkFaithful`); dropping records keeps a copy faithful (`RoomFaithful`). The refinement needs two facts more:
what was taken on or refused is pending in *no* copy (`TakenIsShut`), so a crash, which forgets the handlers, cannot open it
again; and no handler writes as pending what it did not find so, except the request that it creates (`StaysShut`). `Moves` says
for one request how its standing may change, and has one lemma per handler.

**The scheduler.** `SchedulerRunnerProofs` proves, for every set of schedules and threads, all intervals and limits and any
faults (under `RunnerAssumption`):

| Theorem | Statement | Assumes |
|---|---|---|
| `RunnerTypeCorrect` | `Spec => []TypeOK` | — |
| `KeysQueueOnce` | `Spec => []KeyOnce` | — |
| `CadenceKept` | `Spec => OnCadence` | `OneLoop`: at most one loop thread, no run-now |
| `TicksQueueOnce` | `Spec => []OncePerTick` | `NoRepeats`: `OneLoop`, no crash, and no start without croniter that skips missed runs |
| `DeliveriesKept` | `Spec => []DeliveryKept` | `NoLoss`: no run-now, and neither a crash, nor a failed post or record; any number of loops |
| `CronRuns` | `Spec => []CronFires` | `FiresAssumed`: no croniter, no run-now; and room for every schedule in one tick |
| `CronRunsInTurn` | `Spec => []CronFires` | `InTurn`: the same without the room, but `LongestWait < MINUTE`, `MINUTE + LongestWait <= INTERVAL` and no start that skips missed runs |

The assumptions are needed. A run-now or a second loop moves the cursor under an execution that carries the old one. A
crash between the post and the saved cursor lets the next minute queue the tick again (the minute is part of the key). A
start that skips missed runs puts the cursor of a cron schedule at the present, without a prompt for that position, so
that a tick of the same period takes it on, and leaves the cursor at that position for the next minute's tick. `DeliveryKept` fails
with run-now (`runner_runnow`) and with a crash (see the observations), and `CronFires` with croniter (`runner_firstcron`). With fewer runs per tick
than schedules a schedule waits for its turn, at most `LongestWait` periods, the number of the others divided by the runs per tick: a
minute has to be longer than that. The setting `throttled` is the smallest such instance with three schedules (minutes of 3, a wait of 2, intervals of 5).

*The arguments.* `KeyOnce` alone is not inductive: nothing in a post looks at what is queued. `Accounted` says that a
key with a prompt is not free, and `Exclusive` that a thread which is about to post has the key for itself
and that the key has no prompt yet. The reservation establishes the second because of the first; after a crash nobody
posts, but the table of keys is on disk. `ServeLate` only moves a prompt from `late` to `queued`, which is why
both are counted together. The type invariant needs two facts about division, `WholePart` and `MinutesGrow`:
a cursor that skips missed runs stays at or before the present, and the minute of a tick names a key.
`CadInv` adds that what the loop has taken on and not executed carries the present cursor (`Fresh`), which lies an
interval before the tick, so the cursor moves by one interval and never past the tick; and that memory and file differ by
whole intervals (`Lags`), which is what a crash needs. `OnceInv` says that what was queued lies behind the cursor, or at it
while the loop is between its post and its move (`Behind`), and that what is pending was due from before its tick (`Later`). `KeptInv` names
the thread that carries a prompt to its record. `FiresInv` is about a loop that nothing has disturbed: all its work is of the
present period (`InTime`), a key that is taken has a prompt or is about to (`Prompted`), and a cron schedule that
a tick of this minute has collected has its prompt or is still among the loop's work (`Covered`), so it has one when
the clock may go on (`Fired`). What both theorems about cron add to it is why every schedule that is due has been collected when the
last period of its minute ends (`AllRan`). With room for all that is so in every period. Without, `TurnInv` says how the
schedules take turns. `Ahead` are those that may be chosen before one that waits: their cursor is not newer, and, before a cron
schedule, they become due before the minute is over. `Paced` is the bound: who is still ahead, plus the runs of the ticks since the
schedule became due, is less than the number of schedules. A tick takes as many of those ahead as it has runs, or the
one that waits; and whoever has run is not ahead again while the other waits (`Settled`), because an interval
schedule's cursor moves by its interval, which is longer than a minute and a wait, and keeps its cadence within the longest wait
(`InStep`).

**Editing and the settings.** `SchedulerSettingsProofs` proves `ConfirmedEditsStand` (`EditingSpec => []EditsStand`) for every set of
schedules, contents and requests (under `EditingAssumption`: the words for what a client may know are not contents), and
of the five settings that one run checks (`SettingsSpec`):

| Theorem | Statement | Assumes |
|---|---|---|
| `LoopKeepsCadence` | `LoopOnCadence` | `OneLoop` |
| `LoopQueuesOnce` | `[]LoopOncePerTick` | `NoRepeats` |
| `HandoverKeepsDeliveries` | `[]HandoverDeliveryKept` | no run-now (`Manual = {}`) |
| `ThrottledRunsCron` | `[]ThrottledCronFires` | — |
| `RestartsWellFormed` | `[]RestartsTypeOK` | the server is not one of the loops |
| `SettingsQueueOnce` | `[]KeyOnce` | the loops are neither the server nor run-now threads |

*The arguments.* `EditsStand` is kept per schedule (`Stands`). An update that has changed an object has told
its client nothing yet (`told` is then "unsure"), so the saves of other requests and of the scheduler's thread may
write it or not; a save writes what the store holds (`SavedBook`), and for a schedule whose content somebody was told, that
is what they were told. The limit of the store holds of the file too (`Room`), from which a restart loads. A setting is an
instance of the module with constants of its own, and so are the proofs about it (`HP`, `RP`, `TP`): the lemmas `HandoverNext`,
`RestartsNext` and `ThrottledNext` say that the two have the same steps, and the invariants are those of `SchedulerRunnerProofs`; `ThrottledTurns` shows that the setting `throttled` has what
`CronRunsInTurn` assumes.

**Repeated submissions.** `SubmissionProofs` proves `QueuesOnce` (`QueuedOnce`) and `AnswersAreTrue` (`AnswersTrue`) for
every set of keys and senders and every time to live (under `SubmissionAssumption`).

*The argument.* `Handled` places the one handler a key can have: it works under a valid row, nobody has been
told of success, and there is one prompt if it was accepted and none before. `Known` says what a valid row implies
once the handler is gone. A row that expires under a handler would break both; the clock's guard, that a post
in flight ends before its row does, rules that out (the post times out in seconds, the row lives for an hour or more).

**The connector.** `ConnectorsProofs` proves, each for every value of its module's constants, replay tables of every size and
every time to live:

| Theorem | Statement | About |
|---|---|---|
| `RoutesOneAtATime`, `RoutedStaysRouted`, `RefusesForReason`, `IngressTyped` | `IngressSpec => []OneRouter`, `IngressSpec => NoReroute`, `[]RefusedForReason`, `[]IngressTypeOK` | `ConnectorIngress` |
| `InstallationsAreSound` | `InstallSpec => []InstallationsSound` | `Installations` |
| `ActionRunsOnce` | `CallbackSpec => []ActionOnce` | `InteractiveCallback` |
| `NothingIsSkipped`, `RepeatsArePaid` | `TelegramSpec => []NothingSkipped`, `TelegramSpec => []RepeatsNeedMishaps` | `TelegramPolling` |
| `RefusalsAreReasoned`, `ConnectorTyped`, `ConnectorIsSafe` | `ConnectorsSpec => []RefusalsHaveReasons`, `[]ConnectorsTypeOK`, and the invariants of the parts | the parts side by side |

*The arguments.* The table: what `claim`, `commit_success`, `release_retryable`, the removal of expired records and a tick do to one key and
to the others is stated once, for tables over any set of keys (`ClaimsTable`, `ClosedTable`, `UnexpiredTable`,
`ElapsedTable`), and its bound follows from the eviction (`ClaimsWithin`). Deliveries: `Remembered` ties a handler that awaits its
router, and an event whose router has returned, to the record the table must have of it, unless the table has forgotten the event;
`Reasoned` says the reverse: a valid record has a handler or an outcome behind it, or a payload that cannot be read. Buttons: `ActionOnce` does not rest on
the replay table, which may forget a claim at any time. `Guarded` says that while a button can be clicked, an action that runs or
has run has a record that is not pending; `Signed` is what makes it inductive: a record is never older than its card, so it cannot
expire while the card's timestamp is accepted, because the window of the timestamp is not longer than the record's time to live
(`CallbackAssumption`; both are 300 seconds in the code). Telegram: `InOrder` says that everything before the update that is worked on, or
before one that is still to be handled, was handled, so a commit passes nothing; `Paid` says that an update handled as often as the
mishaps explain has the offset behind it or its reply before it. Installations: `Belongs` relates Slack's present token to
the entries in memory and in the file, `FormerTokens` says that a message of Slack's, and an answer that calls a token invalid, is about a former one, and
`Once` places each OAuth state in one stage.

**Services.** `ServicesProofs` proves, each for every value of its module's constants:

| Theorem | Statement | About |
|---|---|---|
| `SlotsAccountedFor` | `BudgetsSpec => []SlotsAccounted` | `ExecutionBudgets` |
| `CallbacksTellTheTruth` | `WatchSpec => []CallbackEventsTrue` | `ResultCallback` |
| `DownloadsAgree`, `EndsAreFinal` | `DownloadsSpec => []DownloadsConsistent`, `DownloadsSpec => TerminalIsFinal` | `ModelDownloads` |
| `FailuresCool`, `LastIsAsked` | `FailoverSpec => []FailureCools`, `FailoverSpec => []TriedBeforeGivingUp` | `Failover` |
| `NothingIsMissed` | `EventsSpec => []ReadersMissNothing` | `JobEvents` |
| `ChainIsRetained` | `AuditSpec => []RetainedChainVerifies` | `AuditLog` |
| `ServicesTyped` | `ServicesSpec => []ServicesTypeOK` | the services side by side |
| `ServicesAreThemselves` | `ServicesSpec` implies the specification of each service | the same |
| `ServicesAreSafe` | `ServicesSpec` implies every safety property of the services | the same |

*The arguments.* Budgets: every step moves one submission at one gate, so the set of the gate's holders gains or loses
one element while the slots it has free lose or gain one; a submission that has found a slot still wants that gate (`Looking`).
Callbacks: the events follow from what the watcher has counted; that a watcher gives up only when a *whole* lane is
spent needs `RATE_LIMIT_RETRIES` of two or less, which is what the code has: with more, the attempts that both
lanes share would run out first (`LaneArithmetic`). Downloads: `Synced` says that a task whose changes were all
saved equals its row in the file, so a recovery finds what the process knew; `WorkerHasFile`, `FilesKept` and `MarkedOnce`
tie workers, files and installations to the task. Failover: the property is not inductive, because a repeated failure within the
window resets the age of the failure without setting the cooldown. `Fresh` adds that whatever failed within the window
(`Again`) has the whole of the shortest cooldown left, and that the file has it too unless a save missed it,
which is what a restart needs. `Fine` says that a request which gives up without asking holds a last candidate that could not be asked.
Events: `InSequence` says that the buffer holds consecutive numbers up to the counter, the older events first, so that those which
the retention still shows are a last part of it. `Passed` follows one event on its way: a client that has seen a later number has it, and before a later
number on the wire or among what was fetched comes the event itself. It is kept for the events that are still shown,
and only until the numbers begin again (`StreamSound`). What lies behind a poll's cursor is treated alike, with `polled` and `skipped` in
the place of what was received; a reset skips only what the store shows no more. The audit log: `Linked` states the chain in four parts, each about the files as they lie
(no file beyond the last backup, every line entire, the lines of a file linked, the first line of a file linked to the last line of
the next older one that is not empty), so that a rotation, which shifts the files one by one and may stop between any two, is
seen to keep each; `EndsWith` says that the newest line has the hash that the process remembers. Both are kept until one of
the known causes has broken the chain (`broken`; the observations name them). Side by side: each component begins with its `Init` and then moves alone or not at
all, so `ServicesSpec` shows each of them a behaviour of its own specification, and what is proved of the one holds of the whole.

*Model-checked only.* Liveness (`EventuallyFinal`, `EventuallyHandled`, `DownloadsEnd`), since fairness and `ENABLED` are beyond
the prover. Every other property that a passing run checks is a theorem, some under the assumptions that the tables state. Induction over data is out
of the prover's reach: the library's induction theorems take an operator as a parameter. No module declares a RECURSIVE operator; the
models' structures are functions, sets and sequences that no definition recurses over, and where one is
needed that picks by position (`Hits` and `Nth` of `JobEvents`) or finds a least number, it is defined by what it finds. Least numbers
exist because the order of the naturals is well founded (`LeastOf`).

## Plan

1. *(done)* Outbox, its abstract table, and its proofs; delivery worker composed with it; scheduler runner;
   approvals and their proofs.
2. *(done)* Editing of schedules; the replay table with its three users; installations; budgets; repeated
   submissions; downloads; events; result callbacks; failover; the audit log.
3. *(done)* Proofs: approvals and their register, submissions, the connector's parts, editing, the delivery worker,
   budgets, callbacks, downloads, failover, events, the audit log, the services side by side, the outbox's capacity, the
   scheduler's keys, cadence, deliveries and cron runs, also throttled.
4. Left to model: Feishu's installations, the token buckets, the update of the configuration store, the
   parameter lab's experiments, the start order of the bootstrap.

An abstract specification worth stating next: a table that gives each key once, which the idempotency store and the
replay table both implement in their way.

## What is not modelled

Network transports and message formats of the chat platforms, LLM calls, cryptography and key files, file
stores with one actor, validation and projection of requests, the ComfyUI nodes, the browser code, scripts
and packaging. They have no protocol between actors, or it lies in third-party software; the first column
without a mark in the inventory lists them, and `PROJECT.json` gives the reason for each. They are most of the
repository's lines: validators, policy tables, release and verification scripts, diagnostics.

Of the bridge's tokens only the validation is wired into the server. Issue, rotation and revocation, which would
have a protocol (overlap windows, two writes per rotation), are called by drills and tests alone, so a
model of their interleavings would be about callers that do not exist.
