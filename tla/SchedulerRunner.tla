--------------------------- MODULE SchedulerRunner ---------------------------
(***************************************************************************)
(* The scheduler: the background loop that turns due schedules into queued *)
(* prompts (services/scheduler/runner.py), the schedule and history files  *)
(* it persists (storage.py, history.py), the idempotency keys and the      *)
(* submission they guard (services/bootstrap/registration.py,              *)
(* services/idempotency_store.py), and the run-now request of the API,     *)
(* which executes a schedule on the thread of the server's event loop.     *)
(*                                                                         *)
(* The submission posts to that same server.  While a run-now executes, the*)
(* server answers nobody: it waits 30 seconds for a post that it has to    *)
(* serve itself, records a failure, and then serves the post.              *)
(*                                                                         *)
(* An execution is a sequence of separately interleaved steps, as many as  *)
(* it has effects that another thread or a restart can see: the history    *)
(* check, the reservation of the key, the post to the ComfyUI queue, the   *)
(* note of the prompt id, the delivery intent, the cursor, the run record. *)
(*                                                                         *)
(* Time advances in loop periods (tick_interval).  It advances freely when *)
(* every thread is done with its work; a period that passes while one is   *)
(* not is a "slow" fault.  Every fault spends one of MaxFaults.            *)
(***************************************************************************)
EXTENDS Integers, FiniteSets

CONSTANTS
  Schedules,          \* schedule ids
  Cron,               \* the schedules with a cron trigger; the rest are interval
  CronMinutes,        \* the minutes of the hour that the cron expression names
  Loop,               \* threads that run the loop (one per start)
  Manual,             \* the server's event loop, which serves run-now requests
  INTERVAL,           \* interval_sec, in periods
  MINUTE,             \* periods per minute
  HOUR,               \* minutes per hour
  CRONITER,           \* whether the croniter package is installed
  SKIP_MISSED,        \* skip_missed_intervals
  MAX_RUNS_PER_TICK,  \* max_runs_per_tick
  DISABLE_THRESHOLD,  \* compute_error_disable_threshold
  Faults,             \* what may go wrong: "crash", "slow", "stop", "save", "post", "mode"
  MaxFaults,          \* bound: how often something goes wrong
  MaxTime             \* bound: the last period

ASSUME RunnerAssumption ==
  /\ Cron \subseteq Schedules /\ CronMinutes \subseteq 0 .. HOUR - 1
  /\ {INTERVAL, MINUTE, HOUR, MAX_RUNS_PER_TICK} \subseteq Nat \ {0}
  /\ CRONITER \in BOOLEAN /\ SKIP_MISSED \in BOOLEAN
  /\ Loop \cap Manual = {}
  /\ DISABLE_THRESHOLD \in Int /\ MaxFaults \in Nat /\ MaxTime \in Nat

VARIABLES
  now,          \* the current period
  schedules,    \* the Schedule objects in memory, shared by all threads
  schedulesDisk,\* schedules.json
  history,      \* the idempotency index of the run history
  historyDisk,  \* the keys in the run history file
  keys,         \* the durable idempotency table: "free", "taken" or "prompt"
  queued,       \* the prompts that reached the ComfyUI queue, ever
  late,         \* the prompts whose run-now gave up on the post
  intents,      \* the keys with a delivery intent in the outbox
  thread,       \* what each thread is doing
  ticked,       \* the loops that had their tick in this period
  running,      \* _running
  stopping,     \* _stop_event is set
  delegated,    \* the configuration delegates execution
  faultsLeft

files == <<schedulesDisk, historyDisk, keys, intents>>
memory == <<schedules, history>>
control == <<ticked, running, stopping, delegated>>
prompts == <<queued, late>>
vars == <<now, memory, files, prompts, thread, control, faultsLeft>>

NoTick == -1                           \* last_tick_ts = None
Time   == 0 .. MaxTime
Cursor == Time \cup {NoTick}
MinuteOf(t) == t \div MINUTE
Key    == Schedules \X (0 .. MinuteOf(MaxTime))   \* compute_idempotency_key
Thread == Loop \cup Manual

\* A prompt in the queue: its key, the cursor it was due from (NoTick for the
\* first run) and whether the loop or a run-now request submitted it.
Prompt == [key : Key, from : Cursor, by : {"loop", "manual"}, copy : 1 .. 2]

Positions == {"dead", "boot", "wait", "pick", "check", "reserve", "post", "note", "intent",
              "cursor", "record", "failRecord", "failCursor"}
Work   == [s : Schedules, from : Cursor]
AtRest == [at |-> "wait", todo |-> {}, ts |-> 0, prompt |-> FALSE]
Dead   == [AtRest EXCEPT !.at = "dead"]

TypeOK ==
  /\ now \in Time
  /\ \A f \in {schedules, schedulesDisk} :
       f \in [Schedules -> [cursor : Cursor, errors : Nat, enabled : BOOLEAN]]
  /\ history \subseteq Key /\ historyDisk \subseteq Key /\ intents \subseteq Key
  /\ keys \in [Key -> {"free", "taken", "prompt"}]
  /\ queued \subseteq Prompt /\ late \subseteq Prompt
  /\ \A x \in Thread : /\ thread[x].at \in Positions /\ thread[x].todo \subseteq Work
                       /\ thread[x].ts \in Time /\ thread[x].prompt \in BOOLEAN
                       /\ "job" \in DOMAIN thread[x] => thread[x].job \in Work
  /\ ticked \subseteq Loop
  /\ {running, stopping, delegated} \subseteq BOOLEAN
  /\ faultsLeft \in 0 .. MaxFaults

Fault(kind) == kind \in Faults /\ faultsLeft > 0 /\ faultsLeft' = faultsLeft - 1
NoFault     == UNCHANGED faultsLeft

\* Write the schedules, unless that fails; save_schedules then returns False.
SaveSchedules ==
  \/ schedulesDisk' = schedules' /\ NoFault
  \/ schedulesDisk' = schedulesDisk /\ Fault("save")
-----------------------------------------------------------------------------
(* When a schedule is due.                                                 *)

CronNames(m) == m % HOUR \in CronMinutes

\* is_cron_due without croniter looks at the current minute only.
BasicCronDue(t) == CronNames(MinuteOf(t))

\* With croniter: is there a firing time after the cursor, or for the first run
\* after the minute before this one, that is not in the future?
CroniterDue(c, t) ==
  LET base == IF c = NoTick THEN (MinuteOf(t) - 1) * MINUTE ELSE c
  IN  \E b \in base + 1 .. t : b % MINUTE = 0 /\ CronNames(MinuteOf(b))

\* base.replace(minute=base.minute - 1) raises in the first minute of an hour.
CronRaises(c, t) == CRONITER /\ c = NoTick /\ MinuteOf(t) % HOUR = 0

IntervalDue(c, t) == c = NoTick \/ t - c >= INTERVAL

Raises(s) == s \in Cron /\ CronRaises(schedules[s].cursor, now)
Due(s) ==
  LET c == schedules[s].cursor
  IN  IF s \notin Cron THEN IntervalDue(c, now)
      ELSE IF CRONITER THEN CroniterDue(c, now) ELSE BasicCronDue(now)

\* _evaluate_schedule_due: an error counts and disables at the threshold, a
\* successful evaluation clears the count.
Evaluated(s) ==
  LET r == schedules[s]
      limit == IF DISABLE_THRESHOLD < 1 THEN 1 ELSE DISABLE_THRESHOLD
  IN  IF ~ r.enabled THEN r
      ELSE IF Raises(s)
        THEN [r EXCEPT !.errors = @ + 1, !.enabled = r.errors + 1 < limit]
      ELSE [r EXCEPT !.errors = 0]

DueNow == {s \in Schedules : schedules[s].enabled /\ ~ Raises(s) /\ Due(s)}

\* Mutations: the cursor jumps to now; it moves an interval even if that is ahead.
CursorJumps(s, ts) == ts
CursorRunsAhead(s, ts) ==
  LET c == schedules[s].cursor
  IN  IF s \notin Cron /\ c # NoTick THEN c + INTERVAL ELSE ts

\* The cursor after a run at ts, and after a startup that skips missed runs.
CursorAfter(s, ts) ==
  LET c == schedules[s].cursor
  IN  IF s \notin Cron /\ c # NoTick /\ c + INTERVAL <= ts THEN c + INTERVAL ELSE ts

CursorSkipped(s) ==
  LET c == schedules[s].cursor
  IN  IF s \notin Cron /\ c # NoTick /\ now - c >= INTERVAL
        THEN c + ((now - c) \div INTERVAL) * INTERVAL ELSE now

\* Mutation: a tick takes on any of the schedules that are due.
ChosenAnyhow ==
  {C \in SUBSET DueNow :
     Cardinality(C) = IF Cardinality(DueNow) > MAX_RUNS_PER_TICK
                        THEN MAX_RUNS_PER_TICK ELSE Cardinality(DueNow)}

\* The schedules a tick takes on: all that are due, or the ones that waited longest.
Chosen ==
  {C \in SUBSET DueNow :
     /\ Cardinality(C) = IF Cardinality(DueNow) > MAX_RUNS_PER_TICK
                           THEN MAX_RUNS_PER_TICK ELSE Cardinality(DueNow)
     /\ \A s \in C, u \in DueNow \ C : schedules[s].cursor <= schedules[u].cursor}
-----------------------------------------------------------------------------
(* The loop.                                                               *)

\* start: a new thread, and the stop event is cleared for all of them.
Start(l) ==
  /\ ~ running /\ ~ delegated /\ thread[l].at = "dead"
  /\ running' = TRUE /\ stopping' = FALSE
  /\ thread' = [thread EXCEPT ![l] = [AtRest EXCEPT !.at = "boot"]]
  /\ UNCHANGED <<now, memory, files, prompts, ticked, delegated, faultsLeft>>

\* stop waits five seconds for the thread; one that is in a tick outlives it.
Stop ==
  /\ running /\ Fault("stop")
  /\ running' = FALSE /\ stopping' = TRUE
  /\ UNCHANGED <<now, memory, files, prompts, thread, ticked, delegated>>

\* A loop between ticks sees the stop event, or that execution is delegated.
LoopEnds(l) ==
  /\ thread[l].at \in {"boot", "wait"}
  /\ stopping \/ delegated
  /\ thread' = [thread EXCEPT ![l] = Dead]
  /\ running' = IF stopping THEN running ELSE FALSE
  /\ UNCHANGED <<now, memory, files, prompts, ticked, stopping, delegated, faultsLeft>>

\* The loop starts, skipping what was missed if it is configured to.
Boot(l) ==
  /\ thread[l].at = "boot" /\ ~ stopping /\ ~ delegated
  /\ thread' = [thread EXCEPT ![l] = AtRest]
  /\ IF SKIP_MISSED
       THEN /\ schedules' = [s \in Schedules |->
                 IF s \in DueNow THEN [Evaluated(s) EXCEPT !.cursor = CursorSkipped(s)]
                                 ELSE Evaluated(s)]
            /\ IF schedules' = schedules THEN UNCHANGED schedulesDisk /\ NoFault
                                         ELSE SaveSchedules
       ELSE UNCHANGED <<schedules, schedulesDisk, faultsLeft>>
  /\ UNCHANGED <<now, history, historyDisk, keys, intents, prompts, control>>

\* _tick collects the due schedules.
Collect(l) ==
  /\ thread[l].at = "wait" /\ l \notin ticked /\ ~ stopping /\ ~ delegated
  /\ ticked' = ticked \cup {l}
  /\ schedules' = [s \in Schedules |-> Evaluated(s)]
  /\ IF schedules' = schedules THEN UNCHANGED schedulesDisk /\ NoFault ELSE SaveSchedules
  /\ \E C \in Chosen :
       thread' = [thread EXCEPT ![l] =
         [AtRest EXCEPT !.at = "pick", !.ts = now,
                        !.todo = {[s |-> s, from |-> schedules[s].cursor] : s \in C}]]
  /\ UNCHANGED <<now, history, historyDisk, keys, intents, prompts, running, stopping, delegated>>

\* The API executes one schedule at once, outside the loop.
RunNow(x, s) ==
  /\ thread[x].at = "wait" /\ ~ delegated
  /\ thread' = [thread EXCEPT ![x] =
       [AtRest EXCEPT !.at = "pick", !.ts = now, !.todo = {[s |-> s, from |-> NoTick]}]]
  /\ UNCHANGED <<now, memory, files, prompts, control, faultsLeft>>
-----------------------------------------------------------------------------
(* _execute_schedule, step by step.                                        *)

KeyOf(x) == <<thread[x].job.s, MinuteOf(thread[x].ts)>>
GoTo(x, at) == thread' = [thread EXCEPT ![x].at = at]

\* The next schedule, or back to rest; an execution that finds itself delegated
\* raises out of the tick and drops the remaining ones.
Pick(x) ==
  /\ thread[x].at = "pick"
  /\ \/ /\ thread[x].todo = {} \/ delegated
        /\ thread' = [thread EXCEPT ![x] = AtRest]
     \/ /\ ~ delegated
        /\ \E j \in thread[x].todo :
             thread' = [thread EXCEPT ![x] =
               [at |-> "check", todo |-> @.todo \ {j}, ts |-> @.ts, prompt |-> FALSE, job |-> j]]
  /\ UNCHANGED <<now, memory, files, prompts, control, faultsLeft>>

\* The run history already has this key: nothing is done, not even the cursor.
CheckHistory(x) ==
  /\ thread[x].at = "check"
  /\ GoTo(x, IF KeyOf(x) \in history THEN "pick" ELSE "reserve")
  /\ UNCHANGED <<now, memory, files, prompts, control, faultsLeft>>

\* Mutation: a key without a prompt id does not count as taken.
ReserveUnnoted(x) ==
  /\ thread[x].at = "reserve"
  /\ IF keys[KeyOf(x)] # "prompt"
       THEN keys' = [keys EXCEPT ![KeyOf(x)] = "taken"] /\ GoTo(x, "post")
       ELSE /\ UNCHANGED keys
            /\ thread' = [thread EXCEPT ![x].at = "intent", ![x].prompt = TRUE]
  /\ UNCHANGED <<now, memory, schedulesDisk, historyDisk, intents, prompts, control, faultsLeft>>

\* unified_submit_fn takes the key; a key that is taken yields the prompt id
\* that was noted for it, if any.  A database that fails is an exception.
Reserve(x) ==
  /\ thread[x].at = "reserve"
  /\ \/ /\ keys[KeyOf(x)] = "free"
        /\ keys' = [keys EXCEPT ![KeyOf(x)] = "taken"] /\ GoTo(x, "post") /\ NoFault
     \/ /\ keys[KeyOf(x)] # "free" /\ UNCHANGED keys /\ NoFault
        /\ thread' = [thread EXCEPT ![x].at = "intent",
                                    ![x].prompt = keys[KeyOf(x)] = "prompt"]
     \/ UNCHANGED keys /\ GoTo(x, "failRecord") /\ Fault("save")
  /\ UNCHANGED <<now, memory, schedulesDisk, historyDisk, intents, prompts, control>>

NewPrompt(x) ==
  [key |-> KeyOf(x), from |-> thread[x].job.from,
   by |-> IF x \in Loop THEN "loop" ELSE "manual",
   copy |-> 1 + Cardinality({p \in queued \cup late : p.key = KeyOf(x)})]

\* The server is not busy with a run-now, so it can serve a post.
ServerFree == \A x \in Manual : thread[x].at = "wait"

\* The loop's prompt reaches the queue; or rendering, the budget or the post
\* fails; or the prompt is queued and the answer does not come back.
Post(x) ==
  /\ thread[x].at = "post" /\ x \in Loop
  /\ \/ ServerFree /\ queued' = queued \cup {NewPrompt(x)} /\ GoTo(x, "note") /\ NoFault
     \/ UNCHANGED queued /\ GoTo(x, "failRecord") /\ Fault("post")
     \/ ServerFree /\ queued' = queued \cup {NewPrompt(x)} /\ GoTo(x, "failRecord") /\ Fault("post")
  /\ UNCHANGED <<now, memory, files, late, control>>

\* The server waits for its own post until run_async_in_sync_context gives up,
\* or rendering or the budget fails before.
GiveUp(x) ==
  /\ thread[x].at = "post" /\ x \in Manual
  /\ \/ late' = late \cup {NewPrompt(x)} /\ NoFault
     \/ UNCHANGED late /\ Fault("post")
  /\ GoTo(x, "failRecord")
  /\ UNCHANGED <<now, memory, files, queued, control>>

\* The submission that was given up lives on in its executor thread.
ServeLate(p) ==
  /\ p \in late /\ ServerFree
  /\ late' = late \ {p}
  /\ \/ queued' = queued \cup {p} /\ keys' = [keys EXCEPT ![p.key] = "prompt"] /\ NoFault
     \/ queued' = queued \cup {p} /\ UNCHANGED keys /\ Fault("save")
  /\ UNCHANGED <<now, memory, schedulesDisk, historyDisk, intents, thread, control>>

\* The prompt id is noted with the key; a database that fails is an exception.
Note(x) ==
  /\ thread[x].at = "note"
  /\ \/ /\ keys' = [keys EXCEPT ![KeyOf(x)] = "prompt"] /\ NoFault
        /\ thread' = [thread EXCEPT ![x].at = "intent", ![x].prompt = TRUE]
     \/ UNCHANGED keys /\ GoTo(x, "failRecord") /\ Fault("save")
  /\ UNCHANGED <<now, memory, schedulesDisk, historyDisk, intents, prompts, control>>

\* Mutation: a scheduler that is being stopped does not record the intent.
RecordIntentUnlessStopping(x) ==
  /\ thread[x].at = "intent"
  /\ intents' = (IF thread[x].prompt /\ ~ stopping THEN intents \cup {KeyOf(x)} ELSE intents)
  /\ GoTo(x, "cursor")
  /\ UNCHANGED <<now, memory, schedulesDisk, historyDisk, keys, prompts, control, faultsLeft>>

\* The delivery intent is recorded for a prompt id, also for a deduped one; an
\* outbox that cannot write is logged and ignored.
RecordIntent(x) ==
  /\ thread[x].at = "intent"
  /\ \/ intents' = (IF thread[x].prompt THEN intents \cup {KeyOf(x)} ELSE intents) /\ NoFault
     \/ thread[x].prompt /\ UNCHANGED intents /\ Fault("save")
  /\ GoTo(x, "cursor")
  /\ UNCHANGED <<now, memory, schedulesDisk, historyDisk, keys, prompts, control>>

\* Mutation: a failed execution leaves the cursor alone.
MoveCursorOnSuccess(x) ==
  /\ thread[x].at \in {"cursor", "failCursor"}
  /\ LET s == thread[x].job.s
     IN  schedules' = IF thread[x].at = "cursor"
                        THEN [schedules EXCEPT ![s].cursor = CursorAfter(s, thread[x].ts)]
                        ELSE schedules
  /\ SaveSchedules
  /\ GoTo(x, IF thread[x].at = "cursor" THEN "record" ELSE "pick")
  /\ UNCHANGED <<now, history, historyDisk, keys, intents, prompts, control>>

\* The cursor moves and the schedules are saved, after a failure as well.
MoveCursor(x) ==
  /\ thread[x].at \in {"cursor", "failCursor"}
  /\ LET s == thread[x].job.s
     IN  schedules' = [schedules EXCEPT ![s].cursor = CursorAfter(s, thread[x].ts)]
  /\ SaveSchedules
  /\ GoTo(x, IF thread[x].at = "cursor" THEN "record" ELSE "pick")
  /\ UNCHANGED <<now, history, historyDisk, keys, intents, prompts, control>>

\* The run record enters the history and its file.
RecordRun(x) ==
  /\ thread[x].at \in {"record", "failRecord"}
  /\ history' = history \cup {KeyOf(x)}
  /\ \/ historyDisk' = (IF KeyOf(x) \in history THEN historyDisk ELSE history') /\ NoFault
     \/ KeyOf(x) \notin history /\ UNCHANGED historyDisk /\ Fault("save")
  /\ GoTo(x, IF thread[x].at = "record" THEN "pick" ELSE "failCursor")
  /\ UNCHANGED <<now, schedules, schedulesDisk, keys, intents, prompts, control>>
-----------------------------------------------------------------------------
(* The environment.                                                        *)

\* The process stops, and its threads; memory comes back from the files.
Crash ==
  /\ Fault("crash")
  /\ schedules' = schedulesDisk /\ history' = historyDisk
  /\ thread' = [x \in Thread |-> IF x \in Loop THEN Dead ELSE AtRest]
  /\ running' = FALSE /\ stopping' = FALSE /\ ticked' = {} /\ late' = {}
  /\ UNCHANGED <<now, files, queued, delegated>>

\* The administrator delegates execution, or takes it back.
SwitchMode ==
  /\ Fault("mode")
  /\ delegated' = ~ delegated
  /\ UNCHANGED <<now, memory, files, prompts, thread, ticked, running, stopping>>

\* A loop runs unless execution is delegated, every loop had its tick, and no
\* thread is in the middle of something.
Punctual ==
  /\ delegated \/ \E l \in Loop : thread[l].at # "dead"
  /\ late = {}
  /\ \A x \in Thread : \/ thread[x].at = "dead"
                      \/ /\ thread[x].at = "wait"
                         /\ x \in ticked \cup Manual

Clock ==
  /\ now < MaxTime
  /\ now' = now + 1
  /\ ticked' = {}
  /\ IF Punctual THEN NoFault ELSE Fault("slow")
  /\ UNCHANGED <<memory, files, prompts, thread, running, stopping, delegated>>

Init ==
  /\ now = 0
  /\ schedules = [s \in Schedules |-> [cursor |-> NoTick, errors |-> 0, enabled |-> TRUE]]
  /\ schedulesDisk = schedules
  /\ history = {} /\ historyDisk = {} /\ intents = {} /\ queued = {} /\ late = {}
  /\ keys = [k \in Key |-> "free"]
  /\ thread = [x \in Thread |-> IF x \in Loop THEN Dead ELSE AtRest]
  /\ ticked = {} /\ running = FALSE /\ stopping = FALSE /\ delegated = FALSE
  /\ faultsLeft = MaxFaults

Execute(x) ==
  \/ Pick(x) \/ CheckHistory(x) \/ Reserve(x) \/ Post(x) \/ GiveUp(x) \/ Note(x)
  \/ RecordIntent(x) \/ MoveCursor(x) \/ RecordRun(x)

Next ==
  \/ \E l \in Loop : Start(l) \/ LoopEnds(l) \/ Boot(l) \/ Collect(l)
  \/ \E x \in Manual, s \in Schedules : RunNow(x, s)
  \/ \E x \in Thread : Execute(x)
  \/ \E p \in late : ServeLate(p)
  \/ Stop \/ Crash \/ SwitchMode \/ Clock

Spec == Init /\ [][Next]_vars
-----------------------------------------------------------------------------
(* Properties.                                                             *)

Executing(k) == \E x \in Thread :
  thread[x].at \notin {"dead", "boot", "wait", "pick"} /\ KeyOf(x) = k

\* No idempotency key is queued twice, whatever threads, restarts and retries
\* work on it (compute_idempotency_key, check_and_record).
KeyOnce == \A p, q \in queued \cup late : p.key = q.key => p = q

\* "The same tick always produces the same key, preventing duplicate runs"
\* (compute_idempotency_key): the loop queues one prompt per cursor position.
OncePerTick ==
  \A p, q \in {p \in queued : p.by = "loop"} : p.key[1] = q.key[1] /\ p.from = q.from => p = q

\* Interval schedules keep their cadence: a cursor moves by whole intervals
\* (the R92 invariant of _compute_cursor_tick_ts).
CadenceStep ==
  \A s \in Schedules \ Cron :
    schedules[s].cursor # NoTick /\ schedules'[s].cursor # NoTick
      => (schedules'[s].cursor - schedules[s].cursor) % INTERVAL = 0

OnCadence == [][CadenceStep]_vars

\* The delivery of a queued prompt is not lost: once nobody executes its key and
\* its minute is over, so that no retry can find it, its intent is recorded ("a crash
\* between submit and the run record must not lose the delivery", _execute_schedule).
DeliveryKept ==
  \A p \in queued : \/ p.key \in intents
                    \/ Executing(p.key)
                    \/ MinuteOf(now) = p.key[2]

\* A cron schedule runs in every minute that its expression names, unless
\* something else went wrong.
CronFires ==
  faultsLeft = MaxFaults =>
    \A s \in Cron, m \in 0 .. MinuteOf(now) - 1 :
      CronNames(m) => \E p \in queued : p.key = <<s, m>>
=============================================================================
