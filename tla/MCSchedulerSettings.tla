------------------------- MODULE MCSchedulerSettings -------------------------
(* The scheduler in five settings, for TLC: one loop (the constants of the   *)
(* configuration), a loop that outlives its stop next to its successor,      *)
(* restarts of the process next to run-now requests, three schedules that    *)
(* compete for one run per tick while nothing goes wrong, and the editing of *)
(* schedules.  A behaviour stays in the setting that it begins in.           *)
EXTENDS MCSchedulerRunner, ScheduleEditing

CONSTANTS Settings  \* the settings that behaviours begin in

VARIABLE setting

Handover == INSTANCE SchedulerRunner WITH
  Loop <- {l1, l2}, CronMinutes <- {0}, CRONITER <- FALSE, Faults <- {"stop", "slow", "mode"}

Restarts == INSTANCE SchedulerRunner WITH
  Schedules <- {s2}, Cron <- {}, CronMinutes <- {}, Loop <- {l1, l2}, Manual <- {server},
  CRONITER <- FALSE, SKIP_MISSED <- TRUE, MaxFaults <- 2, MaxTime <- 4,
  Faults <- {"crash", "stop", "slow", "post", "save"}

Throttled == INSTANCE SchedulerRunner WITH
  Schedules <- {s1, s2, s3}, Cron <- {s1}, CronMinutes <- {0}, Loop <- {l1}, Manual <- {},
  INTERVAL <- 5, MINUTE <- 3, HOUR <- 1, CRONITER <- FALSE, SKIP_MISSED <- FALSE,
  MAX_RUNS_PER_TICK <- 1, Faults <- {}, MaxFaults <- 0, MaxTime <- 18

SettingsInit ==
  /\ setting \in Settings
  /\ EditingInit
  /\ \/ setting \in {"loop", "editing"} /\ Init
     \/ setting = "handover" /\ Handover!Init
     \/ setting = "restarts" /\ Restarts!Init
     \/ setting = "throttled" /\ Throttled!Init

SettingsNext ==
  /\ \/ setting = "loop"     /\ Next          /\ UNCHANGED editingVars
     \/ setting = "handover" /\ Handover!Next /\ UNCHANGED editingVars
     \/ setting = "restarts" /\ Restarts!Next /\ UNCHANGED editingVars
     \/ setting = "throttled" /\ Throttled!Next /\ UNCHANGED editingVars
     \/ setting = "editing"  /\ EditingNext   /\ UNCHANGED vars
  /\ UNCHANGED setting

SettingsSpec == SettingsInit /\ [][SettingsNext]_<<vars, editingVars, setting>>

\* The properties of the scheduler that not every setting promises (KeyOnce holds
\* in all of them).  OnCadence is one of a loop that nobody else works next to: a
\* run-now, or a late thread, moves a cursor off it (_compute_cursor_tick_ts).
LoopOnCadence == [][setting = "loop" => CadenceStep]_vars

\* OncePerTick, too: a successor queues the tick of a late thread again.
LoopOncePerTick == setting = "loop" => OncePerTick

\* DeliveryKept, as long as the process does not crash and every record can be
\* written (_record_delivery_intent), although two threads run the loop.
HandoverDeliveryKept == setting = "handover" => Handover!DeliveryKept

\* A cron schedule fires in every minute that its expression names, although two others
\* compete with it for the one run of a tick (_tick): whoever waited longest is next.
ThrottledCronFires == setting = "throttled" => Throttled!CronFires

\* The state is well formed, through crashes and every failure.
RestartsTypeOK == EditingTypeOK /\ (setting = "restarts" => Restarts!TypeOK)
=============================================================================
