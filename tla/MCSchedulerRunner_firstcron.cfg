SPECIFICATION Spec
CONSTANTS
  s1 = s1
  s2 = s2
  s3 = s3
  l1 = l1
  l2 = l2
  server = server
  MINUTE = 2
  HOUR = 2
  DISABLE_THRESHOLD = 3
  Schedules = {s1}
  Cron = {s1}
  CronMinutes = {0}
  Loop = {l1}
  Manual = {}
  INTERVAL = 4
  CRONITER = TRUE
  SKIP_MISSED = FALSE
  MAX_RUNS_PER_TICK = 1
  Faults = {}
  MaxFaults = 0
  MaxTime = 6
INVARIANTS CronFires
CHECK_DEADLOCK FALSE
