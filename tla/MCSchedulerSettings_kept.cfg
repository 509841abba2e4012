SPECIFICATION SettingsSpec
CONSTANTS
  s1 = s1
  s2 = s2
  s3 = s3
  l1 = l1
  l2 = l2
  server = server
  Settings = {"editing"}
  ScheduleIds = {"e1", "e2"}
  Texts = {"x", "y"}
  Editors = {"h1"}
  MAX_SCHEDULES = 2
  EDIT_MISHAPS = 1
  MINUTE = 2
  HOUR = 2
  DISABLE_THRESHOLD = 3
  Schedules = {s1, s2}
  Cron = {s1}
  CronMinutes = {1}
  Loop = {l1}
  Manual = {}
  INTERVAL = 2
  CRONITER = TRUE
  SKIP_MISSED = FALSE
  MAX_RUNS_PER_TICK = 1
  Faults = {"slow", "mode", "post", "save"}
  MaxFaults = 3
  MaxTime = 8
INVARIANTS ScheduleKept
CHECK_DEADLOCK FALSE
