SPECIFICATION ServicesSpec
CONSTANTS
  Parts = {"submission"}
  Requests = {"r1", "r2"}
  TTL = 1
  MAX_APPROVALS = 1
  SLACK = 0
  Faults = {"save", "load", "post"}
  Submits = {1, 2, 3, 4}
  Gates = {"glob", "web", "sched", "a", "b"}
  GlobalGate = "glob"
  SourceGate <- Sources
  TenantGate <- Tenants
  CAP <- Caps
  RequestKeys = {"q1", "q2"}
  Submitters = {"h1", "h2", "h3"}
  KEY_TTL = 2
  Downloads = {"d1", "d2", "d3"}
  MAX_WORKERS = 1
  MAX_ACTIVE = 2
  REPLAY_LIMIT = 1
  MISHAPS = 2
  CAPACITY = 2
  EVENT_TTL = 1
  STREAM_LIMIT = 2
  POLL_LIMIT = 2
  SCAN_CAP = 2
  LAST_EVENT = 4
  RESTARTS = 1
  WatchedPrompts = {"p1"}
  POLL_MAX_ATTEMPTS = 3
  CALLBACK_MAX_RETRIES = 3
  RATE_LIMIT_RETRIES = 2
  Candidates = {"ca", "cb"}
  Callers = {"t1", "t2"}
  Failures = {"other"}
  Cooldown <- CoolFor
  MAX_FAILOVER_CANDIDATES = 2
  MAX_RETRIES = 0
  MISSES = 1
  BackupChoices = {0, 1, 2}
  LAST_ENTRY = 5
  AUDIT_SLIPS = 2
INVARIANTS DedupedWasQueued
CHECK_DEADLOCK FALSE
