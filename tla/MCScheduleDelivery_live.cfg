SPECIFICATION FairSpec
CONSTANTS
  w1 = w1
  w2 = w2
  d1 = d1
  d2 = d2
  t1 = t1
  t2 = t2
  t3 = t3
  t4 = t4
  Worker = {w1}
  Intents = {d1, d2}
  Token = {t1, t2, t3, t4}
  NoToken = NoToken
  Verdicts <- SentOrTimedOut
  JOB_TIMEOUT = 1
  LEASE_GRACE = 1
  MAX_ACTIVE = 1
  CLAIM_BATCH = 2
  ACK_ATTEMPTS = 2
  MaxFaults = 1
  PENDING_TTL = 2
  RETENTION = 0
  MAX_RECORDS = 2
  Faults = {}
INVARIANTS ActiveBounded
PROPERTIES EventuallyFinal
