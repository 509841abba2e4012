SPECIFICATION Spec
CONSTANTS
  w1 = w1
  w2 = w2
  d1 = d1
  d2 = d2
  t1 = t1
  t2 = t2
  t3 = t3
  t4 = t4
  Worker = {w1, w2}
  Intents = {d1}
  Token = {t1, t2, t3, t4}
  NoToken = NoToken
  Verdicts <- SentOrError
  JOB_TIMEOUT = 1
  LEASE_GRACE = 3
  MAX_ACTIVE = 2
  CLAIM_BATCH = 1
  ACK_ATTEMPTS = 2
  MaxFaults = 3
  PENDING_TTL = 1
  RETENTION = 0
  MAX_RECORDS = 1
  Faults = {"save"}
SYMMETRY FullSymmetry
INVARIANTS DuplicatesNeedFaults
PROPERTIES PostsUnderLease
