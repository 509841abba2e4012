SPECIFICATION Spec
CONSTANTS
  d1 = d1
  d2 = d2
  d3 = d3
  t1 = t1
  t2 = t2
  t3 = t3
  Intents = {d1, d2, d3}
  Addressed = {d1, d2}
  Scopes <- AllScopes
  Token = {t1, t2, t3}
  NoToken = NoToken
  Verdicts <- SentOnly
  PENDING_TTL = 1
  RETENTION = 0
  MAX_RECORDS = 1
  MAX_CLAIM_BATCH = 2
  MIN_LEASE = 1
  MAX_LEASE = 2
  Faults = {"save"}
SYMMETRY Symmetry
INVARIANTS Bounded
PROPERTIES LeaseRespected
