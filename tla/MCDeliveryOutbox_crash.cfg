SPECIFICATION Spec
CONSTANTS
  d1 = d1
  d2 = d2
  d3 = d3
  t1 = t1
  t2 = t2
  t3 = t3
  Intents = {d1, d2}
  Addressed = {d1, d2}
  Scopes <- SplitScopes
  Token = {t1, t2}
  NoToken = NoToken
  Verdicts <- SentOrTimedOut
  PENDING_TTL = 1
  RETENTION = 1
  MAX_RECORDS = 2
  MAX_CLAIM_BATCH = 2
  MIN_LEASE = 1
  MAX_LEASE = 1
  Faults = {}
INVARIANTS TypeOK
PROPERTIES ConfirmedStaysFinal TableSpec
