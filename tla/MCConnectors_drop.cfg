SPECIFICATION ConnectorsSpec
CONSTANTS
  Parts = {"telegram"}
  LIFECYCLE_TTL = 2
  MAX_ENTRIES = 2
  Events = {"k1", "k2", "k3", "k4"}
  Malformed = {"k3"}
  Misshapen = {"k4"}
  Handlers = {"h1", "h2"}
  LAST_UPDATE = 3
  TELEGRAM_FAULTS = 2
  Buttons = {"b1", "b2", "b3"}
  AdminButtons = {"b2"}
  UnknownButtons = {"b3"}
  Clicks = {"c1", "c2"}
  DRIFT = 1
  CALLBACK_TTL = 1
  InstallStates = {"s1", "s2"}
  Posts = {"p1"}
  LAST_TOKEN = 2
  CUTS = 1
INVARIANTS FailedStaysRetryable
