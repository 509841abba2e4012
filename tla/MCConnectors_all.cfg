SPECIFICATION ConnectorsSpec
CONSTANTS
  Parts = {"ingress", "telegram", "callback", "installation"}
  LIFECYCLE_TTL = 2
  MAX_ENTRIES = 2
  Events = {"k1", "k2", "k3", "k4"}
  Malformed = {"k3"}
  Misshapen = {"k4"}
  Handlers = {"h1", "h2"}
  LAST_UPDATE = 3
  TELEGRAM_FAULTS = 2
  Buttons = {"b1", "b2", "b3"}
  AdminButtons = {"b2"}
  UnknownButtons = {"b3"}
  Clicks = {"c1", "c2"}
  DRIFT = 1
  CALLBACK_TTL = 1
  InstallStates = {"s1", "s2"}
  Posts = {"p1"}
  LAST_TOKEN = 2
  CUTS = 2
INVARIANTS ConnectorsTypeOK OneRouter RefusalsHaveReasons NothingSkipped RepeatsNeedMishaps ActionOnce InstallationsSound
PROPERTIES NoReroute EventuallyHandled
