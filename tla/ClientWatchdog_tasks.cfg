SPECIFICATION Spec
CONSTANTS
  Clients = {1, 2}
  NoClient = 0
  DEFAULT_MAX_WS_CLIENTS = 2
  WATCHDOG_INTERVAL = 1
  WATCHDOG_TIMEOUT = 1
  MaxLate = 0
  Serialized = FALSE
INVARIANT EachClientTracked
CHECK_DEADLOCK FALSE
