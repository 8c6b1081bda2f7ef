SPECIFICATION ProgressSpec
CONSTANTS
  LOG_QUEUE_SIZE = 3
  MaxRecords = 7
  LOG_HANDSHAKE_TIMEOUT = 2
  LOG_IDLE_DISCONNECT_DELAY = 1
  LOG_RECONNECT_INTERVAL = 1
  LOG_HANDSHAKE_RESPONSE_MAX_LEN = 2
  MaxLag = 1
  MaxEvents = 1
  Clients = {1, 2}
  NoClient = 0
  DEFAULT_MAX_WS_CLIENTS = 2
  WATCHDOG_INTERVAL = 1
  WATCHDOG_TIMEOUT = 1
  MaxLate = 0
  WIFI_RECOVERY_RESET_INTERVAL = 2
  AssociationTime = 1
  ReconnectDelay = 1
  StaleCooldown = 2
  MaxFaults = 3
  MaxRequest = 1
  MaxResponse = 1
  Capacity = 1
  PREPEND_CAP = 2
  BufSize = 2
  LowMark = 1
  HighMark = 0
  Channel = {1, 2}
  NoChannel = 0
  MaxSlots = 1
  Listeners = 1
  FailLimit = 2
  MAX_PENDING = 1
  MAX_DEFERRED_CLOSE = 1
  MaxReconnectAttempts = 2
  BaseDelay = 1
  MaxDelay = 2
  Senders = {"a", "b"}
  MaxPackets = 1
  MaxKeepalives = 1
  MaxRekeys = 1
INVARIANTS
  ProgressTypeOK
  QueueExact
  ClockRight
  CommandsObeyed
  ChannelsOwned
  PacketsWhole
PROPERTIES
  WorkEnds
  ConnectionsReturn
CHECK_DEADLOCK FALSE
