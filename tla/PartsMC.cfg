SPECIFICATION PartsSpec
CONSTANTS
  Functions <- AllFunctions
  KeepaliveReply = FALSE
  UsesOfSession = {"auth", "channel", "scp", "publickey", "sftp"}
  MaxDue = 2
  Digits = {1, 2}
  PASS_MAX = 2
  MaxKeys = 2
  QR_SCANNER_MAX_FRAME_LEN = 3
  PACKET_NUMBER_MIN = 1
  PACKET_SCAN_MAX = 2
  MaxLine = 2
  TimersWrap = 6
  BreakerWrap = 12
  MAX_TIMERS = 2
  DOOR_DELAY = 2
  Period = 3
  DOOR_CONTACT_DEBOUNCE_MS = 1
  MaxGap = 2
  StartYears = {1970, 1999, 2095, 2399, 9998}
  WalkYears = 2
  MaxId = 2
  CredsLastDay = 2
  Doors = {1}
  DOOR_COUNT = 2
  LOG_HANDSHAKE_TIMEOUT = 2
  LOG_IDLE_DISCONNECT_DELAY = 1
  LOG_RECONNECT_INTERVAL = 1
  LOG_HANDSHAKE_RESPONSE_MAX_LEN = 2
  MaxLag = 1
  MaxEvents = 2
  WatchdogFullClients = {1, 2, 3}
  WatchdogClients = {1, 2}
  NoClient = 0
  DEFAULT_MAX_WS_CLIENTS = 2
  WATCHDOG_INTERVAL = 1
  WatchdogFull_WATCHDOG_TIMEOUT = 1
  Watchdog_WATCHDOG_TIMEOUT = 2
  WatchdogFullMaxLate = 0
  WatchdogMaxLate = 1
  MaxRequest = 2
  MaxResponse = 2
  Capacity = 2
  PREPEND_CAP = 2
  PumpBufSize = 1
  PumpChunksBufSize = 2
  ReceiveBufSize = 32
  LowMark = 1
  HighMark = 1
  HostKey = {"k1", "k2"}
  KeyType = {"t1", "t2"}
  NoText = "none"
  MaxMappings = 2
  maxAttempts = 2
  Port = {1, 2}
  MAX_MAPPING_HEALTH = 1
  FAIL_THRESHOLD = 2
  BACKOFF_BASE_MS = 1
  BACKOFF_CAP_MS = 3
  MaxFails = 5
  MaxChannels = 3
  Length = 3
  FileLen = 3
  Sizes = {1, 2}
  MAX_SIZE = 2
  READ_AHEAD = 2
  MaxIds = 7
  Framings = {"mac", "etm", "full"}
  Payloads = {1, 7, 12}
  NPackets = 2
  Block = 8
  Trailer = 3
INVARIANTS
  PartsTypeOK
  CallsKeepState
  CallsAnswered
  InputOfThisState
  TimeoutsExact
  CredRequestsExact
  ConfigurationWhole
  LinkSound
  ClientsTracked
  BytesInOrder
  SessionSound
  DirectSound
  FileExact
  StreamReassembled
  ExchangeSound
PROPERTIES
  OnlyAsAsked
CHECK_DEADLOCK FALSE
