\* PINs and scanned codes, with web requests between them.
SPECIFICATION Spec
CONSTANTS
  Doors = {"d1"}
  NoDoor = NoDoor
  Unmapped = Unmapped
  Contacts = {"c1"}
  DoorOf <- MCDoorOf
  Creds = {"pin", "master"}
  NoCred = NoCred
  CredDoor <- MCCredDoor
  Packets = {"master"}
  InitUses <- MCUses
  KeepScanned = FALSE
  DoorsForced = FALSE
  KeyEvents = {"key1", "key3", "enter", "cancel"}
  RequestsPerTick = 1
  QUEUE_LENGTH = 1
  MAX_TIMERS = 2
  DOOR_DELAY = 1
  DOOR_OPENING_TIMEOUT = 2
  AMBIENT_TIMEOUT = 1
  PASS_ENTRY_TIMEOUT = 1
  SCAN_TIMEOUT = 1
  PRESENCE_CODE_VALIDITY = 1
  PASS_ERR_DELAY = 1
  PASS_ERR_MAXMULTIPLY = 2
  COUNT_MAX = 3
INVARIANTS
  PenaltyServed
PROPERTIES
  ChargedForOpening
CHECK_DEADLOCK TRUE
