\* A web request while the door of a verified credential is opening.
SPECIFICATION FairSpec
CONSTANTS
  Doors = {"d1", "d2"}
  NoDoor = NoDoor
  Unmapped = Unmapped
  Contacts = {"c1", "c2"}
  DoorOf <- MCDoorOf
  Creds = {"pin", "packet"}
  NoCred = NoCred
  CredDoor <- MCCredDoor
  Packets = {"packet"}
  InitUses <- MCUses
  KeepScanned = FALSE
  DoorsForced = FALSE
  KeyEvents = {"key1", "key3", "enter", "cancel"}
  RequestsPerTick = 1
  QUEUE_LENGTH = 1
  MAX_TIMERS = 2
  DOOR_DELAY = 1
  DOOR_OPENING_TIMEOUT = 2
  AMBIENT_TIMEOUT = 1
  PASS_ENTRY_TIMEOUT = 1
  SCAN_TIMEOUT = 1
  PRESENCE_CODE_VALIDITY = 1
  PASS_ERR_DELAY = 1
  PASS_ERR_MAXMULTIPLY = 2
  COUNT_MAX = 3
PROPERTIES
  NoFreeOpening
CHECK_DEADLOCK TRUE
