\* Web requests, forced doors and a door with two contacts.
SPECIFICATION FairSpec
CONSTANTS
  Doors = {"d1", "d2"}
  NoDoor = NoDoor
  Unmapped = Unmapped
  Contacts = {"c2", "c3"}
  DoorOf <- MCDoorOf
  Creds = {}
  NoCred = NoCred
  CredDoor <- MCCredDoor
  Packets = {}
  InitUses <- MCUses
  KeepScanned = FALSE
  DoorsForced = TRUE
  KeyEvents = {}
  RequestsPerTick = 1
  QUEUE_LENGTH = 1
  MAX_TIMERS = 3
  DOOR_DELAY = 1
  DOOR_OPENING_TIMEOUT = 2
  AMBIENT_TIMEOUT = 1
  PASS_ENTRY_TIMEOUT = 2
  SCAN_TIMEOUT = 2
  PRESENCE_CODE_VALIDITY = 2
  PASS_ERR_DELAY = 1
  PASS_ERR_MAXMULTIPLY = 2
  COUNT_MAX = 3
INVARIANTS
  OpenTracksDoor
  OutputsEnd
PROPERTIES
  Settles
CHECK_DEADLOCK TRUE
