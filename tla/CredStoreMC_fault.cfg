\* One NVS write, erase or clear fails; restarts between operations.
SPECIFICATION FairSpec
CONSTANTS
  LAST_KEY = 4
  CRED_GC_MAX_SCAN_ID = 4
  MaxCreds = 3
  Idents = {"anna"}
  Attrs <- MCAttrs
  ValidData <- MCValid
  ActiveData <- MCActive
  Serialized = TRUE
  MaxFaults = 1
  CrashAnywhere = FALSE
  NoRec = NoRec
  Legacy = Legacy
  NoData = NoData
INVARIANTS
  Healed
CHECK_DEADLOCK TRUE
