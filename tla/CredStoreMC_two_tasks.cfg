\* The operations of the two tasks overlap.
SPECIFICATION Spec
CONSTANTS
  LAST_KEY = 4
  CRED_GC_MAX_SCAN_ID = 4
  MaxCreds = 3
  Idents = {"anna"}
  Attrs <- MCAttrs
  ValidData <- MCValid
  ActiveData <- MCActive
  Serialized = FALSE
  MaxFaults = 0
  CrashAnywhere = TRUE
  NoRec = NoRec
  Legacy = Legacy
  NoData = NoData
INVARIANTS
  CacheCoherent
CHECK_DEADLOCK TRUE
