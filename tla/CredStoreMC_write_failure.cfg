\* A failed write of an insertion, which addCred() reports as a success.
SPECIFICATION Spec
CONSTANTS
  LAST_KEY = 4
  CRED_GC_MAX_SCAN_ID = 4
  MaxCreds = 3
  Idents = {"anna"}
  Attrs <- MCAttrs
  ValidData <- MCValid
  ActiveData <- MCActive
  Serialized = TRUE
  MaxFaults = 1
  CrashAnywhere = FALSE
  NoRec = NoRec
  Legacy = Legacy
  NoData = NoData
INVARIANTS
  Durable
CHECK_DEADLOCK TRUE
