\* Crashes at every write and in the repair; one operation at a time.
SPECIFICATION FairSpec
CONSTANTS
  LAST_KEY = 4
  CRED_GC_MAX_SCAN_ID = 4
  MaxCreds = 3
  Idents = {"anna", "bert"}
  Attrs <- MCAttrs
  ValidData <- MCValid
  ActiveData <- MCActive
  Serialized = TRUE
  MaxFaults = 0
  CrashAnywhere = TRUE
  NoRec = NoRec
  Legacy = Legacy
  NoData = NoData
INVARIANTS
  TypeOK
  WellChained
  Durable
  CacheCoherent
PROPERTIES
  AtomicPool
  EventuallyUp
CHECK_DEADLOCK TRUE
