--------------------------------- MODULE Parts ------------------------------
(***************************************************************************)
(* The parts of the system that are proved about together: each is an      *)
(* instance of its module, which keeps its variables in the slots s1, s2,  *)
(* ...  PartsMC adds the other parts and lets one of them run.             *)
(***************************************************************************)

CONSTANTS
  \* keypad
  Digits, PASS_MAX, MaxKeys,
  \* scanner
  QR_SCANNER_MAX_FRAME_LEN, PACKET_NUMBER_MIN, PACKET_SCAN_MAX, MaxLine,
  \* timers
  TimersWrap, MAX_TIMERS, DOOR_DELAY, Period, DOOR_CONTACT_DEBOUNCE_MS,
  MaxGap,
  \* breaker
  BreakerWrap, Port, MAX_MAPPING_HEALTH, FAIL_THRESHOLD, BACKOFF_BASE_MS,
  BACKOFF_CAP_MS, MaxFails,
  \* calendar
  StartYears, WalkYears,
  \* creds
  MaxId, CredsLastDay, Doors,
  \* provisioning
  DOOR_COUNT,
  \* session
  HostKey, KeyType, NoText, MaxMappings, maxAttempts,
  \* direct
  MaxChannels, Length

VARIABLES
  s1, s2, s3, s4, s5, s6, s7, s8, s9, s10, s11, s12, s13, s14, s15, s16, s17,
  s18, s19, s20, s21, s22, s23, s24

KeypadPart == INSTANCE Keypad WITH
    state <- s1, waiting <- s2, kb <- s3, intent <- s4, stale <- s5,
    done <- s6
ScannerPart == INSTANCE QrScanner WITH
    state <- s1, ready <- s2, scanner <- s3, line <- s4, rx <- s5, lamp <- s6,
    verdict <- s7
TimersPart == INSTANCE LoopTimers WITH
    Wrap <- TimersWrap, millis <- s1, timers <- s2, gap <- s3, fired <- s4,
    lock <- s5, pin <- s6, contact <- s7
CalendarPart == INSTANCE CalendarDates WITH
    first <- s1, date <- s2, days <- s3
CredsPart == INSTANCE CredProtocol WITH
    LastDay <- CredsLastDay, now <- s1, store <- s2, cache <- s3,
    verified <- s4, last <- s5
ProvisioningPart == INSTANCE Provisioning WITH
    partition <- s1, Path <- s2, PendingPath <- s3, defaults <- s4,
    config <- s5, mounted <- s6, pc <- s7, installed <- s8
SessionPart == INSTANCE TunnelSession WITH
    pc <- s1, wanted <- s2, ssh <- s3, mappings <- s4, limit <- s5,
    sock <- s6, sess <- s7, blocking <- s8, listeners <- s9, tries <- s10,
    peer <- s11
BreakerPart == INSTANCE CircuitBreaker WITH
    Wrap <- BreakerWrap, now <- s1, health <- s2, age <- s3
DirectPart == INSTANCE DirectClient WITH
    pc <- s1, caller <- s2, connected <- s3, held <- s4, channel <- s5,
    opened <- s6, freed <- s7, late <- s8, abandoned <- s9, misuse <- s10,
    written <- s11, wire <- s12, eof <- s13
=============================================================================
