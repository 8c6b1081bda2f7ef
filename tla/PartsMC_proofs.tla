--------------------------- MODULE PartsMC_proofs ---------------------------
(***************************************************************************)
(* Proofs about the parts that are checked on their own, for every value   *)
(* of the constants: a behaviour of PartsSpec is one of a part, and so has *)
(* what is proved of its module, in a module of its own or in Parts_proofs.*)
(***************************************************************************)
EXTENDS PartsMC, Parts_proofs

-----------------------------------------------------------------------------
(* Provisioning *)

ProvisioningFits == DoorsExist

ConfigurationInv == part = "provisioning" => PInv

LEMMA ConfigurationInit == ProvisioningFits /\ PartsInit => ConfigurationInv
  BY ProvisioningInit
  DEF PartsInit, ProvisioningFits, ConfigurationInv

LEMMA ConfigurationNext ==
  ProvisioningFits /\ ConfigurationInv /\ [PartsNext]_all => ConfigurationInv'
<1> SUFFICES ASSUME ProvisioningFits, ConfigurationInv, [PartsNext]_all,
                    part' = "provisioning"
             PROVE  PInv'
  BY DEF ConfigurationInv
<1>1. part = "provisioning" /\ [ProvisioningPart!Next]_(ProvisioningPart!vars)
  BY DEF PartsNext, all, ProvisioningPart!vars, ProvisioningPart!files
<1> QED
  BY <1>1, ProvisioningStep
  DEF ProvisioningFits, ConfigurationInv

\* The box runs with one whole document over the defaults, and after the
\* first commitDownloaded() every start runs with a committed one, wherever
\* power fails: for any number of doors.
THEOREM ConfigurationIsWhole ==
  ASSUME ProvisioningFits
  PROVE  PartsSpec => []ConfigurationWhole
<1>1. PartsInit => ConfigurationInv
  BY ConfigurationInit
<1>2. ConfigurationInv /\ [PartsNext]_all => ConfigurationInv'
  BY ConfigurationNext
<1>3. PInv => /\ ProvisioningPart!WholeOrNothing
              /\ ProvisioningPart!InstalledRuns
  BY CommittedIsProvisioned
  DEF PInv, ConfigInv, InstalledInv, ProvisioningPart!WholeOrNothing,
      ProvisioningPart!InstalledRuns
<1>4. ConfigurationInv => ConfigurationWhole
  BY <1>3 DEF ConfigurationInv, ConfigurationWhole
<1> QED
  BY <1>1, <1>2, <1>4, PTL DEF PartsSpec

-----------------------------------------------------------------------------
(* LogLink *)

ResponseBuffer == LOG_HANDSHAKE_RESPONSE_MAX_LEN \in Nat

LinkInv ==
  /\ part = "log" => LogPart!IInv
  /\ part = "logSerial" => LogSerialPart!FramesInv

LEMMA LinkInit == ResponseBuffer /\ PartsInit => LinkInv
<1> SUFFICES ASSUME ResponseBuffer, PartsInit PROVE LinkInv
  OBVIOUS
<1>1. part = "log" => LogPart!IInv
  BY LogPart!InitInv DEF PartsInit, ResponseBuffer
<1>2. part = "logSerial" => LogSerialPart!FramesInv
  BY LogSerialPart!InitInv, LogSerialPart!UpgradeInit
  DEF PartsInit, ResponseBuffer, LogSerialPart!FramesInv
<1> QED
  BY <1>1, <1>2 DEF LinkInv

LEMMA LinkNext == ResponseBuffer /\ LinkInv /\ [PartsNext]_all => LinkInv'
<1> SUFFICES ASSUME ResponseBuffer, LinkInv, [PartsNext]_all PROVE LinkInv'
  OBVIOUS
<1>1. ASSUME part' = "log" PROVE LogPart!IInv'
  <2>1. part = "log" /\ [LogPart!Next]_(LogPart!vars)
    BY <1>1 DEF PartsNext, all, LogPart!vars, LogPart!net, LogPart!clocks
  <2> QED
    BY <2>1, LogPart!StepInv DEF LinkInv, ResponseBuffer
<1>2. ASSUME part' = "logSerial" PROVE LogSerialPart!FramesInv'
  <2>1. part = "logSerial" /\ [LogSerialPart!Next]_(LogSerialPart!vars)
    BY <1>2 DEF PartsNext, all, LogSerialPart!vars, LogSerialPart!net,
                LogSerialPart!clocks
  <2>2. LogSerialPart!CallbacksFinish
    BY DEF LogSerialPart!CallbacksFinish
  <2> QED
    BY <2>1, <2>2, LogSerialPart!StepInv, LogSerialPart!StepUpgrade
    DEF LinkInv, ResponseBuffer, LogSerialPart!FramesInv
<1> QED
  BY <1>1, <1>2 DEF LinkInv

\* The copy of the server's answer stays inside its array whatever loop() does
\* between the check and the copy, and where callbacks are finished first
\* records go only to a server that accepted the upgrade of this connection:
\* for a buffer of any size and any timeouts.
THEOREM LinkIsSound ==
  ASSUME ResponseBuffer
  PROVE  PartsSpec => []LinkSound
<1>1. PartsInit => LinkInv
  BY LinkInit
<1>2. LinkInv /\ [PartsNext]_all => LinkInv'
  BY LinkNext
<1>3. LogPart!IInv => LogPart!ResponseFits
  BY DEF LogPart!IInv, LogPart!BufferTypes, LogPart!RoomInv,
         LogPart!ResponseFits,
         ResponseBuffer
<1>4. LogSerialPart!FramesInv => LogSerialPart!FramesAfterUpgrade
  BY DEF LogSerialPart!FramesInv, LogSerialPart!UpgradeInv,
         LogSerialPart!FramesAfterUpgrade, LogSerialPart!isConnected
<1>5. LinkInv => LinkSound
  BY <1>3, <1>4 DEF LinkInv, LinkSound
<1> QED
  BY <1>1, <1>2, <1>5, PTL DEF PartsSpec

-----------------------------------------------------------------------------
(* ClientWatchdog *)

ClientTablesFit == WatchdogFullPart!TableFits /\ WatchdogPart!TableFits

ClientsInv ==
  /\ part = "watchdogFull" => WatchdogFullPart!IInv
  /\ part = "watchdog" => WatchdogPart!IInv

LEMMA ClientsInit == ClientTablesFit /\ PartsInit => ClientsInv
  BY WatchdogFullPart!WatchdogInit, WatchdogPart!WatchdogInit
  DEF PartsInit, ClientTablesFit, ClientsInv

LEMMA ClientsNext ==
  ClientTablesFit /\ ClientsInv /\ [PartsNext]_all => ClientsInv'
<1> SUFFICES ASSUME ClientTablesFit, ClientsInv, [PartsNext]_all
             PROVE  ClientsInv'
  OBVIOUS
<1>1. ASSUME part' = "watchdogFull" PROVE WatchdogFullPart!IInv'
  <2>1. /\ part = "watchdogFull"
        /\ [WatchdogFullPart!Next]_(WatchdogFullPart!vars)
    BY <1>1 DEF PartsNext, all, WatchdogFullPart!vars
  <2> QED
    BY <2>1, WatchdogFullPart!WatchdogNext DEF ClientsInv, ClientTablesFit
<1>2. ASSUME part' = "watchdog" PROVE WatchdogPart!IInv'
  <2>1. part = "watchdog" /\ [WatchdogPart!Next]_(WatchdogPart!vars)
    BY <1>2 DEF PartsNext, all, WatchdogPart!vars
  <2> QED
    BY <2>1, WatchdogPart!WatchdogNext DEF ClientsInv, ClientTablesFit
<1> QED
  BY <1>1, <1>2 DEF ClientsInv

\* Where the events of the server wait for a round of loop(), an entry of the
\* watchdog belongs to a client of the server and no client has two, also when
\* there are more clients than entries; and when there are not, every connected
\* client has one: for a table of any size, any clients and any delays.
THEOREM ClientsAreTracked ==
  ASSUME ClientTablesFit
  PROVE  PartsSpec => []ClientsTracked
<1>1. PartsInit => ClientsInv
  BY ClientsInit
<1>2. ClientsInv /\ [PartsNext]_all => ClientsInv'
  BY ClientsNext
<1>3. ClientsInv => ClientsTracked
  BY WatchdogFullPart!EntriesOwned, WatchdogPart!ConnectedTracked
  DEF ClientsInv, ClientsTracked
<1> QED
  BY <1>1, <1>2, <1>3, PTL DEF PartsSpec

-----------------------------------------------------------------------------
(* TunnelPump *)

PumpBuffersFit == PumpPart!BuffersFit /\ PumpChunksPart!BuffersFit

PumpsInv ==
  /\ part = "pump" => PumpPart!PumpInv
  /\ part = "pumpChunks" => PumpChunksPart!PumpInv

LEMMA PumpsInit == PumpBuffersFit /\ PartsInit => PumpsInv
  BY PumpPart!PumpInit, PumpChunksPart!PumpInit
  DEF PartsInit, PumpBuffersFit, PumpsInv

LEMMA PumpsNext == PumpBuffersFit /\ PumpsInv /\ [PartsNext]_all => PumpsInv'
<1> SUFFICES ASSUME PumpBuffersFit, PumpsInv, [PartsNext]_all PROVE PumpsInv'
  OBVIOUS
<1>1. ASSUME part' = "pump" PROVE PumpPart!PumpInv'
  <2>1. part = "pump" /\ [PumpPart!Next]_(PumpPart!vars)
    BY <1>1 DEF PartsNext, all, PumpPart!vars
  <2> QED
    BY <2>1, PumpPart!PumpStep DEF PumpsInv, PumpBuffersFit
<1>2. ASSUME part' = "pumpChunks" PROVE PumpChunksPart!PumpInv'
  <2>1. part = "pumpChunks" /\ [PumpChunksPart!Next]_(PumpChunksPart!vars)
    BY <1>2 DEF PartsNext, all, PumpChunksPart!vars
  <2> QED
    BY <2>1, PumpChunksPart!PumpStep DEF PumpsInv, PumpBuffersFit
<1> QED
  BY <1>1, <1>2 DEF PumpsInv

\* What either end of a tunnel channel gets is in the order in which it was
\* sent, the response from its first byte on and without a gap, and EOF follows
\* all of it: for rings of any capacity in which a put-back buffer fits, any
\* back-pressure marks and any way libssh2 and the sockets cut what they get.
THEOREM BytesStayInOrder ==
  ASSUME PumpBuffersFit
  PROVE  PartsSpec => []BytesInOrder
<1>1. PartsInit => PumpsInv
  BY PumpsInit
<1>2. PumpsInv /\ [PartsNext]_all => PumpsInv'
  BY PumpsNext
<1>3. PumpPart!PumpInv => /\ PumpPart!ResponseInOrder
                          /\ PumpPart!RequestInOrder
                          /\ PumpPart!EofAfterResponse
  BY PumpPart!PumpResponse, PumpPart!PumpRequest, PumpPart!PumpEof
  DEF PumpBuffersFit
<1>4. PumpChunksPart!PumpInv => /\ PumpChunksPart!ResponseInOrder
                                /\ PumpChunksPart!RequestInOrder
                                /\ PumpChunksPart!EofAfterResponse
  BY PumpChunksPart!PumpResponse, PumpChunksPart!PumpRequest,
     PumpChunksPart!PumpEof DEF PumpBuffersFit
<1>5. PumpsInv => BytesInOrder
  BY <1>3, <1>4 DEF PumpsInv, BytesInOrder
<1> QED
  BY <1>1, <1>2, <1>5, PTL DEF PartsSpec

-----------------------------------------------------------------------------
(* TunnelSession *)

SessionOfPart == part = "session" => SessionPart!SessionInv

LEMMA SessionPartInit == PartsInit => SessionOfPart
  BY SessionInit DEF PartsInit, SessionOfPart

LEMMA SessionPartNext == SessionOfPart /\ [PartsNext]_all => SessionOfPart'
<1> SUFFICES ASSUME SessionOfPart, [PartsNext]_all, part' = "session"
             PROVE  SessionPart!SessionInv'
  BY DEF SessionOfPart
<1>1. part = "session" /\ [SessionPart!Next]_(SessionPart!vars)
  BY DEF PartsNext, all, SessionPart!vars
<1> QED
  BY <1>1, SessionStep DEF SessionOfPart

\* Whatever configurations were applied one after the other and wherever
\* connect() fails: a secret is offered only to the host that the last
\* configuration trusts, nothing is left of a session that failed, and one that
\* is reported serves what was asked for.  For any host keys, any number of
\* mappings and any number of attempts.
THEOREM SessionIsSound == PartsSpec => []SessionSound
<1>1. SessionOfPart => SessionSound
  BY SessionPromises DEF SessionOfPart, SessionSound
<1> QED
  BY <1>1, SessionPartInit, SessionPartNext, PTL DEF PartsSpec

-----------------------------------------------------------------------------
(* DirectClient *)

DirectOfPart == part = "direct" => DirectPart!DirectInv

LEMMA DirectPartInit == DirectFits /\ PartsInit => DirectOfPart
  BY DirectInit DEF PartsInit, DirectOfPart

LEMMA DirectPartNext ==
  DirectFits /\ DirectOfPart /\ [PartsNext]_all => DirectOfPart'
<1> SUFFICES ASSUME DirectFits, DirectOfPart, [PartsNext]_all, part' = "direct"
             PROVE  DirectPart!DirectInv'
  BY DEF DirectOfPart
<1>1. part = "direct" /\ [DirectPart!Next]_(DirectPart!vars)
  BY DEF PartsNext, all, DirectPart!vars
<1> QED
  BY <1>1, DirectStep DEF DirectOfPart

\* Wherever the session ends and another begins between two calls of the client,
\* and whoever stops it, with or without time enough: write() reports what went
\* out, a channel that libssh2 holds is the client's unless attach() or the
\* destructor dropped it after a stop() that ran out of time, and the client does
\* not use a channel it has freed itself.  For any number of channels and data of
\* any length.
THEOREM DirectIsSound ==
  ASSUME DirectFits
  PROVE  PartsSpec => []DirectSound
<1>1. PartsInit => DirectOfPart
  BY DirectPartInit
<1>2. DirectOfPart /\ [PartsNext]_all => DirectOfPart'
  BY DirectPartNext
<1>3. DirectOfPart => DirectSound
  BY DirectPromises DEF DirectOfPart, DirectSound
<1> QED
  BY <1>1, <1>2, <1>3, PTL DEF PartsSpec

-----------------------------------------------------------------------------
(* CircuitBreaker *)

TimeoutsOfParts ==
  /\ part = "timers" => TimersPart!TimersInv
  /\ part = "breaker" => BreakerPart!BreakerInv

LEMMA TimeoutsInit == TimersFit /\ BreakerFits /\ PartsInit => TimeoutsOfParts
  BY TimersInit, BreakerInit DEF PartsInit, TimeoutsOfParts

LEMMA TimeoutsNext ==
  TimersFit /\ BreakerFits /\ TimeoutsOfParts /\ [PartsNext]_all => TimeoutsOfParts'
<1> SUFFICES ASSUME TimersFit, BreakerFits, TimeoutsOfParts, [PartsNext]_all
             PROVE  TimeoutsOfParts'
  OBVIOUS
<1>1. ASSUME part' = "timers" PROVE TimersPart!TimersInv'
  <2>1. part = "timers" /\ [TimersPart!Next]_(TimersPart!vars)
    BY <1>1 DEF PartsNext, all, TimersPart!vars
  <2> QED
    BY <2>1, TimersStep DEF TimeoutsOfParts
<1>2. ASSUME part' = "breaker" PROVE BreakerPart!BreakerInv'
  <2>1. part = "breaker" /\ [BreakerPart!Next]_(BreakerPart!vars)
    BY <1>2 DEF PartsNext, all, BreakerPart!vars
  <2> QED
    BY <2>1, BreakerStep DEF TimeoutsOfParts
<1> QED
  BY <1>1, <1>2 DEF TimeoutsOfParts

\* Wherever the counter of milliseconds wraps around: an action runs after its
\* interval and at most a gap later, no timer is overdue after a round, and a
\* mapping that failed too often is refused for exactly its delay. For every
\* width of the counter, number of slots, interval and delay.
THEOREM TimeoutsAreExact ==
  ASSUME TimersFit, BreakerFits
  PROVE  PartsSpec => []TimeoutsExact
<1>1. PartsInit => TimeoutsOfParts
  BY TimeoutsInit
<1>2. TimeoutsOfParts /\ [PartsNext]_all => TimeoutsOfParts'
  BY TimeoutsNext
<1>3. TimeoutsOfParts => TimeoutsExact
  BY TimersPromise, BreakerPromise DEF TimeoutsOfParts, TimeoutsExact
<1> QED
  BY <1>1, <1>2, <1>3, PTL DEF PartsSpec

-----------------------------------------------------------------------------
(* CredProtocol *)

CredsOfPart == part = "creds" => CredsPart!CredsInv

LEMMA CredsPartInit == CredsFit /\ PartsInit => CredsOfPart
  BY CredsInit DEF PartsInit, CredsOfPart

LEMMA CredsPartNext == CredsFit /\ CredsOfPart /\ [PartsNext]_all => CredsOfPart'
<1> SUFFICES ASSUME CredsFit, CredsOfPart, [PartsNext]_all, part' = "creds"
             PROVE  CredsPart!CredsInv'
  BY DEF CredsOfPart
<1>1. CASE part = "creds" /\ CredsPart!Next
  BY <1>1, CredsStep DEF CredsOfPart
<1>2. CASE UNCHANGED all
  <2>1. part = "creds" /\ UNCHANGED CredsPart!vars
    BY <1>2 DEF all, CredsPart!vars
  <2> QED
    BY <2>1 DEF CredsOfPart, CredsPart!CredsInv, CredsPart!vars
<1> QED
  BY <1>1, <1>2 DEF PartsNext

\* What a step of each of the three parts may do.
AskedStep ==
  /\ part = "timers" => TimersPart!SettledStep
  /\ part = "creds" => CredsPart!ChargedStep
  /\ part = "creds" => CredsPart!NamedOnlyStep
  /\ part = "provisioning" => ProvisioningPart!KeepsDataStep

LEMMA AskedNext ==
  TimersFit /\ CredsFit /\ TimeoutsOfParts /\ CredsOfPart /\ [PartsNext]_all => [AskedStep]_all
<1> SUFFICES ASSUME TimersFit, CredsFit, TimeoutsOfParts, CredsOfPart, PartsNext, ~UNCHANGED all
             PROVE  AskedStep
  OBVIOUS
<1>1. ASSUME part = "timers" PROVE TimersPart!SettledStep
  <2>1. TimersPart!Next /\ Keep8 /\ UNCHANGED <<part, vars>>
    BY <1>1 DEF PartsNext
  <2>2. ~UNCHANGED TimersPart!vars
    BY <2>1
    DEF all, TimersPart!vars, Keep8, Keep9, Keep10, Keep11, Keep12, Keep13,
        Keep14, Keep15, Keep16, Keep17, Keep18, Keep19, Keep20, Keep21, Keep22,
        Keep23, Keep24
  <2> QED
    BY <1>1, <2>1, <2>2, SettledNext DEF TimeoutsOfParts
<1>2. ASSUME part = "creds" PROVE CredsPart!ChargedStep /\ CredsPart!NamedOnlyStep
  <2>1. CredsPart!Next
    BY <1>2 DEF PartsNext
  <2> QED
    BY <1>2, <2>1, CredsStep DEF CredsOfPart
<1>3. ASSUME part = "provisioning" PROVE ProvisioningPart!KeepsDataStep
  <2>1. ProvisioningPart!Next
    BY <1>3 DEF PartsNext
  <2> QED
    BY <2>1, KeepsDataNext
<1> QED
  BY <1>1, <1>2, <1>3 DEF AskedStep

\* For any width of the counter, any identifiers, doors and days, and any
\* sequence of requests, uses and changes of day: a door contact is seen to
\* change only after it has been quiet for the debounce time, a request or a
\* use changes the credential it names and nothing else, and no step formats
\* away what is on the flash.
THEOREM ChangesAreAsked ==
  ASSUME TimersFit, BreakerFits, CredsFit
  PROVE  PartsSpec => OnlyAsAsked
<1>1. PartsInit => TimeoutsOfParts /\ CredsOfPart
  BY TimeoutsInit, CredsPartInit
<1>2. TimeoutsOfParts /\ [PartsNext]_all => TimeoutsOfParts'
  BY TimeoutsNext
<1>3. CredsOfPart /\ [PartsNext]_all => CredsOfPart'
  BY CredsPartNext
<1>4. TimeoutsOfParts /\ CredsOfPart /\ [PartsNext]_all => [AskedStep]_all
  BY AskedNext
<1>5. [][AskedStep]_all => OnlyAsAsked
  BY PTL DEF AskedStep, OnlyAsAsked
<1> QED
  BY <1>1, <1>2, <1>3, <1>4, <1>5, PTL DEF PartsSpec

-----------------------------------------------------------------------------
(* Keypad and QrScanner *)

InputOfParts ==
  /\ part = "keypad" => KeypadPart!KeypadInv /\ ObeyedOfThisState
  /\ part = "scanner" => ScannerPart!ScannerInv /\ ScannerPart!NoLeftover

LEMMA InputInit == KeypadFits /\ PartsInit => InputOfParts
  BY KeypadInit, ScannerInit DEF PartsInit, InputOfParts

LEMMA InputNext == KeypadFits /\ InputOfParts /\ [PartsNext]_all => InputOfParts'
<1> SUFFICES ASSUME KeypadFits, InputOfParts, [PartsNext]_all PROVE InputOfParts'
  OBVIOUS
<1>1. ASSUME part' = "keypad" PROVE KeypadPart!KeypadInv' /\ ObeyedOfThisState'
  <2>1. part = "keypad" /\ [KeypadPart!Next]_(KeypadPart!vars)
    BY <1>1 DEF PartsNext, all, KeypadPart!vars
  <2> QED
    BY <2>1, KeypadStep DEF InputOfParts
<1>2. ASSUME part' = "scanner" PROVE ScannerPart!ScannerInv' /\ ScannerPart!NoLeftover'
  <2>1. part = "scanner" /\ [ScannerPart!Next]_(ScannerPart!vars)
    BY <1>2 DEF PartsNext, all, ScannerPart!vars
  <2> QED
    BY <2>1, ScannerStep DEF InputOfParts
<1> QED
  BY <1>1, <1>2 DEF InputOfParts

\* Whatever is typed, scanned or timed out in whatever order: the password that
\* is submitted is the one typed since the box asked for it, '*' is that of the
\* screen shown, every byte of an accepted code arrived in this scan, and the
\* lamp of the scanner is on in a scan only.  For passwords and frames of any
\* length, however many keys a round of loop() finds.
THEOREM InputIsOfThisState ==
  ASSUME KeypadFits
  PROVE  PartsSpec => []InputOfThisState
<1>1. PartsInit => InputOfParts
  BY InputInit
<1>2. InputOfParts /\ [PartsNext]_all => InputOfParts'
  BY InputNext
<1>3. InputOfParts => InputOfThisState
  BY ScannerPromise DEF InputOfParts, InputOfThisState, ObeyedOfThisState
<1> QED
  BY <1>1, <1>2, <1>3, PTL DEF PartsSpec

-----------------------------------------------------------------------------
(* CalendarDates *)

RequestsOfParts ==
  /\ part = "calendar" => CalendarPart!CalendarInv
  /\ part = "creds" => RequestsInv

LEMMA RequestedInit == CalendarFits /\ CredsFit /\ PartsInit => RequestsOfParts
  BY CalendarInit, RequestsInit DEF PartsInit, RequestsOfParts

LEMMA RequestedNext ==
  CalendarFits /\ CredsFit /\ RequestsOfParts /\ [PartsNext]_all
    => RequestsOfParts'
<1> SUFFICES ASSUME CalendarFits, CredsFit, RequestsOfParts, [PartsNext]_all
             PROVE  RequestsOfParts'
  OBVIOUS
<1>1. ASSUME part' = "calendar" PROVE CalendarPart!CalendarInv'
  <2>1. part = "calendar" /\ [CalendarPart!Next]_(CalendarPart!vars)
    BY <1>1 DEF PartsNext, all, CalendarPart!vars
  <2>2. CASE CalendarPart!Next
    BY <2>1, <2>2, CalendarStep DEF RequestsOfParts
  <2>3. CASE UNCHANGED CalendarPart!vars
    BY <2>1, <2>3
    DEF RequestsOfParts, CalendarPart!CalendarInv, CalendarPart!vars
  <2> QED
    BY <2>1, <2>2, <2>3
<1>2. ASSUME part' = "creds" PROVE RequestsInv'
  <2>1. part = "creds" /\ [CredsPart!Next]_(CredsPart!vars)
    BY <1>2 DEF PartsNext, all, CredsPart!vars
  <2>2. CASE CredsPart!Next
    BY <2>1, <2>2, RequestsStep DEF RequestsOfParts
  <2>3. CASE UNCHANGED CredsPart!vars
    BY <2>1, <2>3
    DEF RequestsOfParts, RequestsInv, CredsPart!CredsInv,
        CredsPart!NeverBackwards, CredsPart!AcceptedIsValid, CredsPart!vars
  <2> QED
    BY <2>1, <2>2, <2>3
<1> QED
  BY <1>1, <1>2 DEF RequestsOfParts

\* A date is numbered as the calendar counts it, refused when the calendar does
\* not have it, and shown as it was entered, in every year from 1970 to 9999;
\* and after any requests, uses and changes of day no credential is valid
\* backwards, a code is accepted by a credential that is valid now, and a page
\* shows each credential once and as it is stored, for any identifiers, days
\* and doors.
THEOREM RequestsAreExact ==
  ASSUME CalendarFits, CredsFit
  PROVE  PartsSpec => []CredRequestsExact
<1>1. PartsInit => RequestsOfParts
  BY RequestedInit
<1>2. RequestsOfParts /\ [PartsNext]_all => RequestsOfParts'
  BY RequestedNext
<1>3. RequestsOfParts => CredRequestsExact
  BY CalendarPromises, RequestsPromise DEF RequestsOfParts, CredRequestsExact
<1> QED
  BY <1>1, <1>2, <1>3, PTL DEF PartsSpec
=============================================================================
