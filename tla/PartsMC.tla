------------------------------ MODULE PartsMC -------------------------------
(***************************************************************************)
(* The parts of the system that are checked on their own, for safety: a    *)
(* behaviour is one of `part'.  Each part is an instance of its module,    *)
(* which keeps its variables in the slots s1, s2, ... (those that are      *)
(* proved about together are in Parts); those of the calls of libssh2,     *)
(* which are extended and not instantiated, are their own.                 *)
(***************************************************************************)
EXTENDS SshCalls, Parts

CONSTANTS
  \* log
  LOG_HANDSHAKE_TIMEOUT, LOG_IDLE_DISCONNECT_DELAY, LOG_RECONNECT_INTERVAL,
  LOG_HANDSHAKE_RESPONSE_MAX_LEN, MaxLag, MaxEvents,
  \* watchdogFull
  WatchdogFullClients, NoClient, DEFAULT_MAX_WS_CLIENTS, WATCHDOG_INTERVAL,
  WatchdogFull_WATCHDOG_TIMEOUT, WatchdogFullMaxLate,
  \* watchdog
  WatchdogClients, Watchdog_WATCHDOG_TIMEOUT, WatchdogMaxLate,
  \* pump
  MaxRequest, MaxResponse, Capacity, PREPEND_CAP, PumpBufSize, LowMark,
  HighMark,
  \* pumpChunks
  PumpChunksBufSize,
  \* receive
  ReceiveBufSize, Framings, Payloads, NPackets, Block, Trailer,
  \* sftp
  FileLen, Sizes, MAX_SIZE, READ_AHEAD, MaxIds

VARIABLE
  part  \* the part that runs

all == <<part, vars, s1, s2, s3, s4, s5, s6, s7, s8, s9, s10, s11, s12, s13,
  s14, s15, s16, s17, s18, s19, s20, s21, s22, s23, s24>>

\* The slots from a number on are not in use, and stay so.
Unused24 == s24 = 0
Unused23 == s23 = 0 /\ Unused24
Unused22 == s22 = 0 /\ Unused23
Unused21 == s21 = 0 /\ Unused22
Unused20 == s20 = 0 /\ Unused21
Unused19 == s19 = 0 /\ Unused20
Unused18 == s18 = 0 /\ Unused19
Unused17 == s17 = 0 /\ Unused18
Unused16 == s16 = 0 /\ Unused17
Unused15 == s15 = 0 /\ Unused16
Unused14 == s14 = 0 /\ Unused15
Unused13 == s13 = 0 /\ Unused14
Unused12 == s12 = 0 /\ Unused13
Unused11 == s11 = 0 /\ Unused12
Unused10 == s10 = 0 /\ Unused11
Unused9 == s9 = 0 /\ Unused10
Unused8 == s8 = 0 /\ Unused9
Unused7 == s7 = 0 /\ Unused8
Unused6 == s6 = 0 /\ Unused7
Unused5 == s5 = 0 /\ Unused6
Unused4 == s4 = 0 /\ Unused5
Unused3 == s3 = 0 /\ Unused4
Unused2 == s2 = 0 /\ Unused3
Unused1 == s1 = 0 /\ Unused2
Keep24 == UNCHANGED s24
Keep23 == UNCHANGED s23 /\ Keep24
Keep22 == UNCHANGED s22 /\ Keep23
Keep21 == UNCHANGED s21 /\ Keep22
Keep20 == UNCHANGED s20 /\ Keep21
Keep19 == UNCHANGED s19 /\ Keep20
Keep18 == UNCHANGED s18 /\ Keep19
Keep17 == UNCHANGED s17 /\ Keep18
Keep16 == UNCHANGED s16 /\ Keep17
Keep15 == UNCHANGED s15 /\ Keep16
Keep14 == UNCHANGED s14 /\ Keep15
Keep13 == UNCHANGED s13 /\ Keep14
Keep12 == UNCHANGED s12 /\ Keep13
Keep11 == UNCHANGED s11 /\ Keep12
Keep10 == UNCHANGED s10 /\ Keep11
Keep9 == UNCHANGED s9 /\ Keep10
Keep8 == UNCHANGED s8 /\ Keep9
Keep7 == UNCHANGED s7 /\ Keep8
Keep6 == UNCHANGED s6 /\ Keep7
Keep5 == UNCHANGED s5 /\ Keep6
Keep4 == UNCHANGED s4 /\ Keep5
Keep3 == UNCHANGED s3 /\ Keep4
Keep2 == UNCHANGED s2 /\ Keep3
Keep1 == UNCHANGED s1 /\ Keep2

LogPart == INSTANCE LogLink_proofs WITH
    Preemptive <- TRUE, state <- s1, tcp <- s2, events <- s3, upgraded <- s4,
    len <- s5, text <- s6, cb <- s7, pc <- s8, pending <- s9, age <- s10,
    wait <- s11, lag <- s12
LogSerialPart == INSTANCE LogLink_proofs WITH
    Preemptive <- FALSE, state <- s1, tcp <- s2, events <- s3, upgraded <- s4,
    len <- s5, text <- s6, cb <- s7, pc <- s8, pending <- s9, age <- s10,
    wait <- s11, lag <- s12
WatchdogFullPart == INSTANCE ClientWatchdog_proofs WITH
    Clients <- WatchdogFullClients,
    WATCHDOG_TIMEOUT <- WatchdogFull_WATCHDOG_TIMEOUT,
    MaxLate <- WatchdogFullMaxLate, Serialized <- TRUE, entries <- s1,
    free <- s2, scan <- s3, feed <- s4, status <- s5, alive <- s6,
    pinged <- s7
WatchdogPart == INSTANCE ClientWatchdog_proofs WITH
    Clients <- WatchdogClients, WATCHDOG_TIMEOUT <- Watchdog_WATCHDOG_TIMEOUT,
    MaxLate <- WatchdogMaxLate, Serialized <- TRUE, entries <- s1, free <- s2,
    scan <- s3, feed <- s4, status <- s5, alive <- s6, pinged <- s7
PumpPart == INSTANCE TunnelPump_proofs WITH
    BufSize <- PumpBufSize, pc <- s1, state <- s2, toLocal <- s3,
    toRemote <- s4, flag <- s5, remote <- s6, local <- s7
PumpChunksPart == INSTANCE TunnelPump_proofs WITH
    BufSize <- PumpChunksBufSize, pc <- s1, state <- s2, toLocal <- s3,
    toRemote <- s4, flag <- s5, remote <- s6, local <- s7
SftpPart == INSTANCE SftpFile WITH
    SeekAnyTime <- FALSE, mode <- s1, pc <- s2, size <- s3, state <- s4,
    offset <- s5, offsetSent <- s6, acked <- s7, eof <- s8, kept <- s9,
    chunks <- s10, zombies <- s11, inbox <- s12, wire <- s13, requests <- s14,
    stored <- s15, buf <- s16, ret <- s17, pos <- s18, from <- s19,
    reported <- s20, torn <- s21
ReceivePart == INSTANCE SshReceive WITH
    BufSize <- ReceiveBufSize, framing <- s1, sizes <- s2, pc <- s3,
    ret <- s4, newkeys <- s5, readidx <- s6, writeidx <- s7, total_num <- s8,
    packet_length <- s9, padding_length <- s10, payload <- s11,
    created <- s12, macOk <- s13, seqno <- s14, cleared <- s15, broken <- s16,
    delivered <- s17
KexPart == INSTANCE SshKex WITH
    ClientKex <- <<"curve", "ecdh", "gex", "dh">>,
    ServerKex <- {<<"curve">>, <<"dh", "ecdh">>, <<"gex">>, <<"rsa", "dh">>, <<"dh">>, <<"rsa", "gex">>, <<"rsa">>},
    ClientHostkey <- <<"ed", "rsa">>,
    ServerHostkey <- {<<"rsa">>, <<"rsa", "ed">>},
    ClientCrypt <- <<"chacha", "aes">>,
    ServerCrypt <- {<<"aes">>, <<"aes", "chacha">>},
    ClientMac <- <<"etm", "mac">>, ServerMac <- {<<"mac">>, <<>>},
    Integrated <- {"chacha"}, MaxExchanges <- 2, server <- s1, pc <- s2,
    ret <- s3, n <- s4, kstate <- s5, low <- s6, ex <- s7, kex <- s8,
    methods <- s9, burn <- s10, localKexinit <- s11, remoteKexinit <- s12,
    kexinitData <- s13, pub <- s14, session_id <- s15, keys <- s16,
    newkeys <- s17, held <- s18, lost <- s19, sent <- s20, inbox <- s21,
    srv <- s22, signed <- s23, burned <- s24

\* The calls of libssh2 while another part runs.
CallsIdle ==
  /\ stack = <<>> /\ ret = "none" /\ again = "none" /\ locals = "fresh"
  /\ at = <<>> /\ blocks = {} /\ lost = {} /\ wild = {}
  /\ garbled = {} /\ foreign = {} /\ hopeless = {} /\ due = <<>> /\ inbox = <<>>
  /\ alive = TRUE /\ authed = FALSE /\ granted = FALSE /\ honest = TRUE
  /\ use = "none" /\ stage = "new" /\ failed = "none"

PartsInit ==
  \/ part = "calls" /\ CallsInit /\ Unused1
  \/ /\ CallsIdle
     /\ \/ part = "keypad" /\ KeypadPart!Init /\ Unused7
        \/ part = "scanner" /\ ScannerPart!Init /\ Unused8
        \/ part = "timers" /\ TimersPart!Init /\ Unused8
        \/ part = "calendar" /\ CalendarPart!Init /\ Unused4
        \/ part = "creds" /\ CredsPart!Init /\ Unused6
        \/ part = "provisioning" /\ ProvisioningPart!Init /\ Unused9
        \/ part = "log" /\ LogPart!Init /\ Unused13
        \/ part = "logSerial" /\ LogSerialPart!Init /\ Unused13
        \/ part = "watchdogFull" /\ WatchdogFullPart!Init /\ Unused8
        \/ part = "watchdog" /\ WatchdogPart!Init /\ Unused8
        \/ part = "pump" /\ PumpPart!Init /\ Unused8
        \/ part = "pumpChunks" /\ PumpChunksPart!Init /\ Unused8
        \/ part = "session" /\ SessionPart!Init /\ Unused12
        \/ part = "breaker" /\ BreakerPart!Init /\ Unused4
        \/ part = "direct" /\ DirectPart!Init /\ Unused14
        \/ part = "sftp" /\ SftpPart!Init /\ Unused22
        \/ part = "receive" /\ ReceivePart!Init /\ Unused18
        \/ part = "kex" /\ KexPart!Init

PartsNext ==
  \/ part = "calls" /\ CallsNext /\ Keep1 /\ UNCHANGED part
  \/ part = "keypad" /\ KeypadPart!Next /\ Keep7 /\ UNCHANGED <<part, vars>>
  \/ part = "scanner" /\ ScannerPart!Next /\ Keep8 /\ UNCHANGED <<part, vars>>
  \/ part = "timers" /\ TimersPart!Next /\ Keep8 /\ UNCHANGED <<part, vars>>
  \/ part = "calendar" /\ CalendarPart!Next /\ Keep4 /\ UNCHANGED <<part, vars>>
  \/ part = "creds" /\ CredsPart!Next /\ Keep6 /\ UNCHANGED <<part, vars>>
  \/ part = "provisioning" /\ ProvisioningPart!Next /\ Keep9 /\ UNCHANGED <<part, vars>>
  \/ part = "log" /\ LogPart!Next /\ Keep13 /\ UNCHANGED <<part, vars>>
  \/ part = "logSerial" /\ LogSerialPart!Next /\ Keep13 /\ UNCHANGED <<part, vars>>
  \/ part = "watchdogFull" /\ WatchdogFullPart!Next /\ Keep8 /\ UNCHANGED <<part, vars>>
  \/ part = "watchdog" /\ WatchdogPart!Next /\ Keep8 /\ UNCHANGED <<part, vars>>
  \/ part = "pump" /\ PumpPart!Next /\ Keep8 /\ UNCHANGED <<part, vars>>
  \/ part = "pumpChunks" /\ PumpChunksPart!Next /\ Keep8 /\ UNCHANGED <<part, vars>>
  \/ part = "session" /\ SessionPart!Next /\ Keep12 /\ UNCHANGED <<part, vars>>
  \/ part = "breaker" /\ BreakerPart!Next /\ Keep4 /\ UNCHANGED <<part, vars>>
  \/ part = "direct" /\ DirectPart!Next /\ Keep14 /\ UNCHANGED <<part, vars>>
  \/ part = "sftp" /\ SftpPart!Next /\ Keep22 /\ UNCHANGED <<part, vars>>
  \/ part = "receive" /\ ReceivePart!Next /\ Keep18 /\ UNCHANGED <<part, vars>>
  \/ part = "kex" /\ KexPart!Next /\ UNCHANGED <<part, vars>>

PartsSpec == PartsInit /\ [][PartsNext]_all

-----------------------------------------------------------------------------
\* The type invariants of the parts.
PartsTypeOK ==
  /\ part = "calls" => TypeOK
  /\ part = "keypad" => KeypadPart!TypeOK
  /\ part = "scanner" => ScannerPart!TypeOK
  /\ part = "timers" => TimersPart!TypeOK
  /\ part = "calendar" => CalendarPart!TypeOK
  /\ part = "creds" => CredsPart!TypeOK
  /\ part = "provisioning" => ProvisioningPart!TypeOK
  /\ part = "log" => LogPart!TypeOK
  /\ part = "logSerial" => LogSerialPart!TypeOK
  /\ part = "watchdogFull" => WatchdogFullPart!TypeOK
  /\ part = "watchdog" => WatchdogPart!TypeOK
  /\ part = "pump" => PumpPart!TypeOK
  /\ part = "pumpChunks" => PumpChunksPart!TypeOK
  /\ part = "session" => SessionPart!TypeOK
  /\ part = "breaker" => BreakerPart!TypeOK
  /\ part = "direct" => DirectPart!TypeOK
  /\ part = "sftp" => SftpPart!TypeOK
  /\ part = "receive" => ReceivePart!TypeOK
  /\ part = "kex" => KexPart!TypeOK

\* What the user does counts in the state it is done in: the password
\* submitted is the one typed since the box asked, with nothing of an
\* earlier attempt in it, Cancel is that of the screen shown, a scan takes
\* no left-over of an earlier one, and the lamp is on only while the box
\* waits for a code. (Keypad, QrScanner.)
InputOfThisState ==
  /\ part = "keypad" => KeypadPart!SubmittedIsTyped
  /\ part = "keypad" => KeypadPart!CancelOfThisState
  /\ part = "scanner" => ScannerPart!NoLeftover
  /\ part = "scanner" => ScannerPart!LampOnlyInScan

\* Wherever the counter of milliseconds wraps around: an action runs at the
\* first round of loop() after its time, none is overdue after a round, and
\* a mapping that failed too often is refused for exactly its delay.
\* (LoopTimers, CircuitBreaker.)
TimeoutsExact ==
  /\ part = "timers" => TimersPart!FiresOnTime
  /\ part = "timers" => TimersPart!NothingOverdue
  /\ part = "breaker" => BreakerPart!BacksOffForDelay

\* Dates are numbered as the calendar counts them, refused when it does not
\* have them and shown as entered; no sequence of requests leaves a validity
\* that ends before it begins; a code is accepted only by a valid credential
\* with uses left; a page shows each credential once. (CalendarDates,
\* CredProtocol.)
CredRequestsExact ==
  /\ part = "calendar" => CalendarPart!CountsDays
  /\ part = "calendar" => CalendarPart!ShownAsEntered
  /\ part = "calendar" => CalendarPart!OnlyRealDates
  /\ part = "creds" => CredsPart!NeverBackwards
  /\ part = "creds" => CredsPart!AcceptedIsValid
  /\ part = "creds" => CredsPart!ShownOnce

\* The active configuration is one whole document over the defaults, and
\* from the moment a download is committed every start runs with one,
\* wherever power fails. (Provisioning.)
ConfigurationWhole ==
  /\ part = "provisioning" => ProvisioningPart!WholeOrNothing
  /\ part = "provisioning" => ProvisioningPart!InstalledRuns

\* The answer of the log server stays inside its buffer although loop()
\* clears it between the check and the copy, and frames go only to a server
\* that has accepted the upgrade of this very connection. (LogLink.)
LinkSound ==
  /\ part = "log" => LogPart!ResponseFits
  /\ part = "logSerial" => LogSerialPart!FramesAfterUpgrade

\* Between two operations every entry of the watchdog belongs to a client,
\* none twice, and every client that found room has an entry: "Track last
\* pong time for each client" (websocket.h:85). (ClientWatchdog.)
ClientsTracked ==
  /\ part = "watchdogFull" => WatchdogFullPart!EntriesAreClients
  /\ part = "watchdog" => WatchdogPart!EachClientTracked

\* What each end of a tunnel channel gets is in the order in which it was
\* sent, the response without a gap, and EOF comes after all of it.
\* (TunnelPump.)
BytesInOrder ==
  /\ part = "pump" => PumpPart!ResponseInOrder
  /\ part = "pumpChunks" => PumpChunksPart!ResponseInOrder
  /\ part = "pump" => PumpPart!RequestInOrder
  /\ part = "pumpChunks" => PumpChunksPart!RequestInOrder
  /\ part = "pump" => PumpPart!EofAfterResponse
  /\ part = "pumpChunks" => PumpChunksPart!EofAfterResponse

\* Secrets go to the host the applied configuration trusts and to no other,
\* a session that is reported serves what was configured, and after a
\* failure at any step nothing is left of it. (TunnelSession.)
SessionSound ==
  /\ part = "session" => SessionPart!SecretToTrustedHost
  /\ part = "session" => SessionPart!NothingLeft
  /\ part = "session" => SessionPart!ConnectedServes

\* What write() reports is what went out; a channel that libssh2 holds
\* belongs to its client, unless attach() or the destructor dropped it after
\* a stop() that ran out of time; and no channel is used that the client has
\* freed itself. (DirectClient.)
DirectSound ==
  /\ part = "direct" => DirectPart!WrittenIsSent
  /\ part = "direct" => DirectPart!NotLost
  /\ part = "direct" => DirectPart!FreedOnce

\* Over requests sent ahead, answers in any order, partial buffers and
\* seeks: bytes are read in order, end of file is its end, bytes reported as
\* written are stored, and every request is answered to somebody.
\* (SftpFile.)
FileExact ==
  /\ part = "sftp" => SftpPart!ReadInOrder
  /\ part = "sftp" => SftpPart!EndIsEnd
  /\ part = "sftp" => SftpPart!ReportedIsStored
  /\ part = "sftp" => SftpPart!EachAnswered

\* However recv() cuts the stream and wherever a call is left with EAGAIN:
\* packets are handed on whole, once and in order, only whole blocks are
\* decrypted inside their buffers, and EAGAIN means that something is
\* missing. (SshReceive.)
StreamReassembled ==
  /\ part = "receive" => ReceivePart!HandedOnWhole
  /\ part = "receive" => ReceivePart!InBounds
  /\ part = "receive" => ReceivePart!EagainMeansMissing

\* New keys are used only after a signature over this very exchange, they
\* are the server's, the session identifier stays, everything allocated is
\* freed however the exchange ends, and only a wrong guess is thrown away.
\* (SshKex.)
ExchangeSound ==
  /\ part = "kex" => KexPart!NewkeysSigned
  /\ part = "kex" => KexPart!KeysMatch
  /\ part = "kex" => KexPart!NothingLeft
  /\ part = "kex" => KexPart!OnlyGuessBurned

\* A door contact is seen to change only after it has been quiet for the
\* debounce time, a request or a use changes the credential it names and
\* nothing else, and data on the flash is not formatted away. (LoopTimers,
\* CredProtocol, Provisioning.)
OnlyAsAsked ==
  [][/\ part = "timers" => TimersPart!SettledStep
     /\ part = "creds" => CredsPart!ChargedStep
     /\ part = "creds" => CredsPart!NamedOnlyStep
     /\ part = "provisioning" => ProvisioningPart!KeepsDataStep]_all
=============================================================================
