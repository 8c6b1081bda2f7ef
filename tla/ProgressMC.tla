----------------------------- MODULE ProgressMC -----------------------------
(***************************************************************************)
(* The parts of the system that have to get on, each under the fairness its *)
(* code justifies: a behaviour is one of `part', on its own instance, and the *)
(* variables of the others keep their initial values.  The log queue is    *)
(* extended, the others are instantiated.                                  *)
(***************************************************************************)
EXTENDS LogQueue

CONSTANTS
  \* log
  LOG_HANDSHAKE_TIMEOUT, LOG_IDLE_DISCONNECT_DELAY, LOG_RECONNECT_INTERVAL,
  LOG_HANDSHAKE_RESPONSE_MAX_LEN, MaxLag, MaxEvents,
  \* watchdog
  Clients, NoClient, DEFAULT_MAX_WS_CLIENTS, WATCHDOG_INTERVAL,
  WATCHDOG_TIMEOUT, MaxLate,
  \* vpn
  WIFI_RECOVERY_RESET_INTERVAL, AssociationTime, ReconnectDelay,
  StaleCooldown, MaxFaults,
  \* pump
  MaxRequest, MaxResponse, Capacity, PREPEND_CAP, BufSize, LowMark, HighMark,
  \* tunnel
  Channel, NoChannel, MaxSlots, Listeners, FailLimit, MAX_PENDING,
  MAX_DEFERRED_CLOSE, MaxReconnectAttempts, BaseDelay, MaxDelay,
  \* send
  Senders, MaxPackets, MaxKeepalives, MaxRekeys

VARIABLES
  part,  \* the part that runs
  clock_pc, clock_chip, clock_present, clock_system, clock_flags,
  clock_pending, clock_start, clock_stale,
  log_state, log_tcp, log_events, log_upgraded, log_len, log_text, log_cb,
  log_pc, log_pending, log_age, log_wait, log_lag,
  watchdog_entries, watchdog_free, watchdog_scan, watchdog_feed,
  watchdog_status, watchdog_alive, watchdog_pinged,
  vpn_wifi, vpn_attempt, vpn_server, vpn_tunnel, vpn_wifiState, vpn_recovery,
  vpn_loopAt, vpn_queue, vpn_worker, vpn_state, vpn_configured,
  vpn_initialized, vpn_delay, vpn_wanted, vpn_faults,
  pump_pc, pump_state, pump_toLocal, pump_toRemote, pump_flag, pump_remote,
  pump_local,
  tunnel_pc, tunnel_at, tunnel_state, tunnel_mem, tunnel_fails,
  tunnel_attempts, tunnel_waited, tunnel_link, tunnel_server,
  send_caller, send_pc, send_busy, send_done, send_pings, send_out,
  send_outSeq, send_begun, send_seqno, send_wire, send_kex, send_answer,
  send_rekeys

clock_vars == <<clock_pc, clock_chip, clock_present, clock_system,
    clock_flags, clock_pending, clock_start, clock_stale>>
log_vars == <<log_state, log_tcp, log_events, log_upgraded, log_len,
    log_text, log_cb, log_pc, log_pending, log_age, log_wait, log_lag>>
watchdog_vars == <<watchdog_entries, watchdog_free, watchdog_scan,
    watchdog_feed, watchdog_status, watchdog_alive, watchdog_pinged>>
vpn_vars == <<vpn_wifi, vpn_attempt, vpn_server, vpn_tunnel, vpn_wifiState,
    vpn_recovery, vpn_loopAt, vpn_queue, vpn_worker, vpn_state,
    vpn_configured, vpn_initialized, vpn_delay, vpn_wanted, vpn_faults>>
pump_vars == <<pump_pc, pump_state, pump_toLocal, pump_toRemote, pump_flag,
    pump_remote, pump_local>>
tunnel_vars == <<tunnel_pc, tunnel_at, tunnel_state, tunnel_mem,
    tunnel_fails, tunnel_attempts, tunnel_waited, tunnel_link, tunnel_server>>
send_vars == <<send_caller, send_pc, send_busy, send_done, send_pings,
    send_out, send_outSeq, send_begun, send_seqno, send_wire, send_kex,
    send_answer, send_rekeys>>
all == <<part, vars, clock_vars, log_vars, watchdog_vars, vpn_vars, pump_vars, tunnel_vars, send_vars>>

ClockPart == INSTANCE BoxClock WITH
    pc <- clock_pc, chip <- clock_chip, present <- clock_present,
    system <- clock_system, flags <- clock_flags, pending <- clock_pending,
    start <- clock_start, stale <- clock_stale
LogPart == INSTANCE LogLink WITH
    Preemptive <- TRUE, state <- log_state, tcp <- log_tcp,
    events <- log_events, upgraded <- log_upgraded, len <- log_len,
    text <- log_text, cb <- log_cb, pc <- log_pc, pending <- log_pending,
    age <- log_age, wait <- log_wait, lag <- log_lag
WatchdogPart == INSTANCE ClientWatchdog WITH
    Serialized <- TRUE, entries <- watchdog_entries, free <- watchdog_free,
    scan <- watchdog_scan, feed <- watchdog_feed, status <- watchdog_status,
    alive <- watchdog_alive, pinged <- watchdog_pinged
VpnPart == INSTANCE VpnManager WITH
    BriefLoss <- TRUE, wifi <- vpn_wifi, attempt <- vpn_attempt,
    server <- vpn_server, tunnel <- vpn_tunnel, wifiState <- vpn_wifiState,
    recovery <- vpn_recovery, loopAt <- vpn_loopAt, queue <- vpn_queue,
    worker <- vpn_worker, state <- vpn_state, configured <- vpn_configured,
    initialized <- vpn_initialized, delay <- vpn_delay, wanted <- vpn_wanted,
    faults <- vpn_faults
VpnSteadyPart == INSTANCE VpnManager WITH
    BriefLoss <- FALSE, wifi <- vpn_wifi, attempt <- vpn_attempt,
    server <- vpn_server, tunnel <- vpn_tunnel, wifiState <- vpn_wifiState,
    recovery <- vpn_recovery, loopAt <- vpn_loopAt, queue <- vpn_queue,
    worker <- vpn_worker, state <- vpn_state, configured <- vpn_configured,
    initialized <- vpn_initialized, delay <- vpn_delay, wanted <- vpn_wanted,
    faults <- vpn_faults
PumpPart == INSTANCE TunnelPump WITH
    pc <- pump_pc, state <- pump_state, toLocal <- pump_toLocal,
    toRemote <- pump_toRemote, flag <- pump_flag, remote <- pump_remote,
    local <- pump_local
TunnelPart == INSTANCE Tunnel WITH
    None <- NoChannel, pc <- tunnel_pc, at <- tunnel_at,
    state <- tunnel_state, mem <- tunnel_mem, fails <- tunnel_fails,
    attempts <- tunnel_attempts, waited <- tunnel_waited, link <- tunnel_link,
    server <- tunnel_server
SendPart == INSTANCE SshTransport WITH
    caller <- send_caller, pc <- send_pc, busy <- send_busy,
    done <- send_done, pings <- send_pings, out <- send_out,
    outSeq <- send_outSeq, begun <- send_begun, seqno <- send_seqno,
    wire <- send_wire, kex <- send_kex, answer <- send_answer,
    rekeys <- send_rekeys

Parts == {"queue", "clock", "log", "watchdog", "vpn", "vpnSteady", "pump",
  "tunnel", "send"}

ProgressInit ==
  /\ part \in Parts
  /\ Init
  /\ ClockPart!Init /\ (part # "clock" => clock_present /\ clock_chip.time = "right")
  /\ LogPart!Init
  /\ WatchdogPart!Init
  /\ VpnPart!Init /\ (part \notin {"vpn", "vpnSteady"} => vpn_wifi = "up")
  /\ PumpPart!Init
  /\ TunnelPart!Init /\ (part # "tunnel" => tunnel_server = "up")
  /\ SendPart!Init

\* Only the variables of the part that runs change.
Others ==
  /\ UNCHANGED part
  /\ part # "queue" => UNCHANGED vars
  /\ part # "clock" => UNCHANGED clock_vars
  /\ part # "log" => UNCHANGED log_vars
  /\ part # "watchdog" => UNCHANGED watchdog_vars
  /\ part \notin {"vpn", "vpnSteady"} => UNCHANGED vpn_vars
  /\ part # "pump" => UNCHANGED pump_vars
  /\ part # "tunnel" => UNCHANGED tunnel_vars
  /\ part # "send" => UNCHANGED send_vars

ProgressNext ==
  \/ part = "queue" /\ Next /\ Others
  \/ part = "clock" /\ ClockPart!Next /\ Others
  \/ part = "log" /\ LogPart!Next /\ Others
  \/ part = "watchdog" /\ WatchdogPart!Next /\ Others
  \/ part = "vpn" /\ VpnPart!Next /\ Others
  \/ part = "vpnSteady" /\ VpnSteadyPart!Next /\ Others
  \/ part = "pump" /\ PumpPart!Next /\ Others
  \/ part = "tunnel" /\ TunnelPart!Next /\ Others
  \/ part = "send" /\ SendPart!Next /\ Others

ProgressSpec == ProgressInit /\ [][ProgressNext]_all

-----------------------------------------------------------------------------
\* The type invariants of the parts.
ProgressTypeOK ==
  /\ part = "queue" => TypeOK
  /\ part = "clock" => ClockPart!TypeOK
  /\ part = "log" => LogPart!TypeOK
  /\ part = "watchdog" => WatchdogPart!TypeOK
  /\ part = "vpn" => VpnPart!TypeOK
  /\ part = "pump" => PumpPart!TypeOK
  /\ part = "tunnel" => TunnelPart!TypeOK
  /\ part = "send" => SendPart!TypeOK

\* If the connection stops breaking, everything logged is eventually sent or
\* reported as lost. (LogQueue, under its fairness.)
ProgressDrains ==
  (part = "queue" /\ WF_vars(part = "queue" /\ LoopStep)
   /\ SF_vars(part = "queue" /\ sendNotice)
   /\ SF_vars(part = "queue" /\ sendRecord)
   /\ SF_vars(part = "queue" /\ linkUp)) => Drains

\* A synchronisation ends with the time in the chip and the flag cleared,
\* unless the power fails. (BoxClock, under its fairness.)
SyncReachesChip ==
  (part = "clock" /\ WF_clock_vars(part = "clock" /\ (ClockPart!credsBegin \/ ClockPart!Update))) => ClockPart!SyncReachesChip

\* With records waiting, the transport is never stuck in one of its states,
\* a stale one included. (LogLink, under its fairness.)
KeepsTrying ==
  (part = "log" /\ WF_log_vars(part = "log" /\ LogPart!update)
   /\ WF_log_vars(part = "log" /\ LogPart!callbacks)
   /\ WF_log_vars(part = "log" /\ LogPart!attemptEnds)
   /\ SF_log_vars(part = "log" /\ LogPart!tick /\ log_pc = "idle")
   /\ SF_log_vars(part = "log" /\ LogPart!reconnect /\ log_tcp' = "connecting")
   /\ SF_log_vars(part = "log" /\ LogPart!flushQueue)) => LogPart!KeepsTrying

\* A tracked client that has fallen silent is closed in the end, also when
\* its entry is passed over by the scan that removes its neighbour.
\* (ClientWatchdog, under its fairness.)
DeadClientDropped ==
  (part = "watchdog" /\ WF_watchdog_vars(part = "watchdog" /\ WatchdogPart!loopStep)
   /\ WF_watchdog_vars(part = "watchdog" /\ WatchdogPart!tick)
   /\ \A c \in {1, 2} : WF_watchdog_vars(part = "watchdog" /\ WatchdogPart!onClose(c))) => WatchdogPart!DeadClientDropped

\* checkLinkStatus() gets the Wi-Fi back, also from an association that is
\* stuck. (VpnManager, under its fairness.)
WifiRestored ==
  (part = "vpn" /\ WF_vpn_vars(part = "vpn" /\ VpnPart!checkLinkStatus)
   /\ WF_vpn_vars(part = "vpn" /\ VpnPart!finishOperation)
   /\ WF_vpn_vars(part = "vpn" /\ VpnPart!workerLoop)
   /\ WF_vpn_vars(part = "vpn" /\ VpnPart!tick)
   /\ WF_vpn_vars(part = "vpn" /\ VpnPart!associated)
   /\ SF_vpn_vars(part = "vpn" /\ VpnPart!connectSucceeds)
   /\ SF_vpn_vars(part = "vpn" /\ VpnPart!connectBegins)) => VpnPart!WifiRestored

\* However Wi-Fi, server and tunnel failed before, and whichever task wrote
\* `state' last. (VpnManager, under its fairness.)
TunnelRestored ==
  (part = "vpnSteady" /\ WF_vpn_vars(part = "vpnSteady" /\ VpnSteadyPart!checkLinkStatus)
   /\ WF_vpn_vars(part = "vpnSteady" /\ VpnSteadyPart!finishOperation)
   /\ WF_vpn_vars(part = "vpnSteady" /\ VpnSteadyPart!workerLoop)
   /\ WF_vpn_vars(part = "vpnSteady" /\ VpnSteadyPart!tick)
   /\ WF_vpn_vars(part = "vpnSteady" /\ VpnSteadyPart!associated)
   /\ SF_vpn_vars(part = "vpnSteady" /\ VpnSteadyPart!connectSucceeds)
   /\ SF_vpn_vars(part = "vpnSteady" /\ VpnSteadyPart!connectBegins)) => VpnSteadyPart!TunnelRestored

\* A channel that begins to close gives its slot back. (TunnelPump, under
\* its fairness.)
SlotReturns ==
  (part = "pump" /\ WF_pump_vars(part = "pump" /\ PumpPart!Pump)
   /\ SF_pump_vars(part = "pump" /\ PumpPart!abandonSlot)) => PumpPart!SlotReturns

\* When the server answers from some time on, a tunnel in error comes back
\* or is stopped. (Tunnel, under its fairness.)
Reconnects ==
  (part = "tunnel" /\ WF_tunnel_vars(part = "tunnel" /\ TunnelPart!Loop)
   /\ WF_tunnel_vars(part = "tunnel" /\ TunnelPart!Tick)
   /\ SF_tunnel_vars(part = "tunnel" /\ TunnelPart!acceptWithLock)
   /\ WF_tunnel_vars(part = "tunnel" /\ TunnelPart!queueDone)) => TunnelPart!Reconnects

\* A session whose connection is dead is given up. (Tunnel, under its
\* fairness.)
DeadSessionLeft ==
  (part = "tunnel" /\ WF_tunnel_vars(part = "tunnel" /\ TunnelPart!Loop)
   /\ WF_tunnel_vars(part = "tunnel" /\ TunnelPart!Tick)
   /\ SF_tunnel_vars(part = "tunnel" /\ TunnelPart!acceptWithLock)
   /\ WF_tunnel_vars(part = "tunnel" /\ TunnelPart!queueDone)) => TunnelPart!DeadSessionLeft

\* A call that is repeated is served in the end, unless the session is stuck
\* in that way (transport.c:1022, 914). (SshTransport, under its fairness.)
SendsUnlessStuck ==
  (part = "send" /\ WF_send_vars(part = "send" /\ SendPart!Within)
   /\ WF_send_vars(part = "send" /\ SendPart!serverAnswers)
   /\ \A s \in {"a", "b"} : SF_send_vars(part = "send" /\ SendPart!callSend(s))
   /\ SF_send_vars(part = "send" /\ SendPart!call(SendPart!Reader))
   /\ SF_send_vars(part = "send" /\ SendPart!libssh2_keepalive_send)
   /\ SF_send_vars(part = "send" /\ SendPart!Within /\ SendPart!Progress)) => SendPart!SendsUnlessStuck

\* A time the firmware calls valid, or shows as its start, is right, also
\* after a power failure between the two transfers to the chip; after a
\* synchronisation the credential cache is rebuilt. (BoxClock.)
ClockRight ==
  /\ part = "clock" => ClockPart!StartIsRight
  /\ part = "clock" => ClockPart!ValidIsRight
  /\ part = "clock" => ClockPart!RefreshAhead

\* The last command of loop() wins, whichever it overwrote in the queue, and
\* after a disconnect there is neither a tunnel nor an attempt to open one.
\* (VpnManager.)
CommandsObeyed ==
  /\ part = "vpn" => VpnPart!LastCommandWins
  /\ part = "vpn" => VpnPart!DisconnectObeyed

\* A channel belongs to one slot or queue, none is used after libssh2 freed
\* it, and the count of active slots is theirs, over busy locks, full queues
\* and the loss of the session. (Tunnel.)
ChannelsOwned ==
  /\ part = "tunnel" => TunnelPart!NoUseAfterFree
  /\ part = "tunnel" => TunnelPart!OneOwner
  /\ part = "tunnel" => TunnelPart!CountsActive

\* Packets leave whole, one after the other, numbered as sent, a send that
\* reports success is out, and nothing but the key exchange is sent during
\* one. (SshTransport.)
PacketsWhole ==
  /\ part = "send" => SendPart!WholePackets
  /\ part = "send" => SendPart!NumberedAsSent
  /\ part = "send" => SendPart!ReportedIsSent
  /\ part = "send" => SendPart!QuietInKex

\* What was begun ends: queued records drain, a synchronised time reaches
\* the chip, a dead client is dropped, a closing channel gives its slot
\* back, a repeated send ends unless a key exchange is stuck.
WorkEnds ==
  /\ ProgressDrains
  /\ SyncReachesChip
  /\ DeadClientDropped
  /\ SlotReturns
  /\ SendsUnlessStuck

\* What was lost comes back: the log connection is tried again while records
\* wait, Wi-Fi and VPN are restored, the tunnel reconnects and leaves a dead
\* session.
ConnectionsReturn ==
  /\ KeepsTrying
  /\ WifiRestored
  /\ TunnelRestored
  /\ Reconnects
  /\ DeadSessionLeft
=============================================================================
