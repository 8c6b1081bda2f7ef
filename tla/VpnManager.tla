----------------------------- MODULE VpnManager -----------------------------
(***************************************************************************)
(* The Wi-Fi and VPN links: checkLinkStatus() and startVpn() of main.cpp,  *)
(* class VPNManager of vpn_manager.cpp with its worker task.               *)
(*                                                                         *)
(* loop() notices that the Wi-Fi is lost or back and tells the worker      *)
(* through a queue with room for one command, which the next one replaces. *)
(* The worker opens the tunnel, watches it and retries after a delay.      *)
(* Both tasks write `state'.  The Wi-Fi station and the tunnel are         *)
(* external; an association may get stuck until it is started again.       *)
(***************************************************************************)
EXTENDS Naturals

CONSTANTS
  WIFI_RECOVERY_RESET_INTERVAL, (* 15 s in the code                         *)
  AssociationTime,  (* external: how long an association takes, less than   *)
                    (* WIFI_RECOVERY_RESET_INTERVAL                         *)
  ReconnectDelay,   (* config.reconnectDelayMs, 5 s                         *)
  StaleCooldown,    (* config.staleRemoteListenerCooldownMs, 35 s           *)
  MaxFaults,        (* bound: losses of the access point, server or tunnel  *)
  BriefLoss         (* whether the Wi-Fi can be lost within checkLinkStatus *)

VARIABLES
  wifi,        (* external: "up", "trying" or "stuck"                       *)
  attempt,     (* external: age of the association attempt                  *)
  server,      (* external: "up", "down", or "stale" (the port is taken)    *)
  tunnel,      (* external: whether the SSH tunnel is open                  *)
  wifiState,   (* main.cpp: the Wi-Fi as last seen                          *)
  recovery,    (* main.cpp: wifiRecoveryActive and the age of the last reset*)
  loopAt,      (* "idle", or the command queued by an unfinished operation  *)
  queue,       (* commandQueue: "none", "configure" or "disconnect"         *)
  worker,      (* "idle", the command received, or "connecting"             *)
  state,       (* VPNManager::state                                         *)
  configured, initialized,
  delay,       (* time left until canAttemptConnect()                       *)
  wanted,      (* history: the last operation was startVpn()                *)
  faults       (* faults so far                                             *)

env == <<wifi, attempt, server, faults>>
mainVars == <<wifiState, recovery, loopAt, wanted>>
vpnVars == <<queue, worker, state, configured, initialized, delay, tunnel>>
vars == <<env, mainVars, vpnVars>>

VPNConnectionState == {"Unconfigured", "Disconnected", "Connecting", "Connected",
                       "StaleRemoteListener", "Error"}

TypeOK ==
  /\ wifi \in {"up", "trying", "stuck"} /\ attempt \in 0 .. AssociationTime
  /\ server \in {"up", "down", "stale"} /\ faults \in 0 .. MaxFaults
  /\ tunnel \in BOOLEAN /\ wifiState \in BOOLEAN /\ wanted \in BOOLEAN
  /\ recovery \in [active : BOOLEAN, age : 0 .. WIFI_RECOVERY_RESET_INTERVAL]
  /\ loopAt \in {"idle", "configure", "disconnect"}
  /\ queue \in {"none", "configure", "disconnect"}
  /\ worker \in {"idle", "configure", "disconnect", "connecting"}
  /\ state \in VPNConnectionState
  /\ configured \in BOOLEAN /\ initialized \in BOOLEAN
  /\ delay \in 0 .. StaleCooldown + ReconnectDelay

\* The end of setup(): the Wi-Fi may or may not have come up in time.
Init ==
  /\ wifi \in {"up", "trying"} /\ attempt = 0 /\ server = "up" /\ faults = 0
  /\ wifiState = (wifi = "up")
  /\ recovery = [active |-> FALSE, age |-> 0]
  /\ IF wifi = "up" THEN loopAt = "configure" /\ queue = "configure" /\ wanted = TRUE
                    ELSE loopAt = "idle" /\ queue = "none" /\ wanted = FALSE
  /\ worker = "idle" /\ state = "Unconfigured" /\ tunnel = FALSE
  /\ configured = FALSE /\ initialized = FALSE /\ delay = 0

----------------------------------------------------------------------------
(* loop(): VPNManager's interface and checkLinkStatus() *)

\* begin() and disconnect() replace what is in the queue, then write the state.
xQueueOverwrite(command) == queue' = command /\ loopAt' = command

finishOperation ==
  /\ loopAt # "idle" /\ loopAt' = "idle"
  /\ state' = "Disconnected"
  /\ UNCHANGED <<env, wifiState, recovery, wanted, queue, worker, configured, initialized,
                 delay, tunnel>>

linkLost ==
  /\ loopAt = "idle" /\ wifi # "up" /\ wifiState
  /\ xQueueOverwrite("disconnect") /\ wanted' = FALSE
  /\ wifiState' = FALSE
  /\ recovery' = [active |-> TRUE, age |-> 0]
  /\ UNCHANGED <<env, worker, state, configured, initialized, delay, tunnel>>

\* The first look at a Wi-Fi that never was up: WiFi.reconnect().
recoveryBegins ==
  /\ loopAt = "idle" /\ wifi # "up" /\ ~wifiState /\ ~recovery.active
  /\ recovery' = [active |-> TRUE, age |-> 0]
  /\ wifi' = "trying" /\ attempt' = 0
  /\ UNCHANGED <<server, faults, wifiState, loopAt, wanted, vpnVars>>

\* "Restart the association only after allowing the previous attempt to complete."
restartAssociation ==
  /\ loopAt = "idle" /\ wifi # "up" /\ ~wifiState /\ recovery.active
  /\ recovery.age >= WIFI_RECOVERY_RESET_INTERVAL
  /\ wifi' = "trying" /\ attempt' = 0
  /\ recovery' = [active |-> TRUE, age |-> 0]
  /\ UNCHANGED <<server, faults, wifiState, loopAt, wanted, vpnVars>>

\* The Wi-Fi is back: startVpn(), which looks at the Wi-Fi once more.
linkRestored ==
  /\ loopAt = "idle" /\ wifi = "up" /\ ~wifiState
  /\ wifiState' = TRUE /\ wanted' = TRUE
  /\ recovery' = [recovery EXCEPT !.active = FALSE]
  /\ xQueueOverwrite("configure")
  /\ UNCHANGED <<env, worker, state, configured, initialized, delay, tunnel>>

\* ... and does nothing when it is lost again meanwhile.
restoredInVain ==
  /\ BriefLoss /\ loopAt = "idle" /\ wifi = "up" /\ ~wifiState /\ faults < MaxFaults
  /\ wifiState' = TRUE
  /\ recovery' = [recovery EXCEPT !.active = FALSE]
  /\ wifi' = "trying" /\ attempt' = 0 /\ faults' = faults + 1
  /\ UNCHANGED <<server, loopAt, wanted, vpnVars>>

linkUp ==
  /\ loopAt = "idle" /\ wifi = "up" /\ wifiState /\ recovery.active
  /\ recovery' = [recovery EXCEPT !.active = FALSE]
  /\ UNCHANGED <<env, wifiState, loopAt, wanted, vpnVars>>

checkLinkStatus == linkLost \/ recoveryBegins \/ restartAssociation \/ linkRestored
                   \/ restoredInVain \/ linkUp

----------------------------------------------------------------------------
(* The worker task *)

xQueueReceive ==
  /\ worker = "idle" /\ queue # "none"
  /\ worker' = queue /\ queue' = "none"
  /\ UNCHANGED <<env, mainVars, state, configured, initialized, delay, tunnel>>

\* Mutant: the tunnel stays open when the VPN is disconnected.
disconnectKeepsTunnel ==
  /\ worker = "disconnect" /\ worker' = "idle"
  /\ configured' = FALSE /\ state' = "Unconfigured" /\ delay' = 0
  /\ UNCHANGED <<env, mainVars, queue, initialized, tunnel>>

disconnectInternal ==
  /\ worker = "disconnect" /\ worker' = "idle"
  /\ tunnel' = FALSE /\ delay' = 0
  /\ configured' = FALSE /\ state' = "Unconfigured"
  /\ UNCHANGED <<env, mainVars, queue, initialized>>

applyConfig ==
  /\ worker = "configure" /\ worker' = "idle"
  /\ tunnel' = FALSE /\ delay' = 0 /\ initialized' = FALSE
  /\ configured' = TRUE /\ state' = "Disconnected"
  /\ UNCHANGED <<env, mainVars, queue>>

working == worker = "idle" /\ queue = "none" /\ configured
mayConnect == ~initialized \/ state \in {"Disconnected", "Error", "StaleRemoteListener"}

scheduleReconnect(failure, ms) == state' = failure /\ delay' = ms
reverseListenerFailed == server = "stale"
failed == IF reverseListenerFailed
            THEN scheduleReconnect("StaleRemoteListener", StaleCooldown)
            ELSE scheduleReconnect("Error", ReconnectDelay)

\* connectInternal(): a tunnel that is open already, a failed init(), or
\* connectSSH(), which may block until its timeout.
foundConnected ==
  /\ working /\ mayConnect /\ delay = 0 /\ tunnel
  /\ state' = "Connected"
  /\ UNCHANGED <<env, mainVars, queue, worker, configured, initialized, delay, tunnel>>

initFails ==
  /\ working /\ mayConnect /\ delay = 0 /\ ~tunnel /\ ~initialized
  /\ scheduleReconnect("Error", ReconnectDelay)
  /\ UNCHANGED <<env, mainVars, queue, worker, configured, initialized, tunnel>>

connectBegins ==
  /\ working /\ mayConnect /\ delay = 0 /\ ~tunnel
  /\ initialized' = TRUE /\ state' = "Connecting" /\ worker' = "connecting"
  /\ UNCHANGED <<env, mainVars, queue, configured, delay, tunnel>>

connectSucceeds ==
  /\ worker = "connecting" /\ wifi = "up" /\ server = "up"
  /\ worker' = "idle" /\ state' = "Connected" /\ delay' = 0 /\ tunnel' = TRUE
  /\ UNCHANGED <<env, mainVars, queue, configured, initialized>>

\* Mutant: the delays of failures add up.
connectFailsTwice ==
  /\ worker = "connecting" /\ worker' = "idle"
  /\ scheduleReconnect("Error", StaleCooldown + ReconnectDelay + 1)
  /\ UNCHANGED <<env, mainVars, queue, configured, initialized, tunnel>>

connectFails ==
  /\ worker = "connecting" /\ worker' = "idle"
  /\ failed
  /\ UNCHANGED <<env, mainVars, queue, configured, initialized, tunnel>>

\* updateInternal() with a tunnel: SSHTunnel::loop() and a look at the result.
tunnelLoop ==
  /\ working /\ ~mayConnect /\ (state = "Connected" \/ tunnel)
  /\ IF tunnel THEN state' = "Connected" /\ UNCHANGED delay ELSE failed
  /\ UNCHANGED <<env, mainVars, queue, worker, configured, initialized, tunnel>>

workerLoop == xQueueReceive \/ disconnectInternal \/ applyConfig \/ foundConnected
              \/ initFails \/ connectBegins \/ connectSucceeds \/ connectFails \/ tunnelLoop

----------------------------------------------------------------------------
(* The rest of the world *)

associated ==
  /\ wifi = "trying" /\ attempt = AssociationTime
  /\ wifi' = "up" /\ attempt' = 0
  /\ UNCHANGED <<server, faults, mainVars, vpnVars>>

wifiLost ==
  /\ wifi # "stuck" /\ faults < MaxFaults /\ faults' = faults + 1
  /\ wifi' \in {"trying", "stuck"} \ {wifi} /\ attempt' = 0
  /\ UNCHANGED <<server, mainVars, vpnVars>>

serverChanges ==
  /\ server' \in {"up", "down", "stale"} \ {server}
  /\ server' = "up" \/ faults < MaxFaults
  /\ faults' = IF server' = "up" THEN faults ELSE faults + 1
  /\ UNCHANGED <<wifi, attempt, mainVars, vpnVars>>

tunnelLost ==
  /\ tunnel /\ faults < MaxFaults /\ tunnel' = FALSE /\ faults' = faults + 1
  /\ UNCHANGED <<wifi, attempt, server, mainVars, queue, worker, state, configured,
                 initialized, delay>>

tick ==
  /\ ~(wifi = "trying" /\ attempt = AssociationTime)
  /\ attempt' = IF wifi = "trying" /\ attempt < AssociationTime THEN attempt + 1 ELSE attempt
  /\ recovery' = [recovery EXCEPT !.age = IF @ < WIFI_RECOVERY_RESET_INTERVAL THEN @ + 1 ELSE @]
  /\ delay' = IF delay > 0 THEN delay - 1 ELSE 0
  /\ <<attempt', recovery', delay'>> # <<attempt, recovery, delay>>
  /\ UNCHANGED <<wifi, server, faults, wifiState, loopAt, wanted, queue, worker, state,
                 configured, initialized, tunnel>>

Next == checkLinkStatus \/ finishOperation \/ workerLoop \/ associated \/ wifiLost
        \/ serverChanges \/ tunnelLost \/ tick

\* loop() and the worker keep running, time passes, an association that is not
\* stuck ends, and a server that can be reached is reached at some attempt.
Fairness ==
  /\ WF_vars(checkLinkStatus) /\ WF_vars(finishOperation) /\ WF_vars(workerLoop)
  /\ WF_vars(tick) /\ WF_vars(associated)
  /\ SF_vars(connectSucceeds) /\ SF_vars(connectBegins)

Spec == Init /\ [][Next]_vars /\ Fairness

----------------------------------------------------------------------------
(* Properties *)

\* Once the worker has obeyed disconnect(), nothing of the VPN is left: no
\* tunnel, no attempt to open one, and no `Connected', although the worker was
\* in the middle of connecting when loop() asked.
DisconnectObeyed ==
  ~wanted /\ loopAt = "idle" /\ queue = "none" /\ worker = "idle"
    => ~tunnel /\ ~configured /\ state # "Connected"

\* A command that a later one replaced in the queue is not missed: when the
\* worker is done, it is configured if and only if the last command says so.
LastCommandWins ==
  queue = "none" /\ worker \notin {"configure", "disconnect"} => (configured <=> wanted)

\* However Wi-Fi, server and tunnel failed before, and whichever task wrote
\* `state' last: when Wi-Fi and server stay up the tunnel is up in the end, and
\* the box says so.
TunnelRestored ==
  <>[](wifi = "up" /\ server = "up") => <>[](tunnel /\ state = "Connected")

\* checkLinkStatus() gets the Wi-Fi back, also from an association that is
\* stuck: it restarts it, and not so often that none can complete.
WifiRestored == []<>(wifi = "up")

=============================================================================
