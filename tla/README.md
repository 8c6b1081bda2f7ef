# Verification of the OrangeBox firmware

OrangeBox is the controller of a parcel box: an ESP32 with electric door locks,
door contacts, a keypad, a QR scanner, a display, and a web interface over
WebSockets. This directory holds TLA+ models of its core, TLC configurations
that check them, and TLAPS proofs. Paths below are relative to the repository;
the firmware is in `src/` and `include/` (in `PROJECT.json`, where paths start
at the directory that holds the repository, `src/src/` and `src/include/`).

## 1. The system

Four kinds of threads run. The Arduino task calls `loop()` for ever
(`main.cpp:891`): one web request, door contacts, timers, keypad, state
machine, scanner, logger, WebSockets, VPN, Wi-Fi. The AsyncTCP task calls the
WebSocket handlers, which queue opening requests (`handleOpenBox`), change
credentials (`handleSetCred`) and log, and the callbacks of the log connection.
The SNTP task sets the clock. The VPN worker runs the SSH tunnel, with libssh2
underneath; another task may use a direct channel through it.

| Component | State it keeps | Operations | Interacts with | What makes it correct |
|---|---|---|---|---|
| Credential store (`pass_store.cpp`) | a doubly linked list of records in NVS, a cache of the active ones, the credential last verified | add, update, remove, verify, use, refresh cache; at start: repair, reset | AsyncTCP task and `loop()` call it, without a lock | the list survives power failures, acknowledged credentials stay, cache = NVS |
| State machine (`state_machine.cpp`) | state, door to open, verified flags, penalty delay, presence code, timestamps | keyboard, scanner, web, sensor events; timeouts | calls the credential store, locks, light and display; told of events by `loop()` | penalties cannot be escaped, credentials charged for the door they open, every state is left again |
| Doors, locks, light (`gpio_hal.cpp`) | debounced contacts, lock and light outputs | open door, read, debounce, end a pulse | schedules a timer per pulse, reports changes | a pulse always ends |
| Timers (`timer.cpp`) | ten slots | schedule, cancel, update | `loop()` | every scheduled action fires once |
| Log queue (`logger.cpp`) | a ring of 32 records, number of losses | enqueue (any task), flush (`loop()`) | log connection | no record vanishes silently or is sent twice |
| Log connection (`websocket_log_transport.cpp`) | connection state, receive buffer | connect, handshake, send, close | callbacks of AsyncTCP | returns to a usable state after any failure |
| Main (`main.cpp`) | queue of four opening requests, Wi-Fi recovery | `loop()`, web commands, set-up | everything | only `loop()` moves locks |
| Keypad (`keyboard.cpp`) | digits collected | poll, time out | state machine | digits of one state never count in another |
| Scanner (`qr_scanner.cpp`, `box_scanner.cpp`) | mode, bytes of a frame | start, stop, update | state machine, by the state-change callback | a late frame is not taken for a new scan |
| WebSockets (`websocket.cpp`) | handler table, watchdog table | connect, disconnect, pong, scan | AsyncTCP and `loop()` | a live client is not dropped, a dead one is |
| Credential protocol (`cred_protocol.cpp`) | none | parse and check requests | credential store | accepts exactly the valid ones |
| Timeouts (`timeout.h`) | none | unsigned comparison | everything timed | right across the roll-over of `millis()` |
| Clock (`box_rtc.cpp`) | chip, system time, synchronisation flags | start, NTP callback, update | SNTP task, `refreshCache`, the start time kept in NVS | a wrong time is never taken for a valid one, and a synchronisation reaches chip and cache |
| VPN and Wi-Fi (`vpn_manager.cpp`, `main.cpp:853`) | tunnel state, one queued command, retry delay, Wi-Fi recovery | connect, disconnect, worker, link check | worker task, `loop()` | comes back after every failure, stops when told to |
| Provisioning and configuration (`provisioning.cpp`, `box_config*.cpp`) | two files, the active configuration | set-up, gate, download, commit | LittleFS, scanner, keypad | a whole configuration or none, data never formatted away |
| SSH tunnel (`experimental_libs/OrangeBoxSshTunnel`) | session, listeners, channel slots, two queues, rings, circuit breaker | connect, accept, bind, pump, close, reconnect, direct client | libssh2, local sockets, the VPN worker | bytes in order, every channel owned once and never used after it is freed, secrets only to the trusted host |
| libssh2 (`experimental_libs/OrangeBoxLibssh2Esp`) | one state per operation between `EAGAIN` returns, packets, buffers, key exchange | every `libssh2_*` call | the socket, the tunnel | a repeated call goes on where it stood, nothing is lost or freed twice, packets stay whole |
| Display, camera, diagnostics, log formatting, `UI/` | | | | not modelled, see section 9 |

What is hard about it: power failures between NVS writes; two tasks in one
linked list; producers overwriting the ring while it is drained; web requests
that arrive in any state of the state machine; doors that open, close and
bounce in any order; delays that several states start, show and clear; a table
of clients, a connection state and a clock that two tasks write without a lock;
counters that wrap around; a non-blocking SSH library in which every call can
stop anywhere and must be resumed, repeated or given up. The hazards, each at
its line, are in `PROJECT.json`.

## 2. Modules

| Module | Models | Role |
|---|---|---|
| `CredPool` | what the credential store promises: atomic additions, updates, removals, identifiers issued once | abstract |
| `CredStore` | `CredStorage`: NVS, cache, the writes of each operation, start-up repair | implements `CredPool` |
| `CredStoreMC` | instances of `CredStore` | |
| `LogQueue` | `BufferedLogTransport` and what it sees of its connection | |
| `BoxStateMachine` | `BoxStateMachine`, the part of `GpioHAL`, `TimerManager` and `CredStorage` it uses, `loop()` and the opening queue | composition |
| `BoxStateMachine_proofs` | proofs about `BoxStateMachine`: types and the delay after a bad code; doors, charging and the light | |
| `BoxMC` | instances of `BoxStateMachine` | |
| `Keypad` | `BoxKeyboard` and what a change of state does to its input | |
| `QrScanner` | `QrScanner` and `BoxScanner` | |
| `LoopTimers` | `timeout.h`, `TimerManager`, lock pulse and debouncing on a counter that wraps | |
| `CalendarDates` | `parseDate()`, `formatDate()` | against a calendar that turns page after page |
| `CredProtocol` | `cred_protocol.cpp`, the validity checks and the cache order of `pass_store.cpp` | |
| `BoxClock` | `BoxRtc`, its use in `setup()` and `loop()`, `recordStartTime()` | |
| `Provisioning` | `provisioning.cpp`, `box_config.cpp`, `box_config_store.cpp` | |
| `LogLink` | `WebSocketLogTransport` | |
| `ClientWatchdog` | the table of clients of `WebSocketManager` | |
| `VpnManager` | `VPNManager`, its worker, `checkLinkStatus()`, `startVpn()` | |
| `Tunnel` | who owns a channel, reconnection: `SSHTunnel`, `ChannelManager` | |
| `TunnelPump` | `TransportPump`, the rings, the close of a channel | |
| `TunnelSession` | `SSHConfiguration`, `SSHSession::connect()` and its clean-up | |
| `CircuitBreaker` | `circuit_breaker.h` | |
| `DirectClient` | `SSHDirectClient`, `openDirectTcpip()` | |
| `SshCall` | how a call of libssh2 stops and resumes | extended by the next six |
| `SshSessionCalls`, `SshUserauthCalls`, `SshChannelCalls`, `SshScpCalls`, `SshPublickeyCalls`, `SshSftpCalls` | the steps of the calls of `session.c` and `packet.c`, `userauth.c`, `channel.c`, `scp.c`, `publickey.c`, `sftp.c` | |
| `SshCalls` | a program that uses them | composition |
| `SftpFile` | `sftp_read()`, `sftp_write()`, seeks, zombies | |
| `SshReceive` | `_libssh2_transport_read()` | |
| `SshTransport` | `_libssh2_transport_send()`, keepalives, re-exchange of keys | |
| `SshKex` | `kex.c` | |
| `Parts` | one instance each of `LoopTimers`, `CredProtocol`, `TunnelSession`, `CircuitBreaker`, `DirectClient`, `Provisioning` | |
| `PartsMC` | one instance of each of these for safety: extends `Parts`, adds the other parts, and lets one run | composition |
| `ProgressMC` | one instance of each part that has to get on, with fairness; extends `LogQueue` | composition |
| `CredStore_proofs` | proofs about `CredStore`, with the refinement of `CredPool` | |
| `LogLink_proofs`, `ClientWatchdog_proofs`, `TunnelPump_proofs` | proofs about these three | |
| `Parts_proofs` | proofs about the instances of `Parts` | |
| `PartsMC_proofs` | the theorems about `PartsSpec`, from the four modules before | |
| `Progress_proofs` | proofs about `LogQueue`, and about the clock, the VPN manager, the packets and the channels of `ProgressMC` | |

Each module also holds, next to the definition it changes and marked *Mutant*,
the variants of the code that the properties are tested against; nothing else
refers to them. `PROJECT.json` says which property each one breaks.

### CredStore

`nvs` maps each key to a record, to nothing, or to a record of the old format;
`cache` is `credsCache` as a map from identifiers. An operation reads the
records it needs in one step and keeps them in `op[task]`; each following step
is one NVS write or erase, so that `Crash` can come between any two. `acked` is
a history variable: the identifiers `addCred()` has returned. `boot` is the
place in `begin()`: detection of the old format, `ensurePool`, the walk of
`repairCredChain`, `resetPool`, `rebuildCache`. The repair has one action per
way an iteration of its loop ends. `prefs.clear()` is modelled key by key,
because the power can fail in the middle of it. A credential is an `ident`
(name, type and secret, which an update must not change) and an `attr` (door,
validity, uses); which ones `validateCred` accepts and `isActive` caches are
parameters.

Parameters choose the environment: `Serialized` (the two tasks never overlap),
`CrashAnywhere`, `MaxFaults` (failing NVS operations).

### LogQueue

One action per critical section and per send, so that producers come between
them. A record is its sequence number. `sendFails` covers every reason for
`sendNow()` to return false. `sent`, `evicted` and `reported` are histories.
Sequence numbers and losses are natural numbers: the 32-bit counters of the
code wrap after 2^32 records.

### BoxStateMachine

`box` is a record with the context of the state machine, the outputs it drives,
the timer slots and what it uses of the credential store; a handler is an
operator from one value of `box` to the next, as the code calls one method from
another, and an action calls it for the event it models. `at` is the handler
`loop()` calls next. A timestamp is the number of ticks since it was taken,
capped at the timeout it is compared with. Debouncing is abstracted: a contact
that differs from the known state becomes known at some later call of
`updateDoorStates`, in any order with the others. The only timers the firmware
schedules are those that end a lock pulse, so a timer is a door and an age.
`verifyCred` is given the credential that matches, if any; a write that fails
in `usedCred` belongs to `CredStore`. The scanner is modelled by what it tells
the state machine: started or not, a code, garbage, nothing.

`pulsedBy` (the credential the current pulse is for) and `penalty` (what is
left of the delay for the last bad code) are histories.

### The parts

These modules are smaller and each stands for itself; their variables carry the
names of the code's, and their head comment says what a value stands for.

- `Keypad`: a round of `loop()` fetches the presses collected by the converter.
  In `Password` they edit a password in an array with a terminator, elsewhere
  the last one stays in `currentKey` until some state takes it. `intent` is
  what the user has typed since the state was entered.
- `QrScanner`: a byte knows whether it arrived in the present scan (any change
  of state ages what is left), so that a left-over one is seen. Each time-out
  may be found elapsed wherever the code looks at it.
- `LoopTimers`: `millis` counts modulo `Wrap` (2^32 in the code); next to each
  start the model keeps the true age, which the code never sees.
- `CredProtocol`: a request is a record of fields that are given or absent; the
  NVS list is a function here (its links are `CredStore`'s subject), the cache
  is a sequence in the code's order. `last` is the last operation and what it
  found.
- `BoxClock`: a time is right, plausible but wrong, or too early to be valid.
  Power fails between any two steps, also between the two transfers of
  `adjust()`.
- `Provisioning`: a document gives or omits each of four kinds of fields, with
  an acceptable value or not; files survive a power failure, the configuration
  in memory does not.
- `LogLink`: `update()` in `loop()` and the callbacks of AsyncTCP are split at
  the points where the other task can come between (`Preemptive`), with the
  sampled time up to `MaxLag` behind the callbacks'. The server's answer comes
  in one or several pieces; `handleData()` decides on the copy it has made of
  the buffer.
- `ClientWatchdog`: the scan of the table is one step per entry and three per
  removal, so that events of AsyncTCP can come between (`Serialized = FALSE`).
- `VpnManager`: `loop()`, the worker and their one-place queue, with the Wi-Fi
  station, the server and the tunnel as an environment that fails (`MaxFaults`)
  and comes back.
- `Tunnel`: a channel is a pointer that libssh2 may use again after it was
  freed. `mem` has the slots, the pending and the deferred-close queue and what
  libssh2 has allocated; the lock may be busy at every attempt.
- `TunnelPump`: one channel, two rings with a prepend buffer, the four phases
  of `pumpAll()`; each call takes as much as it likes, would block, or fails.
  The bytes of a direction are numbered.
- `TunnelSession`: the steps of `connect()`, each of which fails for any reason
  the code knows, and setters that change the configuration piecewise in
  between.
- `CircuitBreaker`: back-off times in a word that wraps, with 0 as a special
  value.
- `DirectClient`: a step is one call of libssh2 under the lock; the tunnel may
  end the session, with all its channels, and make a new one between any two.
  `stop()` is entered from the owner, from `attach()`, from
  `VPNDirectClient::stop()` and the destructor behind it, and from
  `VPNManager::openDirectTcpip()`, and may run out of time (`late`); of these
  only the owner looks at the result. A channel dropped that way is in
  `abandoned`; a call with a channel that no longer exists is in `misuse`.
- `SshCall` and the modules that extend it: a call of libssh2 is a list of
  steps (build a packet, send it, wait for an answer, call another function,
  return), each with the state (`libssh2_NB_state_*`) it leaves behind, what it
  allocates and frees, and where an error goes. `SshCalls` is the program above
  them: it has one channel, uses a session for one purpose, repeats a call that
  said `EAGAIN` or gives it up by closing what it worked on, reacts to an error
  by one retry or by closing, and closes the public key subsystem after an
  error of it. Places where the code does lose or reuse something are named in
  the properties and listed in section 8.
- `SftpFile`: a byte is named by its offset; requests go ahead of the caller,
  answers come in any order, dropped requests become zombies.
- `SshReceive`: a byte is named by its place in the stream; `recv()` cuts it
  anywhere, for the four ways to frame a packet.
- `SshTransport`: a packet that the socket does not take whole stays in the
  session's only buffer, known by its caller; a re-exchange of keys redirects
  every call.
- `SshKex`: KEXINITs, public values and keys are named by the number of their
  exchange. `held` is what is allocated for the exchange, `lost` what was
  overwritten. The program gives the session up after a failed exchange.

`PartsMC` and `ProgressMC` check many of these in one run: the variable `part`
picks one of them in the initial state, and only its variables change. A
property of a part is stated there as `part = "x" => XPart!P` and cites the
module it comes from. A part may have two instances, for two sets of bounds or
environments.

## 3. Runs

| Run | Configuration | Result |
|---|---|---|
| `credstore_crash` | `CredStoreMC_crash.cfg` | passes: `WellChained`, `Durable`, `CacheCoherent`, `AtomicPool`, `EventuallyUp` with a power failure at any write, in the repair and the reset too |
| `credstore_fault` | `CredStoreMC_fault.cfg` | passes: after one failed NVS operation the next start heals the list (`Healed`) |
| `credstore_write_failure` | `CredStoreMC_write_failure.cfg` | `Durable` is violated: `addCred()` reports success although a write failed |
| `credstore_two_tasks` | `CredStoreMC_two_tasks.cfg` | `CacheCoherent` is violated: the tasks interleave in the store |
| `box_doors` | `BoxMC_doors.cfg` | passes: `OpenTracksDoor`, `OutputsEnd` (`LightFollowsDoor` and `PulseTimed`), `Settles` with web requests and forced doors |
| `box_codes` | `BoxMC_codes.cfg` | passes: `PenaltyServed`, `ChargedExactly` (`ChargedForOpening` and `NoFreeOpening`), `Settles` with keypad and scanner |
| `box_remote` | `BoxMC_remote.cfg` | passes: `PenaltyServed`, `ChargedForOpening` with web requests as well |
| `box_one_door` | `BoxMC_one_door.cfg` | `OneDoorAtATime` is violated: a web request opens a second door |
| `box_free_opening` | `BoxMC_free_opening.cfg` | `NoFreeOpening` is violated: a web request while a door is opening saves the credential |
| `parts` | `PartsMC.cfg` | passes: the safety properties of the parts, see below |
| `progress` | `ProgressMC.cfg` | passes: the log queue's properties, and what the parts reach under fairness, see below |
| `watchdog_tasks` | `ClientWatchdog_tasks.cfg` | `EachClientTracked` is violated: an event of AsyncTCP during the scan of the table |

Every property is stated, with the code it is about, in a comment of its
module. The properties of a part are checked together, under the name of their
conjunction ("Checked as" in the tables below); their own names are the ones
the modules, the proofs and the observations use. A conjunction has one mutant,
which breaks one of its members.

`parts` shows, by part:

| Checked as | Part | Properties | What they say |
|---|---|---|---|
| `CallsKeepState`, `CallsAnswered` | `calls` | `NothingLost`, `CleanEnd`, `OwnAnswer`, `NotHopeless`, `NoDangling`, `AuthGranted` | a call of libssh2 that is resumed, repeated or given up loses no memory, leaves no state behind, takes no other call's answer, waits for no answer that cannot come, uses nothing that was freed; a session is authenticated only when the server said so |
| `InputOfThisState` | `keypad` | `SubmittedIsTyped`, `CancelOfThisState` | a password is what was typed, and never has anything of an earlier one; a Cancel was pressed in the state it ends |
| `InputOfThisState` | `scanner` | `NoLeftover`, `LampOnlyInScan` | a code consists of bytes of this scan; the lamp is on only while scanning |
| `TimeoutsExact`, `OnlyAsAsked` (the last) | `timers` | `FiresOnTime`, `NothingOverdue`, `ChangesSettled` | across the wrap of the counter a timer fires neither early nor late, and a contact is taken over only when it has settled |
| `CredRequestsExact` | `calendar` | `CountsDays`, `ShownAsEntered`, `OnlyRealDates` | the day arithmetic agrees with the calendar |
| `CredRequestsExact`, `OnlyAsAsked` (the last two) | `creds` | `NeverBackwards`, `AcceptedIsValid`, `ShownOnce`, `Charged`, `NamedOnly` | validity, listing, charging and partial changes over any sequence of requests, uses and days |
| `ConfigurationWhole`, `OnlyAsAsked` (the last) | `provisioning` | `WholeOrNothing`, `InstalledRuns`, `KeepsData` | no half-applied configuration, an installed one is found again, data is not formatted away |
| `LinkSound` | `log`, `logSerial` | `ResponseFits`, `FramesAfterUpgrade` | the receive buffer is not overrun; no frame goes out before the upgrade (callbacks not interrupted) |
| `ClientsTracked` | `watchdogFull`, `watchdog` | `EntriesAreClients`, `EachClientTracked` | the table has the clients there are, each once (events between scans; more clients than slots, and as many) |
| `BytesInOrder` | `pump`, `pumpChunks` | `ResponseInOrder`, `RequestInOrder`, `EofAfterResponse` | bytes through partial writes and put-backs, and EOF behind them |
| `SessionSound` | `session` | `SecretToTrustedHost`, `SessionFreed`, `ConnectedServes` | the password goes only to a checked host, a failed connect leaves nothing, a connected session serves the configured mappings |
| `TimeoutsExact` | `breaker` | `BacksOffForDelay` | a port is refused exactly for its delay |
| `DirectSound` | `direct` | `WrittenIsSent`, `NotLost`, `FreedOnce` | bytes counted as written were sent; an allocated channel is the client's unless a late `stop()` was ignored; no channel is used after the client freed it |
| `FileExact` | `sftp` | `ReadInOrder`, `EndIsEnd`, `ReportedIsStored`, `EachAnswered` | file contents, end of file and written counts over requests in flight |
| `StreamReassembled` | `receive` | `HandedOnWhole`, `InBounds`, `EagainMeansMissing` | packets from any cut of the stream |
| `ExchangeSound` | `kex` | `NewkeysSigned`, `KeysMatch`, `ExchangeFreed`, `OnlyGuessBurned` | new keys only after a verified signature over this exchange, the session identifier kept, nothing left, only a wrong guess thrown away |

`progress` shows:

| Part | Checked as | Safety | Liveness |
|---|---|---|---|
| `queue` | `QueueExact` | `Contiguous`, `NothingLost`, `LossesAddUp`, `InOrder` | `ProgressDrains`: the queue empties once the connection holds |
| `clock` | `ClockRight` | `StartIsRight`, `ValidIsRight`, `RefreshAhead` | `SyncReachesChip` |
| `log` |  | | `KeepsTrying`: while records wait no state of the connection is final |
| `watchdog` |  | | `DeadClientDropped` |
| `vpn`, `vpnSteady` | `CommandsObeyed` | `LastCommandWins`, `DisconnectObeyed` | `WifiRestored`; `TunnelRestored` (if the Wi-Fi is not lost within `checkLinkStatus()`) |
| `pump` |  | | `SlotReturns`: a closing channel gives its slot back |
| `tunnel` | `ChannelsOwned` | `NoUseAfterFree`, `OneOwner`, `CountsActive` | `Reconnects`, `DeadSessionLeft` |
| `send` | `PacketsWhole` | `WholePackets`, `NumberedAsSent`, `ReportedIsSent`, `QuietInKex` | `SendsUnlessStuck`: a repeated send ends, except when a key exchange began in the middle of a packet |

`WorkEnds` has `ProgressDrains`, `SyncReachesChip`, `DeadClientDropped`,
`SlotReturns` and `SendsUnlessStuck`; `ConnectionsReturn` the other five.
`PartsTypeOK` and `ProgressTypeOK` are the type invariants of the parts.

### Where code and documentation disagree

- `addCred()` is documented to fail on a storage failure
  (`pass_store.cpp:112`); `writeCred()` looks only at the last of its three
  writes.
- The chain check before an operation is meant to keep the cache in step
  (`pass_store.cpp:32`); with two tasks in the store it does not.
- `Docs/protocol_v2.md:184` promises one door at a time; `handleWebEvent()`
  obeys a request in every state.
- A verified credential is consumed when its door opens
  (`test/pass_store_types.md:40`); not if a web request was taken from the
  queue between the pulse and the opening. The door requested then is not
  pulsed either, since the state machine is in `Opening` already.
- `websocket.h:85` has the watchdog track every client; when a disconnection is
  reported while `loop()` removes the same entry, the count of entries is
  lowered twice (`websocket.cpp:158`) and another client loses its entry.

## 4. Bounds

- Credential store: three identifiers, so that a record has neighbours on both
  sides and is first, middle or last; two secrets; attributes active, inactive
  and refused. `MaxCreds` is below the number of steps the repair may take, as
  4096 steps exceed what the NVS partition holds. One failing operation: with
  two, or with one and a power failure inside an operation, `Healed` does not
  hold, because the repair stops after its first fix.
- Log queue: three slots and seven records, so that the ring wraps twice and
  producers overwrite several records between two critical sections.
- State machine: one or two doors, one with two contacts in `box_doors`; each
  timeout is one or two ticks, shorter and longer than its rivals; `COUNT_MAX`
  3 stands for 255 and `PASS_ERR_MAXMULTIPLY` 2 for 7, so that the count of bad
  codes passes the maximal multiple and saturates; `RequestsPerTick` bounds the
  web requests between two ticks. `MAX_TIMERS` is enough for the pulses that
  fit into `DOOR_DELAY` under that bound. With ten timers and eleven pulses
  within half a second `PulseTimed` would fail, as `openDoor()` ignores the
  result of `scheduleOnce()`; each pulse needs a passage through `loop()` with
  several display writes, which makes that rate doubtful, so it is listed as a
  hazard and not as a finding.

- Parts: the counters of `timers` and `breaker` wrap after 6 and 12 ticks,
  several times the timeouts used, so that every alignment of a timeout with
  the wrap occurs. `calendar` walks two years around 1970, 2000, 2096 (before
  2100), 2400 and 9999. `creds` has two identifiers, two days and limits on
  both sides of them. `keypad` has passwords up to the array's length and up to
  two keys in a batch, so that a key may follow the `#`. `provisioning` has
  every combination of given, absent and bad fields. `watchdogFull` has three
  clients for two slots. The pump moves two bytes each way through rings of
  two, taken singly (so that a put-back meets bytes behind it) and in chunks of
  two (so that a chunk is written in part). `session` has two host keys, key
  types and mappings; `direct` three addresses of channels (one held, one
  dropped, one new) and three bytes; `sftp` a file of three bytes with
  read-ahead two and seven request identifiers; `receive` two packets after
  NEWKEYS of payloads below, at and above a block, in three framings; `kex` two
  exchanges with servers whose lists agree at once, late, by a wrong guess or
  never. `calls` runs every function with at most two unanswered keepalives.
- `progress`: a ring of three records and seven records, two channels for one
  slot and queues of one, two senders with one packet each, one keepalive and
  one re-exchange, three losses of access point, server or tunnel.

Deadlock is not checked in `parts`, `progress` and `watchdog_tasks`, where the
bounds let a behaviour end; that a part does not get stuck is what the liveness
properties of `progress` are for.

## 5. Fairness

- `CredStore`: `begin()` and a started operation run on (weak fairness): they
  wait for nothing. Requests and crashes are not fair. `EventuallyUp` is
  conditional on the crashes ceasing.
- `LogQueue`: `loop()` runs for ever (weak fairness of its steps). A send and a
  connection attempt tried again and again succeed in the end (strong
  fairness); `Drains` is conditional on the connection no longer breaking.
- `ProgressMC` states the fairness of each part in the property that uses it.
  `loop()`, the worker and time go on (weak fairness): `clock`, `log`,
  `watchdog`, `vpn`, `pump`, `tunnel`. The server reports the end of a
  connection it was told to close, and delivers callbacks (`log`, `watchdog`).
  A connection that is tried again and again while the other side is up
  succeeds in the end (strong fairness: `vpn`, `log`); a lock that is asked for
  again and again is granted (`tunnel`); a time-out that is looked at again and
  again is found elapsed (`pump`); callers that got `EAGAIN` call again and the
  socket takes more data in the end (`send`).
- `BoxStateMachine`: `loop()` and time go on (weak fairness); a contact that
  has changed for good is taken over by the debouncing in the end (strong
  fairness of a complete update). Nobody is obliged to press a key or close a
  door; `Settles` is conditional on the doors being closed and users being
  quiet.

## 6. Proofs

The first part of `Progress_proofs` proves, for a ring of any size
(`SizeAssumption`: at least one slot) and any number of records, that `Spec`
implies always `TypeOK`, `Contiguous`, `NothingLost`, `LossesAddUp` and
`InOrder`, together `QueueExact` (`QueueCorrect`). None of the last four is
inductive. The invariant `IInv` adds where a record with a given number can be:
the ring holds exactly the numbers from `Oldest == nextSequence - count` on;
all below `Oldest` were sent or overwritten (`LeftInv`); what was sent is below
`Oldest`, except for the record between its send and its removal; and what
`flushQueue()` holds in its hands is never newer than `Oldest` nor are the
losses it announces more than `dropped` (`FlushInv`). So the record removed is
the one sent or has been overwritten already, and a subtraction never
underflows. `LinkInv`, `FlushStepInv`, `PopInv` and `ProducerInv` are one lemma
per kind of step; `WrapMod` turns the remainders of the ring into one
subtraction, and `QueuedRange` turns `Contiguous` into the interval of numbers
queued.

`BoxStateMachine_proofs` proves, for any doors, contacts and credentials and
for any timeouts (`BoxAssumption`: at least one tick), that `Spec` implies
always `TypeOK` and `PenaltyServed`. `PenaltyServed` speaks only of the states
in which a code is given; what carries it there is `PenaltyInv`: while some of
the penalty is left, the delay of the context is active and lasts at least that
long, and in `Password` and `Scan` no delay is active (`Serving`). The second
part is what makes a bad code start a whole new delay, since `onEnterBadPass()`
keeps a running one. The lemmas follow the calls of the code: what entering
each state leaves alone (`EnterOther`, `EnterCode`, `EnterBadPass`), what each
event handler makes of the context (`HomeKeyHandled`, `CodeHandled`,
`WebHandled`, `SensorHandled`, `TimeoutHandled`), and one step per action of
`loop()` (`LoopInv`), the other tasks (`OutsideInv`) and time (`TickInv`).

For the door every handler of `loop()` has one of seven outcomes: it rests,
contacts change, the box goes idle, a code opens, a web request opens, the door
opens, it closes (`LoopOutcome`, shown once from the handlers). From the
outcomes follow `OpenTracksDoor` and `ChargedForOpening`, for any number of web
requests, through `DoorInv`: while the door of a verified credential is being
opened, that credential is the one the lock pulse was for (`PulseOwned`).
`ChargedExactly` needs `PulseExact` as well, its converse, and with it
`WebUnused` (no web requests, the environment of `box_codes`):
`box_free_opening` shows that a request at the wrong moment saves a credential.
`LightFollowsDoor` has no hypothesis and, with `DoorInv`, is inductive as it
stands: `openFor` tells whether the state `Opening` was entered with a lock
pulse, and keeps doing so when a request replaces the door there (`LightStep`).
No run scans a packet number for a door without a lock (`lockless` in `BoxMC`):
`box_doors` with one has too many states for a run of a few minutes. Only the
theorem covers it.

`CredStore_proofs` proves `TypeOK`, `WellChained`, `Durable`, `CacheCoherent`
and the refinement `AtomicPool`, for any number of identifiers and any
credentials, under `OneAtATime`: one operation at a time and no failing NVS
operation, with power failures anywhere, which is the environment of
`credstore_crash`. Both halves are needed: `credstore_two_tasks` violates
`CacheCoherent` without the first, `credstore_write_failure` violates `Durable`
without the second. `WellChained` speaks of a quiet store only; `StoreInv` says
what NVS looks like in between. There are six shapes: whole (`Clean`), the last
record linked to one not written yet (`Announced`), a new record the tail does
not know (`Inserted`), a record bypassed but not erased (`Bypassed`) or erased
with its successor still pointing back to it (`Erased`), and no pool
(`NoPool`). One lemma per write shows which shape leads to which; `Repairable`
that each of them is one the walk of `repairCredChain()` mends, with one case
per way an iteration ends (`WalkCases`); `WalkCounts` that the bound of that
walk is never reached; `FillCache` that `rebuildCache()` leaves what NVS has.
`OpInv` ties what an operation holds in its variables to the shape it has made.
For the refinement, the pool is what a restart would find (`Committed`), so
that an addition takes effect with the second of its writes and a removal with
the first; every other write, the crash and the repair map to stutters.

`ClientWatchdog_proofs` proves `EntriesAreClients` and `EachClientTracked` for
a table of any size and any clients (`TableFits`: the size is a natural number,
the clients finitely many), under `Serialized`: the events of the server wait
for a round of `loop()` to end. Without it `watchdog_tasks` violates the
second. The invariant says what the table is like in the middle of the scan as
well: one entry may be out of use, the one that is removed, and its client has
been closed (`ScanInv`). That entries move up while the scan and the loop of
`watchdogRemoveEntry()` go on is harmless because no client has two (`Shifted`,
`RemovedEntry`): the entry that is passed over is not one of the client looked
for (`WalkStep`, `EntryRemoved`). That a client without an entry finds room is
the pigeonhole principle (`RoomForOne`).

`TunnelPump_proofs` proves `ResponseInOrder`, `RequestInOrder` and
`EofAfterResponse` for rings of any capacity, any marks of the back-pressure
and any cut of the data. The hypothesis `BuffersFit` is the comment of
`ring_buffer.h:33`, a buffer of the pump fits in front of the ring (8192 bytes
each: `PREPEND_CAP`, and `bufferSize` at `main.cpp:557`); with a larger buffer
TLC finds bytes lost. `ResponseInv` is exact: what the peer has got followed by
what is in the ring is what was read. The lemmas are about sequences: reading
from the ring and putting a rest back in front leaves its content, less what
was taken.

The second part of `Progress_proofs` is about `ProgressSpec`, of which
`BoxClock`, `VpnManager`, `SshTransport` and `Tunnel` are instances.
`ClockRight`: the clock's invariant (`ClockInv`) says that a cleared oscillator
flag means a right time in the chip, and where in a transfer or in the report
of a synchronisation the system time is right. `CommandsObeyed`, for any delays
and any number of faults, is `LastCommandWins` and `DisconnectObeyed`. The
invariant (`VpnInv`) follows the last command: it is the one in the queue, or
the queue is empty and the worker holds it, or it has been carried out
(`CommandInv`); and only a configured worker connects, has a tunnel or says so
(`ConfiguredInv`). One lemma covers `loop()`, one the worker, one the rest.

`PacketsWhole` is proved of `SshTransport` (`PacketsAreWhole`) for any number
of callers that repeat their sends, any packet sizes and any cut of the stream;
the names of callers must differ from those of the keepalive, the reader, the
key exchange and "nobody" (`NamesDiffer`), as addresses of callers do. The
invariant (`SendInv`) ties three places together: what `p->outbuf` still has to
send (`OutInv`), what went over the wire, whose last packet may be unfinished
(`WireInv`), and the sequence number, one ahead of the packets begun
(`NumberInv`). As long as a packet is in the buffer only its own caller gets
past `send_existing()`, so that what is reported as sent is what went out
(`OutInv`, `ReportedIsSent`); the client's KEXINIT can go out only when the
buffer is free, and from then on every call is redirected into the exchange
(`CallInv`, `QuietInv`).

`ChannelsOwned` is proved of `Tunnel` (`ChannelsAreOwned`) for any number of
slots (`SlotsCounted`: a natural number), queues of any length and any set of
addresses. The invariant (`ChannelInv`) says that whatever a slot or a queue
holds is allocated (`Held`), that no address is held twice (`Apart`), and that
the count is that of the active slots (`Counted`). Each operation of
`ChannelManager` and of the queues is one lemma, in which a channel that
changes hands is for a moment allocated and nobody's (`Unowned`): taken from a
slot or a queue it is so (`SlotDropped`, `PendingRemoved`, `DeferredRemoved`),
and only what is nobody's may be freed, bound or queued (`NobodysFreed`,
`SlotBound`, `PendingAdded`, `DeferredAdded`). The loops over the slots are
recursive functions; `LoopExists` and `LoopInduction`, from the least-number
principle, carry what is known after each slot to the end of the loop.

`LogLink_proofs` proves `ResponseFits` for a buffer of any size (a natural
number, in the statement) and whether or not `loop()` comes between the steps
of a callback. What makes it inductive is `RoomInv`: between the check and the
copy the buffer can only have become emptier, because only the callback fills
it. It proves `FramesAfterUpgrade` under `CallbacksFinish` (`loop()` does not
come between the steps of a callback, as in the part `logSerial`): otherwise
`loop()` can close and connect again while `handleData()` looks at its copy of
the old answer, and TLC finds the violation. `UpgradeInv` adds that the data of
a connection is delivered before the next connection is announced
(`DataFirst`), and that an acceptance in the queue, the buffer or its copy is
that of the server now connected (`Accepted`).

`Parts_proofs` has the inductive invariants of the instances of `Parts`, and
what follows from each. Where the promise is short, the invariant says in which
step of the code what is held:

- `TunnelSession` (`SessionInv`, no hypotheses): at each step of `connect()`
  which of socket, session and listeners exist and which configuration the step
  works with; the password is reached only past the host-key check of the same
  attempt.
- `DirectClient` (`DirectInv`, under `DirectFits`: the data has a length): a
  byte counted as written is on the wire unless the session ended under the
  client; a `stop()` that was in time leaves no channel, one to be attached
  waits only while the old one is stopped, and neither is the one freed last.
- `LoopTimers` (`TimersInv`, under `TimersFit`: an interval and the longest gap
  between two rounds of `loop()` together stay below a turn of the counter, as
  500 ms and any round do below 2^32 ms): the unsigned difference that the code
  takes is the true age as long as a timer is pending, which is why it fires
  exactly when it should.
- `CircuitBreaker` (`BreakerInv`, under `BreakerFits`: every back-off is at
  most half a turn of the counter): within a turn of the counter the end of
  each entry is the time of its last failure plus the delay for its count of
  failures.
- `CredProtocol` (`CredsInv`, under `CredsFit`: there are doors and at least
  two days): a credential is stored under its identifier, and the cache holds
  stored credentials as they are stored, each one once, whatever was updated in
  place, appended, erased or rebuilt. From it follow `Charged` and `NamedOnly`:
  the entry found in the cache is the record in NVS. That `rebuildCache()`
  finds each active record at exactly one place (`RankSays`) takes the
  least-number principle, which `LeastNumber` draws from the library's theorem
  on well-founded sets. `RequestsInv` adds `NeverBackwards` and
  `AcceptedIsValid`, which a step needs of the state before it: a request that
  gives one limit is compared with the other limit of the stored record.
  `ShownOnce` is no part of it: it follows from the cache, whose order the page
  keeps (`PageShows` follows `getCreds()` entry by entry).
- `CalendarDates` (`CalendarInv`, under `CalendarFits`: a walk begins in a year
  from 1970 to 9999): the page is a day of the calendar, and its number is the
  sum over the years and the months before it. The closed formula of
  `yearDays()` is compared with the count of leap years one year at a time; a
  date is shown as it was entered because the first year, and in it the first
  month, that is not past is the one the number was made from.
- `Provisioning` (`PInv`, under `DoorsExist`: at least one door, as
  `DOOR_COUNT` has): what is on the flash at each stage of the start
  (`FlashInv`), that the configuration in memory is whole and one of the two
  there can be (`ConfigInv`), and that after a commit the file is a provisioned
  one (`InstalledInv`). `KeepsData` is shown of each step.
- `Keypad` (`KeypadInv`, under `KeypadFits`: decimal digits, a longest
  password, a number of keys that may wait): while a password is typed, the
  first `len` cells of the array are the digits typed and not erased
  (`TypedInv`), and a `*` that counts is obeyed in the round in which it is
  fetched (`CancelInv`). The loop over the keys of a batch is a recursive
  function, which `KeyWalkExists` shows to exist and `AllHandled` follows key
  by key: up to the `#` the array is what was typed (`Edited`), and after other
  keys it still has only digits typed since, blanks and terminators (`Typed`),
  so that `strncpy()` finds an end (`TextOfCells`).
- `QrScanner` (`ScannerInv`, no hypotheses): in a scan, whatever waits in the
  serial driver or in the receiver arrived in that scan (`Held`), because a
  change of state drops or ages it; a frame and what is trimmed of it consist
  of such bytes. The loop of `update()` is a recursive function, which
  `ReadWalkExists` shows to exist and `ReadLineHeld` follows byte by byte.

`PartsMC_proofs` draws the theorems of `PartsSpec` from them and from
`LogLink_proofs`, `ClientWatchdog_proofs` and `TunnelPump_proofs`: for each
part one lemma for the initial states, one for a step, which is a step of the
part or leaves its variables alone, and the theorem: `ConfigurationIsWhole`,
`LinkIsSound`, `ClientsAreTracked`, `BytesStayInOrder`, `SessionIsSound`,
`DirectIsSound`, `TimeoutsAreExact`, `InputIsOfThisState`, `RequestsAreExact`,
and `ChangesAreAsked` for the action property `OnlyAsAsked`, which needs the
invariants of timers and credentials. So what the run `parts` checks for the
constants of `PartsMC.cfg` holds for all. Their hypotheses are about constants
of the parts: `ProvisioningFits` (a door), `ResponseBuffer` (its size is a
natural number), `ClientTablesFit` and `PumpBuffersFit` (as above, for both
instances), `DirectFits`, `TimersFit`, `BreakerFits`, `CredsFit`, `KeypadFits`,
`CalendarFits`.

Each hypothesis is a named definition or stated in the theorem; the ones on
constants hold for the values of the code. Each inductive invariant was checked
by TLC on the instance of the run before it was proved.

Only model-checked:

- All liveness (`EventuallyUp`, `Settles`, and the last column of `progress`)
  and what it needs of fairness: outside the prover's reach.
- `Healed`: it is about one failing NVS operation, after which the shapes of
  `CredStore_proofs` are no longer all there are.
- The `PulseTimed` half of `OutputsEnd`: it needs as many timers as pulses fit
  into `DOOR_DELAY`, a relation of rates that the code does not establish
  (section 4).
- `FileExact` and `StreamReassembled`: they speak of folds over sequences or of
  selections from them, whose laws take induction over data.
- `CallsKeepState` and `CallsAnswered`: `SshCalls` has every call of six files
  of libssh2, and a proof would repeat its table of steps. `ExchangeSound` is
  of the same kind, one case per method and message.
- The type invariants `PartsTypeOK` and `ProgressTypeOK` as they stand; the
  inductive invariants have what the proofs need of them.

## 7. Plan

1. Done: the credential store, the log queue and the state machine with proofs;
   every other component with state of the firmware, the SSH tunnel, and the
   protocol core of libssh2.
2. Done: proofs of the credential store with its refinement, of doors, charging
   and light, of provisioning, of the frames of the log connection and of the
   order of bytes in the tunnel.
3. Done: proofs of the tunnel's session set-up, direct client and circuit
   breaker, of the timers, of credential requests and uses, of the clock and of
   the VPN manager, and the theorems about the compositions `PartsSpec` and
   `ProgressSpec` that the runs check.
4. Done: proofs of input, of credential requests and of their dates.
5. Compositions: `LogLink` under `LogQueue`, `Keypad` and `QrScanner` under
   `BoxStateMachine`, `TunnelPump` in each slot of `Tunnel`.

## 8. Observations

What the code does beyond the findings of section 3; none of it is claimed away
by a property, and where a property has to leave something out it is named
here.

Firmware:

- `websocket_log_transport.cpp:98`: a record that `sendNow()` can never
  serialise or send stays at the head of the queue and blocks all later ones;
  `Drains` assumes that a send tried again and again succeeds.
- `pass_store.cpp:766`: `repairCredChain()` stops after its first fix, so the
  damage of a failed write together with that of an interrupted operation is
  not healed by one start (`Healed` is checked with one fault).
- `websocket_log_transport.cpp:46`: `update()` compares with the time sampled
  by `loop()`, the callbacks stamp `lastActivityMillis` later; the difference
  wraps and a handshake that has just begun is closed as timed out (and tried
  again).
- `websocket.cpp:183` compares with the ping interval of 10 s, `websocket.h:99`
  speaks of 30 s: a client that answered the last ping is closed when `loop()`
  comes late.
- `gpio_hal.cpp:25`: a second pulse of a door within `DOOR_DELAY` is ended by
  the timer of the first. With no timer free the lock stays energized:
  `BoxStateMachine` and `LoopTimers` follow the code there, and the instance of
  `box_doors` has timers enough.
- `main.cpp:881`: `wifiState` is set before `startVpn()` looks at the Wi-Fi
  again; if it was lost in between and is back at the next check, the VPN is
  not started. `vpnSteady` excludes that.
- `keyboard.cpp:67`: a digit or `*` that follows `#` in one batch still edits
  the array, over the end of the text: `12#3` is sent as `123` with what was
  behind it, `12#*3` as `13`. `SubmittedIsTyped` leaves these batches out by
  name (`late`) and says of them only that nothing of an earlier attempt is
  sent.
- `cred_protocol.cpp:192`: a scanned packet may name a number without a lock.
  The box enters `Opening` without a pulse and with the light off; if a web
  request then replaces the door by one that is open already, the box waits in
  `Open` without a light. `LightFollowsDoor` is about openings with a pulse
  (`openFor` above 0).

SSH tunnel:

- `ssh_transport.cpp:931-934`: the local socket is shut down when the ring of
  the other direction is empty. `ssh_transport.cpp:610-622`: with every ring
  full a byte is read and dropped.
- `ssh_direct_client.cpp:47-66` and `:173-238`: `available()`, `read()`,
  `write()` and `stop()` use `channel_` after `cleanupSession()`
  (`ssh_session.cpp:1149-1164`) has freed the session with all its channels, in
  another task or between two calls; `ssh_tunnel.h:94-95` says that the client
  owns the channel. `OwnsChannel` in `DirectClient` states it; TLC refutes it
  in six steps (a channel is opened, the session ends before it is attached,
  and is read), so no run checks it. A session that ends and is used
  nevertheless (`misuse`) is therefore an exception of `WrittenIsSent`;
  `FreedOnce` is about the channels that the client has freed itself.
- `ssh_direct_client.cpp:6` and `:9`, `vpn_manager.cpp:451`: the destructor,
  `attach()` and the replacement of a client ignore a `stop()` that ran out of
  time, and drop a channel that libssh2 still holds, for as long as the session
  lives (`abandoned`); `NotLost` leaves them out by name.
- `ssh_session.cpp:304`: `openDirectTcpip()` looks at `session_` before it has
  the lock, `cleanupSession()` frees the session without it; the error is then
  asked of a null session (`session.c:1406`; "null" in `misuse`).
- `closeAcceptedChannel()` drops its pointer when libssh2 answers `EAGAIN`.
- A circuit breaker whose end is 0 means none, and half a turn of the counter
  after it passed an end is in the future again; the instance stays within half
  a turn.
- `loadSSHKeysFromLittleFS()` can fail between the two keys; the call of
  `relistenStuckListeners()` is commented out.

libssh2 (all are left out of the properties by name, or by the program
`SshCalls` models):

- `transport.c:1022`: a key exchange that begins while a packet is half sent
  waits for that packet, and the packet for the key exchange; all calls return
  `EAGAIN` for ever (`Stuck` in `SshTransport`).
- Giving up a call after `EAGAIN` in the middle of a packet blocks all other
  senders.
- `sftp.c:2542`: a seek keeps the count of acknowledged bytes that were not
  reported; the next write skips as many. A seek while an answer is being read
  ends in an internal error; a short read of something that is not a regular
  file ends the read-ahead. Partly sent requests of `fsync`, `posix_rename`,
  `statvfs` and `fstatvfs` are sent again from the start; too short answers
  leave the state `sent`; `sftp_open` frees a status answer twice;
  `sftp_shutdown` leaks.
- `userauth.c`: a failure in a later keyboard-interactive round is waited for
  in vain; a failing password-change callback leaves a state with freed data;
  the exits of `userauth_list` leave the state `sent`.
- `publickey.c`: `shutdown` frees `receive_packet` twice; `init` sends the
  start of its buffer again; `list_fetch` forgets its list on `EAGAIN`; `add`
  stays in `created` after a short write.
- `channel.c`: the packet of `channel_signal` is not freed; an X11 request
  keeps its packet without random bytes. `scp.c` returns a channel with its
  state left behind.
- `kex.c`: a wrong guess is thrown away only by the Diffie-Hellman methods; a
  re-exchange replaces the methods before NEWKEYS and leaks the old host key
  (ECDH, curve25519), the fixed-group methods leak `p` and `g`; a failed
  re-exchange is not reported by `packet_add()`. The strict-kex extension is
  not modelled.
- The etm length check looks at the length of the packet before; a keepalive
  ignores `EAGAIN`.

## 9. Not modelled

Display, camera (disabled in `main.cpp`), diagnostics, formatting of log
records: output without state of interest. `UI/`: pages and style sheets. Of
`main.cpp`, status messages and pin set-up. Of the scanner, `sendCommand()`
(never called) and the parsing of the configured commands. Of the tunnel, key
files, socket options, instrumentation. Of libssh2, cryptography (`mbedtls.c`,
`crypt.c`, `mac.c`, key files and `pem.c`), the agent and known-hosts files,
string and Base64 helpers, tracing: computations without protocol state, or not
used by the tunnel. `repairTailInsert`, `repairInterruptedDelete` and
`repairDeleteGap` in `pass_store.cpp:572-705` are never reached. A failing
`prefs.begin()` leaves the store unusable until the next start and is left out.
Transfers to the clock chip do not fail in the model: the code does not look at
their results.
