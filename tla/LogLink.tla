------------------------------ MODULE LogLink ------------------------------
(***************************************************************************)
(* The connection to the log server: class WebSocketLogTransport of        *)
(* websocket_log_transport.cpp, over an AsyncClient (external).            *)
(*                                                                         *)
(* loop() runs update(): it gives up a handshake or an idle connection and *)
(* asks for a new one when records wait.  The AsyncTCP task delivers the   *)
(* events of the connection in order and runs handleConnect(), handleData()*)
(* and handleDisconnect(), which change the same fields without a lock.    *)
(* update() works with the time loop() sampled before; the callbacks stamp *)
(* lastActivityMillis with the time they run at.                           *)
(***************************************************************************)
EXTENDS Naturals, Sequences, SequencesExt

CONSTANTS
  LOG_HANDSHAKE_TIMEOUT,           (* 5000 ms in the code                     *)
  LOG_IDLE_DISCONNECT_DELAY,       (* 1000 ms                                 *)
  LOG_RECONNECT_INTERVAL,          (* 5000 ms                                 *)
  LOG_HANDSHAKE_RESPONSE_MAX_LEN,  (* 512 bytes                               *)
  MaxLag,     (* bound: how far the sampled time can be behind                *)
  MaxEvents,  (* bound: events that wait for the AsyncTCP task                *)
  Preemptive  (* whether loop() runs while a callback is in progress          *)

VARIABLES
  state,      (* ConnectionState                                              *)
  tcp,        (* external: "closed", "connecting" or "open"                   *)
  events,     (* external: events of the connection not yet delivered         *)
  upgraded,   (* external: the server has accepted the upgrade                *)
  len, text,  (* handshakeResponseLen, and what handshakeResponse contains    *)
  cb,         (* handleData() in progress on the AsyncTCP task                *)
  pc,         (* update() in progress in loop()                               *)
  pending,    (* hasPendingOutput()                                           *)
  age,        (* millis() - lastActivityMillis                                *)
  wait,       (* millis() - reconnectStartedAt                                *)
  lag         (* millis() - the sampled time update() works with              *)

net == <<tcp, events, upgraded>>
clocks == <<age, wait, lag>>
vars == <<state, net, len, text, cb, pc, pending, clocks>>

States == {"Disconnected", "Connecting", "Handshaking", "Connected"}
\* Parts of the answer: " 101 ", the upgrade header with the blank line, and a
\* blank line without the header.  They come in one piece or in several.
Parts == {"101", "upgrade", "blank"}
Chunks == [len : 1 .. 2, parts : {{"101"}, {"upgrade"}, {"blank"}, {"101", "upgrade"}}]
Event(k) == [kind |-> k]
Idle == [at |-> "none", len |-> 0, parts |-> {}, base |-> 0]
AgeCap == LOG_HANDSHAKE_TIMEOUT + LOG_IDLE_DISCONNECT_DELAY + MaxLag
WaitCap == LOG_RECONNECT_INTERVAL + MaxLag

TypeOK ==
  /\ state \in States
  /\ tcp \in {"closed", "connecting", "open"}
  /\ \A i \in 1 .. Len(events) :
       events[i] \in [kind : {"connect", "gone"}] \cup [kind : {"data"}, chunk : Chunks]
  /\ upgraded \in BOOLEAN /\ pending \in BOOLEAN
  /\ len \in 0 .. LOG_HANDSHAKE_RESPONSE_MAX_LEN /\ text \subseteq Parts
  /\ cb.at \in {"none", "append", "decide"}
  /\ pc \in {"idle", "handshake", "stale", "base", "idleness"}
  /\ age \in 0 .. AgeCap /\ wait \in 0 .. WaitCap /\ lag \in 0 .. MaxLag

\* begin(); reconnectStarted is false, so the first reconnect() is due at once.
Init ==
  /\ state = "Disconnected" /\ tcp = "closed" /\ events = <<>> /\ upgraded = FALSE
  /\ len = 0 /\ text = {} /\ cb = Idle /\ pc = "idle" /\ pending = FALSE
  /\ age = 0 /\ wait = WaitCap /\ lag = 0

\* timeoutElapsed() of a stamp that is newer than the sampled time wraps around.
elapsed(since, length) == since < lag \/ since - lag >= length

clearHandshakeResponse == len' = 0 /\ text' = {}

\* closeClient(): AsyncClient::close() drops the events still queued.
closeClient ==
  /\ tcp' = "closed" /\ upgraded' = FALSE
  /\ events' = IF tcp = "closed" THEN events ELSE <<>>
  /\ state' = "Disconnected"
  /\ clearHandshakeResponse

isConnected == state = "Connected" /\ tcp = "open"

----------------------------------------------------------------------------
(* loop(): update(), one step per use of the shared fields *)

loopRuns == Preemptive \/ cb.at = "none"

sampleTime ==
  /\ pc = "idle" /\ loopRuns
  /\ pc' = "handshake" /\ lag' = 0
  /\ UNCHANGED <<state, net, len, text, cb, pending, age, wait>>

handshakeCheck ==
  /\ pc = "handshake" /\ loopRuns
  /\ pc' = "stale"
  /\ IF state = "Handshaking" /\ elapsed(age, LOG_HANDSHAKE_TIMEOUT)
       THEN closeClient
       ELSE UNCHANGED <<state, net, len, text>>
  /\ UNCHANGED <<cb, pending, clocks>>

staleCheck ==
  /\ pc = "stale" /\ loopRuns
  /\ pc' = "base"
  /\ IF state = "Disconnected" /\ tcp = "open"
       THEN closeClient
       ELSE UNCHANGED <<state, net, len, text>>
  /\ UNCHANGED <<cb, pending, clocks>>

\* Mutant: the old connection is not closed and its state is kept.
reconnectKeepsState ==
  /\ pc = "base" /\ loopRuns
  /\ pending /\ ~isConnected /\ elapsed(wait, LOG_RECONNECT_INTERVAL)
  /\ wait' = lag /\ pc' = "idleness"
  /\ IF state \in {"Connecting", "Handshaking"}
       THEN UNCHANGED <<state, net, len, text, age>>
       ELSE /\ events' = events /\ upgraded' = FALSE
            /\ tcp' \in {"closed", "connecting"}
            /\ state' = IF tcp' = "closed" THEN "Disconnected"
                        ELSE IF state = "Connected" THEN state ELSE "Connecting"
            /\ age' = 0 /\ clearHandshakeResponse
  /\ UNCHANGED <<cb, pending, lag>>

\* BufferedLogTransport::update() without a connection: reconnect().
\* AsyncClient::connect() can fail at once.
reconnect ==
  /\ pc = "base" /\ loopRuns
  /\ pending /\ ~isConnected /\ elapsed(wait, LOG_RECONNECT_INTERVAL)
  /\ wait' = lag /\ pc' = "idleness"
  /\ IF state \in {"Connecting", "Handshaking"}
       THEN UNCHANGED <<state, net, len, text, age>>
       ELSE /\ events' = IF tcp = "closed" THEN events ELSE <<>>
            /\ tcp' \in {"closed", "connecting"}
            /\ state' = IF tcp' = "connecting" THEN "Connecting" ELSE "Disconnected"
            /\ upgraded' = FALSE /\ age' = 0 /\ clearHandshakeResponse
  /\ UNCHANGED <<cb, pending, lag>>

\* flushQueue() with a connection: sendNow() writes text frames, unless the send
\* buffer of the connection is full.
flushQueue ==
  /\ pc = "base" /\ loopRuns
  /\ pending /\ isConnected
  /\ pending' = FALSE /\ age' = 0 /\ pc' = "idleness"
  /\ UNCHANGED <<state, net, len, text, cb, wait, lag>>

nothingToSend ==
  /\ pc = "base" /\ loopRuns
  /\ pending => (isConnected \/ ~elapsed(wait, LOG_RECONNECT_INTERVAL))
  /\ pc' = "idleness"
  /\ UNCHANGED <<state, net, len, text, cb, pending, clocks>>

idlenessCheck ==
  /\ pc = "idleness" /\ loopRuns
  /\ pc' = "idle" /\ lag' = 0
  /\ IF isConnected /\ ~pending /\ elapsed(age, LOG_IDLE_DISCONNECT_DELAY)
       THEN closeClient
       ELSE UNCHANGED <<state, net, len, text>>
  /\ UNCHANGED <<cb, pending, age, wait>>

update == sampleTime \/ handshakeCheck \/ staleCheck \/ reconnect \/ flushQueue
          \/ nothingToSend \/ idlenessCheck

----------------------------------------------------------------------------
(* The AsyncTCP task *)

nextEvent(k) == cb.at = "none" /\ events # <<>> /\ Head(events).kind = k

\* handleConnect(): sendHandshake() writes the request or closes the connection.
handleConnect ==
  /\ nextEvent("connect")
  /\ age' = 0
  /\ \/ /\ tcp = "open"
        /\ events' = Tail(events) /\ state' = "Handshaking"
        /\ clearHandshakeResponse
        /\ UNCHANGED <<tcp, upgraded>>
     \/ /\ state' = "Disconnected" /\ tcp' = "closed" /\ upgraded' = FALSE
        /\ events' = IF tcp = "closed" THEN Tail(events) ELSE <<>>
        /\ clearHandshakeResponse
  /\ UNCHANGED <<cb, pc, pending, wait, lag>>

\* handleDisconnect(), for the callbacks onDisconnect, onError and onTimeout.
handleDisconnect ==
  /\ nextEvent("gone")
  /\ events' = Tail(events)
  /\ state' = "Disconnected" /\ clearHandshakeResponse
  /\ UNCHANGED <<tcp, upgraded, cb, pc, pending, clocks>>

\* handleData(): data outside the handshake only counts as activity, an answer
\* that does not fit ends the connection.
handleData ==
  /\ nextEvent("data")
  /\ age' = 0
  /\ LET c    == Head(events).chunk
         fits == len + c.len <= LOG_HANDSHAKE_RESPONSE_MAX_LEN
     IN  \/ /\ state = "Handshaking" /\ fits
            /\ cb' = [at |-> "append", len |-> c.len, parts |-> c.parts, base |-> len]
            /\ events' = Tail(events)
            /\ UNCHANGED <<state, tcp, upgraded, len, text>>
         \/ /\ state = "Handshaking" /\ ~fits
            /\ events' = IF tcp = "closed" THEN Tail(events) ELSE <<>>
            /\ tcp' = "closed" /\ upgraded' = FALSE /\ state' = "Disconnected"
            /\ clearHandshakeResponse /\ UNCHANGED cb
         \/ /\ state # "Handshaking"
            /\ events' = Tail(events)
            /\ UNCHANGED <<state, tcp, upgraded, len, text, cb>>
  /\ UNCHANGED <<pc, pending, wait, lag>>

\* The rest of handleData(): append to the buffer and copy it to `response'.
\* When loop() has cleared the buffer meanwhile, handshakeResponseLen is that
\* of either task.
appendData ==
  /\ cb.at = "append"
  /\ \/ len' = len + cb.len /\ text' = text \union cb.parts
     \/ len # cb.base /\ len' = cb.base + cb.len /\ text' = {}
  /\ cb' = [Idle EXCEPT !.at = "decide", !.parts = text']
  /\ UNCHANGED <<state, net, pc, pending, clocks>>

\* ... and look in `response' for the upgrade, or for the end of another answer.
decideUpgrade ==
  /\ cb.at = "decide" /\ cb' = Idle
  /\ LET accepted == {"101", "upgrade"} \subseteq cb.parts
     IN  \/ /\ accepted
            /\ state' = "Connected" /\ age' = 0 /\ clearHandshakeResponse
            /\ UNCHANGED net
         \/ /\ ~accepted /\ cb.parts \cap {"upgrade", "blank"} # {}
            /\ closeClient /\ UNCHANGED age
         \/ /\ cb.parts \subseteq {"101"}
            /\ UNCHANGED <<state, net, len, text, age>>
  /\ UNCHANGED <<pc, pending, wait, lag>>

callbacks == handleConnect \/ handleDisconnect \/ handleData \/ appendData \/ decideUpgrade

----------------------------------------------------------------------------
(* The rest of the world *)

\* An attempt to connect succeeds or fails; external, as are the next two.
attemptEnds ==
  /\ tcp = "connecting"
  /\ \/ tcp' = "open" /\ events' = Append(events, Event("connect"))
     \/ tcp' = "closed" /\ events' = Append(events, Event("gone"))
  /\ UNCHANGED <<state, upgraded, len, text, cb, pc, pending, clocks>>

peerCloses ==
  /\ tcp = "open" /\ Len(events) < MaxEvents
  /\ tcp' = "closed" /\ upgraded' = FALSE
  /\ events' = Append(events, Event("gone"))
  /\ UNCHANGED <<state, len, text, cb, pc, pending, clocks>>

\* The server answers in pieces; the upgrade is accepted with the last one.
serverSends ==
  /\ tcp = "open" /\ Len(events) < MaxEvents
  /\ ~ \E i \in 1 .. Len(events) : events[i].kind = "connect"
  /\ \E c \in Chunks :
       /\ events' = Append(events, [kind |-> "data", chunk |-> c])
       /\ upgraded' = (upgraded \/ "upgrade" \in c.parts)
  /\ UNCHANGED <<state, tcp, len, text, cb, pc, pending, clocks>>

logSomething ==
  /\ ~pending /\ pending' = TRUE
  /\ UNCHANGED <<state, net, len, text, cb, pc, clocks>>

AtMost(n, m) == IF n < m THEN n ELSE m

\* Time passes; between two samplings by at most MaxLag.
tick ==
  /\ pc # "idle" => lag < MaxLag
  /\ lag' = IF pc = "idle" THEN 0 ELSE lag + 1
  /\ age' = AtMost(age + 1, AgeCap) /\ wait' = AtMost(wait + 1, WaitCap)
  /\ <<age', wait', lag'>> # clocks
  /\ UNCHANGED <<state, net, len, text, cb, pc, pending>>

Next == update \/ callbacks \/ attemptEnds \/ peerCloses \/ serverSends
        \/ logSomething \/ tick

\* loop() and the AsyncTCP task keep running, time passes between two rounds of
\* loop(), and an attempt to connect ends one way or the other.  connect() does
\* not fail every time, nor is the send buffer full at every flush.
Fairness ==
  /\ WF_vars(update) /\ WF_vars(callbacks) /\ WF_vars(attemptEnds)
  /\ SF_vars(tick /\ pc = "idle")
  /\ SF_vars(reconnect /\ tcp' = "connecting") /\ SF_vars(flushQueue)

Spec == Init /\ [][Next]_vars /\ Fairness

----------------------------------------------------------------------------
(* Properties *)

\* handleData() checks the room in handshakeResponse and copies later; whatever
\* loop() clears in between, the copy and its terminator stay inside the array.
ResponseFits ==
  cb.at = "append" =>
    /\ len + cb.len <= LOG_HANDSHAKE_RESPONSE_MAX_LEN
    /\ cb.base + cb.len <= LOG_HANDSHAKE_RESPONSE_MAX_LEN

\* sendNow() writes text frames when isConnected(): only to a server that has
\* accepted the upgrade of this very connection, not of an earlier one.
FramesAfterUpgrade == isConnected => upgraded

\* With records waiting, the transport is never stuck in one of its states, a
\* stale one included: they are sent or another connection is tried.
KeepsTrying == pending ~> (~pending \/ tcp = "connecting")

=============================================================================
