--------------------------- MODULE LogLink_proofs ---------------------------
(***************************************************************************)
(* Proofs about LogLink, for a buffer of any size and any timeouts: the    *)
(* copy of the answer stays inside its array with loop() running between   *)
(* the steps of a callback or not, and frames follow the upgrade of their  *)
(* own connection when callbacks are finished first.                       *)
(***************************************************************************)
EXTENDS LogLink, TLAPS

Events == [kind : {"connect", "gone"}] \cup [kind : {"data"}, chunk : Chunks]

\* What the proofs need of the types.
BufferTypes ==
  /\ events \in Seq(Events)
  /\ len \in Nat /\ text \in SUBSET Parts
  /\ cb \in [at : {"none", "append", "decide"}, len : Nat, parts : SUBSET Parts,
            base : Nat]

\* The buffer holds what it is said to hold, and between the check for room
\* and the copy it can only become emptier.
RoomInv ==
  /\ len <= LOG_HANDSHAKE_RESPONSE_MAX_LEN
  /\ cb.at = "append" =>
       len <= cb.base /\ cb.base + cb.len <= LOG_HANDSHAKE_RESPONSE_MAX_LEN

IInv == BufferTypes /\ RoomInv

-----------------------------------------------------------------------------
LEMMA InitInv ==
  ASSUME LOG_HANDSHAKE_RESPONSE_MAX_LEN \in Nat, Init
  PROVE  IInv
  BY DEF Init, IInv, BufferTypes, RoomInv, Idle, Parts, Events

LEMMA NoEvents == <<>> \in Seq(Events)
  OBVIOUS

\* closeClient() empties the buffer and the queue of events.
LEMMA CloseInv ==
  ASSUME LOG_HANDSHAKE_RESPONSE_MAX_LEN \in Nat, IInv, closeClient, UNCHANGED cb
  PROVE  IInv'
  BY DEF IInv, BufferTypes, RoomInv, closeClient, clearHandshakeResponse

\* The steps of update(), which may come between those of a callback.
LEMMA UpdateInv ==
  ASSUME LOG_HANDSHAKE_RESPONSE_MAX_LEN \in Nat, IInv, update
  PROVE  IInv'
<1>1. CASE sampleTime
  BY <1>1 DEF sampleTime, net, IInv, BufferTypes, RoomInv
<1>2. CASE handshakeCheck
  BY <1>2, CloseInv DEF handshakeCheck, net, IInv, BufferTypes, RoomInv
<1>3. CASE staleCheck
  BY <1>3, CloseInv DEF staleCheck, net, IInv, BufferTypes, RoomInv
<1>4. CASE reconnect
  <2>1. events' = events \/ events' = <<>>
    BY <1>4 DEF reconnect, net
  <2>2. events' \in Seq(Events)
    BY <2>1, NoEvents DEF IInv, BufferTypes
  <2>3. /\ cb' = cb
        /\ (len' = 0 /\ text' = {}) \/ UNCHANGED <<len, text>>
    BY <1>4 DEF reconnect, clearHandshakeResponse
  <2> QED
    BY <2>2, <2>3 DEF IInv, BufferTypes, RoomInv
<1>5. CASE flushQueue \/ nothingToSend
  BY <1>5 DEF flushQueue, nothingToSend, net, clocks, IInv, BufferTypes, RoomInv
<1>6. CASE idlenessCheck
  BY <1>6, CloseInv DEF idlenessCheck, net, IInv, BufferTypes, RoomInv
<1> QED
  BY <1>1, <1>2, <1>3, <1>4, <1>5, <1>6 DEF update

\* The callbacks of the AsyncTCP task.
LEMMA CallbackInv ==
  ASSUME LOG_HANDSHAKE_RESPONSE_MAX_LEN \in Nat, IInv, callbacks
  PROVE  IInv'
<1>0. events # <<>> => Tail(events) \in Seq(Events) /\ Head(events) \in Events
  BY DEF IInv, BufferTypes
<1>1. CASE handleConnect
  <2>1. events # <<>> /\ (events' = Tail(events) \/ events' = <<>>)
    BY <1>1 DEF handleConnect, nextEvent
  <2>2. events' \in Seq(Events)
    BY <1>0, <2>1, NoEvents
  <2>3. cb' = cb /\ len' = 0 /\ text' = {}
    BY <1>1 DEF handleConnect, clearHandshakeResponse
  <2> QED
    BY <2>2, <2>3 DEF IInv, BufferTypes, RoomInv
<1>2. CASE handleDisconnect
  BY <1>0, <1>2 DEF handleDisconnect, nextEvent, clearHandshakeResponse,
                    IInv, BufferTypes, RoomInv
<1>3. CASE handleData
  <2>1. events # <<>> /\ cb.at = "none" /\ Head(events).kind = "data"
    BY <1>3 DEF handleData, nextEvent
  <2>2. Head(events).chunk.len \in Nat /\ Head(events).chunk.parts \in SUBSET Parts
    BY <1>0, <2>1 DEF Events, Chunks, Parts
  <2>3. events' = Tail(events) \/ events' = <<>>
    BY <1>3 DEF handleData
  <2>4. events' \in Seq(Events)
    BY <1>0, <2>1, <2>3, NoEvents
  <2>5. \/ /\ len + Head(events).chunk.len <= LOG_HANDSHAKE_RESPONSE_MAX_LEN
           /\ cb' = [at |-> "append", len |-> Head(events).chunk.len,
                     parts |-> Head(events).chunk.parts, base |-> len]
           /\ UNCHANGED <<len, text>>
        \/ cb' = cb /\ ((len' = 0 /\ text' = {}) \/ UNCHANGED <<len, text>>)
    BY <1>3 DEF handleData, clearHandshakeResponse
  <2> QED
    BY <2>2, <2>4, <2>5 DEF IInv, BufferTypes, RoomInv
<1>4. CASE appendData
  <2>1. /\ cb.at = "append" /\ events' = events
        /\ cb' = [at |-> "decide", len |-> 0, parts |-> text', base |-> 0]
    BY <1>4 DEF appendData, net, Idle
  <2>2. /\ text' = text \union cb.parts \/ text' = {}
        /\ len' = len + cb.len \/ len' = cb.base + cb.len
    BY <1>4 DEF appendData
  <2>3. text' \in SUBSET Parts
    BY <2>2 DEF IInv, BufferTypes
  <2>4. cb' \in [at : {"none", "append", "decide"}, len : Nat, parts : SUBSET Parts,
                 base : Nat]
    BY <2>1, <2>3
  <2>5. len' \in Nat /\ len' <= LOG_HANDSHAKE_RESPONSE_MAX_LEN
    BY <2>1, <2>2 DEF IInv, BufferTypes, RoomInv
  <2> QED
    BY <2>1, <2>3, <2>4, <2>5 DEF IInv, BufferTypes, RoomInv
<1>5. CASE decideUpgrade
  <2>1. cb' = Idle /\ (UNCHANGED net \/ closeClient)
    BY <1>5 DEF decideUpgrade
  <2>2. events' \in Seq(Events)
    BY <2>1, NoEvents DEF net, closeClient, IInv, BufferTypes
  <2>3. (len' = 0 /\ text' = {}) \/ UNCHANGED <<len, text>>
    BY <1>5 DEF decideUpgrade, closeClient, clearHandshakeResponse
  <2>4. /\ cb'.at = "none"
        /\ cb' \in [at : {"none", "append", "decide"}, len : Nat, parts : SUBSET Parts,
                    base : Nat]
    BY <2>1 DEF Idle
  <2> QED
    BY <2>2, <2>3, <2>4 DEF IInv, BufferTypes, RoomInv
<1> QED
  BY <1>1, <1>2, <1>3, <1>4, <1>5 DEF callbacks

\* The connection, the producers of records, and time.
LEMMA WorldInv ==
  ASSUME IInv, attemptEnds \/ peerCloses \/ serverSends \/ logSomething \/ tick
  PROVE  IInv'
<1>1. CASE attemptEnds \/ peerCloses \/ serverSends
  <2>1. UNCHANGED <<len, text, cb>>
    BY <1>1 DEF attemptEnds, peerCloses, serverSends
  <2>2. \E e \in Events : events' = Append(events, e)
    BY <1>1 DEF attemptEnds, peerCloses, serverSends, Event, Events
  <2> QED
    BY <2>1, <2>2 DEF IInv, BufferTypes, RoomInv
<1>2. CASE logSomething \/ tick
  BY <1>2 DEF logSomething, tick, net, IInv, BufferTypes, RoomInv
<1> QED
  BY <1>1, <1>2

LEMMA StepInv ==
  ASSUME LOG_HANDSHAKE_RESPONSE_MAX_LEN \in Nat
  PROVE  IInv /\ [Next]_vars => IInv'
<1> SUFFICES ASSUME IInv, [Next]_vars PROVE IInv'
  OBVIOUS
<1>1. CASE UNCHANGED vars
  BY <1>1 DEF vars, net, clocks, IInv, BufferTypes, RoomInv
<1> QED
  BY <1>1, UpdateInv, CallbackInv, WorldInv DEF Next

\* handleData() checks the room in handshakeResponse and copies later.  For a
\* buffer of any size, wherever loop() closes the connection and clears the
\* buffer in between, the copy stays inside the array.
THEOREM CopyFits ==
  ASSUME LOG_HANDSHAKE_RESPONSE_MAX_LEN \in Nat
  PROVE  Spec => []ResponseFits
<1>1. Init => IInv
  BY InitInv
<1>2. IInv /\ [Next]_vars => IInv'
  BY StepInv
<1>3. IInv => ResponseFits
  BY DEF IInv, BufferTypes, RoomInv, ResponseFits
<1> QED
  BY <1>1, <1>2, <1>3, PTL DEF Spec
-----------------------------------------------------------------------------
(* FramesAfterUpgrade.  The AsyncTCP task is taken to finish a callback    *)
(* before loop() goes on: with a loop() that closes the connection and     *)
(* reconnects while handleData() looks at its copy of the answer, the new  *)
(* connection would get the state of the old one.                          *)

CallbacksFinish == ~Preemptive

\* The acceptance of the upgrade is in a queue of events.
AcceptedIn(queue) ==
  \E i \in 1 .. Len(queue) :
    queue[i].kind = "data" /\ "upgrade" \in queue[i].chunk.parts

\* Data of a connection are delivered before the next one is announced.
DataFirst(queue) ==
  \A i, j \in 1 .. Len(queue) :
    queue[i].kind = "connect" /\ queue[j].kind = "data" => j < i

\* The box has the acceptance, in its buffer or on the way there.
Accepted ==
  \/ "upgrade" \in text
  \/ cb.at # "none" /\ "upgrade" \in cb.parts
  \/ AcceptedIn(events)

\* What the box believes of the connection, and what is true of it.
UpgradeInv ==
  /\ cb.at # "none" => state = "Handshaking"
  /\ tcp = "connecting" => state \in {"Connecting", "Disconnected"}
  /\ state = "Connected" /\ tcp = "open" => upgraded
  /\ state = "Handshaking" /\ tcp = "open" /\ Accepted => upgraded
  /\ DataFirst(events)

FramesInv == IInv /\ UpgradeInv

\* The queue of events loses its first or all.
LEMMA RestOfQueue ==
  ASSUME NEW queue \in Seq(Events), queue # <<>>, DataFirst(queue)
  PROVE  /\ DataFirst(Tail(queue))
         /\ AcceptedIn(Tail(queue)) => AcceptedIn(queue)
         /\ Head(queue).kind = "data" /\ "upgrade" \in Head(queue).chunk.parts
              => AcceptedIn(queue)
         /\ Head(queue).kind = "connect" => ~AcceptedIn(Tail(queue))
<1>1. /\ Len(queue) \in Nat /\ Len(queue) >= 1
      /\ Len(Tail(queue)) = Len(queue) - 1
      /\ \A i \in 1 .. Len(queue) - 1 : Tail(queue)[i] = queue[i + 1]
      /\ Head(queue) = queue[1]
  OBVIOUS
<1>2. \A i \in 1 .. Len(queue) - 1 : i + 1 \in 1 .. Len(queue)
  BY <1>1
<1>3. 1 \in 1 .. Len(queue)
  BY <1>1
<1>4. DataFirst(Tail(queue))
  BY <1>1, <1>2 DEF DataFirst
<1>5. AcceptedIn(Tail(queue)) => AcceptedIn(queue)
  BY <1>1, <1>2 DEF AcceptedIn
<1>6. Head(queue).kind = "data" /\ "upgrade" \in Head(queue).chunk.parts
        => AcceptedIn(queue)
  BY <1>1, <1>3 DEF AcceptedIn
<1>7. Head(queue).kind = "connect" => ~AcceptedIn(Tail(queue))
  BY <1>1, <1>2, <1>3 DEF AcceptedIn, DataFirst
<1> QED
  BY <1>4, <1>5, <1>6, <1>7

LEMMA EmptyQueue == DataFirst(<<>>) /\ ~AcceptedIn(<<>>)
  BY DEF DataFirst, AcceptedIn

\* An event arrives; no data do while a connection has still to be announced.
LEMMA LongerQueue ==
  ASSUME NEW queue \in Seq(Events), NEW e \in Events, DataFirst(queue),
         e.kind = "data" => ~ \E i \in 1 .. Len(queue) : queue[i].kind = "connect"
  PROVE  /\ DataFirst(Append(queue, e))
         /\ AcceptedIn(Append(queue, e)) =>
              AcceptedIn(queue) \/ (e.kind = "data" /\ "upgrade" \in e.chunk.parts)
<1> DEFINE longer == Append(queue, e)
<1>1. /\ Len(queue) \in Nat /\ Len(longer) = Len(queue) + 1
      /\ \A i \in 1 .. Len(queue) : longer[i] = queue[i]
      /\ longer[Len(queue) + 1] = e
  OBVIOUS
<1>2. \A i \in 1 .. Len(longer) : i \in 1 .. Len(queue) \/ i = Len(queue) + 1
  BY <1>1
<1> HIDE DEF longer
<1>3. DataFirst(longer)
  <2> SUFFICES ASSUME NEW i \in 1 .. Len(longer), NEW j \in 1 .. Len(longer),
                      longer[i].kind = "connect", longer[j].kind = "data"
               PROVE  j < i
    BY DEF DataFirst
  <2>1. CASE i \in 1 .. Len(queue) /\ j \in 1 .. Len(queue)
    BY <1>1, <2>1 DEF DataFirst
  <2>2. CASE i = Len(queue) + 1 /\ j \in 1 .. Len(queue)
    BY <1>1, <2>2
  <2>3. CASE j = Len(queue) + 1
    <3>1. e.kind = "data"
      BY <1>1, <2>3
    <3>2. i \notin 1 .. Len(queue)
      BY <1>1, <3>1
    <3> QED
      BY <1>1, <1>2, <2>3, <3>1, <3>2
  <2> QED
    BY <1>2, <2>1, <2>2, <2>3
<1>4. AcceptedIn(longer) =>
        AcceptedIn(queue) \/ (e.kind = "data" /\ "upgrade" \in e.chunk.parts)
  BY <1>1, <1>2 DEF AcceptedIn
<1> QED
  BY <1>3, <1>4 DEF longer

LEMMA UpgradeInit == Init => UpgradeInv
<1> SUFFICES ASSUME Init PROVE UpgradeInv
  OBVIOUS
<1>1. /\ state = "Disconnected" /\ tcp = "closed" /\ events = <<>> /\ cb.at = "none"
  BY DEF Init, Idle
<1> QED
  BY <1>1, EmptyQueue DEF UpgradeInv

\* closeClient() ends the connection, and with it what was believed of it.
LEMMA CloseUpgrade ==
  ASSUME UpgradeInv, closeClient, cb'.at = "none"
  PROVE  UpgradeInv'
<1>1. state' = "Disconnected" /\ tcp' = "closed"
  BY DEF closeClient
<1>2. DataFirst(events')
  BY EmptyQueue DEF closeClient, UpgradeInv
<1> QED
  BY <1>1, <1>2 DEF UpgradeInv

LEMMA NoChangeUpgrade ==
  ASSUME UpgradeInv, UNCHANGED <<state, net, text, cb>>
  PROVE  UpgradeInv'
BY DEF UpgradeInv, Accepted, AcceptedIn, DataFirst, net

\* update() runs between callbacks.
LEMMA UpdateUpgrade ==
  ASSUME CallbacksFinish, UpgradeInv, update
  PROVE  UpgradeInv'
<1>1. cb.at = "none" /\ cb' = cb
  BY DEF CallbacksFinish, update, loopRuns, sampleTime, handshakeCheck,
         staleCheck, reconnect, flushQueue, nothingToSend, idlenessCheck
<1>2. CASE reconnect
  <2>1. CASE UNCHANGED <<state, net, text>>
    BY <1>1, <2>1, NoChangeUpgrade
  <2>2. CASE /\ tcp' \in {"closed", "connecting"}
             /\ state' = IF tcp' = "connecting" THEN "Connecting" ELSE "Disconnected"
             /\ events' = events \/ events' = <<>>
    <3>1. DataFirst(events')
      BY <2>2, EmptyQueue DEF UpgradeInv
    <3> QED
      BY <1>1, <2>2, <3>1 DEF UpgradeInv
  <2> QED
    BY <1>2, <2>1, <2>2 DEF reconnect, net
<1>3. CASE update /\ ~reconnect
  <2>1. closeClient \/ UNCHANGED <<state, net, text>>
    BY <1>3 DEF update, sampleTime, handshakeCheck, staleCheck, flushQueue,
                nothingToSend, idlenessCheck
  <2> QED
    BY <1>1, <2>1, CloseUpgrade, NoChangeUpgrade
<1> QED
  BY <1>2, <1>3

\* The callbacks: a connection starts without an acceptance, and what the
\* first event of the queue brings was in the queue before.
LEMMA CallbackUpgrade ==
  ASSUME IInv, UpgradeInv, callbacks
  PROVE  UpgradeInv'
<1>0. events \in Seq(Events) /\ DataFirst(events)
  BY DEF IInv, BufferTypes, UpgradeInv
<1>1. CASE handleConnect
  <2>1. events # <<>> /\ Head(events).kind = "connect" /\ cb.at = "none" /\ cb' = cb
    BY <1>1 DEF handleConnect, nextEvent
  <2>2. DataFirst(Tail(events)) /\ ~AcceptedIn(Tail(events))
    BY <1>0, <2>1, RestOfQueue
  <2>3. CASE /\ tcp = "open" /\ tcp' = tcp /\ events' = Tail(events)
             /\ state' = "Handshaking" /\ text' = {}
    <3>1. ~Accepted'
      BY <2>1, <2>2, <2>3 DEF Accepted
    <3> QED
      BY <2>1, <2>2, <2>3, <3>1 DEF UpgradeInv
  <2>4. CASE /\ state' = "Disconnected" /\ tcp' = "closed"
             /\ events' = Tail(events) \/ events' = <<>>
    <3>1. DataFirst(events')
      BY <2>2, <2>4, EmptyQueue
    <3> QED
      BY <2>1, <2>4, <3>1 DEF UpgradeInv
  <2> QED
    BY <1>1, <2>3, <2>4 DEF handleConnect, clearHandshakeResponse
<1>2. CASE handleDisconnect
  <2>1. /\ events # <<>> /\ cb.at = "none" /\ cb' = cb /\ tcp' = tcp
        /\ events' = Tail(events) /\ state' = "Disconnected"
    BY <1>2 DEF handleDisconnect, nextEvent
  <2>2. DataFirst(events')
    BY <1>0, <2>1, RestOfQueue
  <2> QED
    BY <2>1, <2>2 DEF UpgradeInv
<1>3. CASE handleData
  <2>1. events # <<>> /\ Head(events).kind = "data" /\ cb.at = "none"
    BY <1>3 DEF handleData, nextEvent
  <2>2. /\ DataFirst(Tail(events))
        /\ AcceptedIn(Tail(events)) => AcceptedIn(events)
        /\ "upgrade" \in Head(events).chunk.parts => AcceptedIn(events)
    BY <1>0, <2>1, RestOfQueue
  <2>3. CASE /\ state = "Handshaking" /\ events' = Tail(events)
             /\ cb'.at = "append" /\ cb'.parts = Head(events).chunk.parts
             /\ UNCHANGED <<state, tcp, upgraded, text>>
    <3>1. Accepted' => Accepted
      BY <2>2, <2>3 DEF Accepted
    <3> QED
      BY <2>2, <2>3, <3>1 DEF UpgradeInv
  <2>4. CASE /\ tcp' = "closed" /\ state' = "Disconnected" /\ cb' = cb
             /\ events' = Tail(events) \/ events' = <<>>
    <3>1. DataFirst(events')
      BY <2>2, <2>4, EmptyQueue
    <3> QED
      BY <2>1, <2>4, <3>1 DEF UpgradeInv
  <2>5. CASE /\ state # "Handshaking" /\ events' = Tail(events)
             /\ UNCHANGED <<state, tcp, upgraded, text, cb>>
    BY <2>1, <2>2, <2>5 DEF UpgradeInv
  <2> QED
    BY <1>3, <2>3, <2>4, <2>5 DEF handleData
<1>4. CASE appendData
  <2>1. /\ cb.at = "append" /\ cb'.at = "decide" /\ cb'.parts = text'
        /\ text' \subseteq text \union cb.parts
        /\ UNCHANGED <<state, tcp, events, upgraded>>
    BY <1>4 DEF appendData, net, Idle
  <2>2. Accepted' => Accepted
    BY <2>1 DEF Accepted, AcceptedIn
  <2> QED
    BY <2>1, <2>2 DEF UpgradeInv
<1>5. CASE decideUpgrade
  <2>1. cb.at = "decide" /\ state = "Handshaking" /\ cb'.at = "none"
    BY <1>5 DEF decideUpgrade, Idle, UpgradeInv
  <2>2. CASE "upgrade" \in cb.parts /\ state' = "Connected" /\ UNCHANGED net
    <3>1. Accepted
      BY <2>1, <2>2 DEF Accepted
    <3> QED
      BY <2>1, <2>2, <3>1 DEF UpgradeInv, net
  <2>3. CASE closeClient
    BY <2>1, <2>3, CloseUpgrade
  <2>4. CASE UNCHANGED <<state, net, text>>
    <3>1. Accepted' => Accepted
      BY <2>1, <2>4 DEF Accepted, AcceptedIn, net
    <3> QED
      BY <2>1, <2>4, <3>1 DEF UpgradeInv, net
  <2> QED
    BY <1>5, <2>2, <2>3, <2>4 DEF decideUpgrade
<1> QED
  BY <1>1, <1>2, <1>3, <1>4, <1>5 DEF callbacks

\* The server accepts before the box can read that it did.
LEMMA WorldUpgrade ==
  ASSUME IInv, UpgradeInv, attemptEnds \/ peerCloses \/ serverSends
  PROVE  UpgradeInv'
<1>0. /\ events \in Seq(Events) /\ DataFirst(events)
      /\ UNCHANGED <<state, text, cb>>
  BY DEF IInv, BufferTypes, UpgradeInv, attemptEnds, peerCloses, serverSends
<1>1. CASE attemptEnds \/ peerCloses
  <2>1. PICK k \in {"connect", "gone"} : events' = Append(events, [kind |-> k])
    BY <1>1 DEF attemptEnds, peerCloses, Event
  <2>2. DataFirst(events')
    BY <1>0, <2>1, LongerQueue DEF Events
  <2>3. \/ tcp' = "closed"
        \/ tcp' = "open" /\ state \in {"Connecting", "Disconnected"}
    BY <1>1 DEF attemptEnds, peerCloses, UpgradeInv
  <2> QED
    BY <1>0, <2>2, <2>3 DEF UpgradeInv
<1>2. CASE serverSends
  <2>1. PICK c \in Chunks : /\ events' = Append(events, [kind |-> "data", chunk |-> c])
                            /\ upgraded' = (upgraded \/ "upgrade" \in c.parts)
    BY <1>2 DEF serverSends
  <2>2. /\ DataFirst(events')
        /\ AcceptedIn(events') => AcceptedIn(events) \/ "upgrade" \in c.parts
    <3> DEFINE e == [kind |-> "data", chunk |-> c]
    <3>1. e \in Events /\ e.chunk = c /\ events' = Append(events, e)
      BY <2>1 DEF Events
    <3>2. ~ \E i \in 1 .. Len(events) : events[i].kind = "connect"
      BY <1>2 DEF serverSends
    <3> HIDE DEF e
    <3> QED
      BY <1>0, <3>1, <3>2, LongerQueue
  <2>3. tcp = "open" /\ tcp' = tcp
    BY <1>2 DEF serverSends
  <2>4. Accepted' => Accepted \/ "upgrade" \in c.parts
    BY <1>0, <2>2 DEF Accepted
  <2>5. upgraded => upgraded'
    BY <2>1
  <2>6. "upgrade" \in c.parts => upgraded'
    BY <2>1
  <2> QED
    BY <1>0, <2>2, <2>3, <2>4, <2>5, <2>6 DEF UpgradeInv
<1> QED
  BY <1>1, <1>2

LEMMA StepUpgrade ==
  CallbacksFinish /\ FramesInv /\ [Next]_vars => UpgradeInv'
<1> SUFFICES ASSUME CallbacksFinish, FramesInv, [Next]_vars PROVE UpgradeInv'
  OBVIOUS
<1>1. IInv /\ UpgradeInv
  BY DEF FramesInv
<1>2. CASE UNCHANGED vars \/ logSomething \/ tick
  BY <1>1, <1>2, NoChangeUpgrade DEF vars, logSomething, tick
<1> QED
  BY <1>1, <1>2, UpdateUpgrade, CallbackUpgrade, WorldUpgrade DEF Next

\* sendNow() writes records into a connection whose server has accepted the
\* upgrade, never into one that only follows a connection that had it: for any
\* timeouts, any number of events waiting and any order of the steps.
THEOREM FramesWhenAccepted ==
  ASSUME LOG_HANDSHAKE_RESPONSE_MAX_LEN \in Nat, CallbacksFinish
  PROVE  Spec => []FramesAfterUpgrade
<1>1. Init => FramesInv
  BY InitInv, UpgradeInit DEF FramesInv
<1>2. FramesInv /\ [Next]_vars => FramesInv'
  BY StepInv, StepUpgrade DEF FramesInv
<1>3. FramesInv => FramesAfterUpgrade
  BY DEF FramesInv, UpgradeInv, FramesAfterUpgrade, isConnected
<1> QED
  BY <1>1, <1>2, <1>3, PTL DEF Spec
=============================================================================
