------------------------------- MODULE Tunnel -------------------------------
(***************************************************************************)
(* Who owns the channels of the SSH tunnel, and how the tunnel comes back  *)
(* (SSHTunnel of ssh_tunnel.cpp, ChannelManager of ssh_channel.cpp, and    *)
(* the failure counters of SSHSession).                                    *)
(*                                                                         *)
(* A channel that the SSH server opens is accepted by loop() and bound to  *)
(* a slot, queued until a slot is free, or closed; a close that cannot     *)
(* have the session's lock is queued too.  Another task uses the session,  *)
(* so that every lock() may fail; libssh2 may answer EAGAIN to every close *)
(* and free; every time-out may strike when it is looked at.  A Channel is *)
(* a pointer: libssh2 may use a freed one again for the next channel.      *)
(***************************************************************************)
EXTENDS Naturals, Sequences, FiniteSets, SequencesExt

CONSTANTS
  Channel,             \* addresses of LIBSSH2_CHANNEL
  None,                \* nullptr
  MaxSlots,            \* maxChannels
  Listeners,           \* number of reverse listeners
  MAX_PENDING, MAX_DEFERRED_CLOSE,
  FailLimit,           \* failures in a row that end a session: 3
  MaxReconnectAttempts, BaseDelay, MaxDelay    \* of handleReconnection()

VARIABLES
  pc,        \* where loop() is: "top", "accept", "pump", "pending", "deferred"
  at,        \* the entry of the queue that loop() looks at
  state,     \* TunnelState
  mem,       \* slots, queues and what libssh2 has allocated
  fails,     \* socketHealthFailures_, keepAliveFailures_, fatal accept errors
  attempts,  \* reconnectAttempts_
  waited,    \* time since lastConnectionAttempt_
  link,      \* the TCP connection: "up", or "dead" until the next connect
  server     \* whether the SSH server answers

vars == <<pc, at, state, mem, fails, attempts, waited, link, server>>

Slot == 1 .. MaxSlots
Closed == [ch |-> None, state |-> "closed", closeComplete |-> FALSE,
           finalized |-> FALSE]
Empty == [slot |-> [i \in Slot |-> Closed], count |-> 0, pending |-> <<>>,
          deferred |-> <<>>, open |-> {}, misused |-> FALSE]
NoFails == [health |-> 0, keepalive |-> 0, accept |-> 0]

Init ==
  /\ pc = "top" /\ at = 0
  /\ state = "disconnected"
  /\ mem = Empty /\ fails = NoFails
  /\ attempts = 0 /\ waited = 0
  /\ link = "dead" /\ server \in {"up", "down"}

-----------------------------------------------------------------------------
(***************************************************************************)
(* Calls of libssh2.  m is the value of mem; a call with a pointer that is *)
(* not allocated is a misuse.                                              *)
(***************************************************************************)
Touch(m, c) == [m EXCEPT !.misused = @ \/ c \notin m.open]
Freed(m, c, done) ==
  [Touch(m, c) EXCEPT !.open = IF done THEN @ \ {c} ELSE @]

active(m, i) == m.slot[i].state # "closed"
Active(m) == {i \in Slot : active(m, i)}

-----------------------------------------------------------------------------
(***************************************************************************)
(* ChannelManager.                                                         *)
(***************************************************************************)
beginClose(m, i) ==
  IF m.slot[i].state = "open" THEN [m EXCEPT !.slot[i].state = "draining"]
  ELSE m

\* The first slot that is free and not cooling; a stale one is recycled.
findFreeSlot(m, cooling) ==
  {i \in Slot : ~active(m, i) /\ ~(m.slot[i].finalized /\ i \in cooling)}
allocated(m, cooling) ==
  IF findFreeSlot(m, cooling) = {} THEN 0
  ELSE CHOOSE i \in findFreeSlot(m, cooling) :
         \A j \in findFreeSlot(m, cooling) : i <= j
recycled(m, stale) == IF stale = 0 THEN m ELSE beginClose(m, stale)

\* resetSlot() and what follows it; lastFinalizeMs survives.
bindChannel(m, i, c) ==
  [Touch(m, c) EXCEPT
     !.slot[i] = [Closed EXCEPT !.ch = c, !.state = "open",
                                !.finalized = m.slot[i].finalized],
     !.count = @ + 1]

\* closeComplete is kept between calls that answer EAGAIN.
finalizeClose(m, i, closes, frees) ==
  LET s == m.slot[i]
      closed == s.closeComplete \/ closes
  IN IF ~closed THEN Touch(m, s.ch)
     ELSE IF ~frees THEN [Touch(m, s.ch) EXCEPT !.slot[i].closeComplete = TRUE]
     ELSE [Freed(m, s.ch, TRUE) EXCEPT
             !.slot[i] = [Closed EXCEPT !.finalized = TRUE], !.count = @ - 1]

abandonSlot(m, i) ==
  IF ~active(m, i) THEN m
  ELSE [m EXCEPT !.slot[i] = [Closed EXCEPT !.finalized =
                                              m.slot[i].finalized],
                 !.count = IF @ > 0 THEN @ - 1 ELSE 0]

-----------------------------------------------------------------------------
(***************************************************************************)
(* Closing a channel that has no slot: at once when the lock is granted,   *)
(* and then the pointer is dropped even when libssh2 answers EAGAIN.       *)
(***************************************************************************)
closeAcceptedChannel(m, c, done) == Freed(m, c, done)

enqueueDeferredClose(m, c, locked, done) ==
  IF locked THEN closeAcceptedChannel(m, c, done)
  ELSE IF Len(m.deferred) >= MAX_DEFERRED_CLOSE THEN m
  ELSE [m EXCEPT !.deferred = Append(@, c)]

pend(m, c) == [m EXCEPT !.pending = Append(@, [ch |-> c, action |-> "bind"])]
Room(m) == Len(m.pending) < MAX_PENDING

\* What the world answers to one call of handleNewConnection() or to one
\* entry of a queue.
Oracle(m) ==
  [lock : [1 .. 3 -> BOOLEAN], done : BOOLEAN, binds : BOOLEAN,
   cooling : SUBSET {i \in Slot : m.slot[i].finalized},
   stale : {0} \cup Active(m)]

\* The branches of handleNewConnection() once a channel was accepted.
placed(m, c, o) ==
  LET i == allocated(m, o.cooling)
      later == enqueueDeferredClose(m, c, o.lock[2], o.done)
      rest == recycled(m, o.stale)
  IN CASE i # 0 /\ o.lock[1] /\ o.binds -> bindChannel(m, i, c)
       [] i # 0 /\ o.lock[1] /\ ~o.binds -> later
       [] i # 0 /\ ~o.lock[1] -> IF Room(m) THEN pend(m, c) ELSE later
       [] i = 0 /\ Room(m) -> pend(rest, c)
       [] i = 0 /\ ~Room(m) ->
            IF o.lock[1] THEN closeAcceptedChannel(rest, c, o.done)
            ELSE IF o.lock[2] \/ Len(m.deferred) < MAX_DEFERRED_CLOSE
            THEN enqueueDeferredClose(rest, c, o.lock[2], o.done)
            ELSE IF o.lock[3] THEN closeAcceptedChannel(rest, c, o.done)
            ELSE rest

\* The circuit breaker of the mapping refuses the channel.
refused(m, c, o) ==
  IF o.lock[1] THEN closeAcceptedChannel(m, c, o.done)
  ELSE enqueueDeferredClose(m, c, o.lock[2], o.done)

-----------------------------------------------------------------------------
(***************************************************************************)
(* Tearing the session down.  The queues are closed when the lock is       *)
(* granted, then the slots are finalized or given up, then the session is  *)
(* freed with all that it holds, and whatever is left is forgotten.        *)
(***************************************************************************)
clearQueue(m, cs, locked, done) ==
  IF ~locked THEN m
  ELSE [m EXCEPT !.misused = @ \/ ~(ToSet(cs) \subseteq m.open),
                 !.open = IF done THEN @ \ ToSet(cs) ELSE @]

clearPendingQueue(m, locked, done) ==
  [clearQueue(m, [k \in DOMAIN m.pending |-> m.pending[k].ch], locked, done)
     EXCEPT !.pending = IF locked THEN <<>> ELSE @]

clearDeferredCloseQueue(m, locked, done) ==
  [clearQueue(m, m.deferred, locked, done)
     EXCEPT !.deferred = IF locked THEN <<>> ELSE @]

closeSlot(m, i, locked, done) ==
  IF ~active(m, i) THEN m
  ELSE IF locked THEN finalizeClose(m, i, TRUE, done) ELSE abandonSlot(m, i)

closeSlots(m, locked, done) ==
  LET after[i \in 0 .. MaxSlots] ==
        IF i = 0 THEN m ELSE closeSlot(after[i - 1], i, locked, done)
  IN after[MaxSlots]

cleanupSession(m) == [m EXCEPT !.open = {}]

forgetAll(m) ==
  LET after[i \in 0 .. MaxSlots] ==
        IF i = 0 THEN m ELSE abandonSlot(after[i - 1], i)
  IN [after[MaxSlots] EXCEPT !.pending = <<>>, !.deferred = <<>>]

torndownEarly(m, lock, done) ==
  LET m1 == clearPendingQueue(cleanupSession(m), lock[1], done)
      m2 == clearDeferredCloseQueue(m1, lock[2], done)
  IN forgetAll(closeSlots(m2, lock[3], done))
torndown(m, lock, done) ==
  LET m1 == clearPendingQueue(m, lock[1], done)
      m2 == clearDeferredCloseQueue(m1, lock[2], done)
  IN forgetAll(cleanupSession(closeSlots(m2, lock[3], done)))

enterErrorState(m) ==
  /\ \E lock \in [1 .. 3 -> BOOLEAN], done \in BOOLEAN :
       mem' = torndown(m, lock, done)
  /\ state' = "error"
  /\ fails' = NoFails
  /\ waited' = 0
  /\ link' = "dead"
  /\ pc' = "top" /\ at' = 0
  /\ UNCHANGED <<attempts, server>>

-----------------------------------------------------------------------------
(***************************************************************************)
(* connectSSH(), disconnect() and handleReconnection().  The worker of the *)
(* VPN manager calls them and loop(), one at a time.                       *)
(***************************************************************************)
connectSSH(failed) ==
  /\ waited' = 0
  /\ state' = IF server = "up" THEN "connected" ELSE "error"
  /\ link' = IF server = "up" THEN "up" ELSE link
  /\ fails' = NoFails
  /\ attempts' = IF server = "up" THEN 0 ELSE failed

Connect ==
  /\ pc = "top" /\ state = "disconnected"
  /\ connectSSH(attempts)
  /\ UNCHANGED <<pc, at, mem, server>>

disconnect ==
  /\ pc = "top" /\ state # "disconnected"
  /\ \E lock \in [1 .. 3 -> BOOLEAN], done \in BOOLEAN :
       mem' = torndown(mem, lock, done)
  /\ state' = "disconnected"
  /\ fails' = NoFails
  /\ link' = "dead"
  /\ UNCHANGED <<pc, at, attempts, waited, server>>

AtMost(a, b) == IF a < b THEN a ELSE b

\* The cool-down after the last attempt starts the count again.
Exhausted == attempts >= MaxReconnectAttempts
tried == IF Exhausted THEN 0 ELSE attempts
delay == AtMost(BaseDelay * 2 ^ tried, MaxDelay)
DueUnlessExhausted == waited >= delay /\ ~Exhausted
Due == waited >= delay /\ (Exhausted => waited >= MaxDelay)

handleReconnection ==
  /\ pc = "top" /\ state = "error"
  /\ Due
  /\ connectSSH(tried + 1)
  /\ mem' = torndown(mem, [k \in 1 .. 3 |-> TRUE], TRUE)
  /\ UNCHANGED <<pc, at, server>>

-----------------------------------------------------------------------------
(***************************************************************************)
(* loop() in the state "connected".  The checks of the socket and of the   *)
(* keepalive come first: the third failure in a row gives the session up,  *)
(* and an EAGAIN or a busy lock leaves the count of keepalives alone.      *)
(***************************************************************************)
healthCount(ok) == IF ok THEN 0 ELSE fails.health + 1
keepaliveCount(r) ==
  CASE r = "sent" -> 0 [] r = "send error" -> fails.keepalive + 1
    [] r = "other error" -> 0 [] r = "skipped" -> fails.keepalive

loopChecks ==
  /\ pc = "top" /\ state = "connected"
  /\ \E ok \in BOOLEAN,
        r \in {"sent", "send error", "other error", "skipped"} :
       /\ link = "up" => ok
       /\ link = "dead" => r # "sent"
       /\ IF healthCount(ok) >= FailLimit \/ keepaliveCount(r) >= FailLimit
          THEN enterErrorState(mem)
          ELSE /\ fails' = [fails EXCEPT !.health = healthCount(ok),
                                         !.keepalive = keepaliveCount(r)]
               /\ pc' = "closing" /\ at' = 1
               /\ UNCHANGED <<state, mem, attempts, waited, link, server>>

Unopened == Channel \ mem.open

\* The result of forward_accept() for every listener, in turn, until one
\* gives a channel; a listener whose lock is busy is passed over.
Results == [1 .. Listeners -> {"busy", "none", "fatal"}]
acceptCount(n, r) ==
  CASE r = "fatal" -> n + 1 [] r = "none" -> 0 [] r = "busy" -> n
acceptCounts(rs) == FoldLeft(acceptCount, fails.accept, rs)
hasFatalAcceptFailure(rs) ==
  /\ acceptCounts(rs) >= FailLimit
  /\ \E k \in DOMAIN rs :
       rs[k] = "fatal" /\ \A j \in DOMAIN rs : j > k => rs[j] = "busy"

acceptNothing ==
  /\ pc = "accept"
  /\ \E rs \in Results :
       /\ \A k \in DOMAIN rs :
            rs[k] \in {"busy", IF link = "dead" THEN "fatal" ELSE "none"}
       /\ IF hasFatalAcceptFailure(rs) THEN enterErrorState(mem)
          ELSE /\ fails' = [fails EXCEPT !.accept = AtMost(acceptCounts(rs), FailLimit)]
               /\ pc' = "pump"
               /\ UNCHANGED <<at, state, mem, attempts, waited, link, server>>

acceptChannel ==
  /\ pc = "accept" /\ link = "up"
  /\ \E c \in Unopened, o \in Oracle(mem), backedOff \in BOOLEAN :
       LET m == [mem EXCEPT !.open = @ \cup {c}]
       IN /\ mem' = IF backedOff THEN refused(m, c, o) ELSE placed(m, c, o)
          /\ pc' = IF \E i \in Slot : mem'.slot[i].ch = c THEN "accept"
                   ELSE "pump"
  /\ fails' = [fails EXCEPT !.accept = 0]
  /\ UNCHANGED <<at, state, attempts, waited, link, server>>

(***************************************************************************)
(* pumpAll(): what it may do to a slot.  A slot that is given up while it  *)
(* drains ends the session.                                                *)
(***************************************************************************)
pumped(m, i, what) ==
  CASE what = "nothing" -> m
    [] what = "begin close" -> beginClose(m, i)
    [] what = "close again" -> finalizeClose(m, i, FALSE, FALSE)
    [] what = "free again" -> finalizeClose(m, i, TRUE, FALSE)
    [] what = "finalize" -> finalizeClose(m, i, TRUE, TRUE)
    [] what = "abandon" -> abandonSlot(m, i)

Pumps(i) ==
  IF ~active(mem, i) THEN {"nothing"}
  ELSE IF mem.slot[i].state = "open" THEN {"nothing", "begin close"}
  ELSE {"nothing", "close again", "free again", "finalize", "abandon"}

pumpSlots(m, f) ==
  LET after[i \in 0 .. MaxSlots] ==
        IF i = 0 THEN m ELSE pumped(after[i - 1], i, f[i])
  IN after[MaxSlots]

pumpAll ==
  /\ pc = "pump"
  /\ \E f \in [Slot -> UNION {Pumps(i) : i \in Slot}] :
       /\ \A i \in Slot : f[i] \in Pumps(i)
       /\ IF \E i \in Slot : f[i] = "abandon"
          THEN enterErrorState(pumpSlots(mem, f))
          ELSE /\ mem' = pumpSlots(mem, f) /\ pc' = "pending" /\ at' = 1
               /\ UNCHANGED <<state, fails, attempts, waited, link, server>>

(***************************************************************************)
(* drainPendingQueue() after cleanExpiredPending(): entry by entry, the    *)
(* ones that stay move up.  An entry that is too old, and one that cannot  *)
(* be bound, is closed, or kept to be closed when the lock is busy.        *)
(***************************************************************************)
toClose(m, k, locked, done) ==
  IF locked
  THEN [closeAcceptedChannel(m, m.pending[k].ch, done)
          EXCEPT !.pending = RemoveAt(@, k)]
  ELSE [m EXCEPT !.pending[k].action = "close"]

drained(m, k, old, o) ==
  LET c == m.pending[k].ch
      i == allocated(m, o.cooling)
  IN CASE m.pending[k].action = "close" \/ old ->
            toClose(m, k, o.lock[1], o.done)
       [] m.pending[k].action = "bind" /\ ~old /\ i # 0 ->
            IF ~o.lock[1] THEN m
            ELSE IF o.binds
            THEN [bindChannel(m, i, c) EXCEPT !.pending = RemoveAt(@, k)]
            ELSE toClose(m, k, o.lock[2], o.done)
       [] m.pending[k].action = "bind" /\ ~old /\ i = 0 -> recycled(m, o.stale)

drainPendingQueue ==
  /\ pc = "pending" /\ at <= Len(mem.pending)
  /\ \E o \in Oracle(mem), old \in BOOLEAN : mem' = drained(mem, at, old, o)
  /\ at' = at + 1 - (Len(mem.pending) - Len(mem'.pending))
  /\ UNCHANGED <<pc, state, fails, attempts, waited, link, server>>

drainDeferredCloseQueue ==
  /\ pc \in {"closing", "deferred"} /\ at <= Len(mem.deferred)
  /\ \E locked, done \in BOOLEAN :
       IF locked
       THEN /\ mem' = [closeAcceptedChannel(mem, mem.deferred[at], done)
                         EXCEPT !.deferred = RemoveAt(@, at)]
            /\ at' = at
       ELSE /\ UNCHANGED mem
            /\ at' = at + 1
  /\ UNCHANGED <<pc, state, fails, attempts, waited, link, server>>

queueDone ==
  /\ \/ pc = "pending" /\ at > Len(mem.pending)
     \/ pc \in {"closing", "deferred"} /\ at > Len(mem.deferred)
  /\ pc' = CASE pc = "pending" -> "deferred" [] pc = "closing" -> "accept"
             [] pc = "deferred" -> "top"
  /\ at' = 1
  /\ UNCHANGED <<state, mem, fails, attempts, waited, link, server>>

-----------------------------------------------------------------------------
(***************************************************************************)
(* The environment.                                                        *)
(***************************************************************************)
Tick ==
  /\ state = "error" /\ waited < MaxDelay
  /\ waited' = waited + 1
  /\ UNCHANGED <<pc, at, state, mem, fails, attempts, link, server>>

linkDies ==
  /\ link = "up" /\ link' = "dead"
  /\ UNCHANGED <<pc, at, state, mem, fails, attempts, waited, server>>

serverChanges ==
  /\ server' = IF server = "up" THEN "down" ELSE "up"
  /\ link' = IF server = "up" THEN "dead" ELSE link
  /\ UNCHANGED <<pc, at, state, mem, fails, attempts, waited>>

Loop == \/ handleReconnection \/ loopChecks \/ acceptNothing \/ acceptChannel
        \/ pumpAll \/ drainPendingQueue \/ drainDeferredCloseQueue
        \/ queueDone

Next == Connect \/ disconnect \/ Loop \/ Tick \/ linkDies \/ serverChanges

(***************************************************************************)
(* The worker calls loop() for ever and time passes; a lock that is asked  *)
(* for again and again is granted in the end, since the other task holds   *)
(* it for one call of libssh2 only.                                        *)
(***************************************************************************)
acceptWithLock ==
  acceptNothing /\ (pc' = "top" \/ fails'.accept # fails.accept)

Spec == Init /\ [][Next]_vars

Fairness ==
  WF_vars(Loop) /\ WF_vars(Tick) /\ SF_vars(acceptWithLock) /\ WF_vars(queueDone)
FairSpec == Spec /\ Fairness

-----------------------------------------------------------------------------
TypeOK ==
  /\ pc \in {"top", "closing", "accept", "pump", "pending", "deferred"}
  /\ state \in {"disconnected", "connected", "error"}
  /\ mem.slot \in [Slot -> [ch : Channel \cup {None}, closeComplete : BOOLEAN,
                            state : {"open", "draining", "closed"},
                            finalized : BOOLEAN]]
  /\ Len(mem.pending) <= MAX_PENDING
  /\ Len(mem.deferred) <= MAX_DEFERRED_CLOSE
  /\ mem.open \subseteq Channel
  /\ attempts \in 0 .. MaxReconnectAttempts
  /\ waited \in 0 .. MaxDelay
  /\ fails \in [{"health", "keepalive", "accept"} -> 0 .. FailLimit]

(***************************************************************************)
(* No channel is handed to libssh2 after it was freed, whatever locks and  *)
(* calls fail on the way (finalizeClose(), the queues, enterErrorState()). *)
(***************************************************************************)
NoUseAfterFree == ~mem.misused

Owners(c) ==
  {<<"slot", i>> : i \in {j \in Active(mem) : mem.slot[j].ch = c}}
  \cup {<<"pending", k>> : k \in {j \in DOMAIN mem.pending :
                                     mem.pending[j].ch = c}}
  \cup {<<"deferred", k>> : k \in {j \in DOMAIN mem.deferred :
                                      mem.deferred[j] = c}}

(***************************************************************************)
(* A channel has one owner at most, a slot or an entry of a queue: two     *)
(* would free it twice, or mix the data of two connections when libssh2    *)
(* uses the memory again.                                                  *)
(***************************************************************************)
OneOwner == \A c \in Channel : Cardinality(Owners(c)) <= 1

(***************************************************************************)
(* activeCount_ is the number of active slots, through finalizeClose() and *)
(* abandonSlot() alike; a tunnel that is not connected has none.           *)
(***************************************************************************)
CountsActive ==
  /\ mem.count = Cardinality(Active(mem))
  /\ state # "connected" => mem.count = 0

(***************************************************************************)
(* When the server answers from some time on, a tunnel in error comes back *)
(* or is stopped: no number of failed attempts ends the retries            *)
(* (handleReconnection()).                                                 *)
(***************************************************************************)
Reconnects ==
  <>[](server = "up") => (state = "error" ~> state # "error")

(***************************************************************************)
(* A session whose connection is dead is given up.                         *)
(***************************************************************************)
DeadSessionLeft ==
  (state = "connected" /\ link = "dead") ~> state # "connected"

=============================================================================
