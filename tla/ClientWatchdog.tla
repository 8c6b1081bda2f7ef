--------------------------- MODULE ClientWatchdog ---------------------------
(***************************************************************************)
(* The watchdog of web clients: class WebSocketManager of websocket.cpp.   *)
(*                                                                         *)
(* Every WATCHDOG_INTERVAL loop() sends all clients a ping and closes the  *)
(* ones whose last pong is too old.  The pongs, and the connections and    *)
(* disconnections, are events of the AsyncTCP task, which changes the same *)
(* table of clients without a lock.                                        *)
(***************************************************************************)
EXTENDS Integers, FiniteSets

CONSTANTS
  Clients,
  NoClient,
  DEFAULT_MAX_WS_CLIENTS,  (* entries of the table, 8 in the code           *)
  WATCHDOG_INTERVAL,       (* 10 s                                          *)
  WATCHDOG_TIMEOUT,        (* 30 s                                          *)
  MaxLate,                 (* bound: how late a round of loop() can be      *)
  Serialized               (* whether events wait for a round of loop()     *)

VARIABLES
  entries,  (* watchDogEntries                                              *)
  free,     (* freeWatchdogEntry                                            *)
  scan,     (* cleanupConnections() in progress: its place and index        *)
  feed,     (* time since watchdogFeedStartedAt                             *)
  status,   (* external: "away", "connected", or "closing" after close()    *)
  alive,    (* external: clients that answer                                *)
  pinged    (* external: clients with a ping to answer                      *)

vars == <<entries, free, scan, feed, status, alive, pinged>>

Slots == 0 .. DEFAULT_MAX_WS_CLIENTS - 1
AgeCap == WATCHDOG_TIMEOUT
Unused == [active |-> FALSE, clientId |-> NoClient, age |-> 0]

TypeOK ==
  /\ entries \in [Slots -> [active : BOOLEAN, clientId : Clients \cup {NoClient}, age : 0 .. AgeCap]]
  /\ free \in 0 .. DEFAULT_MAX_WS_CLIENTS
  /\ scan \in [at : {"none", "scan", "remove", "shift"}, i : 0 .. DEFAULT_MAX_WS_CLIENTS]
  /\ feed \in 0 .. WATCHDOG_INTERVAL + MaxLate
  /\ status \in [Clients -> {"away", "connected", "closing"}]
  /\ alive \subseteq Clients /\ pinged \subseteq Clients

Rest == [at |-> "none", i |-> 0]

Init ==
  /\ entries = [i \in Slots |-> Unused] /\ free = 0
  /\ scan = Rest /\ feed = WATCHDOG_INTERVAL
  /\ status = [c \in Clients |-> "away"]
  /\ alive = {} /\ pinged = {}

holds(t, i, c) == t[i].active /\ t[i].clientId = c
EntriesOf(c) == {i \in Slots : i < free /\ holds(entries, i, c)}

\* The entries after the removed one move up by one slot; the last stays behind.
shifted(t, f, i) == [k \in Slots |-> IF k \in i .. f - 2 THEN t[k + 1] ELSE t[k]]
deactivated(t, i) == [t EXCEPT ![i].active = FALSE]

\* One round of the loop of watchdogRemoveEntry().
removedFrom(tf, i, c) ==
  IF i < tf.f /\ holds(tf.t, i, c)
    THEN [t |-> shifted(deactivated(tf.t, i), tf.f, i), f |-> tf.f - 1]
    ELSE tf

eventsMayRun == Serialized => scan.at = "none"

----------------------------------------------------------------------------
(* The AsyncTCP task *)

\* Mutant: the limit of the table is not checked.
pongUnlimited(c) ==
  IF EntriesOf(c) # {}
    THEN /\ entries' = [i \in Slots |-> IF holds(entries, i, c) THEN [entries[i] EXCEPT !.age = 0] ELSE entries[i]]
         /\ UNCHANGED free
    ELSE /\ entries' = [entries EXCEPT ![free] = [active |-> TRUE, clientId |-> c, age |-> 0]]
         /\ free' = free + 1

\* handleWatchdogResponse(): the client's first entry, or the next free one.
handleWatchdogResponse(c) ==
  LET found == EntriesOf(c)
      next  == IF free < 0 THEN 0 ELSE free
  IN  \/ /\ found # {}
         /\ entries' = [entries EXCEPT ![CHOOSE i \in found : \A j \in found : i <= j].age = 0]
         /\ UNCHANGED free
      \/ /\ found = {} /\ next < DEFAULT_MAX_WS_CLIENTS
         /\ entries' = [entries EXCEPT ![next] = [active |-> TRUE, clientId |-> c, age |-> 0]]
         /\ free' = free + 1
      \/ /\ found = {} /\ next >= DEFAULT_MAX_WS_CLIENTS
         /\ UNCHANGED <<entries, free>>

onConnect(c) ==
  /\ eventsMayRun /\ status[c] = "away"
  /\ status' = [status EXCEPT ![c] = "connected"]
  /\ alive' = alive \union {c} /\ pinged' = pinged \ {c}
  /\ handleWatchdogResponse(c)
  /\ UNCHANGED <<scan, feed>>

\* Mutant: the entry of a client that left stays in the table.
onDisconnectKeepsEntry(c) ==
  /\ eventsMayRun /\ status[c] # "away"
  /\ status' = [status EXCEPT ![c] = "away"]
  /\ alive' = alive \ {c} /\ pinged' = pinged \ {c}
  /\ UNCHANGED <<entries, free, scan, feed>>

\* WS_EVT_DISCONNECT: watchdogRemoveEntry() goes through the whole table.
onDisconnect(c) ==
  /\ eventsMayRun /\ status[c] # "away"
  /\ status' = [status EXCEPT ![c] = "away"]
  /\ alive' = alive \ {c} /\ pinged' = pinged \ {c}
  /\ LET after[k \in 0 .. DEFAULT_MAX_WS_CLIENTS] ==
           IF k = 0 THEN [t |-> entries, f |-> free] ELSE removedFrom(after[k - 1], k - 1, c)
     IN  /\ entries' = after[DEFAULT_MAX_WS_CLIENTS].t
         /\ free' = after[DEFAULT_MAX_WS_CLIENTS].f
  /\ UNCHANGED <<scan, feed>>

onPong(c) ==
  /\ eventsMayRun /\ c \in alive \cap pinged /\ status[c] # "away"
  /\ pinged' = pinged \ {c}
  /\ handleWatchdogResponse(c)
  /\ UNCHANGED <<scan, feed, status, alive>>

----------------------------------------------------------------------------
(* loop() *)

\* update(): watchdogSendRequest(), then cleanupConnections().
update ==
  /\ scan.at = "none" /\ feed >= WATCHDOG_INTERVAL
  /\ feed' = 0
  /\ pinged' = pinged \union {c \in Clients : status[c] = "connected"}
  /\ scan' = [at |-> "scan", i |-> 0]
  /\ UNCHANGED <<entries, free, status, alive>>

\* cleanupConnections(), one entry: a client without a recent pong is closed.
cleanupConnections ==
  /\ scan.at = "scan"
  /\ \/ /\ scan.i < free
        /\ entries[scan.i].active /\ entries[scan.i].age >= WATCHDOG_INTERVAL
        /\ status' = [status EXCEPT ![entries[scan.i].clientId] = IF @ = "away" THEN @ ELSE "closing"]
        /\ scan' = [scan EXCEPT !.at = "remove"]
     \/ /\ scan.i < free
        /\ ~(entries[scan.i].active /\ entries[scan.i].age >= WATCHDOG_INTERVAL)
        /\ scan' = [scan EXCEPT !.i = @ + 1] /\ UNCHANGED status
     \/ scan.i >= free /\ scan' = Rest /\ UNCHANGED status
  /\ UNCHANGED <<entries, free, feed, alive, pinged>>

\* watchdogRemoveEntryIdx(), called by the scan, which then skips the entry
\* that has moved into the slot.
watchdogRemoveEntryIdx ==
  /\ scan.at = "remove"
  /\ IF scan.i >= free
       THEN scan' = [at |-> "scan", i |-> scan.i + 1] /\ UNCHANGED entries
       ELSE scan' = [scan EXCEPT !.at = "shift"] /\ entries' = deactivated(entries, scan.i)
  /\ UNCHANGED <<free, feed, status, alive, pinged>>

shiftEntries ==
  /\ scan.at = "shift"
  /\ entries' = shifted(entries, free, scan.i) /\ free' = free - 1
  /\ scan' = [at |-> "scan", i |-> scan.i + 1]
  /\ UNCHANGED <<feed, status, alive, pinged>>

----------------------------------------------------------------------------
clientDies(c) ==
  /\ c \in alive /\ alive' = alive \ {c}
  /\ UNCHANGED <<entries, free, scan, feed, status, pinged>>

tick ==
  /\ scan.at = "none" /\ feed < WATCHDOG_INTERVAL + MaxLate
  /\ feed' = feed + 1
  /\ entries' = [i \in Slots |-> [entries[i] EXCEPT !.age = IF @ < AgeCap THEN @ + 1 ELSE @]]
  /\ UNCHANGED <<free, scan, status, alive, pinged>>

loopStep == update \/ cleanupConnections \/ watchdogRemoveEntryIdx \/ shiftEntries

Next ==
  \/ loopStep \/ tick
  \/ \E c \in Clients : onConnect(c) \/ onDisconnect(c) \/ onPong(c) \/ clientDies(c)

\* loop() keeps running, time passes, and the server reports the end of a
\* connection it was told to close.
onClose(c) == status[c] = "closing" /\ onDisconnect(c)
Fairness ==
  /\ WF_vars(loopStep) /\ WF_vars(tick)
  /\ \A c \in Clients : WF_vars(onClose(c))

Spec == Init /\ [][Next]_vars /\ Fairness

----------------------------------------------------------------------------
(* Properties *)

\* Between two operations every entry below freeWatchdogEntry belongs to a
\* client of the server, none twice: no entry outlives its client.
EntriesAreClients ==
  scan.at = "none" =>
    /\ \A i \in Slots : i < free => entries[i].active /\ status[entries[i].clientId] # "away"
    /\ \A i, j \in Slots : i < j /\ j < free => entries[i].clientId # entries[j].clientId

\* "Track last pong time for each client" (websocket.h:85): when the table
\* is large enough for all clients there are, every connected one has an entry.
EachClientTracked ==
  scan.at = "none" /\ Cardinality(Clients) <= DEFAULT_MAX_WS_CLIENTS
    => \A c \in Clients : status[c] = "connected" => EntriesOf(c) # {}

\* A tracked client that has fallen silent is closed in the end, also when its
\* entry is passed over by the scan that removes its neighbour.
DeadClientDropped ==
  \A c \in Clients : (status[c] = "connected" /\ c \notin alive /\ EntriesOf(c) # {})
                        ~> status[c] # "connected"

=============================================================================
