---------------------------- MODULE DirectClient ----------------------------
(***************************************************************************)
(* A channel that the box opens through the tunnel: SSHDirectClient of     *)
(* ssh_direct_client.cpp, SSHSession::openDirectTcpip(), SSHTunnel and     *)
(* VPNManager above them.  The client runs in another task than the        *)
(* tunnel, or between two rounds of it in the same task: between its looks *)
(* at the session and its calls of libssh2 the tunnel may free the session *)
(* with all its channels and make a new one.  The lock is taken for one    *)
(* call of libssh2, so that a step is one call.                            *)
(* Simplified: a new channel gets another address than those the client    *)
(* still knows; the tear-down does not fall into a call (it may, after     *)
(* waiting 2 s for the lock); what a call does with memory that was freed  *)
(* is any result of the call, and nothing is sent.                         *)
(***************************************************************************)
EXTENDS Naturals, Sequences

CONSTANTS
  MaxChannels,   \* addresses of channels
  Length         \* bytes of the data that write() is given

VARIABLES
  pc,         \* what the client is doing
  caller,     \* who called stop()
  connected,  \* the tunnel has a session
  held,       \* the channels allocated in libssh2
  channel,    \* channel_ of the client, 0 is none
  opened,     \* the channel that is to be attached, 0 is none
  freed,      \* history: the channel the client freed last
  late,       \* the last stop() ran out of time
  abandoned,  \* history: channels dropped although stop() ran out of time
  misuse,     \* history: calls with a channel that the session's end ("torn")
              \* or the client itself ("own") had freed, or with no session
              \* at all ("null")
  written,    \* writtenTotal
  wire,       \* the bytes of this write() that libssh2 took
  eof         \* eof_

vars == <<pc, caller, connected, held, channel, opened, freed, late,
          abandoned, misuse, written, wire, eof>>

stopping == <<caller, late>>
known == <<channel, opened, abandoned>>
data == <<written, wire>>
libssh2 == <<held, freed, misuse>>

Init ==
  /\ pc = "idle" /\ caller = "owner"
  /\ connected = TRUE /\ held = {}
  /\ channel = 0 /\ opened = 0 /\ freed = 0
  /\ late = FALSE /\ abandoned = {} /\ misuse = {}
  /\ written = 0 /\ wire = <<>>
  /\ eof = TRUE

-----------------------------------------------------------------------------
(***************************************************************************)
(* The tunnel's task: cleanupSession() frees the session and its channels, *)
(* connect() makes another.                                                *)
(***************************************************************************)
teardown ==
  /\ connected
  /\ connected' = FALSE /\ held' = {} /\ abandoned' = {}
  /\ UNCHANGED <<pc, stopping, channel, opened, freed, misuse, data, eof>>

reconnect ==
  /\ ~connected
  /\ connected' = TRUE
  /\ UNCHANGED <<pc, stopping, libssh2, known, data, eof>>

-----------------------------------------------------------------------------
(***************************************************************************)
(* SSHTunnel::openDirectTcpip(): the session is looked at before the lock  *)
(* is taken.  Nobody asks whether the client has a channel already.  The   *)
(* new one is attached, which begins with stop(); EAGAIN and a busy lock   *)
(* are waited for.  VPNManager comes here with a new client.               *)
(***************************************************************************)
openDirectTcpip ==
  /\ pc \in {"idle", "replaced"} /\ connected
  /\ pc' = "opening"
  /\ UNCHANGED <<stopping, connected, libssh2, known, data, eof>>

channelOpened ==
  /\ pc = "opening" /\ connected
  /\ \E c \in 1 .. MaxChannels \ (held \cup {channel, freed}) :
       opened' = c /\ held' = held \cup {c}
  /\ pc' = "stop" /\ caller' = "attach"
  /\ UNCHANGED <<connected, channel, freed, late, abandoned, misuse, data, eof>>

\* Refused or too late, or there is no session any more: the error is then
\* asked of a null session.
openFails ==
  /\ \/ pc = "opening" /\ misuse' \in {misuse, IF connected THEN misuse
                                               ELSE misuse \cup {"null"}}
     \/ pc = "replaced" /\ ~connected /\ UNCHANGED misuse
  /\ pc' = "idle"
  /\ UNCHANGED <<stopping, connected, held, freed, known, data, eof>>

-----------------------------------------------------------------------------
\* Every call of libssh2 with the channel.
Call ==
  misuse' = misuse \cup IF channel \in held THEN {}
                        ELSE {IF channel = freed THEN "own" ELSE "torn"}

connectedCheck ==
  /\ pc = "idle" /\ channel # 0 /\ ~eof /\ connected
  /\ pc' = "eof?"
  /\ UNCHANGED <<stopping, connected, libssh2, known, data, eof>>

\* With the lock the channel is asked, without it the client's own flag.
connectedEof ==
  /\ pc = "eof?"
  /\ \/ Call /\ eof' \in {eof, TRUE}
     \/ UNCHANGED <<misuse, eof>>
  /\ pc' = "idle"
  /\ UNCHANGED <<stopping, connected, held, freed, known, data>>

(***************************************************************************)
(* write(): what libssh2 does not take is offered again, until the time is *)
(* up or it fails.                                                         *)
(***************************************************************************)
offered == SubSeq([i \in 1 .. Length |-> i], written + 1, Length)

writeBegins ==
  /\ pc = "idle" /\ channel # 0
  /\ pc' = "write" /\ written' = 0 /\ wire' = <<>>
  /\ UNCHANGED <<stopping, connected, libssh2, known, eof>>

writeStep ==
  /\ pc = "write" /\ written < Length
  /\ Call
  /\ \E n \in 0 .. Length - written :
       /\ written' = written + n
       /\ wire' = IF channel \in held THEN wire \o SubSeq(offered, 1, n)
                  ELSE wire
  /\ UNCHANGED <<pc, stopping, connected, held, freed, known, eof>>

writeEnds ==
  /\ pc = "write"
  /\ pc' = "idle"
  /\ UNCHANGED <<stopping, connected, libssh2, known, data, eof>>

\* read(): bytes, EAGAIN, the end of the data, or an error, which ends it too.
read ==
  /\ pc = "idle" /\ channel # 0
  /\ Call
  /\ eof' \in {eof, TRUE}
  /\ UNCHANGED <<pc, stopping, connected, held, freed, known, data>>

-----------------------------------------------------------------------------
(***************************************************************************)
(* stop() is called by the client's owner, by VPNDirectClient::stop(), by  *)
(* the destructor, and in between by VPNManager::openDirectTcpip(), which  *)
(* replaces the client.                                                    *)
(***************************************************************************)
stop ==
  /\ pc = "idle"
  /\ caller' \in {"owner", "release", "destructor"} \cup
                 IF connected THEN {"replace"} ELSE {}
  /\ pc' = "stop"
  /\ UNCHANGED <<late, connected, libssh2, known, data, eof>>

Forgotten == channel' = 0 /\ eof' = TRUE

\* Nothing to stop, or it went with the session.
stopForgets ==
  /\ pc = "stop" /\ (channel = 0 \/ ~connected)
  /\ Forgotten
  /\ late' = FALSE
  /\ pc' = "stopped"
  /\ UNCHANGED <<caller, connected, libssh2, opened, abandoned, data>>

stopBegins ==
  /\ pc = "stop" /\ channel # 0 /\ connected
  /\ pc' = "closing"
  /\ UNCHANGED <<stopping, connected, libssh2, known, data, eof>>

\* EAGAIN is tried again, an error taken as closed.
stopCloses ==
  /\ pc = "closing"
  /\ Call
  /\ pc' \in {"closing", "freeing"}
  /\ UNCHANGED <<stopping, connected, held, freed, known, data, eof>>

\* Mutant: EAGAIN of libssh2_channel_free() is taken as freed.
stopFreesOnce ==
  /\ pc = "freeing"
  /\ Call
  /\ held' \in {held, held \ {channel}} /\ freed' = channel
  /\ Forgotten
  /\ late' = FALSE
  /\ pc' = "stopped"
  /\ UNCHANGED <<caller, connected, opened, abandoned, data>>

stopFrees ==
  /\ pc = "freeing"
  /\ Call
  /\ held' = held \ {channel} /\ freed' = channel
  /\ Forgotten
  /\ late' = FALSE
  /\ pc' = "stopped"
  /\ UNCHANGED <<caller, connected, opened, abandoned, data>>

freeAgain ==
  /\ pc = "freeing"
  /\ Call
  /\ UNCHANGED <<pc, stopping, connected, held, freed, known, data, eof>>

\* The time is up: the client keeps the channel.
stopTimesOut ==
  /\ pc \in {"closing", "freeing"}
  /\ late' = TRUE
  /\ pc' = "stopped"
  /\ UNCHANGED <<caller, connected, libssh2, known, data, eof>>

-----------------------------------------------------------------------------
\* A channel that is dropped without a look at what stop() returned.
Dropped ==
  abandoned' = IF late THEN abandoned \cup ({channel} \cap held) ELSE abandoned

\* The owner gets the result and may try again.
stopReturns ==
  /\ pc = "stopped" /\ caller = "owner"
  /\ pc' = "idle"
  /\ UNCHANGED <<stopping, connected, libssh2, known, data, eof>>

attach ==
  /\ pc = "stopped" /\ caller = "attach"
  /\ Dropped
  /\ channel' = opened /\ opened' = 0
  /\ eof' = FALSE
  /\ pc' = "idle" /\ caller' = "owner"
  /\ UNCHANGED <<late, connected, libssh2, data>>

\* VPNDirectClient::stop() deletes the client, whose destructor stops it again.
release ==
  /\ pc = "stopped" /\ caller \in {"release", "replace"}
  /\ pc' = "stop"
  /\ caller' = IF caller = "release" THEN "destructor" ELSE "discard"
  /\ UNCHANGED <<late, connected, libssh2, known, data, eof>>

\* The object is gone; the next one is new.
destroyed ==
  /\ pc = "stopped" /\ caller \in {"destructor", "discard"}
  /\ Dropped
  /\ Forgotten
  /\ pc' = IF caller = "discard" THEN "replaced" ELSE "idle"
  /\ caller' = "owner"
  /\ UNCHANGED <<late, connected, libssh2, opened, data>>

-----------------------------------------------------------------------------
Client ==
  \/ openDirectTcpip \/ channelOpened \/ openFails
  \/ connectedCheck \/ connectedEof
  \/ writeBegins \/ writeStep \/ writeEnds \/ read
  \/ stop \/ stopForgets \/ stopBegins \/ stopCloses \/ stopFrees \/ freeAgain
  \/ stopTimesOut \/ stopReturns \/ attach \/ release \/ destroyed

Next == Client \/ teardown \/ reconnect

Spec == Init /\ [][Next]_vars

-----------------------------------------------------------------------------
TypeOK ==
  /\ pc \in {"idle", "opening", "eof?", "write", "stop", "closing", "freeing",
             "stopped", "replaced"}
  /\ caller \in {"owner", "attach", "release", "replace", "destructor",
                 "discard"}
  /\ connected \in BOOLEAN /\ late \in BOOLEAN /\ eof \in BOOLEAN
  /\ held \subseteq 1 .. MaxChannels /\ abandoned \subseteq 1 .. MaxChannels
  /\ {channel, opened, freed} \subseteq 0 .. MaxChannels
  /\ misuse \subseteq {"torn", "own", "null"}
  /\ written \in 0 .. Length /\ Len(wire) <= Length

(***************************************************************************)
(* What write() reports is what went out: the first `written' bytes of the *)
(* data, each once and in order, however it was cut, unless the session    *)
(* was freed under the client and used nevertheless.                       *)
(***************************************************************************)
WrittenIsSent == misuse = {} => wire = [i \in 1 .. written |-> i]

(***************************************************************************)
(* A channel that libssh2 holds is the client's or about to be, unless a   *)
(* stop() ran out of time and its caller, attach() or the destructor,      *)
(* dropped the channel without looking at the result.  In particular       *)
(* nothing is lost when the owner looks at it and tries again.             *)
(***************************************************************************)
NotLost == held \subseteq {channel, opened} \cup abandoned

(***************************************************************************)
(* Whatever stops the client, in whatever order and how often: it never    *)
(* uses a channel that it has freed itself.                                *)
(***************************************************************************)
FreedOnce == "own" \notin misuse

(***************************************************************************)
(* "The client owns the channel until stop()/destruction"                  *)
(* (ssh_tunnel.h:95): what it calls libssh2 with is allocated.  The code   *)
(* does not keep this when the session ends first (cleanupSession()).      *)
(***************************************************************************)
OwnsChannel == misuse \cap {"torn", "own"} = {}

(***************************************************************************)
(* What makes the first three hold, step by step: a channel is in stop()   *)
(* or waits for attach() only while the client is doing that, a stop()     *)
(* that was in time leaves no channel, and none is the one freed last.     *)
(***************************************************************************)
DirectInv ==
  /\ connected \in BOOLEAN /\ late \in BOOLEAN
  /\ 0 \notin held
  /\ ~connected => held = {}
  /\ pc \in {"eof?", "write", "closing", "freeing"} => channel # 0
  /\ pc = "stopped" /\ ~late => channel = 0
  /\ opened # 0 => caller = "attach"
  /\ caller = "attach" => pc \in {"stop", "closing", "freeing", "stopped"}
  /\ channel # 0 => channel # freed /\ channel # opened
  /\ opened # 0 => opened # freed
  /\ written \in 0 .. Length
  /\ WrittenIsSent /\ NotLost /\ FreedOnce

=============================================================================
