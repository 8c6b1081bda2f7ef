------------------------------- MODULE SshCall -------------------------------
(***************************************************************************)
(* How a function of libssh2 runs on a non-blocking session.               *)
(*                                                                         *)
(* Every operation that needs the network keeps a state of its own in the  *)
(* session or channel structure (libssh2_NB_state_idle, _created, _sent,   *)
(* ...).  When the socket would block the function returns EAGAIN from     *)
(* where it stands; the program calls it again with the same arguments and *)
(* it goes on from the saved state.  What it has allocated meanwhile hangs *)
(* on pointers of the structure.  This module has the steps such functions *)
(* are made of: build a packet, send it, wait for the answer, call another *)
(* function of the library, return.  The modules that extend it say, for   *)
(* each function, in which order they come and what every exit frees and   *)
(* leaves behind.                                                          *)
(*                                                                         *)
(* A session has at most one channel here, and a channel carries at most   *)
(* one subsystem.                                                          *)
(***************************************************************************)
EXTENDS Naturals, Sequences, SequencesExt, FiniteSets

CONSTANT Functions      \* the functions of the library the program may be in

VARIABLES
  stack,    \* the library functions that are running, outermost first
  ret,      \* "none", or what the function that returned last has returned
  again,    \* the function the program has to call again, or "none"
  locals,   \* what the running call knows that no structure keeps: "fresh",
            \* "retried" (a second attempt), "resumed" (re-entered: all gone)
  at,       \* the NB state each function has saved in the session or channel
  blocks,   \* the heap blocks the saved states point to: <<function, name>>
  due,      \* requests the server has yet to answer, oldest first
  inbox,    \* answers in session->packets, oldest first
  alive,    \* the connection stands
  authed,   \* LIBSSH2_STATE_AUTHENTICATED
  granted,  \* ghost: the server has accepted an authentication
  honest,   \* ghost: the server has sent no malformed packet
  lost,     \* ghost: blocks no pointer leads to any more
  wild,     \* ghost: functions that have used a block they did not hold
  garbled,  \* ghost: functions that have sent the start of a packet twice
  foreign,  \* ghost: functions that took the answer to somebody else's request
  hopeless  \* ghost: functions that waited for an answer they never asked for

wire   == <<due, inbox, alive, authed, granted, honest>>
ghosts == <<garbled, foreign, hopeless>>
net    == <<wire, ghosts>>
calls  == <<stack, ret, again, locals, at, blocks, lost, wild, net>>

Init ==
  /\ stack = <<>> /\ ret = "none" /\ again = "none" /\ locals = "fresh"
  /\ at = [f \in Functions |-> "idle"]
  /\ blocks = {} /\ lost = {} /\ wild = {}
  /\ garbled = {} /\ foreign = {} /\ hopeless = {}
  /\ due = <<>> /\ inbox = <<>>
  /\ alive = TRUE /\ authed = FALSE /\ granted = FALSE /\ honest = TRUE

Outside == stack = <<>>
Runs(f) == ~Outside /\ Last(stack) = f
In(f, s) == Runs(f) /\ at[f] = s /\ ret = "none"
Back(f, s, r) == Runs(f) /\ at[f] = s /\ ret = r   \* a nested call returned r
Results == {"ok", "denied", "error"}

Own(f, names) == {f} \X names

(* A block that is allocated over one that is still held has lost the old  *)
(* one: the pointer was all that led to it.                                *)
Hold(f, got, freed) ==
  /\ blocks' = (blocks \ Own(f, freed)) \cup Own(f, got)
  /\ lost' = lost \cup (Own(f, got) \cap (blocks \ Own(f, freed)))

Uses(f, names) ==
  wild' = IF Own(f, names) \subseteq blocks THEN wild ELSE wild \cup {f}

(* The function goes on in state s.                                        *)
Move(f, got, freed, s) ==
  /\ at' = [at EXCEPT ![f] = s]
  /\ Hold(f, got, freed)
  /\ ret' = "none"
  /\ UNCHANGED <<stack, again, locals>>

(* The function returns r and leaves state s behind.                       *)
Exit(f, r) ==
  /\ stack' = Front(stack)
  /\ ret' = r
  /\ again' = IF Len(stack) > 1 THEN again
              ELSE IF r = "again" THEN f ELSE "none"
  /\ UNCHANGED locals

Return(f, r, got, freed, s) ==
  /\ at' = [at EXCEPT ![f] = s]
  /\ Hold(f, got, freed)
  /\ Exit(f, r)

Leave(f, r, freed, s) == Return(f, r, {}, freed, s)

(* ... forgetting blocks that only its local variables led to.             *)
Forget(f, r, names, s) ==
  /\ at' = [at EXCEPT ![f] = s]
  /\ blocks' = blocks \ Own(f, names)
  /\ lost' = lost \cup Own(f, names)
  /\ Exit(f, r)

Again(f) == Leave(f, "again", {}, at[f])

(* The function calls g: g starts, or goes on from where it stood.         *)
Call(f, g) ==
  /\ stack' = Append(stack, g)
  /\ ret' = "none"
  /\ UNCHANGED <<again, locals, at, blocks, lost, wild, net>>

-----------------------------------------------------------------------------
(* LIBSSH2_ALLOC() succeeds and the packet is built, or the function       *)
(* returns LIBSSH2_ERROR_ALLOC.                                            *)
Build(f, got, s) ==
  /\ \/ Move(f, got, {}, s)
     \/ Leave(f, "error", {}, at[f])
  /\ UNCHANGED <<wild, net>>

Sent(request) ==
  /\ due' = due \o request
  /\ UNCHANGED <<inbox, alive, authed, granted, honest, ghosts>>
Cut ==
  /\ alive' = FALSE
  /\ UNCHANGED <<due, inbox, authed, granted, honest, ghosts>>

(* _libssh2_transport_send() of a packet that lies in the blocks `of'.     *)
Send(f, of, request, freed, s, badFreed, badState) ==
  /\ Uses(f, of)
  /\ \/ alive /\ Move(f, {}, freed, s) /\ Sent(request)
     \/ alive /\ Again(f) /\ UNCHANGED net
     \/ Leave(f, "error", badFreed, badState) /\ Cut

(* _libssh2_channel_write() to a channel: it may also take only a part,    *)
(* which most callers treat as a failure.                                  *)
Write(f, of, request, freed, s, badFreed, badState) ==
  \/ Send(f, of, request, freed, s, badFreed, badState)
  \/ alive /\ Uses(f, of) /\ Leave(f, "error", badFreed, badState) /\ UNCHANGED net

Request(r) == <<[req |-> r, own |-> TRUE]>>

Here(msgs) == {i \in DOMAIN inbox : inbox[i].msg \in msgs}

(* _libssh2_packet_requirev() finds no packet of these types: it returns   *)
(* EAGAIN, or the error of the transport or of its own time limit.         *)
Waits(f, msgs, badFreed, badState) ==
  /\ Here(msgs) = {}
  /\ hopeless' = IF alive /\ due = <<>> THEN hopeless \cup {f} ELSE hopeless
  /\ \/ alive /\ Again(f) /\ UNCHANGED alive
     \/ Leave(f, "error", badFreed, badState) /\ alive' = FALSE
  /\ UNCHANGED <<wild, due, inbox, authed, granted, honest, garbled, foreign>>

(* It finds one: the oldest.                                               *)
Takes(f, msgs, m) ==
  /\ Here(msgs) # {}
  /\ LET i == CHOOSE i \in Here(msgs) : \A j \in Here(msgs) : i <= j
     IN  /\ m = inbox[i]
         /\ inbox' = RemoveAt(inbox, i)
  /\ foreign' = IF m.own THEN foreign ELSE foreign \cup {f}
  /\ UNCHANGED <<due, alive, granted, honest, garbled, hopeless>>

(* The usual end: the answer is one of two, and either one ends the call.  *)
YesOrNo(f, yes, no, freed, s) ==
  \/ Waits(f, {yes, no}, freed, s)
  \/ \E m \in Range(inbox) :
       /\ Takes(f, {yes, no}, m)
       /\ Leave(f, IF m.msg = yes THEN "ok" ELSE "denied", freed, s)
       /\ UNCHANGED <<wild, authed>>

(* ... where yes is SSH_MSG_USERAUTH_SUCCESS.                              *)
Accepted(f, freed) ==
  Leave(f, "ok", freed, "idle") /\ authed' = TRUE /\ UNCHANGED wild

-----------------------------------------------------------------------------
(* The channel.  Its functions keep their states in it, so they are gone   *)
(* when it is freed, with the answers that were meant for it.              *)
OpenCall == "_libssh2_channel_open"
ChannelOpen == <<OpenCall, "channel">> \in blocks /\ at[OpenCall] = "idle"
PerChannel ==
  {"channel_setenv", "channel_request_pty", "channel_request_pty_size",
   "channel_request_auth_agent", "libssh2_channel_request_auth_agent",
   "channel_x11_req", "_libssh2_channel_process_startup", "channel_signal"}
OnChannel ==
  {"channel", "stream", "list", "sftp_open", "handle", "command", "version", "status", "reply"}
channelFrees ==
  Own(OpenCall, {"channel", "type"})
  \cup {"channel_setenv", "channel_x11_req", "_libssh2_channel_process_startup"} \X {"packet"}

(* _libssh2_channel_free(), once the channel is closed or cannot be.  It   *)
(* does not look at sendsignal_packet.                                     *)
Gone(reset, unlinked, dead) ==
  /\ at' = [g \in Functions |-> IF g \in PerChannel \cup reset THEN "idle" ELSE at[g]]
  /\ LET left == {b \in blocks \ channelFrees : b[1] \in PerChannel \cup dead}
     IN  /\ blocks' = blocks \ (channelFrees \cup unlinked \cup left)
         /\ lost' = lost \cup (left \ unlinked)
  /\ due' = SelectSeq(due, LAMBDA d : d.req \notin OnChannel)
  /\ inbox' = SelectSeq(inbox, LAMBDA m : m.req \notin OnChannel)
  /\ UNCHANGED <<alive, authed, granted, honest, ghosts>>

-----------------------------------------------------------------------------
(* What a server may answer to each kind of request; "stream" is what a    *)
(* program started on the channel writes.                                  *)
Answers(req) ==
  CASE req = "channel"  -> {"success", "failure"}
    [] req = "open"     -> {"confirm", "refuse"}
    [] req = "global"   -> {"granted", "declined"}
    [] req = "service"  -> {"accept"}
    [] req = "auth"     -> {"auth_success", "auth_failure"}
    [] req = "password" -> {"auth_success", "auth_failure", "changereq"}
    [] req = "key"      -> {"auth_success", "auth_failure", "pk_ok"}
    [] req = "keyboard" -> {"auth_success", "auth_failure", "info_request"}
    [] req = "stream"   -> {"line", "eof", "eof_stderr"}
    [] req = "handle"   -> {"reply"}
    [] req = "command"  -> {"status_ok", "status_bad", "unknown"}
    [] req = "version"  -> {"reply", "status_bad", "unknown"}
    [] req = "list"     -> {"status_ok", "status_bad", "reply", "unknown"}
    [] req = "status"   -> {"status_ok", "status_bad"}
    [] OTHER            -> {"status_ok", "status_bad", "reply"}

(* The entries of a list come one by one, and what a server says besides   *)
(* is no answer; to SSH_FXP_OPEN some servers answer with a status before  *)
(* the handle.                                                             *)
Remains(req, m) ==
  CASE req = "list" /\ m = "reply"          -> Request("list")
    [] m = "unknown"                        -> Request(req)
    [] req = "sftp_open" /\ m = "status_ok" -> Request("handle")
    [] OTHER                                -> <<>>

(* The server answers the oldest request, properly or with a packet that   *)
(* is too short for its type.                                              *)
Answer ==
  /\ alive /\ due # <<>> /\ inbox = <<>>
  /\ \E m \in Answers(Head(due).req), short \in BOOLEAN :
       /\ inbox' = <<[msg |-> m, req |-> Head(due).req, own |-> Head(due).own,
                      short |-> short]>>
       /\ granted' = (granted \/ m = "auth_success")
       /\ honest' = (honest /\ ~short)
       /\ due' = Remains(Head(due).req, m) \o Tail(due)
  /\ UNCHANGED <<stack, ret, again, locals, at, blocks, lost, wild, alive, authed, ghosts>>

(* SSH_MSG_USERAUTH_BANNER comes before the answer, if at all.             *)
Banner ==
  /\ alive /\ due # <<>> /\ Head(due).req = "auth"
  /\ inbox = <<>>
  /\ inbox' = <<[msg |-> "banner", req |-> "auth", own |-> TRUE, short |-> FALSE]>>
  /\ UNCHANGED <<stack, ret, again, locals, at, blocks, lost, wild, due, alive, authed,
                 granted, honest, ghosts>>

=============================================================================
