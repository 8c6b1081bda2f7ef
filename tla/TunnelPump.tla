----------------------------- MODULE TunnelPump -----------------------------
(***************************************************************************)
(* How a channel of the SSH tunnel moves data (TransportPump of            *)
(* ssh_transport.cpp, DataRingBuffer, PrependBuffer and the closing half   *)
(* of ChannelManager in ssh_channel.cpp).                                  *)
(*                                                                         *)
(* One channel joins the SSH peer to a local socket by two rings.  The     *)
(* four phases of pumpAll() read the channel into toLocal, send toLocal to *)
(* the socket, write toRemote to the channel and read the socket into it,  *)
(* and drive the close.  Every call of libssh2 or of a socket takes as     *)
(* much as it likes, would block, or fails.  The bytes of a direction are  *)
(* numbered 1, 2, ...; a limit of attempts per phase is a phase that ends, *)
(* errors count from the one that exceeds the limit, and a time-out may    *)
(* strike whenever its timer runs.                                         *)
(***************************************************************************)
EXTENDS Naturals, Sequences

CONSTANTS
  MaxRequest,     \* bytes the SSH peer sends
  MaxResponse,    \* bytes the local program sends
  Capacity,       \* of a ring
  LowMark,        \* BACKPRESSURE_LOW_PCT of the capacity
  HighMark,       \* BACKPRESSURE_HIGH_PCT of the capacity
  PREPEND_CAP,    \* of the buffer in front of a ring
  BufSize         \* of rxBuf_ and txBuf_

VARIABLES
  pc,         \* the phase of pumpAll()
  state,      \* ChannelSlot::state, "free" when the slot is not active
  toLocal,    \* the ring to the socket: bytes put back, bytes in the ring
  toRemote,   \* the ring to the channel
  flag,       \* the Boolean fields of ChannelSlot
  remote,     \* the SSH peer: bytes sent and read here, EOF, bytes got
  local       \* the program behind the socket, likewise

vars == <<pc, state, toLocal, toRemote, flag, remote, local>>

Byte == 1 .. MaxRequest + MaxResponse
AtMost(m, n) == IF m < n THEN m ELSE n
Empty == [front |-> <<>>, ring |-> <<>>]
Peer == [sent |-> 0, read |-> 0, eof |-> FALSE, got |-> <<>>]
NoFlags == [f \in {"localEof", "remoteEof", "localShutdownSent", "eofSent",
                   "localReadPaused", "sshReadPaused", "failing",
                   "closeComplete"} |-> FALSE]

Init ==
  /\ pc = "ssh"
  /\ state = "open"
  /\ toLocal = Empty /\ toRemote = Empty
  /\ flag = NoFlags
  /\ remote = Peer /\ local = Peer

-----------------------------------------------------------------------------
(***************************************************************************)
(* The rings.                                                              *)
(***************************************************************************)
Content(r) == r.front \o r.ring
size(r) == Len(Content(r))
empty(r) == size(r) = 0
available(r) == Capacity - Len(r.ring)

\* write(): what fits, at the end.
write(r, s) == [r EXCEPT !.ring = @ \o SubSeq(s, 1, AtMost(Len(s), available(r)))]

\* writeToFront(), and the append that replaces it when it is refused.
toEnd(r, s) == write(r, s)
toFront(r, s) == [r EXCEPT !.front = s]
putBack(r, s) ==
  IF s = <<>> THEN r
  ELSE IF r.front = <<>> /\ Len(s) <= PREPEND_CAP THEN toFront(r, s)
  ELSE write(r, s)

\* read(): the bytes put back come first; the ring may give fewer than asked.
Gets(r, n) == AtMost(n, Len(r.front)) .. AtMost(n, size(r)) \ {0}
taken(r, n) == SubSeq(Content(r), 1, n)
left(r, n) ==
  [front |-> SubSeq(r.front, n + 1, Len(r.front)),
   ring |-> SubSeq(r.ring, n + 1 - AtMost(n, Len(r.front)), Len(r.ring))]

Low(r) == size(r) < LowMark
High(r) == size(r) > HighMark

-----------------------------------------------------------------------------
(***************************************************************************)
(* The two programs at the ends send, and close, when they like.           *)
(***************************************************************************)
remoteSends ==
  /\ remote.sent < MaxRequest /\ ~remote.eof
  /\ remote' = [remote EXCEPT !.sent = @ + 1]
  /\ UNCHANGED <<pc, state, toLocal, toRemote, flag, local>>

remoteCloses ==
  /\ ~remote.eof
  /\ remote' = [remote EXCEPT !.eof = TRUE]
  /\ UNCHANGED <<pc, state, toLocal, toRemote, flag, local>>

localSends ==
  /\ local.sent < MaxResponse /\ ~local.eof
  /\ local' = [local EXCEPT !.sent = @ + 1]
  /\ UNCHANGED <<pc, state, toLocal, toRemote, flag, remote>>

localCloses ==
  /\ ~local.eof
  /\ local' = [local EXCEPT !.eof = TRUE]
  /\ UNCHANGED <<pc, state, toLocal, toRemote, flag, remote>>

Bytes(p, n) == [i \in 1 .. n |-> p.read + i]
Unread(p) == p.sent - p.read

(***************************************************************************)
(* beginClose() only leaves the state "open".                              *)
(***************************************************************************)
beginClose == state' = IF state = "open" THEN "draining" ELSE state

-----------------------------------------------------------------------------
(***************************************************************************)
(* Phase 1, pumpSshTransport().  A channel at EOF is read for the sake of  *)
(* the others; one whose ring is too full is read in small portions while  *)
(* there is room, and one byte is read and dropped when there is none and  *)
(* no other channel was read.                                              *)
(***************************************************************************)
InPhase(p) == state # "free" /\ pc = p

resumed == flag.sshReadPaused /\ Low(toLocal)

readStores ==
  /\ InPhase("ssh") /\ ~flag.remoteEof
  /\ available(toLocal) > 0
  /\ \E n \in 1 .. AtMost(AtMost(available(toLocal), BufSize), Unread(remote)) :
       /\ toLocal' = write(toLocal, Bytes(remote, n))
       /\ remote' = [remote EXCEPT !.read = @ + n]
       /\ flag' = [flag EXCEPT !.failing = FALSE,
                     !.sshReadPaused = (@ /\ ~resumed) \/ High(toLocal')]
       /\ pc' = IF flag'.sshReadPaused THEN "toLocal" ELSE pc
  /\ UNCHANGED <<state, toRemote, local>>

readPauses ==
  /\ InPhase("ssh") /\ ~flag.remoteEof
  /\ available(toLocal) = 0 /\ ~flag.sshReadPaused
  /\ flag' = [flag EXCEPT !.sshReadPaused = TRUE]
  /\ UNCHANGED <<pc, state, toLocal, toRemote, remote, local>>

readEof ==
  /\ InPhase("ssh") /\ ~flag.remoteEof
  /\ available(toLocal) > 0 \/ ~flag.sshReadPaused
  /\ remote.eof /\ Unread(remote) = 0
  /\ flag' = [flag EXCEPT !.remoteEof = TRUE]
  /\ pc' = "toLocal"
  /\ UNCHANGED <<state, toLocal, toRemote, remote, local>>

readFails ==
  /\ InPhase("ssh") /\ ~flag.remoteEof /\ available(toLocal) > 0
  /\ flag' = [flag EXCEPT !.failing = TRUE]
  /\ beginClose
  /\ pc' = "toLocal"
  /\ UNCHANGED <<toLocal, toRemote, remote, local>>

\* The read of the last resort: what it reads goes nowhere.
fallback ==
  /\ InPhase("ssh") /\ ~flag.remoteEof
  /\ flag.sshReadPaused /\ available(toLocal) = 0 /\ ~resumed
  /\ Unread(remote) > 0
  /\ remote' = [remote EXCEPT !.read = @ + 1]
  /\ pc' = "toLocal"
  /\ UNCHANGED <<state, toLocal, toRemote, flag, local>>

\* EAGAIN, a lock that is not granted, or a channel that was at EOF before.
sshPhaseEnds ==
  /\ InPhase("ssh")
  /\ pc' = "toLocal"
  /\ flag' = [flag EXCEPT !.sshReadPaused = @ /\ ~resumed]
  /\ UNCHANGED <<state, toLocal, toRemote, remote, local>>

-----------------------------------------------------------------------------
(***************************************************************************)
(* Phase 2, drainSshToLocal(): what the socket does not take is put back.  *)
(* A socket that was shut down for writing, or that failed, refuses all,   *)
(* and what was taken from the ring is lost with it.                       *)
(***************************************************************************)
sendLocal ==
  /\ InPhase("toLocal") /\ ~flag.localShutdownSent
  /\ \E got \in Gets(toLocal, BufSize) : \E sent \in 0 .. got :
       LET s == taken(toLocal, got) IN
       /\ local' = [local EXCEPT !.got = @ \o SubSeq(s, 1, sent)]
       /\ toLocal' = putBack(left(toLocal, got), SubSeq(s, sent + 1, got))
       /\ pc' = IF sent < got THEN "toSsh" ELSE pc
  /\ UNCHANGED <<state, toRemote, flag, remote>>

sendFails ==
  /\ InPhase("toLocal")
  /\ \E got \in Gets(toLocal, BufSize) : toLocal' = left(toLocal, got)
  /\ flag' = [flag EXCEPT !.localEof = TRUE]
  /\ pc' = "toSsh"
  /\ UNCHANGED <<state, toRemote, remote, local>>

\* LOCAL_SEND_STALL_TIMEOUT_MS with data left begins the close.
localStalls ==
  /\ InPhase("toLocal") /\ ~empty(toLocal)
  /\ beginClose
  /\ pc' = "toSsh"
  /\ UNCHANGED <<toLocal, toRemote, flag, remote, local>>

localPhaseEnds ==
  /\ InPhase("toLocal")
  /\ pc' = "toSsh"
  /\ UNCHANGED <<state, toLocal, toRemote, flag, remote, local>>

-----------------------------------------------------------------------------
(***************************************************************************)
(* Phase 3, drainLocalToSsh(): step A writes toRemote to the channel, step *)
(* B reads the socket.  Nothing is done once EOF was sent.                 *)
(***************************************************************************)
writeSsh ==
  /\ InPhase("toSsh") /\ ~flag.eofSent
  /\ \E got \in Gets(toRemote, BufSize) : \E sent \in 0 .. got :
       LET s == taken(toRemote, got) IN
       /\ remote' = [remote EXCEPT !.got = @ \o SubSeq(s, 1, sent)]
       /\ toRemote' = putBack(left(toRemote, got), SubSeq(s, sent + 1, got))
       /\ flag' = IF sent > 0 THEN [flag EXCEPT !.failing = FALSE] ELSE flag
       /\ pc' = IF sent < got THEN "recv" ELSE pc
  /\ UNCHANGED <<state, toLocal, local>>

\* A write error, and EAGAIN for longer than EAGAIN_STALL_TIMEOUT_MS.
writeFails ==
  /\ InPhase("toSsh") /\ ~flag.eofSent /\ ~empty(toRemote)
  /\ \E fails \in BOOLEAN : flag' = [flag EXCEPT !.failing = @ \/ fails]
  /\ beginClose
  /\ pc' = "recv"
  /\ UNCHANGED <<toLocal, toRemote, remote, local>>

pausedNow == IF flag.localReadPaused THEN ~Low(toRemote) ELSE High(toRemote)

sshWritten ==
  /\ InPhase("toSsh")
  /\ pc' = IF flag.eofSent THEN "close" ELSE "recv"
  /\ UNCHANGED <<state, toLocal, toRemote, flag, remote, local>>

MayRecv == ~flag.localEof /\ ~flag.eofSent /\ ~pausedNow

recv ==
  /\ InPhase("recv") /\ MayRecv
  /\ \E n \in 1 .. AtMost(AtMost(available(toRemote), BufSize), Unread(local)) :
       /\ toRemote' = write(toRemote, Bytes(local, n))
       /\ local' = [local EXCEPT !.read = @ + n]
  /\ flag' = [flag EXCEPT !.localReadPaused = pausedNow]
  /\ UNCHANGED <<pc, state, toLocal, remote>>

\* recv() returns 0, or fails.
recvEnds ==
  /\ InPhase("recv") /\ MayRecv
  /\ available(toRemote) > 0
  /\ \/ local.eof /\ Unread(local) = 0 /\ UNCHANGED local
     \/ local' = [local EXCEPT !.eof = TRUE, !.sent = local.read]
  /\ flag' = [flag EXCEPT !.localEof = TRUE, !.localReadPaused = pausedNow]
  /\ pc' = "close"
  /\ UNCHANGED <<state, toLocal, toRemote, remote>>

recvPhaseEnds ==
  /\ InPhase("recv")
  /\ flag' = [flag EXCEPT !.localReadPaused =
                pausedNow \/ (MayRecv /\ available(toRemote) = 0)]
  /\ pc' = "close"
  /\ UNCHANGED <<state, toLocal, toRemote, remote, local>>

-----------------------------------------------------------------------------
(***************************************************************************)
(* Phase 4, checkCloses().  Step 1 forwards the peer's EOF to the socket   *)
(* and leaves "open"; `timeout' stands for the half-close and inactivity   *)
(* time-outs.                                                              *)
(***************************************************************************)
shutsDown == flag.remoteEof /\ empty(toRemote)

openCheck(timeout) ==
  LET closes == \/ flag.remoteEof /\ flag.localEof
                \/ flag.localEof /\ empty(toRemote)
                \/ flag.failing
  IN /\ state' = IF closes \/ timeout THEN "draining" ELSE "open"
     /\ flag' = IF ~closes /\ shutsDown
                THEN [flag EXCEPT !.localShutdownSent = TRUE] ELSE flag

checkOpen ==
  /\ InPhase("close") /\ state = "open"
  /\ \E timeout \in BOOLEAN : openCheck(timeout)
  /\ pc' = IF state' = "draining" THEN "drain" ELSE "ssh"
  /\ UNCHANGED <<toLocal, toRemote, remote, local>>

toDrain ==
  /\ InPhase("close") /\ state = "draining"
  /\ pc' = "drain"
  /\ UNCHANGED <<state, toLocal, toRemote, flag, remote, local>>

(***************************************************************************)
(* Step 2a: when both rings are empty EOF is sent and the channel is read  *)
(* once more.                                                              *)
(***************************************************************************)
drained == empty(toLocal) /\ empty(toRemote)

sendEof ==
  /\ InPhase("drain") /\ drained /\ ~flag.eofSent /\ ~flag.failing
  /\ flag' = [flag EXCEPT !.eofSent = TRUE]
  /\ \E n \in 0 .. Unread(remote) :
       /\ toLocal' = write(toLocal, Bytes(remote, n))
       /\ remote' = [remote EXCEPT !.read = @ + n]
  /\ pc' = "ssh"
  /\ UNCHANGED <<state, toRemote, local>>

(***************************************************************************)
(* Step 2b: after the grace period, too many errors or DRAIN_TIMEOUT_MS    *)
(* the channel is closed and freed; both calls may have to be repeated.    *)
(***************************************************************************)
finalizeClose ==
  /\ InPhase("drain")
  /\ \/ flag.closeComplete /\ state' = "free" /\ UNCHANGED flag
     \/ ~flag.closeComplete /\ UNCHANGED state
        /\ flag' = [flag EXCEPT !.closeComplete = TRUE]
  /\ pc' = "ssh"
  /\ UNCHANGED <<toLocal, toRemote, remote, local>>

\* HARD_ABANDON_TIMEOUT_MS: the slot is given up, whatever libssh2 says.
abandonSlot ==
  /\ InPhase("drain")
  /\ state' = "free"
  /\ pc' = "ssh"
  /\ UNCHANGED <<toLocal, toRemote, flag, remote, local>>

drainWaits ==
  /\ InPhase("drain")
  /\ pc' = "ssh"
  /\ UNCHANGED <<state, toLocal, toRemote, flag, remote, local>>

-----------------------------------------------------------------------------
Peers == remoteSends \/ remoteCloses \/ localSends \/ localCloses

Pump == \/ readStores \/ readPauses \/ readEof \/ readFails \/ fallback
        \/ sshPhaseEnds
        \/ sendLocal \/ sendFails \/ localStalls \/ localPhaseEnds
        \/ writeSsh \/ writeFails \/ sshWritten
        \/ recv \/ recvEnds \/ recvPhaseEnds
        \/ checkOpen \/ toDrain \/ sendEof \/ finalizeClose \/ abandonSlot
        \/ drainWaits

Next == Peers \/ Pump

(***************************************************************************)
(* loop() calls pumpAll() for ever, so that the pump takes its steps; a    *)
(* channel that keeps draining is given up in the end.                     *)
(***************************************************************************)
Fairness == WF_vars(Pump) /\ SF_vars(abandonSlot)

Spec == Init /\ [][Next]_vars

FairSpec == Spec /\ Fairness

-----------------------------------------------------------------------------
Ring == [front : Seq(Byte), ring : Seq(Byte)]
Peers_ == [sent : Nat, read : Nat, eof : BOOLEAN,
           got : Seq(Byte)]

TypeOK ==
  /\ pc \in {"ssh", "toLocal", "toSsh", "recv", "close", "drain"}
  /\ state \in {"open", "draining", "free"}
  /\ toLocal \in Ring /\ toRemote \in Ring
  /\ flag \in [DOMAIN NoFlags -> BOOLEAN]
  /\ remote \in Peers_ /\ local \in Peers_

Prefix(s, n) == \E k \in 0 .. n : s = [i \in 1 .. k |-> i]

(***************************************************************************)
(* What the SSH peer gets is what the local program sent, from its first   *)
(* byte on, without a gap, a repetition or an exchange, however the writes *)
(* are cut and put back (drainLocalToSsh()).                               *)
(***************************************************************************)
ResponseInOrder == Prefix(remote.got \o Content(toRemote), local.read)

(***************************************************************************)
(* What the local program gets is in the order in which it was sent, and   *)
(* nothing comes twice.                                                    *)
(***************************************************************************)
RequestInOrder ==
  LET s == local.got \o Content(toLocal)
  IN \A i \in 1 .. Len(s) - 1 : s[i] < s[i + 1]

(***************************************************************************)
(* The EOF that ends the response is sent after all of what was read from  *)
(* the local program (checkCloses(), steps 2 and 2a).                      *)
(***************************************************************************)
EofAfterResponse == flag.eofSent => Len(remote.got) = local.read

(***************************************************************************)
(* A channel that begins to close gives its slot back.                     *)
(***************************************************************************)
SlotReturns == state = "draining" ~> state = "free"

=============================================================================
