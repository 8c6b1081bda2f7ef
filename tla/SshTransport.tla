---------------------------- MODULE SshTransport ----------------------------
(***************************************************************************)
(* Sending packets on a non-blocking session, and the key re-exchange that *)
(* comes in between (transport.c: _libssh2_transport_send(),               *)
(* send_existing(); kex.c: _libssh2_kex_exchange(), kexinit()).            *)
(*                                                                         *)
(* A packet the socket does not take whole stays in the session's only     *)
(* output buffer, known by the address and length of the caller's data.    *)
(* Until that caller comes again every other one gets EAGAIN.  When the    *)
(* server asks for new keys, every call that sends or reads is redirected  *)
(* into the key exchange until it is finished.                             *)
(*                                                                         *)
(* A packet is <<pointer, number>>: the caller's buffer and what it holds. *)
(***************************************************************************)
EXTENDS Naturals, Sequences, SequencesExt

CONSTANTS
  Senders,        \* functions that repeat a call after EAGAIN
  MaxPackets,     \* bound: packets of each sender
  MaxKeepalives,  \* bound: keepalive messages
  MaxRekeys       \* bound: key exchanges the server starts

VARIABLES
  caller, pc,     \* who is in the library, and where
  busy,           \* senders that got EAGAIN and have to repeat the call
  done,           \* packets whose sending was reported, for each sender
  pings,          \* keepalives begun
  out,            \* the packet in the output buffer: odata, olen; <<>> if none
  outSeq,         \* the number it was authenticated with
  begun,          \* part of it has been sent: osent > 0
  seqno,          \* session->local.seqno
  wire,           \* what the socket took: pieces of packets
  kex,            \* startup_key_state, "idle" if not LIBSSH2_STATE_EXCHANGING_KEYS
  answer,         \* the server's next message of the key exchange is here
  rekeys          \* key exchanges the server has started

buffer == <<out, outSeq, begun, seqno, wire>>
vars   == <<caller, pc, busy, done, pings, buffer, kex, answer, rekeys>>

None == <<>>
Keepalive == "keepalive"
Reader == "reader"

Init ==
  /\ caller = "none" /\ pc = "out" /\ busy = [s \in Senders |-> FALSE]
  /\ done = [s \in Senders |-> 0] /\ pings = 0
  /\ out = None /\ outSeq = 0 /\ begun = FALSE /\ seqno = 0 /\ wire = <<>>
  /\ kex = "idle" /\ answer = FALSE /\ rekeys = 0

-----------------------------------------------------------------------------
(* The socket takes all of the buffer, a part of it, or nothing.           *)
Piece(d, n, first, last) == [data |-> d, seq |-> n, first |-> first, last |-> last]
Taken(d, n, started) ==
  /\ wire' = Append(wire, Piece(d, n, ~started, TRUE))
  /\ out' = None /\ begun' = FALSE /\ UNCHANGED outSeq
(* Mutant: how much was sent is not kept.                                  *)
KeptAnew(d, n, started) ==
  /\ wire' = Append(wire, Piece(d, n, TRUE, FALSE)) /\ begun' = FALSE
  /\ out' = d /\ outSeq' = n
Kept(d, n, started) ==
  /\ \/ started /\ wire' = wire /\ begun' = started
     \/ ~started /\ wire' = Append(wire, Piece(d, n, TRUE, FALSE)) /\ begun' = TRUE
     \/ ~started /\ wire' = wire /\ begun' = FALSE
  /\ out' = d /\ outSeq' = n

Newkeys(d) == d[1] = "kex" /\ d[2] = "newkeys"

(* send_existing(): a packet of somebody else waits.                       *)
others(d) == out # None /\ out[1] # d[1]

(* Mutant: a packet that is sent in two calls is counted twice.            *)
(* The sequence number counts packets; with strict key exchange it starts  *)
(* again after NEWKEYS.                                                    *)
number(d) == IF out # None THEN seqno ELSE IF Newkeys(d) THEN 0 ELSE seqno + 1

(* _libssh2_transport_send() after the redirection, with its two outcomes. *)
sendsAll(d) ==
  /\ ~others(d)
  /\ LET n == IF out = None THEN seqno ELSE outSeq
     IN  Taken(IF out = None THEN d ELSE out, n, begun) /\ seqno' = number(d)
wouldBlock(d) ==
  \/ others(d) /\ UNCHANGED buffer
  \/ /\ ~others(d)
     /\ LET n == IF out = None THEN seqno ELSE outSeq
        IN  Kept(IF out = None THEN d ELSE out, n, begun) /\ seqno' = number(d)

-----------------------------------------------------------------------------
(* A call of the library.                                                  *)
MyPacket == IF caller = Keepalive THEN <<Keepalive, 0>> ELSE <<caller, done[caller] + 1>>

call(c) ==
  /\ caller = "none" /\ caller' = c /\ pc' = "entry"
  /\ UNCHANGED <<busy, done, pings, buffer, kex, answer, rekeys>>
callSend(s) == done[s] < MaxPackets /\ call(s)

(* The keepalive's data is on the stack, at the same place every time: the *)
(* next one finishes the one that was cut.                                 *)
Cut == out # None /\ out[1] = Keepalive
(* Mutant: each keepalive has a buffer of its own.                         *)
libssh2_keepalive_send ==
  /\ caller = "none" /\ (Cut \/ pings < MaxKeepalives)
  /\ pings' = (IF Cut THEN pings ELSE pings + 1)
  /\ caller' = Keepalive /\ pc' = "entry"
  /\ UNCHANGED <<busy, done, buffer, kex, answer, rekeys>>

leave == caller' = "none" /\ pc' = "out"
Body == IF caller = Reader THEN "read" ELSE "send"

(* Mutant: what is sent during a key exchange is not redirected.           *)
(* Redirected into the key exchange?                                       *)
entry ==
  /\ pc = "entry" /\ pc' = (IF kex # "idle" THEN "kex" ELSE Body)
  /\ UNCHANGED <<caller, busy, done, pings, buffer, kex, answer, rekeys>>

(* EAGAIN: a sender has to come again; a keepalive is forgotten.           *)
again == leave /\ busy' = [s \in Senders |-> busy[s] \/ s = caller]

(* Mutant: success although the packet is still in the buffer.             *)
send ==
  /\ pc = "send"
  /\ \/ /\ sendsAll(MyPacket) /\ leave
        /\ busy' = [s \in Senders |-> busy[s] /\ s # caller]
        /\ done' = [s \in Senders |-> IF s = caller THEN done[s] + 1 ELSE done[s]]
     \/ wouldBlock(MyPacket) /\ again /\ UNCHANGED done
  /\ UNCHANGED <<pings, kex, answer, rekeys>>

(* Somebody reads the socket.  The server's KEXINIT starts the exchange    *)
(* from within packet_add().                                               *)
read ==
  /\ pc = "read"
  /\ IF answer THEN kex' = "kexinit" /\ pc' = "kex" /\ answer' = FALSE /\ UNCHANGED <<caller, busy>>
               ELSE again /\ UNCHANGED <<kex, answer>>
  /\ UNCHANGED <<done, pings, buffer, rekeys>>

(* The key exchange: what it sends and what it waits for.                  *)
KexSends == [kexinit |-> "reply", newkeys |-> "finish"]
kexSends ==
  /\ pc = "kex" /\ kex \in DOMAIN KexSends
  /\ \/ sendsAll(<<"kex", kex>>) /\ kex' = KexSends[kex] /\ UNCHANGED <<caller, pc, busy>>
     \/ wouldBlock(<<"kex", kex>>) /\ again /\ UNCHANGED kex
  /\ UNCHANGED <<done, pings, answer, rekeys>>
kexWaits ==
  /\ pc = "kex" /\ kex \in {"reply", "finish"}
  /\ IF ~answer THEN again /\ UNCHANGED <<kex, answer>>
     ELSE /\ answer' = FALSE /\ UNCHANGED <<caller, busy>>
          /\ \/ kex = "reply" /\ kex' = "newkeys" /\ pc' = pc
             \/ kex = "finish" /\ kex' = "idle" /\ pc' = Body
  /\ UNCHANGED <<done, pings, buffer, rekeys>>

(* The server asks for new keys, and answers what it has got.              *)
serverRekeys ==
  /\ kex = "idle" /\ ~answer /\ rekeys < MaxRekeys
  /\ answer' = TRUE /\ rekeys' = rekeys + 1
  /\ UNCHANGED <<caller, pc, busy, done, pings, buffer, kex>>
serverAnswers ==
  /\ kex \in {"reply", "finish"} /\ ~answer /\ answer' = TRUE
  /\ UNCHANGED <<caller, pc, busy, done, pings, buffer, kex, rekeys>>

Next ==
  \/ \E s \in Senders : callSend(s)
  \/ call(Reader) \/ libssh2_keepalive_send
  \/ entry \/ send \/ read \/ kexSends \/ kexWaits
  \/ serverRekeys \/ serverAnswers
Spec == Init /\ [][Next]_vars

(* The program goes on with a call that has begun, repeats a call that     *)
(* returned EAGAIN and keeps reading and sending keepalives; the server    *)
(* answers; the socket drains.                                             *)
Within == entry \/ send \/ read \/ kexSends \/ kexWaits
Progress == wire' # wire /\ out' = None
Fairness ==
  /\ WF_vars(Within) /\ WF_vars(serverAnswers)
  /\ \A s \in Senders : SF_vars(callSend(s))
  /\ SF_vars(call(Reader)) /\ SF_vars(libssh2_keepalive_send)
  /\ SF_vars(Within /\ Progress)
FairSpec == Spec /\ Fairness

-----------------------------------------------------------------------------
TypeOK ==
  /\ caller \in Senders \cup {"none", Keepalive, Reader}
  /\ pc \in {"out", "entry", "kex", "send", "read"} /\ (caller = "none" <=> pc = "out")
  /\ busy \in [Senders -> BOOLEAN] /\ done \in [Senders -> 0..MaxPackets]
  /\ pings \in 0..MaxKeepalives /\ rekeys \in 0..MaxRekeys /\ answer \in BOOLEAN
  /\ begun => out # None
  /\ kex \in {"idle", "kexinit", "reply", "newkeys", "finish"}

Starts == {i \in DOMAIN wire : wire[i].first}
SentOf(s) == {i \in DOMAIN wire : wire[i].last /\ wire[i].data[1] = s}

(* Packets go out whole: the rest of one that was cut comes next, whoever  *)
(* else tried to send in between (transport.c:914).                        *)
WholePackets ==
  \A i \in DOMAIN wire :
    ~wire[i].last =>
      IF i = Len(wire) THEN out = wire[i].data /\ begun
      ELSE ~wire[i + 1].first /\ wire[i + 1].data = wire[i].data

(* Each packet is authenticated with its place in the stream since the     *)
(* last NEWKEYS, the number the server will use (transport.c:1269).        *)
NumberedAsSent ==
  \A i \in Starts :
    /\ (\A j \in Starts : i <= j) => wire[i].seq = 0
    /\ \A j \in Starts :
         (j < i /\ \A k \in Starts : k <= j \/ i <= k)
         => wire[i].seq = IF Newkeys(wire[j].data) THEN 0 ELSE wire[j].seq + 1

(* Success means sent, once, in order: what was reported is what is on the *)
(* wire (transport.c:948).                                                 *)
ReportedIsSent ==
  \A s \in Senders :
    /\ {wire[i].data[2] : i \in SentOf(s)} = 1..done[s]
    /\ \A i, j \in SentOf(s) : i < j => wire[i].data[2] < wire[j].data[2]

(* Between the client's KEXINIT and its NEWKEYS the server gets nothing    *)
(* but messages of the key exchange (transport.c:1022).                    *)
QuietInKex ==
  \A i \in DOMAIN wire : \A j \in 1..(i - 1) :
    /\ wire[j].data = <<"kex", "kexinit">> /\ wire[j].last
    /\ \A k \in j..i : ~Newkeys(wire[k].data)
    => wire[i].data[1] = "kex"

(* A key exchange that began while a packet of somebody else was half sent *)
(* waits for that packet, and the packet waits for the key exchange.       *)
Stuck == kex = "kexinit" /\ others(<<"kex", "kexinit">>)

(* A call that is repeated is served in the end, unless the session is     *)
(* stuck in that way (transport.c:1022, 914).                              *)
SendsUnlessStuck == \A s \in Senders : busy[s] ~> (~busy[s] \/ Stuck)
=============================================================================
