----------------------------- MODULE SshReceive -----------------------------
(***************************************************************************)
(* How libssh2 cuts the byte stream of the socket into packets             *)
(* (transport.c: _libssh2_transport_read(), fullpacket(), decrypt()).      *)
(*                                                                         *)
(* recv() returns any piece of the stream.  A packet is collected over     *)
(* many calls, each of which may end in EAGAIN; what is collected so far   *)
(* stays in session->packet.  There are four ways to frame a packet: plain *)
(* (before the first NEWKEYS), encrypted with a MAC behind it, with the    *)
(* MAC over the encrypted packet (etm), and as a whole (chacha20-poly1305).*)
(*                                                                         *)
(* A byte is named by its place in the stream, starting with 1; bytes that *)
(* are in the wrong place, or decrypted with the wrong cipher state, are   *)
(* therefore seen.  The server sends a plain NEWKEYS and then packets in   *)
(* one of the other framings.                                              *)
(***************************************************************************)
EXTENDS Naturals, Integers, Sequences, SequencesExt

CONSTANTS
  Framings,       \* framings after NEWKEYS: subset of {"mac", "etm", "full"}
  Payloads,       \* payload lengths
  NPackets,       \* packets after NEWKEYS
  Block,          \* crypt->blocksize
  Trailer,        \* mac->mac_len, crypt->auth_len
  BufSize         \* PACKETBUFSIZE

VARIABLES
  framing, sizes,           \* what the server sends
  pc, ret,                  \* "out", "top", "take", "full"; what the last call returned
  newkeys,                  \* LIBSSH2_STATE_NEWKEYS
  readidx, writeidx,        \* places in the stream of p->readidx, p->writeidx
  total_num, packet_length, padding_length,
  payload,                  \* p->payload[0 .. data_num-1]
  created, macOk,           \* fullpacket_state = created; fullpacket_macstate
  seqno,                    \* session->remote.seqno
  cleared,                  \* place up to which the cipher has decrypted
  broken,                   \* ghost: an assertion failed, a copy left its buffer
  delivered                 \* what went to packet_add(), in order

stream == <<framing, sizes>>
packet == <<total_num, packet_length, padding_length, payload>>
full   == <<created, macOk, seqno>>
vars   == <<stream, pc, ret, newkeys, readidx, writeidx, packet, full, cleared, broken, delivered>>

AtMost(a, b) == IF a < b THEN a ELSE b

-----------------------------------------------------------------------------
(* The stream.                                                             *)

(* Padding of a packet: it and the header make whole blocks, at least four *)
(* bytes; with etm and full the length field does not count.               *)
Padding(len, f) ==
  LET b   == IF f = "plain" THEN 8 ELSE Block
      pad == b - ((len + 5 - (IF f \in {"etm", "full"} THEN 4 ELSE 0)) % b)
  IN  IF pad < 4 THEN pad + b ELSE pad

Packets == 1..(NPackets + 1)
Framing(k)      == IF k = 1 THEN "plain" ELSE framing
PayloadLen(k)   == IF k = 1 THEN 1 ELSE sizes[k - 1]
PacketLength(k) == 1 + PayloadLen(k) + Padding(PayloadLen(k), Framing(k))
Size(k)  == 4 + PacketLength(k) + (IF k = 1 THEN 0 ELSE Trailer)
First(k) == 1 + FoldFunction(+, 0, [j \in 1..(k - 1) |-> Size(j)])
End      == First(NPackets + 2) - 1

(* The packet the next byte of the buffer, or the one collected, is of.    *)
Current == Len(delivered) + 1
Bytes(from, n) == [i \in 1..n |-> from + i - 1]

Init ==
  /\ framing \in Framings /\ sizes \in [1..NPackets -> Payloads]
  /\ pc = "out" /\ ret = "none" /\ newkeys = FALSE
  /\ readidx = 1 /\ writeidx = 1
  /\ total_num = 0 /\ packet_length = 0 /\ padding_length = 0 /\ payload = <<>>
  /\ created = FALSE /\ macOk = TRUE /\ seqno = 0 /\ cleared = 0 /\ broken = FALSE /\ delivered = <<>>

-----------------------------------------------------------------------------
mode      == IF newkeys THEN framing ELSE "plain"
blocksize == IF newkeys THEN Block ELSE 5
remainbuf == writeidx - readidx

Return(r) == pc' = "out" /\ ret' = r

(* A call; it may have to take up the packet it could not hand on.         *)
_libssh2_transport_read ==
  /\ pc = "out" /\ Current \in Packets
  /\ pc' = (IF created THEN "full" ELSE "top") /\ ret' = "none"
  /\ UNCHANGED <<stream, newkeys, readidx, writeidx, packet, full, cleared, broken, delivered>>

(* Is there too little in the buffer to go on with?                        *)
tooLittle ==
  \/ remainbuf < blocksize
  \/ framing = "full" /\ total_num > remainbuf      \* also before NEWKEYS

enough ==
  /\ pc = "top" /\ ~tooLittle /\ pc' = "take"
  /\ UNCHANGED <<stream, ret, newkeys, readidx, writeidx, packet, full, cleared, broken, delivered>>

(* recv() fills the rest of the buffer, or would block.                    *)
refill ==
  /\ pc = "top" /\ tooLittle
  /\ \/ /\ \E n \in 1..AtMost(End + 1 - writeidx, BufSize - remainbuf) : writeidx' = writeidx + n
        /\ pc' = "take" /\ UNCHANGED ret
     \/ Return("again") /\ UNCHANGED writeidx
  /\ UNCHANGED <<stream, newkeys, readidx, packet, full, cleared, broken, delivered>>

(* The length field, when this is the start of the packet of that place.   *)
LengthAt(x) == LET K == {k \in Packets : First(k) = x}
               IN  IF K = {} THEN 0 ELSE PacketLength(CHOOSE k \in K : TRUE)
PaddingAt(x) == LET K == {k \in Packets : First(k) = x}
                IN  IF K = {} THEN 0
                    ELSE LET k == CHOOSE k \in K : TRUE IN Padding(PayloadLen(k), Framing(k))

(* decrypt(): whole blocks, from where the cipher stands.                  *)
decryptOk(from, n) == n % blocksize = 0 /\ from = cleared + 1

(* The start of a packet, once there is enough of it to know its length.   *)
(* With mac the first block is decrypted and what is not header goes to    *)
(* the payload.                                                            *)
tooShort ==
  /\ pc = "take" /\ total_num = 0
  /\ remainbuf < (IF mode = "etm" THEN 4 ELSE blocksize)
  /\ Return("again")
  /\ UNCHANGED <<stream, newkeys, readidx, writeidx, packet, full, cleared, broken, delivered>>

startPacket ==
  /\ pc = "take" /\ total_num = 0
  /\ remainbuf >= (IF mode = "etm" THEN 4 ELSE blocksize)
  /\ LET len == LengthAt(readidx)
         used == IF mode \in {"plain", "mac"} THEN blocksize ELSE 0
     IN  /\ packet_length' = len
         /\ padding_length' = (IF used > 0 THEN PaddingAt(readidx) ELSE 0)
         /\ total_num' = (CASE mode = "plain" -> len - 1
                            [] mode = "mac"   -> len - 1 + Trailer
                            [] OTHER          -> 4 + len + Trailer)
         /\ payload' = (IF mode = "mac" THEN Bytes(readidx + 5, blocksize - 5) ELSE <<>>)
         /\ readidx' = readidx + used
         /\ cleared' = (IF mode = "mac" THEN readidx + blocksize - 1 ELSE readidx - 1)
         /\ broken' = (broken \/ (mode = "mac" /\ blocksize - 5 > len - 1 + Trailer))
  /\ UNCHANGED <<stream, pc, ret, newkeys, writeidx, full, delivered>>

(* What of the buffer belongs to this packet.                              *)
remainpack == total_num - Len(payload)
numbytes   == AtMost(remainbuf, remainpack)

Copies(n, from) == payload' = payload \o Bytes(from, n)
Collected(p) == Len(p) = total_num

(* plain, etm: the bytes are copied as they are.                           *)
takeRaw ==
  /\ pc = "take" /\ total_num # 0 /\ mode \in {"plain", "etm"}
  /\ Copies(numbytes, readidx) /\ readidx' = readidx + numbytes
  /\ broken' = (broken \/ Len(payload') > total_num)
  /\ pc' = (IF Collected(payload') THEN "full" ELSE "top")
  /\ UNCHANGED <<stream, ret, newkeys, writeidx, total_num, packet_length, padding_length, full, cleared,
                 delivered>>

(* Mutant: as much as there is is decrypted, whole blocks or not.          *)
numdecryptAny == AtMost(total_num - Trailer - Len(payload), numbytes)

(* mac: whole blocks are decrypted, up to the MAC, which is copied when    *)
(* it comes with the last of them or after it.                             *)
numdecrypt ==
  IF Len(payload) + numbytes >= total_num - Trailer
  THEN IF total_num - Trailer > Len(payload) THEN total_num - Trailer - Len(payload) ELSE 0
  ELSE numbytes - (numbytes % blocksize)
toCopy ==
  IF Len(payload) + numbytes < total_num - Trailer /\ numbytes % blocksize # 0
  THEN 0 ELSE numbytes - numdecrypt
takeMac ==
  /\ pc = "take" /\ total_num # 0 /\ mode = "mac"
  /\ Copies(numdecrypt + toCopy, readidx) /\ readidx' = readidx + numdecrypt + toCopy
  /\ cleared' = cleared + numdecrypt
  /\ broken' = (\/ broken \/ Len(payload') > total_num
                \/ numdecrypt > 0 /\ ~decryptOk(readidx, numdecrypt))
  /\ pc' = (IF Collected(payload') THEN "full" ELSE "top")
  /\ UNCHANGED <<stream, ret, newkeys, writeidx, total_num, packet_length, padding_length, full,
                 delivered>>

(* Mutant: a packet that fits the buffer exactly is not seen to be whole.  *)
(* full: nothing until the whole packet is in the buffer; then it is       *)
(* decrypted there, and moved over its length field -- all but the last    *)
(* four bytes.                                                             *)
takeWait ==
  /\ pc = "take" /\ total_num # 0 /\ mode = "full" /\ numbytes < remainpack
  /\ Return("again")
  /\ UNCHANGED <<stream, newkeys, readidx, writeidx, packet, full, cleared, broken, delivered>>

(* Mutant: only what comes before the padding and the last eight bytes.    *)
moved(n) ==
  [i \in 1..n |-> IF i <= n - 4 THEN readidx + 3 + i ELSE readidx - 1 + i]
takeFull ==
  /\ pc = "take" /\ total_num # 0 /\ mode = "full" /\ numbytes = remainpack
  /\ total_num' = total_num - 4
  /\ LET n == total_num - 4 - Trailer
     IN  /\ payload' = moved(n) \o Bytes(readidx + n, Trailer)
         /\ cleared' = readidx + n + 3
         /\ broken' = (broken \/ Len(payload') > total_num)
  /\ readidx' = readidx + total_num
  /\ padding_length' = PaddingAt(readidx)
  /\ pc' = "full"
  /\ UNCHANGED <<stream, ret, newkeys, writeidx, packet_length, full, delivered>>

-----------------------------------------------------------------------------
(* fullpacket(): check the MAC, decrypt if that is still to be done, strip *)
(* padding, hand the payload on.                                           *)

(* The payload and its padding, without header and with etm decrypted.     *)
unsealed ==
  CASE mode = "etm"  -> SubSeq(payload, 6, blocksize + 4)
                        \o SubSeq(payload, blocksize + 5, total_num - Trailer)
    [] mode = "full" -> SubSeq(payload, 2, packet_length)
    [] OTHER         -> payload

(* The MAC covers these bytes and the number of the packet.                *)
NumberOf(k) == IF k = 1 THEN 0 ELSE k - 2        \* strict key exchange
authentic ==
  LET s   == First(Current)
      tag == SubSeq(payload, total_num - Trailer + 1, total_num)
  IN  mode # "plain" =>
        /\ seqno = NumberOf(Current)
        /\ mode # "full" => tag = Bytes(s + Size(Current) - Trailer, Trailer)
        /\ CASE mode = "mac" -> /\ SubSeq(payload, 1, packet_length - 1) = Bytes(s + 5, packet_length - 1)
                                /\ cleared = s + 3 + packet_length
             [] mode = "etm" -> SubSeq(payload, 1, total_num - Trailer) = Bytes(s, 4 + packet_length)
             [] OTHER        -> cleared = s + 3 + packet_length

unseal ==
  /\ pc = "full" /\ ~created
  /\ created' = TRUE /\ macOk' = authentic /\ seqno' = seqno + 1
  /\ payload' = unsealed
  /\ padding_length' = (IF mode = "etm" THEN PaddingAt(payload[1]) ELSE padding_length)
  /\ cleared' = (IF mode = "etm" THEN readidx - 1 ELSE cleared)
  /\ broken' = (broken \/ (mode = "etm" /\ (total_num - Trailer - 4) % blocksize # 0))
  /\ UNCHANGED <<stream, pc, ret, newkeys, readidx, writeidx, total_num, packet_length, delivered>>

(* packet_add() may have to send an answer, and blocks: the next call goes *)
(* on with the same packet ...                                             *)
addBlocks ==
  /\ pc = "full" /\ created
  /\ Return("again")
  /\ UNCHANGED <<stream, newkeys, readidx, writeidx, packet, full, cleared, broken, delivered>>

(* ... or it takes the packet.  NEWKEYS starts the sequence numbers anew   *)
(* and, when the key exchange has seen it, the encryption.                 *)
added ==
  /\ pc = "full" /\ created
  /\ LET n == packet_length - 1 - padding_length
     IN  /\ delivered' = Append(delivered, [data |-> SubSeq(payload, 1, n), ok |-> macOk])
         /\ broken' = (broken \/ Len(payload) < n)
  /\ created' = FALSE /\ macOk' = TRUE /\ payload' = <<>> /\ total_num' = 0
  /\ newkeys' = TRUE
  /\ seqno' = (IF Current = 1 THEN 0 ELSE seqno)
  /\ Return("packet")
  /\ UNCHANGED <<stream, readidx, writeidx, packet_length, padding_length, cleared>>

Next ==
  \/ _libssh2_transport_read \/ enough \/ refill
  \/ tooShort \/ startPacket \/ takeRaw \/ takeMac \/ takeWait \/ takeFull
  \/ unseal \/ addBlocks \/ added
Spec == Init /\ [][Next]_vars

-----------------------------------------------------------------------------
TypeOK ==
  /\ pc \in {"out", "top", "take", "full"} /\ ret \in {"none", "again", "packet"}
  /\ {newkeys, created, macOk, broken} \subseteq BOOLEAN
  /\ readidx \in 1..writeidx /\ writeidx \in 1..(End + 1) /\ remainbuf <= BufSize
  /\ {total_num, packet_length, padding_length, seqno} \subseteq Nat
  /\ Len(payload) <= total_num

(* However recv() cuts the stream and wherever a call is left with EAGAIN: *)
(* every packet is handed on with exactly its payload, authenticated, in   *)
(* order, also the one that came in the same piece as NEWKEYS              *)
(* (transport.c:870).                                                      *)
HandedOnWhole ==
  \A k \in DOMAIN delivered :
    /\ delivered[k].ok
    /\ delivered[k].data = Bytes(First(k) + 5, PayloadLen(k))

(* Only whole blocks are decrypted, each once and in order, no copy leaves *)
(* its buffer and none of the assertions fails (transport.c:138, 787).     *)
InBounds == ~broken

(* EAGAIN means that something is missing: a call never says so while the  *)
(* packet it works on is complete in the buffer, else a program that waits *)
(* for the socket waits for ever (transport.c:463, 727).                   *)
EagainMeansMissing ==
  ret = "again" /\ ~created => First(Current) + Size(Current) > writeidx
=============================================================================
