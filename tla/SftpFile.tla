------------------------------ MODULE SftpFile ------------------------------
(***************************************************************************)
(* Reading and writing a file through libssh2's SFTP client (sftp.c).      *)
(*                                                                         *)
(* sftp_read() asks ahead: it sends several SSH_FXP_READ requests and      *)
(* hands the answers out in order; what does not fit the caller's buffer   *)
(* is kept for the next call.  sftp_write() sends several SSH_FXP_WRITE    *)
(* requests and reports a byte as written once the server has acknowledged *)
(* it.  Both return EAGAIN from the middle of their work and go on there.  *)
(* Requests that are dropped (end of file, error, seek) become zombies,    *)
(* whose late answers are thrown away.                                     *)
(*                                                                         *)
(* A byte is named by its place: the byte at offset x of the file, and the *)
(* byte the program wants to have there, is x.                             *)
(***************************************************************************)
EXTENDS Naturals, Sequences, SequencesExt, FiniteSets

CONSTANTS
  FileLen,        \* bytes the file has, or will have
  Sizes,          \* buffer sizes the program uses
  MAX_SIZE,       \* MAX_SFTP_READ_SIZE, MAX_SFTP_OUTGOING_SIZE
  READ_AHEAD,     \* bytes asked for per byte of the buffer
  MaxIds,         \* bound: requests without an answer
  SeekAnyTime     \* may the program seek while sftp_write() owes it a report?

VARIABLES
  mode,        \* what the program does with the file: "read" or "write"
  pc, size,    \* where the call is: "out", "send", "recv"; its buffer size
  state,       \* sftp->read_state, sftp->write_state
  offset, offsetSent, acked, eof,   \* _libssh2_sftp_handle_file_data
  kept,        \* data_left: bytes of an answer that did not fit
  chunks,      \* handle->packet_list: sftp_pipeline_chunk
  zombies,     \* sftp->zombie_requests
  inbox,       \* sftp->packets
  wire,        \* answers on their way
  requests,    \* requests the server has
  stored,      \* <<offset, byte>> the server has written
  buf, ret,    \* what the last call has read or returned
  pos,         \* ghost: where the program is in the file
  from,        \* ghost: where it was when the call started
  reported,    \* ghost: offsets reported as written
  torn         \* ghost: a request was dropped when half of it was sent

handle == <<offset, offsetSent, acked, eof, kept, chunks>>
conn   == <<wire, requests, stored>>
vars   == <<mode, pc, size, state, handle, zombies, inbox, conn, buf, ret, pos, from,
            reported, torn>>

Least(a, b) == IF a < b THEN a ELSE b

Init ==
  /\ mode \in {"read", "write"}
  /\ pc = "out" /\ size = 0 /\ state = "idle"
  /\ offset = 0 /\ offsetSent = 0 /\ acked = 0 /\ eof = FALSE
  /\ kept = <<>> /\ chunks = <<>> /\ zombies = {} /\ inbox = {}
  /\ wire = <<>> /\ requests = {} /\ stored = {}
  /\ buf = <<>> /\ ret = "none" /\ pos = 0 /\ from = 0 /\ reported = {} /\ torn = FALSE

Used ==
  {c.id : c \in Range(chunks)} \cup zombies \cup {a.id : a \in inbox \cup Range(wire)}
  \cup {r.id : r \in requests}

(* sftp->request_id++: an id nobody has.  n new ones.                      *)
FreshIds(n) ==
  SetToSortSeq(CHOOSE S \in SUBSET (1..MaxIds \ Used) :
                 Cardinality(S) = n
                 /\ \A i \in 1..MaxIds \ Used : i \in S \/ (\A j \in S : j < i), <)
Room == Cardinality(Used) + FileLen * READ_AHEAD <= MaxIds

(* Mutant: requests that were never sent become zombies too.               *)
(* A request the program waits for no longer: its answer is thrown away,   *)
(* now or when it comes.  (sftp_packetlist_flush)                          *)
sftp_packetlist_flush(list) ==
  LET ids  == {c.id : c \in Range(list)}
      here == {a \in inbox : a.id \in ids}
  IN  /\ inbox' = inbox \ here
      /\ zombies' = zombies \cup ({c.id : c \in {d \in Range(list) : d.left # "all"}}
                                  \ {a.id : a \in here})
      /\ torn' = (torn \/ \E c \in Range(list) : c.left = "some")

(* sftp_packet_add(): an answer to a zombie is dropped.                    *)
sftp_packet_add(a) ==
  IF a.id \in zombies THEN zombies' = zombies \ {a.id} /\ UNCHANGED inbox
                      ELSE inbox' = inbox \cup {a} /\ UNCHANGED zombies

-----------------------------------------------------------------------------
(* Both functions.                                                         *)
Return(r) == pc' = "out" /\ ret' = r /\ UNCHANGED size

(* The requests for `total' bytes: none smaller than the buffer, none      *)
(* larger than a packet.                                                   *)
ReadSizes(total, n) ==
  LET f[c \in 0..total] ==
        IF c = 0 THEN <<>>
        ELSE LET s == Least(IF c < n THEN n ELSE c, MAX_SIZE)
             IN  <<s>> \o f[c - Least(s, c)]
  IN  f[total]
WriteSizes(total) ==
  LET f[c \in 0..total] == IF c = 0 THEN <<>> ELSE <<Least(c, MAX_SIZE)>> \o f[c - Least(c, MAX_SIZE)]
  IN  f[total]

SumTo(seq, i) == LET f[j \in 0..Len(seq)] == IF j = 0 THEN 0 ELSE f[j - 1] + seq[j] IN f[i]

(* The chunks of these sizes; `at' is the first byte of the program's data *)
(* that they carry.                                                        *)
NewChunks(sizes, at) ==
  LET ids == FreshIds(Len(sizes))
  IN  [i \in 1..Len(sizes) |->
         [id |-> ids[i], off |-> offsetSent + SumTo(sizes, i - 1),
          at |-> at + SumTo(sizes, i - 1), n |-> sizes[i], left |-> "all"]]

Enqueue(sizes, at) ==
  /\ chunks' = chunks \o NewChunks(sizes, at)
  /\ offsetSent' = offsetSent + SumTo(sizes, Len(sizes))

(* sftp_read(), first phase: data kept from an earlier answer, the end of  *)
(* the file, or requests for more.                                         *)
readKept(n) ==
  /\ kept # <<>>
  /\ LET k == Least(n, Len(kept))
     IN  /\ buf' = SubSeq(kept, 1, k) /\ kept' = SubSeq(kept, k + 1, Len(kept))
         /\ offset' = offset + k /\ pos' = pos + k
  /\ Return("data") /\ UNCHANGED <<state, offsetSent, acked, eof, chunks, zombies, inbox, conn, torn>>
readEof ==
  /\ kept = <<>> /\ eof
  /\ buf' = <<>> /\ Return("end")
  /\ UNCHANGED <<state, handle, zombies, inbox, conn, pos, torn>>
readAhead(n) ==
  /\ kept = <<>> /\ ~eof
  /\ LET already == offsetSent - offset
         count   == IF n * READ_AHEAD > already THEN n * READ_AHEAD - already ELSE 0
     IN  Enqueue(ReadSizes(count, n), 0)
  /\ buf' = <<>> /\ pc' = "send" /\ size' = n /\ ret' = "none"
  /\ UNCHANGED <<state, offset, acked, eof, kept, zombies, inbox, conn, pos, torn>>

sftp_read(n) ==
  /\ pc = "out" /\ mode = "read" /\ Room
  /\ from' = pos
  /\ \/ state = "idle" /\ (readKept(n) \/ readEof \/ readAhead(n))
     \/ state = "idle" /\ kept = <<>> /\ ~eof     \* the window adjust blocks
        /\ buf' = <<>> /\ Return("again")
        /\ UNCHANGED <<state, handle, zombies, inbox, conn, pos, torn>>
     \/ state # "idle"
        /\ pc' = (IF state = "sent" THEN "send" ELSE "recv") /\ size' = n /\ ret' = "none"
        /\ state' = "idle" /\ buf' = <<>>
        /\ UNCHANGED <<handle, zombies, inbox, conn, pos, torn>>
  /\ UNCHANGED <<mode, reported>>

(* sftp_write(), first phase: what was made into packets before, or is     *)
(* acknowledged but not yet reported, is skipped.                          *)
sftp_write(n) ==
  /\ pc = "out" /\ mode = "write" /\ Room /\ pos + n <= FileLen
  /\ from' = pos /\ size' = n /\ ret' = "none" /\ buf' = <<>>
  /\ \/ /\ state = "idle"
        /\ LET already == (offsetSent - offset) + acked
               count   == IF n >= already THEN n - already ELSE 0
           IN  Enqueue(WriteSizes(count), pos + already)
        /\ pc' = "send" /\ UNCHANGED state
     \/ state = "sent" /\ pc' = "recv" /\ state' = "idle" /\ UNCHANGED <<chunks, offsetSent>>
  /\ UNCHANGED <<mode, offset, acked, eof, kept, zombies, inbox, conn, pos, reported, torn>>

(* The chunks are sent in order; a write to the channel may take all,      *)
(* part, or nothing.                                                       *)
Unsent == {i \in DOMAIN chunks : chunks[i].left # "none"}
FirstUnsent == CHOOSE i \in Unsent : \A j \in Unsent : i <= j
sendChunk ==
  /\ pc = "send" /\ Unsent # {}
  /\ LET i == FirstUnsent
         c == chunks[i]
     IN  \/ /\ chunks' = [chunks EXCEPT ![i].left = "none"]
            /\ requests' = requests \cup {[id |-> c.id, off |-> c.off, at |-> c.at, n |-> c.n]}
            /\ UNCHANGED <<pc, size, state, ret>>
         \/ /\ chunks' = [chunks EXCEPT ![i].left = "some"]
            /\ pc' = (IF mode = "read" /\ i = 1 THEN "send" ELSE "recv")
            /\ UNCHANGED <<requests, size, state, ret>>
         \/ /\ Return("again") /\ state' = (IF mode = "read" THEN "sent" ELSE "idle")
            /\ UNCHANGED <<chunks, requests>>
  /\ UNCHANGED <<mode, offset, offsetSent, acked, eof, kept, zombies, inbox, wire, stored, buf, pos,
                 from, reported, torn>>
allSent ==
  /\ pc = "send" /\ Unsent = {} /\ pc' = "recv"
  /\ UNCHANGED <<mode, size, state, handle, zombies, inbox, conn, buf, ret, pos, from, reported, torn>>

(* sftp_packet_require(), sftp_packet_requirev(): the answer is there ...  *)
Awaits(a) == /\ pc = "recv" /\ chunks # <<>> /\ Head(chunks).left = "none"
             /\ a \in inbox /\ a.id = Head(chunks).id
Missing == {a \in inbox : a.id = Head(chunks).id} = {}

(* ... or the next packet is read ...                                      *)
sftp_packet_read ==
  /\ pc = "recv" /\ chunks # <<>> /\ Head(chunks).left = "none" /\ Missing /\ wire # <<>>
  /\ (mode = "read" => Len(buf) < size) /\ ~(mode = "write" /\ ret = "acked")
  /\ wire' = Tail(wire) /\ sftp_packet_add(Head(wire))
  /\ UNCHANGED <<mode, pc, size, state, handle, requests, stored, buf, ret, pos, from, reported, torn>>

(* ... or the call has to return: with what it has, if it has something.   *)
readBlocks ==
  /\ pc = "recv" /\ mode = "read" /\ chunks # <<>> /\ Len(buf) < size
  /\ Head(chunks).left # "none" \/ (Missing /\ wire = <<>>)
  /\ IF buf # <<>> THEN Return("data") /\ UNCHANGED state
     ELSE IF Head(chunks).left # "none" THEN Return("error") /\ UNCHANGED state
     ELSE Return("again") /\ state' = "sent2"
  /\ UNCHANGED <<mode, handle, zombies, inbox, conn, buf, pos, from, reported, torn>>

(* An answer to a read request: a status ends the file or the attempt, and *)
(* drops every other request; data goes to the buffer, the rest is kept.   *)
readStatus(a) ==
  /\ a.kind # "data"
  /\ chunks' = <<>>
  /\ LET rest == Tail(chunks)
         ids  == {c.id : c \in Range(rest)}
         here == {b \in inbox : b.id \in ids}
     IN  /\ inbox' = (inbox \ here) \ {a}
         /\ zombies' = zombies \cup ({c.id : c \in {d \in Range(rest) : d.left # "all"}}
                                     \ {b.id : b \in here})
         /\ torn' = (torn \/ \E c \in Range(rest) : c.left = "some")
  /\ eof' = (a.kind = "eof")
  /\ IF a.kind = "eof" THEN Return(IF buf = <<>> THEN "end" ELSE "data") /\ pos' = pos
                       ELSE Return("error") /\ pos' = pos - Len(buf)
  /\ UNCHANGED <<offset, offsetSent, kept, buf>>
(* Mutant: what is kept starts at the start of the answer.                 *)
readData(a) ==
  /\ a.kind = "data"
  /\ inbox' = inbox \ {a}
  /\ LET c == Head(chunks)
         k == Least(a.n, size - Len(buf))
     IN  IF c.off # offset
         THEN Return("error") /\ pos' = pos - Len(buf)
              /\ UNCHANGED <<chunks, offset, offsetSent, kept, buf>>
         ELSE /\ offsetSent' = offsetSent - (c.n - a.n)
              /\ buf' = buf \o [i \in 1..k |-> a.off + i - 1]
              /\ kept' = [i \in 1..(a.n - k) |-> a.off + k + i - 1]
              /\ offset' = offset + k /\ pos' = pos + k
              /\ chunks' = Tail(chunks)
              /\ UNCHANGED <<pc, ret, size>>
  /\ UNCHANGED <<eof, zombies, torn>>
readAnswer ==
  /\ mode = "read" /\ pc = "recv" /\ Len(buf) < size
  /\ \E a \in inbox : Awaits(a) /\ (readStatus(a) \/ readData(a))
  /\ UNCHANGED <<mode, state, acked, conn, from, reported>>
readReturns ==
  /\ pc = "recv" /\ mode = "read" /\ (chunks = <<>> \/ Len(buf) = size)
  /\ Return(IF buf = <<>> THEN "error" ELSE "data")
  /\ UNCHANGED <<mode, state, handle, zombies, inbox, conn, buf, pos, from, reported, torn>>

-----------------------------------------------------------------------------
(* An answer to a write request: the data is acknowledged, or everything   *)
(* is dropped and the handle goes back to what the program knows of.       *)
(* Mutant: the status is not looked at.                                    *)
writeAckedAny(a) ==
  /\ ret # "acked"
  /\ inbox' = inbox \ {a} /\ chunks' = Tail(chunks)
  /\ offset' = offset + Head(chunks).n /\ acked' = acked + Head(chunks).n
  /\ ret' = "acked" /\ UNCHANGED <<pc, size, zombies, offsetSent, torn>>
writeAcked(a) ==
  /\ a.kind = "ok" /\ ret # "acked"
  /\ inbox' = inbox \ {a} /\ chunks' = Tail(chunks)
  /\ offset' = offset + Head(chunks).n /\ acked' = acked + Head(chunks).n
  /\ ret' = "acked" /\ UNCHANGED <<pc, size, zombies, offsetSent, torn>>
writeFails(a) ==
  /\ a.kind # "ok" /\ ret # "acked"
  /\ sftp_packetlist_flush(chunks) /\ chunks' = <<>>
  /\ offset' = offset - acked /\ offsetSent' = offset - acked /\ acked' = 0
  /\ Return("error")
writeAnswer ==
  /\ mode = "write" /\ pc = "recv"
  /\ \E a \in inbox : Awaits(a) /\ (writeAcked(a) \/ writeFails(a))
  /\ UNCHANGED <<mode, state, eof, kept, conn, buf, pos, from, reported>>
writeBlocks ==
  /\ pc = "recv" /\ mode = "write" /\ ret # "acked" /\ chunks # <<>>
  /\ Head(chunks).left = "none" /\ Missing /\ wire = <<>>
  /\ Return("again") /\ state' = "sent"
  /\ UNCHANGED <<mode, handle, zombies, inbox, conn, buf, pos, from, reported, torn>>

(* What is acknowledged is reported, but no more than was given.           *)
writeReturns ==
  /\ pc = "recv" /\ mode = "write"
  /\ ret # "acked" => ~(chunks # <<>> /\ Head(chunks).left = "none")
  /\ LET k == Least(acked, size)
     IN  /\ acked' = acked - k /\ pos' = pos + k
         /\ reported' = reported \cup pos..(pos + k - 1)
         /\ Return(IF k = 0 THEN "nothing" ELSE "data")
  /\ UNCHANGED <<mode, state, offset, offsetSent, eof, kept, chunks, zombies, inbox, conn, buf, from, torn>>

(* Mutant: the end of the file is remembered over a seek.                  *)
(* libssh2_sftp_seek64(): acked is left alone.                             *)
libssh2_sftp_seek64(x) ==
  /\ pc = "out" /\ (mode = "write" /\ ~SeekAnyTime => acked = 0)
  /\ offset # x \/ offsetSent # x
  /\ offset' = x /\ offsetSent' = x /\ pos' = x /\ from' = x
  /\ sftp_packetlist_flush(chunks) /\ chunks' = <<>>
  /\ kept' = <<>> /\ eof' = FALSE /\ buf' = <<>> /\ ret' = "none"
  /\ UNCHANGED <<mode, pc, size, state, acked, conn, reported>>

(* The server: requests in any order.                                      *)
Serve ==
  /\ ~torn
  /\ \E r \in requests :
       /\ requests' = requests \ {r}
       /\ IF mode = "read"
          THEN /\ UNCHANGED stored
               /\ wire' = Append(wire,
                    IF r.off >= FileLen THEN [id |-> r.id, kind |-> "eof", off |-> 0, n |-> 0]
                    ELSE [id |-> r.id, kind |-> "data", off |-> r.off,
                          n |-> Least(r.n, FileLen - r.off)])
          ELSE \/ /\ wire' = Append(wire, [id |-> r.id, kind |-> "ok", off |-> 0, n |-> 0])
                  /\ stored' = {p \in stored : p[1] < r.off \/ p[1] >= r.off + r.n}
                               \cup {<<r.off + i, r.at + i>> : i \in 0..(r.n - 1)}
               \/ /\ wire' = Append(wire, [id |-> r.id, kind |-> "bad", off |-> 0, n |-> 0])
                  /\ UNCHANGED stored
  /\ UNCHANGED <<mode, pc, size, state, handle, zombies, inbox, buf, ret, pos, from, reported, torn>>

Next ==
  \/ \E n \in Sizes : sftp_read(n) \/ sftp_write(n)
  \/ sendChunk \/ allSent \/ sftp_packet_read
  \/ readBlocks \/ readAnswer \/ readReturns
  \/ writeAnswer \/ writeBlocks \/ writeReturns
  \/ \E x \in 0..FileLen : libssh2_sftp_seek64(x)
  \/ Serve
Spec == Init /\ [][Next]_vars

-----------------------------------------------------------------------------
TypeOK ==
  /\ mode \in {"read", "write"} /\ pc \in {"out", "send", "recv"} /\ size \in {0} \cup Sizes
  /\ state \in {"idle", "sent", "sent2"}
  /\ {offset, offsetSent, acked, pos, from} \subseteq Nat /\ offset <= offsetSent
  /\ {eof, torn} \subseteq BOOLEAN
  /\ \A c \in Range(chunks) : c.id \in 1..MaxIds /\ c.left \in {"all", "some", "none"}
  /\ zombies \subseteq 1..MaxIds
  /\ ret \in {"none", "again", "error", "end", "data", "acked", "nothing"}

(* Whatever is asked ahead, split over calls, answered out of order and    *)
(* kept for later: the bytes a call returns are the next bytes of the file *)
(* (sftp.c:1712, 1742).                                                    *)
ReadInOrder == \A i \in DOMAIN buf : buf[i] = from + i - 1

(* sftp_read() says end of file only at the end of the file: a request     *)
(* beyond the end that is answered early ends nothing (sftp.c:1690).       *)
EndIsEnd == mode = "read" /\ ret = "end" => from >= FileLen

(* Bytes reported as written are in the file, at their place (sftp.c:2284).*)
ReportedIsStored == \A x \in reported : <<x, x>> \in stored

(* Every request that has been sent whole is answered to somebody: it is   *)
(* still with the server, or its answer is on its way or queued; so a call *)
(* that waits for it does not wait in vain, and a zombie is not forgotten  *)
(* (sftp.c:443).                                                           *)
EachAnswered ==
  ~torn =>
    \A i \in {c.id : c \in {d \in Range(chunks) : d.left = "none"}} \cup zombies :
      i \in {r.id : r \in requests} \cup {a.id : a \in Range(wire) \cup inbox}
=============================================================================
