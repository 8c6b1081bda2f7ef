------------------------------ MODULE LogQueue ------------------------------
(***************************************************************************)
(* The queue of log records that wait for the remote log server: class     *)
(* BufferedLogTransport of logger.cpp.                                     *)
(*                                                                         *)
(* Any task may log: the AsyncTCP task, the VPN worker and loop() all call *)
(* sendOrQueue(), which takes a critical section.  Only loop() drains the  *)
(* queue, in update(): it copies the head record under the lock, sends it  *)
(* without the lock, and takes the lock again to remove it.  A producer    *)
(* that finds the queue full meanwhile overwrites the oldest record, which *)
(* can be the one being sent.                                              *)
(*                                                                         *)
(* A record is its sequence number: the content is never looked at.        *)
(***************************************************************************)
EXTENDS Naturals, FiniteSets

CONSTANTS
  LOG_QUEUE_SIZE, (* slots of the ring, 32 in the code                      *)
  MaxRecords      (* bound of the model: records logged in a behaviour      *)

ASSUME SizeAssumption == LOG_QUEUE_SIZE \in Nat \ {0} /\ MaxRecords \in Nat

VARIABLES
  queue,        (* the slots: sequence numbers                              *)
  head, count,  (* the oldest record's slot, and how many are queued        *)
  dropped,      (* records overwritten and not yet reported to the server   *)
  nextSequence, (* the sequence number of the next record                   *)
  link,         (* "down", "connecting" (reconnect() was called) or "up"    *)
  flush,        (* flushQueue(): its place, the record or the number of     *)
                (* losses it is sending, and the rounds it has done         *)
  sent,         (* history: the records handed to the connection            *)
  evicted,      (* history: the records overwritten by a producer           *)
  reported      (* history: the sum of the losses the server was told of    *)

queueVars == <<queue, head, count, nextSequence>>
vars == <<queueVars, dropped, link, flush, sent, evicted, reported>>

Slots == 0 .. LOG_QUEUE_SIZE - 1
FlushSteps == {"idle", "notice", "subtract", "copy", "send", "pop"}

TypeOK ==
  /\ queue \in [Slots -> Nat]
  /\ head \in Slots /\ count \in 0 .. LOG_QUEUE_SIZE
  /\ dropped \in Nat /\ nextSequence \in Nat
  /\ link \in {"down", "connecting", "up"}
  /\ flush \in [pc : FlushSteps, lost : Nat, record : Nat,
                budget : 0 .. LOG_QUEUE_SIZE]
  /\ sent \in SUBSET Nat /\ evicted \in SUBSET Nat /\ reported \in Nat

Idle == [pc |-> "idle", lost |-> 0, record |-> 0, budget |-> 0]

Init ==
  /\ queue = [i \in Slots |-> 0]
  /\ head = 0 /\ count = 0
  /\ dropped = 0 /\ nextSequence = 0
  /\ link = "down"
  /\ flush = Idle
  /\ sent = {} /\ evicted = {} /\ reported = 0

Slot(i) == (head + i) % LOG_QUEUE_SIZE

\* sendOrQueue(), by any task, in one critical section: with the queue full
\* the oldest record makes room and is counted.
sendOrQueue ==
  LET full    == count = LOG_QUEUE_SIZE
      newHead == IF full THEN Slot(1) ELSE head
      kept    == IF full THEN count - 1 ELSE count
  IN  /\ nextSequence < MaxRecords
      /\ queue' = [queue EXCEPT ![(newHead + kept) % LOG_QUEUE_SIZE] = nextSequence]
      /\ head' = newHead
      /\ count' = kept + 1
      /\ nextSequence' = nextSequence + 1
      /\ dropped' = IF full THEN dropped + 1 ELSE dropped
      /\ evicted' = IF full THEN evicted \union {queue[head]} ELSE evicted
      /\ UNCHANGED <<link, flush, sent, reported>>

\* Mutant: losses alone are no reason to use the connection.
pendingRecordsOnly == count # 0

hasPendingOutput == count # 0 \/ dropped # 0

\* update() without a connection asks for one, at most every five seconds.
reconnect ==
  /\ flush.pc = "idle" /\ hasPendingOutput
  /\ link = "down"
  /\ link' = "connecting"
  /\ UNCHANGED <<queueVars, dropped, flush, sent, evicted, reported>>

\* update() with a connection: flushQueue() begins with sendDroppedNotice(),
\* which reads the number of losses under the lock.
flushQueue ==
  /\ flush.pc = "idle" /\ hasPendingOutput
  /\ link = "up"
  /\ flush' = [Idle EXCEPT !.pc = IF dropped = 0 THEN "copy" ELSE "notice",
                           !.lost = dropped]
  /\ UNCHANGED <<queueVars, dropped, link, sent, evicted, reported>>

sendNotice ==
  /\ flush.pc = "notice"
  /\ link = "up"
  /\ reported' = reported + flush.lost
  /\ flush' = [flush EXCEPT !.pc = "subtract"]
  /\ UNCHANGED <<queueVars, dropped, link, sent, evicted>>

\* Losses counted while the notice was sent stay for the next notice.
subtractLost ==
  /\ flush.pc = "subtract"
  /\ dropped' = dropped - flush.lost
  /\ flush' = [flush EXCEPT !.pc = "copy"]
  /\ UNCHANGED <<queueVars, link, sent, evicted, reported>>

copyHead ==
  /\ flush.pc = "copy"
  /\ flush' = IF flush.budget < LOG_QUEUE_SIZE /\ link = "up" /\ count # 0
                THEN [flush EXCEPT !.pc = "send", !.record = queue[head]]
                ELSE Idle
  /\ UNCHANGED <<queueVars, dropped, link, sent, evicted, reported>>

sendRecord ==
  /\ flush.pc = "send"
  /\ link = "up"
  /\ sent' = sent \union {flush.record}
  /\ flush' = [flush EXCEPT !.pc = "pop"]
  /\ UNCHANGED <<queueVars, dropped, link, evicted, reported>>

\* sendNow() fails: no connection, or no room in its send buffer.
sendFails ==
  /\ flush.pc \in {"notice", "send"}
  /\ flush' = Idle
  /\ UNCHANGED <<queueVars, dropped, link, sent, evicted, reported>>

\* Mutant: whatever is at the head is removed.
popAny ==
  /\ flush.pc = "pop"
  /\ IF count # 0
       THEN head' = Slot(1) /\ count' = count - 1
       ELSE UNCHANGED <<head, count>>
  /\ flush' = [flush EXCEPT !.pc = "copy", !.budget = @ + 1]
  /\ UNCHANGED <<queue, nextSequence, dropped, link, sent, evicted, reported>>

\* The record sent is removed unless a producer has overwritten it.
popSent ==
  /\ flush.pc = "pop"
  /\ IF count # 0 /\ queue[head] = flush.record
       THEN head' = Slot(1) /\ count' = count - 1
       ELSE UNCHANGED <<head, count>>
  /\ flush' = [flush EXCEPT !.pc = "copy", !.budget = @ + 1]
  /\ UNCHANGED <<queue, nextSequence, dropped, link, sent, evicted, reported>>

\* The connection attempt succeeds or fails, a connection is lost.
linkUp ==
  /\ link = "connecting" /\ link' = "up"
  /\ UNCHANGED <<queueVars, dropped, flush, sent, evicted, reported>>

linkDown ==
  /\ link # "down" /\ link' = "down"
  /\ UNCHANGED <<queueVars, dropped, flush, sent, evicted, reported>>

LoopStep ==
  \/ reconnect \/ flushQueue
  \/ sendNotice \/ subtractLost \/ copyHead \/ sendRecord \/ sendFails
  \/ popSent

Next == sendOrQueue \/ LoopStep \/ linkUp \/ linkDown

Spec == Init /\ [][Next]_vars

\* loop() runs for ever; an attempt to connect, and a send, that is tried
\* again and again succeeds in the end unless the connection keeps breaking.
Fairness ==
  /\ WF_vars(LoopStep)
  /\ SF_vars(sendNotice) /\ SF_vars(sendRecord)
  /\ SF_vars(linkUp)
FairSpec == Spec /\ Fairness

-----------------------------------------------------------------------------
(***************************************************************************)
(* Properties.                                                             *)
(***************************************************************************)

Queued == {queue[Slot(i)] : i \in 0 .. count - 1}

\* The ring holds the last `count' records logged, oldest first, wherever the
\* producers and the removal have moved the head.
Contiguous ==
  /\ count <= nextSequence
  /\ \A i \in 0 .. count - 1 : queue[Slot(i)] + count = nextSequence + i

\* No record vanishes: each one logged was sent, is queued, or was overwritten
\* and counted - popSent removes none that a producer slipped in meanwhile.
NothingLost == 0 .. nextSequence - 1 = sent \union Queued \union evicted

\* The server is told of every loss once: what it was told and what is still
\* to be told add up to the records overwritten.
LossesAddUp ==
  reported + dropped =
    Cardinality(evicted) + (IF flush.pc = "subtract" THEN flush.lost ELSE 0)

\* Records go out in the order they were logged, none of them twice.
InOrder == flush.pc = "send" => \A n \in sent : n < flush.record

\* The four together: whatever producers do between the critical sections of
\* flushQueue(), each record is queued in its place, sent once and in order, or
\* counted as a loss once.
QueueExact == Contiguous /\ NothingLost /\ LossesAddUp /\ InOrder

\* If the connection stops breaking, everything logged is eventually sent or
\* reported as lost.
Drains ==
  <>[][link' # "down"]_link =>
    <>[](count = 0 /\ dropped = 0 /\ reported = Cardinality(evicted))

=============================================================================
