-------------------------- MODULE Progress_proofs ---------------------------
(***************************************************************************)
(* Proofs about the parts of ProgressMC: LogQueue, then BoxClock,          *)
(* VpnManager, SshTransport and Tunnel.                                    *)
(*                                                                         *)
(* LogQueue, for a ring of any size and any number of records logged.      *)
(* Everything follows from where a record with a given sequence number can *)
(* be.  The ring holds the last count records, so that the oldest one has  *)
(* the number Oldest == nextSequence - count; what is below Oldest has     *)
(* left the ring, and only flushQueue() between sending a record and       *)
(* removing it has sent one that may still be in the ring.                 *)
(***************************************************************************)
EXTENDS ProgressMC, Sequences, FiniteSetTheorems, SequenceTheorems,
        WellFoundedInduction, TLAPS

-----------------------------------------------------------------------------
(* Numbers and sets.                                                       *)

\* A set of natural numbers has a least element.
LEMMA LeastNumber ==
  ASSUME NEW T, T \subseteq Nat, T # {}
  PROVE  \E x \in T : \A y \in T : x <= y
<1> DEFINE R == {r \in Nat \X Nat : r[1] < r[2]}
<1>1. IsWellFoundedOn(R, Nat)
  <2>1. OpToRel(<, Nat) = R
    BY DEF OpToRel
  <2> QED
    BY <2>1, NatLessThanWellFounded
<1>2. \A x, y \in Nat : y < x => <<y, x>> \in R
  OBVIOUS
<1>3. PICK x \in T : \A y \in T : ~(<<y, x>> \in R)
  <2> HIDE DEF R
  <2> QED
    BY <1>1, WFMin
<1> HIDE DEF R
<1>4. \A y \in T : x \in Nat /\ y \in Nat /\ ~(y < x)
  BY <1>2, <1>3
<1> QED
  BY <1>4

\* The operator of the library theorems is the one an instance brings along.
LEMMA SameCardinality == \A S : TunnelPart!Cardinality(S) = Cardinality(S)
  BY DEF TunnelPart!Cardinality, Cardinality

-----------------------------------------------------------------------------
(* LogQueue.                                                               *)

Oldest == nextSequence - count

\* What flushQueue() relies on between two of its critical sections.
FlushInv ==
  /\ flush.pc \in {"notice", "subtract"} => flush.lost <= dropped
  /\ flush.pc \in {"send", "pop"} => /\ flush.budget < LOG_QUEUE_SIZE
                                     /\ flush.record < nextSequence
                                     /\ flush.record <= Oldest
  /\ flush.pc = "pop" => flush.record \in sent

\* The records that left the ring are those that were sent or overwritten,
\* the overwritten ones are below Oldest, and so are the sent ones but for
\* the one that flushQueue() has sent and not removed yet.
LeftInv ==
  /\ \A n \in 0 .. Oldest - 1 : n \in sent \/ n \in evicted
  /\ \A n \in evicted : n < Oldest
  /\ \A n \in sent : /\ flush.pc = "send" => n < flush.record
                     /\ flush.pc = "pop" => n <= flush.record
                     /\ flush.pc \notin {"send", "pop"} => n < Oldest

LossInv == IsFiniteSet(evicted) /\ LossesAddUp

IInv == TypeOK /\ Contiguous /\ FlushInv /\ LeftInv /\ LossInv

-----------------------------------------------------------------------------
(* Slots of the ring.                                                      *)

\* A position up to twice around the ring, brought back into it.
Wrap(a) == IF a < LOG_QUEUE_SIZE THEN a ELSE a - LOG_QUEUE_SIZE

\* The remainder that picks a slot is one subtraction at most.
LEMMA WrapMod ==
  ASSUME NEW a \in 0 .. 2 * LOG_QUEUE_SIZE - 1
  PROVE  a % LOG_QUEUE_SIZE = Wrap(a) /\ Wrap(a) \in Slots
<1>1. LOG_QUEUE_SIZE \in Nat \ {0}
  BY SizeAssumption
<1>2. CASE a < LOG_QUEUE_SIZE
  BY <1>1, <1>2 DEF Wrap, Slots
<1>3. CASE a >= LOG_QUEUE_SIZE
  BY <1>1, <1>3 DEF Wrap, Slots
<1> QED
  BY <1>1, <1>2, <1>3

\* The slot of the i-th record.
LEMMA SlotValue ==
  ASSUME TypeOK, NEW i \in 0 .. LOG_QUEUE_SIZE
  PROVE  Slot(i) \in Slots /\ Slot(i) = Wrap(head + i)
<1>1. head + i \in 0 .. 2 * LOG_QUEUE_SIZE - 1
  BY SizeAssumption DEF TypeOK, Slots
<1>2. /\ (head + i) % LOG_QUEUE_SIZE = Wrap(head + i)
      /\ Wrap(head + i) \in Slots
  BY <1>1, WrapMod
<1> QED
  BY <1>2 DEF Slot

\* With a contiguous ring the records in it are those from Oldest on.
LEMMA QueuedRange ==
  ASSUME TypeOK, Contiguous
  PROVE  Queued = Oldest .. nextSequence - 1
<1>1. /\ count \in Nat /\ nextSequence \in Nat /\ count <= nextSequence
      /\ count <= LOG_QUEUE_SIZE /\ LOG_QUEUE_SIZE \in Nat
      /\ queue \in [Slots -> Nat]
  BY SizeAssumption DEF TypeOK, Contiguous
<1>2. \A i \in 0 .. count - 1 : Slot(i) \in Slots
  BY <1>1, SlotValue
<1>3. \A i \in 0 .. count - 1 : queue[Slot(i)] = Oldest + i
  BY <1>1, <1>2 DEF Contiguous, Oldest
<1>4. ASSUME NEW n \in Oldest .. nextSequence - 1
      PROVE  n \in Queued
  <2>1. n - Oldest \in 0 .. count - 1
    BY <1>1 DEF Oldest
  <2>2. queue[Slot(n - Oldest)] = n
    BY <1>1, <1>3, <2>1 DEF Oldest
  <2> QED
    BY <2>1, <2>2 DEF Queued
<1>5. ASSUME NEW n \in Queued
      PROVE  n \in Oldest .. nextSequence - 1
  <2>1. PICK i \in 0 .. count - 1 : n = queue[Slot(i)]
    BY DEF Queued
  <2> QED
    BY <1>1, <1>3, <2>1 DEF Oldest
<1> QED
  BY <1>4, <1>5

\* The record at the head of a ring that is not empty is the oldest one.
LEMMA HeadIsOldest ==
  ASSUME TypeOK, Contiguous, count # 0
  PROVE  queue[head] = Oldest
<1>1. /\ count \in Nat \ {0} /\ nextSequence \in Nat /\ LOG_QUEUE_SIZE \in Nat \ {0}
      /\ head \in 0 .. LOG_QUEUE_SIZE - 1 /\ queue[head] \in Nat
  BY SizeAssumption DEF TypeOK, Slots
<1>2. Slot(0) = head
  BY <1>1, SlotValue DEF Wrap
<1>3. queue[Slot(0)] + count = nextSequence + 0
  BY <1>1 DEF Contiguous
<1> QED
  BY <1>1, <1>2, <1>3 DEF Oldest

-----------------------------------------------------------------------------
(* The invariant holds initially and every step preserves it.              *)

LEMMA InitInv == Init => IInv
<1> SUFFICES ASSUME Init PROVE IInv
  OBVIOUS
<1> USE SizeAssumption DEF Init, Idle
<1>1. TypeOK
  BY DEF TypeOK, Slots, FlushSteps
<1>2. Contiguous
  BY DEF Contiguous
<1>3. FlushInv
  BY DEF FlushInv
<1>4. LeftInv
  BY DEF LeftInv, Oldest
<1>5. LossInv
  BY FS_EmptySet DEF LossInv, LossesAddUp
<1> QED
  BY <1>1, <1>2, <1>3, <1>4, <1>5 DEF IInv

\* A producer: the ring moves on by one slot when it is full, and the record
\* that it overwrites was never counted as lost before.
LEMMA ProducerInv == IInv /\ sendOrQueue => IInv'
<1> SUFFICES ASSUME IInv, sendOrQueue PROVE IInv'
  OBVIOUS
<1> DEFINE full == count = LOG_QUEUE_SIZE
           kept == IF full THEN count - 1 ELSE count
           newHead == IF full THEN Slot(1) ELSE head
           slot == (newHead + kept) % LOG_QUEUE_SIZE
<1>0. /\ LOG_QUEUE_SIZE \in Nat \ {0} /\ head \in 0 .. LOG_QUEUE_SIZE - 1
      /\ count \in 0 .. LOG_QUEUE_SIZE /\ nextSequence \in Nat
      /\ count <= nextSequence /\ queue \in [Slots -> Nat]
      /\ kept \in 0 .. LOG_QUEUE_SIZE - 1
      /\ full => kept = count - 1
      /\ ~full => kept = count
  BY SizeAssumption DEF IInv, TypeOK, Contiguous, Slots
<1>1. /\ queue' = [queue EXCEPT ![slot] = nextSequence]
      /\ head' = newHead /\ count' = kept + 1 /\ nextSequence' = nextSequence + 1
      /\ dropped' = IF full THEN dropped + 1 ELSE dropped
      /\ evicted' = IF full THEN evicted \union {queue[head]} ELSE evicted
      /\ UNCHANGED <<link, flush, sent, reported>>
  BY DEF sendOrQueue
<1>2. /\ newHead \in Slots
      /\ full => newHead = Wrap(head + 1)
      /\ ~full => newHead = head
  <2>1. Slot(1) \in Slots /\ Slot(1) = Wrap(head + 1)
    BY <1>0, SlotValue DEF IInv
  <2> QED
    BY <1>0, <2>1 DEF Slots
<1>3. slot = Wrap(newHead + kept) /\ slot \in Slots
  <2>1. newHead + kept \in 0 .. 2 * LOG_QUEUE_SIZE - 1
    BY <1>0, <1>2 DEF Slots
  <2> QED
    BY <2>1, WrapMod
<1> HIDE DEF kept, newHead, slot
<1>4. full => queue[head] = Oldest
  BY <1>0, HeadIsOldest DEF IInv
<1>5. TypeOK'
  <2>1. queue' \in [Slots -> Nat] /\ head' \in Slots
        /\ count' \in 0 .. LOG_QUEUE_SIZE /\ nextSequence' \in Nat
    BY <1>0, <1>1, <1>2, <1>3
  <2>2. dropped' \in Nat
    BY <1>1 DEF IInv, TypeOK
  <2>3. evicted' \in SUBSET Nat
    BY <1>0, <1>1 DEF IInv, TypeOK, Slots
  <2> QED
    BY <1>1, <2>1, <2>2, <2>3 DEF IInv, TypeOK
<1>6. Contiguous'
  <2>1. count' <= nextSequence'
    BY <1>0, <1>1
  <2>2. ASSUME NEW i \in 0 .. kept
        PROVE  queue'[Wrap(newHead + i)] + count' = nextSequence' + i
    <3>1. CASE i = kept
      BY <1>0, <1>1, <1>3, <3>1
    <3>2. CASE i < kept
      <4> DEFINE j == IF full THEN i + 1 ELSE i
      <4>1. j \in 0 .. count - 1 /\ j \in 0 .. LOG_QUEUE_SIZE
        BY <1>0, <3>2
      <4>2. Wrap(newHead + i) = Wrap(head + j)
        BY <1>0, <1>2, <3>2 DEF Wrap, Slots
      <4>3. Wrap(newHead + i) # slot
        BY <1>0, <1>2, <1>3, <3>2 DEF Wrap, Slots
      <4>4. Wrap(head + j) = Slot(j) /\ Slot(j) \in Slots
        BY <4>1, SlotValue DEF IInv
      <4>5. queue[Slot(j)] + count = nextSequence + j
        BY <4>1 DEF IInv, Contiguous
      <4>6. queue'[Wrap(newHead + i)] = queue[Slot(j)]
        BY <1>0, <1>1, <1>3, <4>2, <4>3, <4>4
      <4>7. queue[Slot(j)] \in Nat
        BY <1>0, <4>4
      <4> QED
        BY <1>0, <1>1, <3>2, <4>5, <4>6, <4>7
    <3> QED
      BY <1>0, <3>1, <3>2
  <2>3. ASSUME NEW i \in 0 .. count' - 1
        PROVE  (queue[Slot(i)])' + count' = nextSequence' + i
    <3>1. i \in 0 .. kept
      BY <1>0, <1>1
    <3>2. newHead + i \in 0 .. 2 * LOG_QUEUE_SIZE - 1
      BY <1>0, <1>2, <3>1 DEF Slots
    <3>3. (queue[Slot(i)])' = queue'[Wrap(newHead + i)]
      BY <1>1, <3>2, WrapMod DEF Slot
    <3> QED
      BY <2>2, <3>1, <3>3
  <2> QED
    BY <2>1, <2>3 DEF Contiguous
<1>7. Oldest' = IF full THEN Oldest + 1 ELSE Oldest
  BY <1>0, <1>1 DEF Oldest
<1>8. FlushInv'
  BY <1>0, <1>1, <1>7 DEF IInv, FlushInv, TypeOK, Oldest
<1>9. LeftInv'
  <2>1. \A n \in 0 .. Oldest' - 1 : n \in sent' \/ n \in evicted'
    BY <1>0, <1>1, <1>4, <1>7 DEF IInv, LeftInv, Oldest
  <2>2. \A n \in evicted' : n < Oldest'
    BY <1>0, <1>1, <1>4, <1>7 DEF IInv, LeftInv, Oldest, TypeOK
  <2>3. \A n \in sent' : /\ flush'.pc = "send" => n < flush'.record
                         /\ flush'.pc = "pop" => n <= flush'.record
                         /\ flush'.pc \notin {"send", "pop"} => n < Oldest'
    BY <1>0, <1>1, <1>7 DEF IInv, LeftInv, Oldest, TypeOK
  <2> QED
    BY <2>1, <2>2, <2>3 DEF LeftInv
<1>10. LossInv'
  <2>1. CASE full
    <3>1. queue[head] \notin evicted
      BY <1>0, <1>4, <2>1 DEF IInv, LeftInv, Oldest
    <3>2. /\ IsFiniteSet(evicted')
          /\ Cardinality(evicted') = Cardinality(evicted) + 1
      BY <1>1, <2>1, <3>1, FS_AddElement DEF IInv, LossInv
    <3>3. Cardinality(evicted) \in Nat
      BY FS_CardinalityType DEF IInv, LossInv
    <3> QED
      BY <1>1, <2>1, <3>2, <3>3 DEF IInv, LossInv, LossesAddUp, TypeOK
  <2>2. CASE ~full
    BY <1>1, <2>2 DEF IInv, LossInv, LossesAddUp
  <2> QED
    BY <2>1, <2>2
<1> QED
  BY <1>5, <1>6, <1>8, <1>9, <1>10 DEF IInv

\* The steps of the loop and of the connection that leave the ring alone.
LEMMA LinkInv ==
  ASSUME IInv,
         \/ reconnect \/ linkUp \/ linkDown
         \/ UNCHANGED vars
  PROVE  IInv'
<1>1. /\ UNCHANGED <<queue, head, count, nextSequence, dropped, flush>>
      /\ UNCHANGED <<sent, evicted, reported>>
      /\ link' \in {"down", "connecting", "up"}
  BY DEF IInv, TypeOK, reconnect, linkUp, linkDown, vars, queueVars
<1>2. TypeOK'
  BY <1>1 DEF IInv, TypeOK
<1>3. Contiguous'
  BY <1>1 DEF IInv, Contiguous, Slot
<1>4. FlushInv' /\ LeftInv'
  BY <1>1 DEF IInv, FlushInv, LeftInv, Oldest
<1>5. LossInv'
  BY <1>1 DEF IInv, LossInv, LossesAddUp
<1> QED
  BY <1>2, <1>3, <1>4, <1>5 DEF IInv

\* The steps of flushQueue() that leave the ring alone: between them the ring
\* only moves on, and dropped only grows.
LEMMA FlushStepInv ==
  ASSUME IInv,
         \/ flushQueue \/ sendNotice \/ subtractLost \/ copyHead
         \/ sendRecord \/ sendFails
  PROVE  IInv'
<1>0. /\ UNCHANGED <<queue, head, count, nextSequence, link, evicted>>
      /\ LOG_QUEUE_SIZE \in Nat \ {0}
      /\ nextSequence \in Nat /\ count \in 0 .. LOG_QUEUE_SIZE
      /\ count <= nextSequence
      /\ dropped \in Nat /\ reported \in Nat /\ sent \in SUBSET Nat
      /\ flush \in [pc : FlushSteps, lost : Nat, record : Nat,
                    budget : 0 .. LOG_QUEUE_SIZE]
      /\ Cardinality(evicted) \in Nat
  BY SizeAssumption, FS_CardinalityType
     DEF IInv, TypeOK, Contiguous, LossInv, flushQueue, sendNotice, subtractLost,
         copyHead, sendRecord, sendFails, queueVars
<1>1. Contiguous' /\ Oldest' = Oldest /\ Oldest \in Nat
  BY <1>0 DEF IInv, Contiguous, Slot, Oldest
<1>2. SUFFICES /\ flush' \in [pc : FlushSteps, lost : Nat, record : Nat,
                              budget : 0 .. LOG_QUEUE_SIZE]
               /\ dropped' \in Nat /\ reported' \in Nat /\ sent' \in SUBSET Nat
               /\ FlushInv' /\ LeftInv' /\ LossesAddUp'
  BY <1>0, <1>1 DEF IInv, TypeOK, LossInv
<1>3. CASE flushQueue
  <2>1. flush' \in [pc : {"copy", "notice"}, lost : {dropped}, record : {0},
                    budget : {0}]
    BY <1>0, <1>3 DEF flushQueue, Idle
  <2> QED
    BY <1>0, <1>1, <1>3, <2>1
       DEF IInv, flushQueue, FlushSteps, FlushInv, LeftInv, LossInv, LossesAddUp
<1>4. CASE sendNotice
  BY <1>0, <1>1, <1>4
     DEF IInv, sendNotice, FlushSteps, FlushInv, LeftInv, LossInv, LossesAddUp
<1>5. CASE subtractLost
  BY <1>0, <1>1, <1>5
     DEF IInv, subtractLost, FlushSteps, FlushInv, LeftInv, LossInv, LossesAddUp
<1>6. CASE copyHead
  <2>0. UNCHANGED <<dropped, sent, reported>> /\ flush.pc = "copy"
    BY <1>6 DEF copyHead
  <2>1. CASE flush' = Idle
    <3>1. flush' \in [pc : {"idle"}, lost : {0}, record : {0}, budget : {0}]
      BY <2>1 DEF Idle
    <3> QED
      BY <1>0, <1>1, <2>0, <3>1
         DEF IInv, FlushSteps, FlushInv, LeftInv, LossInv, LossesAddUp
  <2>2. CASE flush' # Idle
    <3>1. /\ flush' = [flush EXCEPT !.pc = "send", !.record = queue[head]]
          /\ flush.budget < LOG_QUEUE_SIZE /\ count # 0
      BY <1>6, <2>2 DEF copyHead
    <3>2. queue[head] = Oldest
      BY <3>1, HeadIsOldest DEF IInv
    <3>3. flush' \in [pc : {"send"}, lost : Nat, record : {Oldest},
                      budget : 0 .. LOG_QUEUE_SIZE - 1]
      <4>1. flush.budget \in 0 .. LOG_QUEUE_SIZE - 1
        BY <1>0, <3>1
      <4> QED
        BY <1>0, <3>1, <3>2, <4>1
    <3>4. Oldest < nextSequence
      BY <1>0, <3>1 DEF Oldest
    <3>5. FlushInv'
      BY <1>0, <1>1, <3>3, <3>4 DEF FlushInv
    <3> QED
      BY <1>0, <1>1, <2>0, <3>3, <3>5
         DEF IInv, FlushSteps, LeftInv, LossInv, LossesAddUp
  <2> QED
    BY <2>1, <2>2
<1>7. CASE sendRecord
  BY <1>0, <1>1, <1>7
     DEF IInv, sendRecord, FlushSteps, FlushInv, LeftInv, LossInv, LossesAddUp
<1>8. CASE sendFails
  BY <1>0, <1>1, <1>8
     DEF IInv, sendFails, Idle, FlushSteps, FlushInv, LeftInv, LossInv, LossesAddUp
<1> QED
  BY <1>3, <1>4, <1>5, <1>6, <1>7, <1>8

\* The record sent is removed if it is still the oldest one.  If it is not, a
\* producer has overwritten it, and the ring is as it should be.
LEMMA PopInv == IInv /\ popSent => IInv'
<1> SUFFICES ASSUME IInv, popSent PROVE IInv'
  OBVIOUS
<1>0. /\ UNCHANGED <<queue, nextSequence, dropped, link, sent, evicted, reported>>
      /\ LOG_QUEUE_SIZE \in Nat \ {0} /\ head \in 0 .. LOG_QUEUE_SIZE - 1
      /\ nextSequence \in Nat /\ count \in 0 .. LOG_QUEUE_SIZE
      /\ count <= nextSequence /\ queue \in [Slots -> Nat]
      /\ flush \in [pc : FlushSteps, lost : Nat, record : Nat,
                    budget : 0 .. LOG_QUEUE_SIZE]
      /\ flush.pc = "pop" /\ flush.budget < LOG_QUEUE_SIZE
      /\ flush.record <= Oldest /\ flush.record < nextSequence
      /\ flush.record \in sent
      /\ sent \in SUBSET Nat
      /\ flush' = [flush EXCEPT !.pc = "copy", !.budget = flush.budget + 1]
  BY SizeAssumption DEF IInv, TypeOK, Contiguous, FlushInv, popSent, Slots
<1>1. /\ flush' \in [pc : FlushSteps, lost : Nat, record : Nat,
                     budget : 0 .. LOG_QUEUE_SIZE]
      /\ flush'.pc = "copy" /\ flush'.lost = flush.lost
  <2>1. flush.budget + 1 \in 0 .. LOG_QUEUE_SIZE
    BY <1>0
  <2> QED
    BY <1>0, <2>1 DEF FlushSteps
<1>2. LossInv' /\ FlushInv'
  BY <1>0, <1>1 DEF IInv, LossInv, LossesAddUp, FlushInv
<1>3. CASE count # 0 /\ queue[head] = flush.record
  <2>1. head' = Slot(1) /\ count' = count - 1
    BY <1>3 DEF popSent
  <2>2. Slot(1) \in Slots /\ Slot(1) = Wrap(head + 1)
    BY <1>0, SlotValue DEF IInv
  <2>3. /\ Oldest' = Oldest + 1
        /\ head' \in 0 .. LOG_QUEUE_SIZE - 1 /\ head' = Wrap(head + 1)
    BY <1>0, <2>1, <2>2 DEF Oldest, Slots
  <2>4. flush.record = Oldest
    BY <1>3, HeadIsOldest DEF IInv
  <2>5. TypeOK'
    BY <1>0, <1>1, <1>3, <2>1, <2>2 DEF IInv, TypeOK
  <2>6. ASSUME NEW i \in 0 .. count' - 1
        PROVE  (queue[Slot(i)])' + count' = nextSequence' + i
    <3>1. i \in 0 .. count - 2 /\ i + 1 \in 0 .. count - 1
          /\ i + 1 \in 0 .. LOG_QUEUE_SIZE /\ i \in 0 .. LOG_QUEUE_SIZE
      BY <1>0, <1>3, <2>1
    <3>2. (Slot(i))' = Wrap(head' + i)
      <4>1. head' + i \in 0 .. 2 * LOG_QUEUE_SIZE - 1
        BY <1>0, <2>3, <3>1
      <4> QED
        BY <4>1, WrapMod DEF Slot
    <3>3. Wrap(head' + i) = Wrap(head + (i + 1))
      BY <1>0, <2>3, <3>1 DEF Wrap
    <3>4. Slot(i + 1) = Wrap(head + (i + 1)) /\ Slot(i + 1) \in Slots
      BY <3>1, SlotValue DEF IInv
    <3>5. queue[Slot(i + 1)] + count = nextSequence + (i + 1)
      BY <3>1 DEF IInv, Contiguous
    <3>6. queue[Slot(i + 1)] \in Nat
      BY <1>0, <3>4
    <3>7. (queue[Slot(i)])' = queue[Slot(i + 1)]
      BY <1>0, <3>2, <3>3, <3>4
    <3> QED
      BY <1>0, <2>1, <3>1, <3>5, <3>6, <3>7
  <2>7. Contiguous'
    BY <1>0, <1>3, <2>1, <2>6 DEF Contiguous
  <2>8. LeftInv'
    BY <1>0, <1>1, <2>3, <2>4 DEF IInv, LeftInv, Oldest, TypeOK
  <2> QED
    BY <1>2, <2>5, <2>7, <2>8 DEF IInv
<1>4. CASE ~(count # 0 /\ queue[head] = flush.record)
  <2>1. UNCHANGED <<head, count>>
    BY <1>4 DEF popSent
  <2>2. TypeOK' /\ Contiguous'
    BY <1>0, <1>1, <2>1 DEF IInv, TypeOK, Contiguous, Slot
  <2>3. Oldest' = Oldest /\ Oldest \in Nat
    BY <1>0, <2>1 DEF Oldest
  <2>4. flush.record < Oldest
    <3>1. CASE count = 0
      BY <1>0, <3>1 DEF Oldest
    <3>2. CASE count # 0
      BY <1>0, <1>4, <3>2, <2>3, HeadIsOldest DEF IInv
    <3> QED
      BY <3>1, <3>2
  <2>5. LeftInv'
    BY <1>0, <1>1, <2>3, <2>4 DEF IInv, LeftInv, TypeOK
  <2> QED
    BY <1>2, <2>2, <2>5 DEF IInv
<1> QED
  BY <1>3, <1>4

-----------------------------------------------------------------------------
(* The theorems.                                                           *)

\* IInv is inductive.
THEOREM InductiveInvariant == Spec => []IInv
<1>1. Init => IInv
  BY InitInv
<1>2. IInv /\ [Next]_vars => IInv'
  BY ProducerInv, LinkInv, FlushStepInv, PopInv DEF Next, LoopStep
<1> QED
  BY <1>1, <1>2, PTL DEF Spec

\* TypeOK of sendOrQueue() and update(): in particular the head stays in the
\* ring, its count never exceeds its size, and subtracting the losses that
\* were reported never makes the counter negative.
THEOREM TypeCorrect == Spec => []TypeOK
<1>1. IInv => TypeOK
  BY DEF IInv
<1> QED
  BY <1>1, InductiveInvariant, PTL

\* The ring always holds the last records logged, in their order.
THEOREM RingContiguous == Spec => []Contiguous
<1>1. IInv => Contiguous
  BY DEF IInv
<1> QED
  BY <1>1, InductiveInvariant, PTL

\* No record vanishes between the three critical sections of flushQueue().
THEOREM NoRecordVanishes == Spec => []NothingLost
<1>1. IInv => NothingLost
  <2> SUFFICES ASSUME IInv PROVE NothingLost
    OBVIOUS
  <2>1. Queued = Oldest .. nextSequence - 1
    BY QueuedRange DEF IInv
  <2>2. /\ count \in Nat /\ nextSequence \in Nat /\ count <= nextSequence
        /\ sent \in SUBSET Nat /\ evicted \in SUBSET Nat
    BY SizeAssumption DEF IInv, TypeOK, Contiguous
  <2>3. \A n \in sent : n < nextSequence
    BY <2>2 DEF IInv, TypeOK, LeftInv, FlushInv, Oldest
  <2>4. \A n \in evicted : n < nextSequence
    BY <2>2 DEF IInv, LeftInv, Oldest
  <2>5. \A n \in 0 .. nextSequence - 1 : n \in sent \union Queued \union evicted
    BY <2>1, <2>2 DEF IInv, LeftInv, Oldest
  <2>6. \A n \in Queued : n \in 0 .. nextSequence - 1
    BY <2>1, <2>2 DEF Oldest
  <2>7. \A n \in sent \union evicted : n \in 0 .. nextSequence - 1
    BY <2>2, <2>3, <2>4
  <2> QED
    BY <2>5, <2>6, <2>7 DEF NothingLost
<1> QED
  BY <1>1, InductiveInvariant, PTL

\* The losses the server is told of, and those it is still to be told of, are
\* exactly the records overwritten, whatever is logged during the notice.
THEOREM LossesAccounted == Spec => []LossesAddUp
<1>1. IInv => LossesAddUp
  BY DEF IInv, LossInv
<1> QED
  BY <1>1, InductiveInvariant, PTL

\* What flushQueue() is about to send is newer than all it has sent.
THEOREM SentInOrder == Spec => []InOrder
<1>1. IInv => InOrder
  BY DEF IInv, LeftInv, InOrder
<1> QED
  BY <1>1, InductiveInvariant, PTL

\* All that the queue promises, for a ring of any size: each record logged is
\* queued in its place, sent once and in order, or counted as a loss once.
THEOREM QueueCorrect == Spec => []QueueExact
<1>1. Contiguous /\ NothingLost /\ LossesAddUp /\ InOrder => QueueExact
  BY DEF QueueExact
<1> QED
  BY <1>1, RingContiguous, NoRecordVanishes, LossesAccounted, SentInOrder, PTL

-----------------------------------------------------------------------------
(* BoxClock *)
LEMMA ClockInit == ClockPart!Init => ClockPart!ClockInv
<1> SUFFICES ASSUME ClockPart!Init PROVE ClockPart!ClockInv
  OBVIOUS
<1>1. clock_chip \in [time : ClockPart!Times, osf : BOOLEAN] /\ clock_chip.osf
  BY DEF ClockPart!Init
<1>2. clock_flags \in [valid : BOOLEAN, lost : BOOLEAN] /\ ~clock_flags.valid
  BY DEF ClockPart!Init
<1> QED
  BY <1>1, <1>2
  DEF ClockPart!Init, ClockPart!ClockInv, ClockPart!StartIsRight,
      ClockPart!RefreshAhead, ClockPart!Times

\* setup(): the chip is believed only with its flag cleared.
LEMMA BootInv ==
  ASSUME ClockPart!ClockInv, ClockPart!Boot
  PROVE  ClockPart!ClockInv'
<1>1. CASE ClockPart!begin
  BY <1>1
  DEF ClockPart!begin, ClockPart!ClockInv, ClockPart!StartIsRight,
      ClockPart!RefreshAhead, ClockPart!isEpochValid, ClockPart!Times
<1>2. CASE ClockPart!setSystemTimeFromRtc
  <2>1. ClockPart!StartIsRight'
    BY <1>2
    DEF ClockPart!setSystemTimeFromRtc, ClockPart!recordStartTime,
        ClockPart!trusted, ClockPart!ClockInv, ClockPart!StartIsRight
  <2>2. /\ clock_system' \in ClockPart!Times
        /\ clock_flags' \in [valid : BOOLEAN, lost : BOOLEAN]
        /\ clock_flags'.valid => ~clock_chip.osf
    <3>1. clock_chip.time \in ClockPart!Times /\ clock_chip.osf \in BOOLEAN
          /\ clock_system \in ClockPart!Times
      BY DEF ClockPart!ClockInv
    <3>2. CASE ClockPart!isEpochValid(clock_chip.time)
      <4>1. clock_system' = clock_chip.time
            /\ clock_flags'
                   = [lost |-> clock_chip.osf, valid |-> ~clock_chip.osf]
        BY <1>2, <3>2 DEF ClockPart!setSystemTimeFromRtc
      <4> QED
        BY <3>1, <4>1
    <3>3. CASE ~ClockPart!isEpochValid(clock_chip.time)
      <4>1. clock_system' = clock_system
            /\ clock_flags' = [lost |-> clock_chip.osf, valid |-> FALSE]
        BY <1>2, <3>3 DEF ClockPart!setSystemTimeFromRtc
      <4> QED
        BY <3>1, <4>1
    <3> QED
      BY <3>2, <3>3
  <2> QED
    BY <1>2, <2>1, <2>2
    DEF ClockPart!setSystemTimeFromRtc, ClockPart!ClockInv,
        ClockPart!RefreshAhead
<1>3. CASE ClockPart!configureNtp
  BY <1>3
  DEF ClockPart!configureNtp, ClockPart!ClockInv, ClockPart!StartIsRight,
      ClockPart!RefreshAhead
<1>4. CASE ClockPart!credsBegin
  BY <1>4
  DEF ClockPart!credsBegin, ClockPart!ClockInv, ClockPart!StartIsRight,
      ClockPart!RefreshAhead
<1> QED
  BY <1>1, <1>2, <1>3, <1>4 DEF ClockPart!Boot

\* The SNTP task, and what loop() does about it.
LEMMA SyncInv ==
  ASSUME ClockPart!ClockInv, ClockPart!onTimeSync \/ ClockPart!Update
  PROVE  ClockPart!ClockInv'
<1>1. CASE ClockPart!onTimeSync
  BY <1>1
  DEF ClockPart!onTimeSync, ClockPart!ClockInv, ClockPart!StartIsRight,
      ClockPart!RefreshAhead, ClockPart!Times
<1>2. CASE ClockPart!updateStart
  BY <1>2
  DEF ClockPart!updateStart, ClockPart!isEpochValid, ClockPart!ClockInv,
      ClockPart!StartIsRight, ClockPart!RefreshAhead
<1>3. CASE ClockPart!writeTime
  <2>1. clock_chip' = [clock_chip EXCEPT !.time = "right"]
    BY <1>3 DEF ClockPart!writeTime, ClockPart!transfers, ClockPart!ClockInv
  <2>2. clock_chip' \in [time : ClockPart!Times, osf : BOOLEAN]
        /\ clock_chip'.osf = clock_chip.osf /\ clock_chip'.time = "right"
    BY <2>1 DEF ClockPart!ClockInv, ClockPart!Times
  <2> QED
    BY <1>3, <2>2
    DEF ClockPart!writeTime, ClockPart!ClockInv, ClockPart!StartIsRight,
        ClockPart!RefreshAhead
<1>4. CASE ClockPart!clearFlag
  <2>1. clock_chip' = [clock_chip EXCEPT !.osf = FALSE]
    BY <1>4 DEF ClockPart!clearFlag, ClockPart!transfers
  <2>2. /\ clock_chip' \in [time : ClockPart!Times, osf : BOOLEAN]
        /\ ~clock_chip'.osf
        /\ clock_chip'.time = "right"
    BY <1>4, <2>1 DEF ClockPart!clearFlag, ClockPart!ClockInv
  <2> QED
    BY <1>4, <2>2
    DEF ClockPart!clearFlag, ClockPart!ClockInv, ClockPart!StartIsRight,
        ClockPart!RefreshAhead
<1>5. CASE ClockPart!refresh
  <2>1. ClockPart!StartIsRight'
    BY <1>5
    DEF ClockPart!refresh, ClockPart!recordStartTime, ClockPart!ClockInv,
        ClockPart!StartIsRight
  <2> QED
    BY <1>5, <2>1
    DEF ClockPart!refresh, ClockPart!ClockInv, ClockPart!RefreshAhead
<1> QED
  BY <1>1, <1>2, <1>3, <1>4, <1>5 DEF ClockPart!Update

LEMMA ClockStep == ClockPart!ClockInv /\ [ClockPart!Next]_(ClockPart!vars)
                   => ClockPart!ClockInv'
<1> SUFFICES ASSUME ClockPart!ClockInv, [ClockPart!Next]_(ClockPart!vars)
             PROVE ClockPart!ClockInv'
  OBVIOUS
<1>1. CASE ClockPart!powerFails
  BY <1>1
  DEF ClockPart!powerFails, ClockPart!ClockInv, ClockPart!StartIsRight,
      ClockPart!RefreshAhead, ClockPart!NoStart, ClockPart!Times
<1>2. CASE ClockPart!batteryFails
  <2>1. clock_chip' \in [time : ClockPart!Times, osf : BOOLEAN]
        /\ clock_chip'.osf
    BY <1>2 DEF ClockPart!batteryFails
  <2> QED
    BY <1>2, <2>1
    DEF ClockPart!batteryFails, ClockPart!ClockInv, ClockPart!StartIsRight,
        ClockPart!RefreshAhead
<1>3. CASE UNCHANGED ClockPart!vars
  BY <1>3
  DEF ClockPart!vars, ClockPart!ClockInv, ClockPart!StartIsRight,
      ClockPart!RefreshAhead
<1> QED
  BY <1>1, <1>2, <1>3, BootInv, SyncInv DEF ClockPart!Next

LEMMA ClockPromises == ClockPart!ClockInv => ClockPart!StartIsRight
                       /\ ClockPart!ValidIsRight /\ ClockPart!RefreshAhead
  BY DEF ClockPart!ClockInv, ClockPart!ValidIsRight

ClockOfPart == part = "clock" => ClockPart!ClockInv

LEMMA ClockPartInit == ProgressInit => ClockOfPart
  BY ClockInit DEF ProgressInit, ClockOfPart

LEMMA ClockPartNext == ClockOfPart /\ [ProgressNext]_all => ClockOfPart'
<1> SUFFICES ASSUME ClockOfPart, [ProgressNext]_all, part' = "clock"
             PROVE  ClockPart!ClockInv'
  BY DEF ClockOfPart
<1>1. part = "clock" /\ [ClockPart!Next]_(ClockPart!vars)
  BY DEF ProgressNext, Others, all, ClockPart!vars, clock_vars
<1> QED
  BY <1>1, ClockStep DEF ClockOfPart

\* Wherever the power fails, also between the two transfers of adjust(), and
\* whenever the SNTP task sets the clock: a time that is called valid or shown
\* as the start is right, and the cache is rebuilt after it was set.
THEOREM ClockIsRight == ProgressSpec => []ClockRight
<1>1. ClockOfPart => ClockRight
  BY ClockPromises DEF ClockOfPart, ClockRight
<1> QED
  BY <1>1, ClockPartInit, ClockPartNext, PTL DEF ProgressSpec

-----------------------------------------------------------------------------
(* VpnManager *)
VpnCommands == {"configure", "disconnect"}
LastCommand == IF vpn_wanted THEN "configure" ELSE "disconnect"

\* What the proofs need of the types.
CommandTypes ==
  /\ vpn_wanted \in BOOLEAN /\ vpn_configured \in BOOLEAN
  /\ vpn_tunnel \in BOOLEAN
  /\ vpn_queue \in VpnCommands \cup {"none"}
  /\ vpn_worker \in VpnCommands \cup {"idle", "connecting"}

\* The last command is queued, or held by the worker, or carried out.
CommandInv ==
  /\ vpn_queue # "none" => vpn_queue = LastCommand
  /\ vpn_queue = "none" /\ vpn_worker \in VpnCommands
     => vpn_worker = LastCommand
  /\ vpn_queue = "none" /\ vpn_worker \notin VpnCommands
     => vpn_configured = vpn_wanted

\* Only a worker that is configured connects, has a tunnel, or says so.
ConfiguredInv ==
  vpn_worker = "connecting" \/ vpn_tunnel \/ vpn_state = "Connected"
  => vpn_configured

VpnInv == CommandTypes /\ CommandInv /\ ConfiguredInv

LEMMA VpnInit == VpnPart!Init => VpnInv
  BY DEF VpnPart!Init, VpnInv, CommandTypes, CommandInv, ConfiguredInv,
         VpnCommands, LastCommand

\* loop(): checkLinkStatus() and the end of begin() and disconnect().
LEMMA VpnLoopInv ==
  ASSUME VpnInv, VpnPart!checkLinkStatus \/ VpnPart!finishOperation
  PROVE  VpnInv'
<1> USE DEF VpnInv, CommandTypes, CommandInv, ConfiguredInv, VpnCommands,
            LastCommand, VpnPart!vpnVars, VpnPart!mainVars, VpnPart!env
<1>1. CASE VpnPart!linkLost
  BY <1>1 DEF VpnPart!linkLost, VpnPart!xQueueOverwrite
<1>2. CASE VpnPart!recoveryBegins
  BY <1>2 DEF VpnPart!recoveryBegins
<1>3. CASE VpnPart!restartAssociation
  BY <1>3 DEF VpnPart!restartAssociation
<1>4. CASE VpnPart!linkRestored
  BY <1>4 DEF VpnPart!linkRestored, VpnPart!xQueueOverwrite
<1>5. CASE VpnPart!restoredInVain
  BY <1>5 DEF VpnPart!restoredInVain
<1>6. CASE VpnPart!linkUp
  BY <1>6 DEF VpnPart!linkUp
<1>7. CASE VpnPart!finishOperation
  BY <1>7 DEF VpnPart!finishOperation
<1> QED
  BY <1>1, <1>2, <1>3, <1>4, <1>5, <1>6, <1>7 DEF VpnPart!checkLinkStatus

\* The worker task.
LEMMA VpnWorkerInv ==
  ASSUME VpnInv, VpnPart!workerLoop
  PROVE  VpnInv'
<1> USE DEF VpnInv, CommandTypes, CommandInv, ConfiguredInv, VpnCommands,
            LastCommand, VpnPart!vpnVars, VpnPart!mainVars, VpnPart!env
<1>1. CASE VpnPart!xQueueReceive
  BY <1>1 DEF VpnPart!xQueueReceive
<1>2. CASE VpnPart!disconnectInternal
  BY <1>2 DEF VpnPart!disconnectInternal
<1>3. CASE VpnPart!applyConfig
  BY <1>3 DEF VpnPart!applyConfig
<1>4. CASE VpnPart!foundConnected
  BY <1>4 DEF VpnPart!foundConnected, VpnPart!working
<1>5. CASE VpnPart!initFails
  BY <1>5 DEF VpnPart!initFails, VpnPart!scheduleReconnect
<1>6. CASE VpnPart!connectBegins
  BY <1>6 DEF VpnPart!connectBegins, VpnPart!working
<1>7. CASE VpnPart!connectSucceeds
  BY <1>7 DEF VpnPart!connectSucceeds
<1>8. CASE VpnPart!connectFails
  BY <1>8 DEF VpnPart!connectFails, VpnPart!failed, VpnPart!scheduleReconnect
<1>9. CASE VpnPart!tunnelLoop
  BY <1>9
  DEF VpnPart!tunnelLoop, VpnPart!working, VpnPart!failed,
      VpnPart!scheduleReconnect
<1> QED
  BY <1>1, <1>2, <1>3, <1>4, <1>5, <1>6, <1>7, <1>8, <1>9
  DEF VpnPart!workerLoop

\* Wi-Fi, server, tunnel and time.
LEMMA VpnWorldInv ==
  ASSUME VpnInv, VpnPart!associated \/ VpnPart!wifiLost
         \/ VpnPart!serverChanges \/ VpnPart!tunnelLost \/ VpnPart!tick
  PROVE  VpnInv'
<1> USE DEF VpnInv, CommandTypes, CommandInv, ConfiguredInv, VpnCommands,
            LastCommand, VpnPart!vpnVars, VpnPart!mainVars, VpnPart!env
<1>1. CASE VpnPart!associated
  BY <1>1 DEF VpnPart!associated
<1>2. CASE VpnPart!wifiLost
  BY <1>2 DEF VpnPart!wifiLost
<1>3. CASE VpnPart!serverChanges
  BY <1>3 DEF VpnPart!serverChanges
<1>4. CASE VpnPart!tunnelLost
  BY <1>4 DEF VpnPart!tunnelLost
<1>5. CASE VpnPart!tick
  BY <1>5 DEF VpnPart!tick
<1> QED
  BY <1>1, <1>2, <1>3, <1>4, <1>5

LEMMA VpnStep == VpnInv /\ [VpnPart!Next]_(VpnPart!vars) => VpnInv'
<1> SUFFICES ASSUME VpnInv, [VpnPart!Next]_(VpnPart!vars) PROVE VpnInv'
  OBVIOUS
<1>1. CASE VpnPart!checkLinkStatus \/ VpnPart!finishOperation
  BY <1>1, VpnLoopInv
<1>2. CASE VpnPart!workerLoop
  BY <1>2, VpnWorkerInv
<1>3. CASE VpnPart!associated \/ VpnPart!wifiLost \/ VpnPart!serverChanges
           \/ VpnPart!tunnelLost \/ VpnPart!tick
  BY <1>3, VpnWorldInv
<1>4. CASE UNCHANGED VpnPart!vars
  BY <1>4
  DEF VpnPart!vars, VpnPart!vpnVars, VpnPart!mainVars, VpnPart!env, VpnInv,
      CommandTypes, CommandInv, ConfiguredInv, VpnCommands, LastCommand
<1> QED
  BY <1>1, <1>2, <1>3, <1>4 DEF VpnPart!Next

LEMMA VpnPromises == VpnInv => VpnPart!LastCommandWins
                     /\ VpnPart!DisconnectObeyed
<1>1. VpnInv => VpnPart!LastCommandWins
  BY DEF VpnInv, CommandTypes, CommandInv, VpnCommands, VpnPart!LastCommandWins
<1>2. VpnInv => VpnPart!DisconnectObeyed
  BY DEF VpnInv, CommandTypes, CommandInv, ConfiguredInv, VpnCommands,
         VpnPart!DisconnectObeyed
<1> QED
  BY <1>1, <1>2

CommandsOfPart == part = "vpn" => VpnInv

LEMMA CommandsPartInit == ProgressInit => CommandsOfPart
  BY VpnInit DEF ProgressInit, CommandsOfPart

LEMMA CommandsPartNext ==
  CommandsOfPart /\ [ProgressNext]_all => CommandsOfPart'
<1> SUFFICES ASSUME CommandsOfPart, [ProgressNext]_all, part' = "vpn"
             PROVE  VpnInv'
  BY DEF CommandsOfPart
<1>1. part = "vpn" /\ [VpnPart!Next]_(VpnPart!vars)
  BY DEF ProgressNext, Others, all, VpnPart!vars, VpnPart!env,
         VpnPart!mainVars, VpnPart!vpnVars, vpn_vars
<1> QED
  BY <1>1, VpnStep DEF CommandsOfPart

\* The last operation of loop() wins, whichever command it overwrote in the
\* queue, and after a disconnect was obeyed there is neither a tunnel nor an
\* attempt to open one: for any delays and any number of faults.
THEOREM CommandsAreObeyed == ProgressSpec => []CommandsObeyed
<1>1. VpnInv => VpnPart!LastCommandWins /\ VpnPart!DisconnectObeyed
  BY VpnPromises
<1>2. CommandsOfPart => CommandsObeyed
  BY <1>1 DEF CommandsOfPart, CommandsObeyed
<1> QED
  BY <1>2, CommandsPartInit, CommandsPartNext, PTL DEF ProgressSpec

-----------------------------------------------------------------------------
(* SshTransport *)
\* The names of the senders are none of the library's own.
NamesDiffer == Senders \cap {"none", SendPart!Keepalive, SendPart!Reader,
                             "kex"} = {}

KexPackets == {<<"kex", "kexinit">>, <<"kex", "newkeys">>}
Packets == (Senders \X Nat) \cup {<<SendPart!Keepalive, 0>>} \cup KexPackets
Pieces == [data : Packets, seq : Nat, first : BOOLEAN, last : BOOLEAN]

SendTypes ==
  /\ send_done \in [Senders -> Nat] /\ send_wire \in Seq(Pieces)
  /\ send_out \in Packets \cup {SendPart!None} /\ send_outSeq \in Nat
  /\ send_seqno \in Nat
  /\ send_begun \in BOOLEAN
  /\ send_kex \in {"idle", "kexinit", "reply", "newkeys", "finish"}

\* Nobody sends or reads on his own account during a key exchange.
CallInv ==
  /\ send_caller \in Senders \cup {"none", SendPart!Keepalive, SendPart!Reader}
  /\ send_pc # "out" => send_caller # "none"
  /\ send_pc = "send" => send_caller # SendPart!Reader
  /\ send_pc \in {"send", "read"} => send_kex = "idle"

\* The packet in the output buffer is the next one of the one who sent it.
OutInv ==
  send_out # SendPart!None =>
    /\ \A s \in Senders : send_out[1] = s => send_out = <<s, send_done[s] + 1>>
    /\ send_out[1] = "kex" => send_out = <<"kex", send_kex>>
    /\ send_kex \in {"reply", "newkeys"} => send_out[1] = "kex"

\* What is on the wire ends with a whole packet, or with a part of the one
\* in the buffer.
WireInv ==
  /\ send_begun => /\ send_out # SendPart!None /\ send_wire # <<>>
              /\ ~send_wire[Len(send_wire)].last
              /\ send_wire[Len(send_wire)].data = send_out
  /\ SendPart!WholePackets

\* The number of the packet that is begun next.
After(p) == IF SendPart!Newkeys(p.data) THEN 0 ELSE p.seq + 1
NextIs(n) ==
  /\ SendPart!Starts = {} => n = 0
  /\ \A j \in SendPart!Starts :
       (\A k \in SendPart!Starts : k <= j) => n = After(send_wire[j])

NumberInv ==
  /\ SendPart!NumberedAsSent
  /\ send_out = SendPart!None \/ send_begun => NextIs(send_seqno)
  /\ send_out # SendPart!None /\ ~send_begun =>
       NextIs(send_outSeq)
       /\ send_seqno
              = IF SendPart!Newkeys(send_out) THEN 0 ELSE send_outSeq + 1

\* The last KEXINIT has no NEWKEYS behind it only while the exchange is on.
Exchanging(j) ==
  /\ send_wire[j].data = <<"kex", "kexinit">> /\ send_wire[j].last
  /\ \A k \in j..Len(send_wire) : ~SendPart!Newkeys(send_wire[k].data)
QuietInv ==
  /\ SendPart!QuietInKex
  /\ \A j \in DOMAIN send_wire : Exchanging(j)
     => send_kex \in {"reply", "newkeys"}

SendInv ==
  /\ SendTypes /\ CallInv /\ OutInv /\ WireInv /\ NumberInv
  /\ SendPart!ReportedIsSent
  /\ QuietInv

LEMMA SendInit == NamesDiffer /\ SendPart!Init => SendInv
<1> SUFFICES ASSUME NamesDiffer, SendPart!Init PROVE SendInv
  OBVIOUS
<1> USE DEF SendPart!Init
<1>1. SendTypes /\ CallInv /\ OutInv
  <2>1. send_wire \in Seq(Pieces)
    OBVIOUS
  <2>2. send_done \in [Senders -> Nat]
    OBVIOUS
  <2>3. send_out = SendPart!None /\ send_outSeq \in Nat /\ send_seqno \in Nat
        /\ send_begun \in BOOLEAN
    OBVIOUS
  <2>4. send_kex \in {"idle", "kexinit", "reply", "newkeys", "finish"}
    OBVIOUS
  <2>5. CallInv
    BY DEF CallInv
  <2> QED
    BY <2>1, <2>2, <2>3, <2>4, <2>5 DEF SendTypes, OutInv
<1>2. WireInv /\ QuietInv
  BY DEF WireInv, SendPart!WholePackets, QuietInv, SendPart!QuietInKex
<1>3. SendPart!Starts = {} /\ \A s \in Senders : SendPart!SentOf(s) = {}
  BY DEF SendPart!Starts, SendPart!SentOf
<1>4. NumberInv
  BY <1>3 DEF NumberInv, SendPart!NumberedAsSent, NextIs, SendPart!None
<1>5. SendPart!ReportedIsSent
  BY <1>3 DEF SendPart!ReportedIsSent
<1> QED
  BY <1>1, <1>2, <1>4, <1>5 DEF SendInv

LEMMA PacketNames ==
  ASSUME NamesDiffer, NEW d \in Packets
  PROVE  /\ d # SendPart!None
         /\ SendPart!Newkeys(d) <=> d = <<"kex", "newkeys">>
         /\ d[1] \in Senders
            => d[1] \notin {"none", SendPart!Keepalive, SendPart!Reader, "kex"}
         /\ d[1] = "kex" => d \in KexPackets
<1>1. CASE d \in Senders \X Nat
  BY <1>1 DEF NamesDiffer, SendPart!None, SendPart!Newkeys
<1>2. CASE d = <<SendPart!Keepalive, 0>>
  BY <1>2 DEF NamesDiffer, SendPart!None, SendPart!Newkeys, SendPart!Keepalive
<1>3. CASE d \in KexPackets
  BY <1>3 DEF NamesDiffer, SendPart!None, SendPart!Newkeys, KexPackets
<1> QED
  BY <1>1, <1>2, <1>3 DEF Packets

\* A piece that the socket took.
LEMMA AppendPiece ==
  ASSUME send_wire \in Seq(Pieces), NEW p \in Pieces,
         send_wire' = Append(send_wire, p)
  PROVE  /\ send_wire' \in Seq(Pieces) /\ send_wire' # <<>>
         /\ Len(send_wire) \in Nat /\ Len(send_wire') = Len(send_wire) + 1
         /\ DOMAIN send_wire = 1..Len(send_wire)
         /\ DOMAIN send_wire' = 1..(Len(send_wire) + 1)
         /\ \A i \in DOMAIN send_wire : send_wire'[i] = send_wire[i]
            /\ send_wire[i] \in Pieces
         /\ send_wire'[Len(send_wire) + 1] = p
  OBVIOUS

\* What becomes of the buffer and the socket when packet d is sent.
Puts(d, whole) ==
  LET n == IF send_out = SendPart!None THEN send_seqno ELSE send_outSeq
  IN  /\ send_wire' =
           Append(send_wire, SendPart!Piece(d, n, ~send_begun, whole))
      /\ whole => send_out' = SendPart!None /\ send_begun' = FALSE
      /\ ~whole => ~send_begun /\ send_out' = d /\ send_begun' = TRUE
      /\ send_outSeq' \in Nat /\ send_seqno' = SendPart!number(d)
PutsOff(d) ==
  /\ send_wire' = send_wire /\ send_out' = d /\ send_begun' = send_begun
  /\ send_outSeq'
         = (IF send_out = SendPart!None THEN send_seqno ELSE send_outSeq)
  /\ send_seqno' = SendPart!number(d)

LEMMA SendOutcomes ==
  ASSUME SendTypes, NEW d \in Packets, send_out = SendPart!None
         \/ send_out[1] # d[1] \/ send_out = d
  PROVE  /\ SendPart!sendsAll(d) => (send_out = SendPart!None \/ send_out = d)
            /\ Puts(d, TRUE)
         /\ SendPart!wouldBlock(d) =>
              \/ SendPart!others(d) /\ UNCHANGED SendPart!buffer
              \/ /\ send_out = SendPart!None \/ send_out = d
                 /\ Puts(d, FALSE) \/ PutsOff(d)
<1> USE DEF SendPart!others, Puts, PutsOff, SendTypes
<1>1. SendPart!sendsAll(d) => (send_out = SendPart!None \/ send_out = d)
      /\ Puts(d, TRUE)
  BY DEF SendPart!sendsAll, SendPart!Taken
<1>2. SendPart!wouldBlock(d) =>
        \/ SendPart!others(d) /\ UNCHANGED SendPart!buffer
        \/ /\ send_out = SendPart!None \/ send_out = d
           /\ Puts(d, FALSE) \/ PutsOff(d)
  BY DEF SendPart!wouldBlock, SendPart!Kept
<1> QED
  BY <1>1, <1>2

\* Pieces follow each other.
LEMMA PutsWire ==
  ASSUME NamesDiffer, SendTypes, WireInv, NEW d \in Packets,
         send_out = SendPart!None \/ send_out = d,
         (\E whole \in BOOLEAN : Puts(d, whole)) \/ PutsOff(d)
  PROVE  /\ send_wire' \in Seq(Pieces)
         /\ send_out' \in Packets \cup {SendPart!None}
         /\ send_outSeq' \in Nat /\ send_seqno' \in Nat
         /\ send_begun' \in BOOLEAN
         /\ WireInv'
<1>0. d # SendPart!None
  BY PacketNames
<1>1. ASSUME NEW whole \in BOOLEAN, Puts(d, whole)
      PROVE  /\ send_wire' \in Seq(Pieces)
             /\ send_out' \in Packets \cup {SendPart!None}
             /\ send_outSeq' \in Nat /\ send_seqno' \in Nat
             /\ send_begun' \in BOOLEAN
             /\ WireInv'
  <2> DEFINE n == IF send_out = SendPart!None THEN send_seqno ELSE send_outSeq
             p == SendPart!Piece(d, n, ~send_begun, whole)
  <2>1. /\ p \in Pieces /\ send_wire' = Append(send_wire, p)
        /\ p.data = d /\ p.seq = n
        /\ (p.first <=> ~send_begun) /\ (p.last <=> whole)
    BY <1>1 DEF Puts, SendPart!Piece, Pieces, SendTypes
  <2>2. /\ send_out' \in Packets \cup {SendPart!None}
        /\ send_outSeq' \in Nat /\ send_seqno' \in Nat
        /\ send_begun' \in BOOLEAN
    <3>1. send_seqno' \in Nat /\ send_outSeq' \in Nat
      BY <1>1 DEF Puts, SendTypes, SendPart!number
    <3>2. CASE whole
      BY <1>1, <3>1, <3>2 DEF Puts
    <3>3. CASE ~whole
      BY <1>1, <3>1, <3>3 DEF Puts
    <3> QED
      BY <3>2, <3>3
  <2> HIDE DEF p
  <2>3. /\ send_wire' \in Seq(Pieces) /\ send_wire' # <<>>
        /\ Len(send_wire) \in Nat /\ Len(send_wire') = Len(send_wire) + 1
        /\ DOMAIN send_wire = 1..Len(send_wire)
        /\ DOMAIN send_wire' = 1..(Len(send_wire) + 1)
        /\ \A i \in DOMAIN send_wire : send_wire'[i] = send_wire[i]
           /\ send_wire[i] \in Pieces
        /\ send_wire'[Len(send_wire) + 1] = p
    BY <2>1, AppendPiece DEF SendTypes
  <2>4. send_begun' => /\ send_out' # SendPart!None /\ send_wire' # <<>>
                  /\ ~send_wire'[Len(send_wire')].last
                  /\ send_wire'[Len(send_wire')].data = send_out'
    BY <1>0, <1>1, <2>1, <2>3 DEF Puts
  <2>5. ASSUME NEW i \in DOMAIN send_wire', ~send_wire'[i].last
        PROVE  IF i = Len(send_wire') THEN send_out' = send_wire'[i].data
               /\ send_begun'
               ELSE ~send_wire'[i + 1].first
               /\ send_wire'[i + 1].data = send_wire'[i].data
    <3>1. CASE i = Len(send_wire) + 1
      BY <1>1, <2>1, <2>3, <2>5, <3>1 DEF Puts
    <3>2. CASE i = Len(send_wire)
      <4>1. ~send_wire[i].last /\ i \in DOMAIN send_wire
        BY <2>3, <2>5, <3>2
      <4>2. send_out = send_wire[i].data /\ send_begun
        BY <3>2, <4>1 DEF WireInv, SendPart!WholePackets
      <4> QED
        <5>1. send_out = d /\ i + 1 = Len(send_wire) + 1
              /\ send_wire'[i + 1] = p /\ send_wire'[i] = send_wire[i]
          BY <1>0, <2>3, <3>2, <4>1, <4>2 DEF WireInv
        <5>2. ~p.first /\ p.data = d
          BY <2>1, <4>2
        <5>3. i # Len(send_wire')
          <6>1. Len(send_wire) \in Nat /\ Len(send_wire') = Len(send_wire) + 1
            BY <2>3
          <6> QED
            BY <3>2, <6>1
        <5> QED
          BY <4>2, <5>1, <5>2, <5>3
    <3>3. CASE i < Len(send_wire)
      <4>1. ~send_wire[i].last /\ i \in DOMAIN send_wire
            /\ i + 1 \in DOMAIN send_wire
        BY <2>3, <2>5, <3>3
      <4>2. ~send_wire[i + 1].first
            /\ send_wire[i + 1].data = send_wire[i].data
        BY <2>3, <3>3, <4>1 DEF WireInv, SendPart!WholePackets
      <4> QED
        BY <2>3, <3>3, <4>1, <4>2
    <3> QED
      BY <2>3, <3>1, <3>2, <3>3
  <2> QED
    BY <2>2, <2>3, <2>4, <2>5 DEF WireInv, SendPart!WholePackets
<1>2. ASSUME PutsOff(d)
      PROVE  /\ send_wire' \in Seq(Pieces)
             /\ send_out' \in Packets \cup {SendPart!None}
             /\ send_outSeq' \in Nat /\ send_seqno' \in Nat
             /\ send_begun' \in BOOLEAN
             /\ WireInv'
  <2>1. /\ send_wire' = send_wire /\ send_out' = d /\ send_begun' = send_begun
        /\ send_wire' \in Seq(Pieces)
        /\ send_out' \in Packets \cup {SendPart!None}
        /\ send_outSeq' \in Nat /\ send_seqno' \in Nat
        /\ send_begun' \in BOOLEAN
    BY <1>2 DEF PutsOff, SendTypes, SendPart!number
  <2> QED
    BY <2>1 DEF WireInv, SendPart!WholePackets
<1> QED
  BY <1>1, <1>2

\* Packets are numbered as they are begun.
LEMMA PutsNumber ==
  ASSUME NamesDiffer, SendTypes, NumberInv, NEW d \in Packets,
         send_begun => send_out # SendPart!None,
         send_out = SendPart!None \/ send_out = d,
         (\E whole \in BOOLEAN : Puts(d, whole)) \/ PutsOff(d)
  PROVE  NumberInv'
<1>0. d # SendPart!None
  BY PacketNames
<1>1. ASSUME NEW whole \in BOOLEAN, Puts(d, whole)
      PROVE  NumberInv'
  <2> DEFINE n == IF send_out = SendPart!None THEN send_seqno ELSE send_outSeq
             p == SendPart!Piece(d, n, ~send_begun, whole)
  <2>1. /\ p \in Pieces /\ send_wire' = Append(send_wire, p)
        /\ p.data = d /\ p.seq = n /\ (p.first <=> ~send_begun)
        /\ n \in Nat /\ send_seqno' = SendPart!number(d)
           /\ (send_out' = SendPart!None \/ send_begun')
    BY <1>1 DEF Puts, SendPart!Piece, Pieces, SendTypes
  <2> HIDE DEF p, n
  <2>3. /\ Len(send_wire) \in Nat
        /\ DOMAIN send_wire = 1..Len(send_wire)
        /\ DOMAIN send_wire' = 1..(Len(send_wire) + 1)
        /\ \A i \in DOMAIN send_wire : send_wire'[i] = send_wire[i]
           /\ send_wire[i] \in Pieces
        /\ send_wire'[Len(send_wire) + 1] = p
    BY <2>1, AppendPiece DEF SendTypes
  <2>4. SendPart!Starts \subseteq 1..Len(send_wire)
    BY <2>3 DEF SendPart!Starts
  <2>5. CASE send_begun
    <3>1. SendPart!Starts' = SendPart!Starts
          /\ \A i \in SendPart!Starts : send_wire'[i] = send_wire[i]
      BY <2>1, <2>3, <2>5 DEF SendPart!Starts, Pieces
    <3>2. NextIs(send_seqno)' /\ SendPart!NumberedAsSent'
      <4>1. send_seqno' = send_seqno /\ NextIs(send_seqno)
        BY <2>1, <2>5 DEF SendPart!number, NumberInv
      <4> QED
        BY <3>1, <4>1 DEF NextIs, After, NumberInv, SendPart!NumberedAsSent
    <3> QED
      BY <2>1, <3>2 DEF NumberInv
  <2>6. CASE ~send_begun
    <3>1. /\ SendPart!Starts' = SendPart!Starts \cup {Len(send_wire) + 1}
          /\ \A i \in SendPart!Starts : send_wire'[i] = send_wire[i]
      BY <2>1, <2>3, <2>6 DEF SendPart!Starts, Pieces
    <3>2. NextIs(n) /\ send_seqno' = IF SendPart!Newkeys(d) THEN 0 ELSE n + 1
      BY <1>0, <2>1, <2>6 DEF NumberInv, n, SendPart!number
    <3>3. SendPart!NumberedAsSent'
      <4> SUFFICES ASSUME NEW i \in SendPart!Starts'
                   PROVE  /\ (\A j \in SendPart!Starts' : i <= j)
                                 => send_wire'[i].seq = 0
                          /\ \A j \in SendPart!Starts' :
                               (j < i /\ \A k
                                  \in SendPart!Starts' : k <= j \/ i <= k)
                               => send_wire'[i].seq = After(send_wire'[j])
        BY DEF SendPart!NumberedAsSent, After
      <4>1. CASE i \in SendPart!Starts
        <5>1. (\A j \in SendPart!Starts' : i <= j) => send_wire'[i].seq = 0
          BY <3>1, <4>1 DEF NumberInv, SendPart!NumberedAsSent
        <5>2. ASSUME NEW j \in SendPart!Starts', j < i,
                     \A k \in SendPart!Starts' : k <= j \/ i <= k
              PROVE  send_wire'[i].seq = After(send_wire'[j])
          <6>1. j \in SendPart!Starts
            BY <2>3, <2>4, <3>1, <4>1, <5>2
          <6> QED
            BY <3>1, <4>1, <5>2, <6>1
            DEF NumberInv, SendPart!NumberedAsSent, After
        <5> QED
          BY <5>1, <5>2
      <4>2. CASE i = Len(send_wire) + 1
        <5>1. (\A j \in SendPart!Starts' : i <= j) => SendPart!Starts = {}
          BY <2>3, <2>4, <3>1, <4>2
        <5>2. ASSUME NEW j \in SendPart!Starts', j < i,
                     \A k \in SendPart!Starts' : k <= j \/ i <= k
              PROVE  send_wire'[i].seq = After(send_wire'[j])
          <6>1. j \in SendPart!Starts /\ \A k \in SendPart!Starts : k <= j
            BY <2>3, <2>4, <3>1, <4>2, <5>2
          <6> QED
            BY <2>1, <2>3, <3>1, <3>2, <4>2, <6>1 DEF NextIs
        <5> QED
          BY <2>1, <2>3, <3>2, <4>2, <5>1, <5>2 DEF NextIs
      <4> QED
        BY <3>1, <4>1, <4>2
    <3>4. NextIs(send_seqno)'
      <4>1. ASSUME NEW j \in SendPart!Starts',
                   \A k \in SendPart!Starts' : k <= j
            PROVE  send_seqno' = After(send_wire'[j])
        <5>0. Len(send_wire) + 1 <= j
          BY <3>1, <4>1
        <5>1. j = Len(send_wire) + 1
          <6>1. j \in SendPart!Starts \/ j = Len(send_wire) + 1
            BY <3>1
          <6>2. Len(send_wire) \in Nat
            BY <2>3
          <6>3. ASSUME j \in SendPart!Starts PROVE FALSE
            <7>1. j \in 1..Len(send_wire)
              BY <2>4, <6>3
            <7> QED
              BY <5>0, <6>2, <7>1
          <6> QED
            BY <6>1, <6>3
        <5> QED
          BY <2>1, <2>3, <3>2, <5>1 DEF After
      <4> QED
        BY <3>1, <4>1 DEF NextIs, After
    <3> QED
      BY <2>1, <3>3, <3>4 DEF NumberInv
  <2> QED
    BY <2>5, <2>6 DEF SendTypes
<1>2. ASSUME PutsOff(d)
      PROVE  NumberInv'
  <2>1. /\ send_wire' = send_wire /\ send_out' = d /\ send_begun' = send_begun
        /\ send_seqno' = SendPart!number(d)
        /\ send_outSeq'
               = IF send_out = SendPart!None THEN send_seqno ELSE send_outSeq
    BY <1>2 DEF PutsOff
  <2>2. SendPart!Starts' = SendPart!Starts /\ SendPart!NumberedAsSent'
    BY <2>1 DEF SendPart!Starts, NumberInv, SendPart!NumberedAsSent
  <2>3. send_begun => NextIs(send_seqno)'
    BY <2>1, <2>2 DEF NumberInv, NextIs, After, SendPart!number
  <2>4. ~send_begun => NextIs(send_outSeq)'
                  /\ send_seqno'
                         = IF SendPart!Newkeys(send_out')
                             THEN 0 ELSE send_outSeq' + 1
    BY <1>0, <2>1, <2>2 DEF NumberInv, NextIs, After, SendPart!number
  <2> QED
    BY <1>0, <2>1, <2>2, <2>3, <2>4 DEF NumberInv
<1> QED
  BY <1>1, <1>2

\* A packet is reported when its last piece is on the wire, and only then.
LEMMA PutsSent ==
  ASSUME SendTypes, SendPart!ReportedIsSent, NEW d \in Packets,
         NEW whole \in BOOLEAN,
         Puts(d, whole),
         d[1] \in Senders => d = <<d[1], send_done[d[1]] + 1>>,
         \A s \in Senders :
           send_done'[s] = IF whole
           /\ d[1] = s THEN send_done[s] + 1 ELSE send_done[s]
  PROVE  SendPart!ReportedIsSent'
<1> DEFINE n == IF send_out = SendPart!None THEN send_seqno ELSE send_outSeq
           p == SendPart!Piece(d, n, ~send_begun, whole)
<1>1. /\ p \in Pieces /\ send_wire' = Append(send_wire, p)
      /\ p.data = d /\ (p.last <=> whole)
  BY DEF Puts, SendPart!Piece, Pieces, SendTypes
<1> HIDE DEF p
<1>2. /\ Len(send_wire) \in Nat
      /\ DOMAIN send_wire = 1..Len(send_wire)
      /\ DOMAIN send_wire' = 1..(Len(send_wire) + 1)
      /\ \A i \in DOMAIN send_wire : send_wire'[i] = send_wire[i]
         /\ send_wire[i] \in Pieces
      /\ send_wire'[Len(send_wire) + 1] = p
  BY <1>1, AppendPiece DEF SendTypes
<1> SUFFICES ASSUME NEW s \in Senders
             PROVE  /\ {send_wire'[i].data[2] : i \in SendPart!SentOf(s)'}
                           = 1 .. send_done'[s]
                    /\ \A i, j \in SendPart!SentOf(s)' :
                         i < j => send_wire'[i].data[2] < send_wire'[j].data[2]
  BY DEF SendPart!ReportedIsSent
<1>3. /\ {send_wire[i].data[2] : i \in SendPart!SentOf(s)} = 1 .. send_done[s]
      /\ \A i, j \in SendPart!SentOf(s) : i < j
             => send_wire[i].data[2] < send_wire[j].data[2]
  BY DEF SendPart!ReportedIsSent
<1>4. /\ \A i \in SendPart!SentOf(s) : i \in DOMAIN send_wire
         /\ send_wire'[i] = send_wire[i]
      /\ send_done[s] \in Nat
  BY <1>2 DEF SendPart!SentOf, SendTypes
<1>5. CASE ~(whole /\ d[1] = s)
  <2>1. SendPart!SentOf(s)' = SendPart!SentOf(s)
        /\ send_done'[s] = send_done[s]
    BY <1>1, <1>2, <1>5 DEF SendPart!SentOf, Pieces
  <2> QED
    BY <1>3, <1>4, <2>1
<1>6. CASE whole /\ d[1] = s
  <2>1. /\ SendPart!SentOf(s)' = SendPart!SentOf(s) \cup {Len(send_wire) + 1}
        /\ send_done'[s] = send_done[s] + 1
    BY <1>1, <1>2, <1>6 DEF SendPart!SentOf, Pieces
  <2>2. send_wire'[Len(send_wire) + 1].data[2] = send_done[s] + 1
    BY <1>1, <1>2, <1>6
  <2>3. \A i \in SendPart!SentOf(s) : send_wire[i].data[2]
            \in 1 .. send_done[s]
    BY <1>3
  <2>4. {send_wire'[i].data[2] : i \in SendPart!SentOf(s)'}
            = 1 .. send_done'[s]
    <3>1. {send_wire'[i].data[2] : i \in SendPart!SentOf(s)'}
            = {send_wire[i].data[2] : i
                 \in SendPart!SentOf(s)} \cup {send_done[s] + 1}
      BY <1>4, <2>1, <2>2
    <3>2. 1 .. (send_done[s] + 1) = (1 .. send_done[s]) \cup {send_done[s] + 1}
      BY <1>4
    <3> QED
      BY <1>3, <2>1, <3>1, <3>2
  <2>5. ASSUME NEW i \in SendPart!SentOf(s)', NEW j \in SendPart!SentOf(s)',
               i < j
        PROVE  send_wire'[i].data[2] < send_wire'[j].data[2]
    <3>1. Len(send_wire) \in Nat
          /\ SendPart!SentOf(s) \subseteq 1..Len(send_wire)
      BY <1>2 DEF SendPart!SentOf
    <3>2. i \in SendPart!SentOf(s)
      <4> SUFFICES ASSUME i = Len(send_wire) + 1 PROVE FALSE
        BY <2>1
      <4>1. CASE j = Len(send_wire) + 1
        BY <2>5, <3>1, <4>1
      <4>2. CASE j \in SendPart!SentOf(s)
        <5>1. j \in 1..Len(send_wire)
          BY <3>1, <4>2
        <5> QED
          BY <2>5, <3>1, <5>1
      <4> QED
        BY <2>1, <4>1, <4>2
    <3>3. send_wire'[i].data[2] \in 1 .. send_done[s]
      BY <1>4, <2>3, <3>2
    <3>4. CASE j \in SendPart!SentOf(s)
      BY <1>3, <1>4, <2>5, <3>2, <3>4
    <3>5. CASE j = Len(send_wire) + 1
      BY <1>4, <2>2, <3>3, <3>5
    <3> QED
      BY <2>1, <3>4, <3>5
  <2> QED
    BY <2>4, <2>5
<1> QED
  BY <1>5, <1>6

\* Between KEXINIT and NEWKEYS only the key exchange puts on the wire.
LEMMA PutsQuiet ==
  ASSUME NamesDiffer, SendTypes, QuietInv, NEW d \in Packets,
         NEW whole \in BOOLEAN, Puts(d, whole),
         send_kex \in {"reply", "newkeys"} => d = <<"kex", "newkeys">>,
         whole /\ d = <<"kex", "kexinit">> => send_kex' = "reply"
  PROVE  QuietInv'
<1> DEFINE n == IF send_out = SendPart!None THEN send_seqno ELSE send_outSeq
           p == SendPart!Piece(d, n, ~send_begun, whole)
<1>1. /\ p \in Pieces /\ send_wire' = Append(send_wire, p)
      /\ p.data = d /\ (p.last <=> whole)
  BY DEF Puts, SendPart!Piece, Pieces, SendTypes
<1> HIDE DEF p
<1>2. /\ Len(send_wire) \in Nat /\ Len(send_wire') = Len(send_wire) + 1
      /\ DOMAIN send_wire = 1..Len(send_wire)
      /\ DOMAIN send_wire' = 1..(Len(send_wire) + 1)
      /\ \A i \in DOMAIN send_wire : send_wire'[i] = send_wire[i]
         /\ send_wire[i] \in Pieces
      /\ send_wire'[Len(send_wire) + 1] = p
  BY <1>1, AppendPiece DEF SendTypes
<1>3. ASSUME NEW j \in DOMAIN send_wire,
             send_wire[j].data = <<"kex", "kexinit">>, send_wire[j].last,
             \A k \in j..Len(send_wire) : ~SendPart!Newkeys(send_wire'[k].data)
      PROVE  d = <<"kex", "newkeys">>
  <2>1. \A k \in j..Len(send_wire) : send_wire'[k] = send_wire[k]
    BY <1>2
  <2>2. Exchanging(j)
    BY <1>3, <2>1 DEF Exchanging
  <2> QED
    BY <2>2 DEF QuietInv
<1>4. ASSUME NEW i \in DOMAIN send_wire', NEW j \in 1..(i - 1),
             send_wire'[j].data = <<"kex", "kexinit">> /\ send_wire'[j].last,
             \A k \in j..i : ~SendPart!Newkeys(send_wire'[k].data)
      PROVE  send_wire'[i].data[1] = "kex"
  <2>0. i \in Int /\ j \in DOMAIN send_wire /\ send_wire'[j] = send_wire[j]
    BY <1>2
  <2>1. CASE i \in DOMAIN send_wire
    <3>1. \A k \in j..i : send_wire'[k] = send_wire[k]
      BY <1>2, <2>1
    <3> QED
      BY <1>4, <2>0, <2>1, <3>1 DEF QuietInv, SendPart!QuietInKex
  <2>2. CASE i = Len(send_wire) + 1
    <3>1. \A k \in j..Len(send_wire) : ~SendPart!Newkeys(send_wire'[k].data)
      BY <1>2, <1>4, <2>0, <2>2
    <3>2. d = <<"kex", "newkeys">>
      BY <1>3, <1>4, <2>0, <3>1
    <3> QED
      BY <1>1, <1>2, <2>2, <3>2
  <2> QED
    BY <1>2, <2>1, <2>2
<1>5. ASSUME NEW j \in DOMAIN send_wire', Exchanging(j)'
      PROVE  send_kex' \in {"reply", "newkeys"}
  <2>1. CASE j \in DOMAIN send_wire
    <3>1. /\ send_wire[j].data = <<"kex", "kexinit">> /\ send_wire[j].last
          /\ \A k \in j..Len(send_wire) : ~SendPart!Newkeys(send_wire'[k].data)
      BY <1>2, <1>5, <2>1 DEF Exchanging
    <3>2. d = <<"kex", "newkeys">>
      BY <1>3, <2>1, <3>1
    <3>3. SendPart!Newkeys(send_wire'[Len(send_wire) + 1].data)
      BY <1>1, <1>2, <3>2 DEF SendPart!Newkeys
    <3>4. Len(send_wire) + 1 \in j..Len(send_wire')
      BY <1>2
    <3> QED
      BY <1>5, <3>3, <3>4 DEF Exchanging
  <2>2. CASE j = Len(send_wire) + 1
    <3>1. d = <<"kex", "kexinit">> /\ whole
      BY <1>1, <1>2, <1>5, <2>2 DEF Exchanging
    <3> QED
      BY <3>1
  <2> QED
    BY <1>2, <2>1, <2>2
<1>6. SendPart!QuietInKex'
  BY <1>4 DEF SendPart!QuietInKex
<1> QED
  BY <1>5, <1>6 DEF QuietInv

\* The packet of a call, or of the key exchange, is the one in the buffer if
\* that has its pointer.
LEMMA OwnPacket ==
  ASSUME NamesDiffer, SendTypes, CallInv, OutInv
  PROVE  /\ send_pc = "send" =>
              /\ SendPart!MyPacket \in Packets
              /\ SendPart!MyPacket[1] = send_caller
              /\ send_caller \in Senders \cup {SendPart!Keepalive}
              /\ send_caller \in Senders
                 => SendPart!MyPacket
                     = <<send_caller, send_done[send_caller] + 1>>
              /\ send_out = SendPart!None
                 \/ send_out[1] # SendPart!MyPacket[1]
                    \/ send_out = SendPart!MyPacket
         /\ send_kex \in DOMAIN SendPart!KexSends =>
              /\ send_kex \in {"kexinit", "newkeys"}
              /\ <<"kex", send_kex>> \in KexPackets
              /\ \/ send_out = SendPart!None
                    \/ send_out[1] # <<"kex", send_kex>>[1]
                 \/ send_out = <<"kex", send_kex>>
<1>1. ASSUME send_pc = "send"
      PROVE  /\ SendPart!MyPacket \in Packets
             /\ SendPart!MyPacket[1] = send_caller
             /\ send_caller \in Senders \cup {SendPart!Keepalive}
             /\ send_caller \in Senders
                => SendPart!MyPacket
                    = <<send_caller, send_done[send_caller] + 1>>
             /\ send_out = SendPart!None \/ send_out[1] # SendPart!MyPacket[1]
                \/ send_out = SendPart!MyPacket
  <2>1. send_caller \in Senders \cup {SendPart!Keepalive}
    BY <1>1 DEF CallInv
  <2>2. CASE send_caller \in Senders
    <3>1. SendPart!MyPacket = <<send_caller, send_done[send_caller] + 1>>
          /\ send_done[send_caller] \in Nat
      BY <2>2 DEF SendPart!MyPacket, NamesDiffer, SendTypes
    <3> QED
      BY <2>1, <2>2, <3>1 DEF OutInv, Packets
  <2>3. CASE send_caller = SendPart!Keepalive
    <3>1. SendPart!MyPacket = <<SendPart!Keepalive, 0>>
          /\ SendPart!Keepalive \notin Senders
      BY <2>3 DEF SendPart!MyPacket, NamesDiffer
    <3>2. ASSUME send_out # SendPart!None, send_out[1] = SendPart!Keepalive
          PROVE  send_out = <<SendPart!Keepalive, 0>>
      BY <3>1, <3>2 DEF SendTypes, Packets, KexPackets, SendPart!Keepalive
    <3> QED
      BY <2>1, <2>3, <3>1, <3>2 DEF Packets
  <2> QED
    BY <2>1, <2>2, <2>3
<1>2. ASSUME send_kex \in DOMAIN SendPart!KexSends
      PROVE  /\ send_kex \in {"kexinit", "newkeys"}
             /\ <<"kex", send_kex>> \in KexPackets
             /\ \/ send_out = SendPart!None
                   \/ send_out[1] # <<"kex", send_kex>>[1]
                \/ send_out = <<"kex", send_kex>>
  <2>1. send_kex \in {"kexinit", "newkeys"}
    BY <1>2 DEF SendPart!KexSends
  <2> QED
    BY <2>1 DEF KexPackets, OutInv
<1> QED
  BY <1>1, <1>2

\* send_existing() refused, or the step does not send.
LEMMA NothingSent ==
  ASSUME SendInv, UNCHANGED <<SendPart!buffer, send_done>>,
         send_kex' \in {"reply", "newkeys"}
         => send_kex \in {"reply", "newkeys"},
         send_kex \in {"reply", "newkeys"}
         => send_kex' \in {"reply", "newkeys"},
         send_kex' = send_kex \/ send_out = SendPart!None
         \/ send_out[1] # "kex",
         send_kex' \in {"idle", "kexinit", "reply", "newkeys", "finish"}
  PROVE  /\ SendTypes' /\ OutInv' /\ WireInv' /\ NumberInv'
         /\ SendPart!ReportedIsSent' /\ QuietInv'
<1> USE DEF SendInv, SendPart!buffer
<1>1. SendTypes'
  BY DEF SendTypes
<1>2. OutInv'
  BY DEF OutInv
<1>3. WireInv'
  BY DEF WireInv, SendPart!WholePackets
<1>4. NumberInv'
  BY DEF NumberInv, SendPart!NumberedAsSent, SendPart!Starts, NextIs, After
<1>5. SendPart!ReportedIsSent'
  BY DEF SendPart!ReportedIsSent, SendPart!SentOf
<1>6. QuietInv'
  BY DEF QuietInv, SendPart!QuietInKex, Exchanging
<1> QED
  BY <1>1, <1>2, <1>3, <1>4, <1>5, <1>6

\* _libssh2_transport_send() for a caller.
LEMMA SendStepInv == NamesDiffer /\ SendInv /\ SendPart!send => SendInv'
<1> SUFFICES ASSUME NamesDiffer, SendInv, SendPart!send PROVE SendInv'
  OBVIOUS
<1> DEFINE d == SendPart!MyPacket
<1>1. /\ SendTypes /\ CallInv /\ OutInv /\ WireInv /\ NumberInv
      /\ SendPart!ReportedIsSent /\ QuietInv
  BY DEF SendInv
<1>2. send_pc = "send" /\ send_kex = "idle" /\ send_kex' = send_kex
  BY <1>1 DEF SendPart!send, CallInv
<1>3. /\ d \in Packets /\ d[1] = send_caller
      /\ send_caller \in Senders \cup {SendPart!Keepalive}
      /\ send_caller \in Senders
         => d = <<send_caller, send_done[send_caller] + 1>>
      /\ send_out = SendPart!None \/ send_out[1] # d[1] \/ send_out = d
  BY <1>1, <1>2, OwnPacket
<1>4. CallInv'
  BY <1>2 DEF SendPart!send, SendPart!again, SendPart!leave, CallInv
<1>5. d[1] # "kex"
  BY <1>3 DEF NamesDiffer, SendPart!Keepalive
<1> HIDE DEF d
<1>6. CASE /\ SendPart!sendsAll(d)
           /\ send_done' = [s \in Senders |->
                        IF s = send_caller
                            THEN send_done[s] + 1 ELSE send_done[s]]
  <2>1. (send_out = SendPart!None \/ send_out = d) /\ Puts(d, TRUE)
    BY <1>1, <1>3, <1>6, SendOutcomes
  <2>2. /\ send_wire' \in Seq(Pieces)
        /\ send_out' \in Packets \cup {SendPart!None}
        /\ send_outSeq' \in Nat /\ send_seqno' \in Nat
        /\ send_begun' \in BOOLEAN
        /\ WireInv'
    BY <1>1, <1>3, <2>1, PutsWire
  <2>3. NumberInv'
    BY <1>1, <1>3, <2>1, PutsNumber DEF WireInv
  <2>4. /\ SendTypes'
        /\ \A s \in Senders :
             send_done'[s] = IF TRUE
             /\ d[1] = s THEN send_done[s] + 1 ELSE send_done[s]
    BY <1>1, <1>2, <1>3, <1>6, <2>2 DEF SendTypes
  <2>5. SendPart!ReportedIsSent'
    <3>1. d[1] \in Senders => d = <<d[1], send_done[d[1]] + 1>>
      BY <1>3
    <3> QED
      BY <1>1, <1>3, <2>1, <2>4, <3>1, PutsSent
  <2>6. QuietInv'
    <3>1. send_kex \notin {"reply", "newkeys"} /\ d # <<"kex", "kexinit">>
      BY <1>2, <1>5
    <3> QED
      BY <1>1, <1>3, <2>1, <3>1, PutsQuiet
  <2>7. OutInv'
    BY <2>1 DEF Puts, OutInv
  <2> QED
    BY <1>4, <2>2, <2>3, <2>4, <2>5, <2>6, <2>7 DEF SendInv
<1>7. CASE SendPart!wouldBlock(d) /\ send_done' = send_done
  <2>1. CASE SendPart!others(d) /\ UNCHANGED SendPart!buffer
    <3>1. /\ SendTypes' /\ OutInv' /\ WireInv' /\ NumberInv'
          /\ SendPart!ReportedIsSent' /\ QuietInv'
      BY <1>1, <1>2, <1>7, <2>1, NothingSent
    <3> QED
      BY <1>4, <3>1 DEF SendInv
  <2>2. CASE (send_out = SendPart!None \/ send_out = d)
             /\ (Puts(d, FALSE) \/ PutsOff(d))
    <3>1. (\E whole \in BOOLEAN : Puts(d, whole)) \/ PutsOff(d)
      BY <2>2
    <3>2. /\ send_wire' \in Seq(Pieces)
          /\ send_out' \in Packets \cup {SendPart!None}
          /\ send_outSeq' \in Nat /\ send_seqno' \in Nat
          /\ send_begun' \in BOOLEAN
          /\ WireInv'
      BY <1>1, <1>3, <2>2, <3>1, PutsWire
    <3>3. NumberInv'
      BY <1>1, <1>3, <2>2, <3>1, PutsNumber DEF WireInv
    <3>4. SendTypes'
      BY <1>1, <1>2, <1>7, <3>2 DEF SendTypes
    <3>5. send_out' = d
      BY <2>2 DEF Puts, PutsOff
    <3>6. OutInv'
      BY <1>2, <1>3, <1>5, <1>7, <3>5 DEF OutInv
    <3>7. SendPart!ReportedIsSent' /\ QuietInv'
      <4>1. CASE PutsOff(d)
        BY <1>1, <1>2, <1>7, <4>1
        DEF PutsOff, SendPart!ReportedIsSent, SendPart!SentOf, QuietInv,
            SendPart!QuietInKex, Exchanging
      <4>2. CASE Puts(d, FALSE)
        <5>1. send_kex \notin {"reply", "newkeys"} /\ d # <<"kex", "kexinit">>
          BY <1>2, <1>5
        <5>2. QuietInv'
          BY <1>1, <1>3, <4>2, <5>1, PutsQuiet
        <5>3. d[1] \in Senders => d = <<d[1], send_done[d[1]] + 1>>
          BY <1>3
        <5>4. \A s \in Senders :
             send_done'[s] = IF FALSE
             /\ d[1] = s THEN send_done[s] + 1 ELSE send_done[s]
          BY <1>7
        <5>5. SendPart!ReportedIsSent'
          BY <1>1, <1>3, <4>2, <5>3, <5>4, PutsSent
        <5> QED
          BY <5>2, <5>5
      <4> QED
        BY <2>2, <4>1, <4>2
    <3> QED
      BY <1>4, <3>2, <3>3, <3>4, <3>6, <3>7 DEF SendInv
  <2> QED
    BY <1>1, <1>3, <1>7, <2>1, <2>2, SendOutcomes
<1> QED
  BY <1>6, <1>7 DEF SendPart!send, d

\* _libssh2_kex_exchange() sends KEXINIT or NEWKEYS.
LEMMA KexSendsInv == NamesDiffer /\ SendInv /\ SendPart!kexSends => SendInv'
<1> SUFFICES ASSUME NamesDiffer, SendInv, SendPart!kexSends PROVE SendInv'
  OBVIOUS
<1> DEFINE d == <<"kex", send_kex>>
<1>1. /\ SendTypes /\ CallInv /\ OutInv /\ WireInv /\ NumberInv
      /\ SendPart!ReportedIsSent /\ QuietInv
  BY DEF SendInv
<1>2. send_pc = "kex" /\ send_kex \in DOMAIN SendPart!KexSends
      /\ send_done' = send_done
  BY DEF SendPart!kexSends
<1>3. /\ send_kex \in {"kexinit", "newkeys"} /\ d \in Packets
      /\ send_out = SendPart!None \/ send_out[1] # d[1] \/ send_out = d
      /\ d = <<"kex", send_kex>> /\ d[1] = "kex"
  BY <1>1, <1>2, OwnPacket DEF Packets
<1>4. d[1] \notin Senders
  BY <1>3 DEF NamesDiffer
<1>5. d[1] \in Senders => d = <<d[1], send_done[d[1]] + 1>>
  BY <1>4
<1>6. CallInv'
  BY <1>1, <1>2
  DEF SendPart!kexSends, SendPart!again, SendPart!leave, CallInv,
      SendPart!KexSends
<1>7. /\ (SendPart!sendsAll(d) /\ send_kex' = SendPart!KexSends[send_kex])
         \/ (SendPart!wouldBlock(d) /\ send_kex' = send_kex)
      /\ SendPart!KexSends["kexinit"] = "reply"
      /\ SendPart!KexSends["newkeys"] = "finish"
  BY DEF SendPart!kexSends, SendPart!KexSends
<1> HIDE DEF d
<1>8. CASE SendPart!sendsAll(d) /\ send_kex' = SendPart!KexSends[send_kex]
  <2>1. (send_out = SendPart!None \/ send_out = d) /\ Puts(d, TRUE)
    BY <1>1, <1>3, <1>8, SendOutcomes
  <2>2. /\ send_wire' \in Seq(Pieces)
        /\ send_out' \in Packets \cup {SendPart!None}
        /\ send_outSeq' \in Nat /\ send_seqno' \in Nat
        /\ send_begun' \in BOOLEAN
        /\ WireInv'
    BY <1>1, <1>3, <2>1, PutsWire
  <2>3. NumberInv'
    BY <1>1, <1>3, <2>1, PutsNumber DEF WireInv
  <2>4. SendTypes'
    BY <1>1, <1>2, <1>3, <1>7, <1>8, <2>2 DEF SendTypes
  <2>5. SendPart!ReportedIsSent'
    <3>1. \A s \in Senders :
             send_done'[s] = IF TRUE
             /\ d[1] = s THEN send_done[s] + 1 ELSE send_done[s]
      BY <1>2, <1>4
    <3> QED
      BY <1>1, <1>3, <1>5, <2>1, <3>1, PutsSent
  <2>6. QuietInv'
    <3>1. /\ send_kex \in {"reply", "newkeys"} => d = <<"kex", "newkeys">>
          /\ d = <<"kex", "kexinit">> => send_kex' = "reply"
      BY <1>3, <1>7, <1>8
    <3> QED
      BY <1>1, <1>3, <2>1, <3>1, PutsQuiet
  <2>7. OutInv'
    BY <2>1 DEF Puts, OutInv
  <2> QED
    BY <1>6, <2>2, <2>3, <2>4, <2>5, <2>6, <2>7 DEF SendInv
<1>9. CASE SendPart!wouldBlock(d) /\ send_kex' = send_kex
  <2>1. CASE SendPart!others(d) /\ UNCHANGED SendPart!buffer
    <3>1. /\ SendTypes' /\ OutInv' /\ WireInv' /\ NumberInv'
          /\ SendPart!ReportedIsSent' /\ QuietInv'
      BY <1>1, <1>2, <1>3, <1>9, <2>1, NothingSent
    <3> QED
      BY <1>6, <3>1 DEF SendInv
  <2>2. CASE (send_out = SendPart!None \/ send_out = d)
             /\ (Puts(d, FALSE) \/ PutsOff(d))
    <3>1. (\E whole \in BOOLEAN : Puts(d, whole)) \/ PutsOff(d)
      BY <2>2
    <3>2. /\ send_wire' \in Seq(Pieces)
          /\ send_out' \in Packets \cup {SendPart!None}
          /\ send_outSeq' \in Nat /\ send_seqno' \in Nat
          /\ send_begun' \in BOOLEAN
          /\ WireInv'
      BY <1>1, <1>3, <2>2, <3>1, PutsWire
    <3>3. NumberInv'
      BY <1>1, <1>3, <2>2, <3>1, PutsNumber DEF WireInv
    <3>4. SendTypes'
      BY <1>1, <1>2, <1>9, <3>2 DEF SendTypes
    <3>5. send_out' = d
      BY <2>2 DEF Puts, PutsOff
    <3>6. OutInv'
      BY <1>3, <1>4, <1>9, <3>5 DEF OutInv
    <3>7. SendPart!ReportedIsSent' /\ QuietInv'
      <4>1. CASE PutsOff(d)
        BY <1>1, <1>2, <1>9, <4>1
        DEF PutsOff, SendPart!ReportedIsSent, SendPart!SentOf, QuietInv,
            SendPart!QuietInKex, Exchanging
      <4>2. CASE Puts(d, FALSE)
        <5>1. send_kex \in {"reply", "newkeys"} => d = <<"kex", "newkeys">>
          BY <1>3
        <5>2. QuietInv'
          BY <1>1, <1>3, <4>2, <5>1, PutsQuiet
        <5>4. \A s \in Senders :
             send_done'[s] = IF FALSE
             /\ d[1] = s THEN send_done[s] + 1 ELSE send_done[s]
          BY <1>2
        <5>5. SendPart!ReportedIsSent'
          BY <1>1, <1>3, <1>5, <4>2, <5>4, PutsSent
        <5> QED
          BY <5>2, <5>5
      <4> QED
        BY <2>2, <4>1, <4>2
    <3> QED
      BY <1>6, <3>2, <3>3, <3>4, <3>6, <3>7 DEF SendInv
  <2> QED
    BY <1>1, <1>3, <1>9, <2>1, <2>2, SendOutcomes
<1> QED
  BY <1>7, <1>8, <1>9

\* The steps that leave the buffer and the socket alone.
LEMMA NoSendInv ==
  ASSUME NamesDiffer, SendInv,
         \/ \E s \in Senders : SendPart!callSend(s)
         \/ SendPart!call(SendPart!Reader) \/ SendPart!libssh2_keepalive_send
            \/ SendPart!entry \/ SendPart!read
         \/ SendPart!kexWaits \/ SendPart!serverRekeys
            \/ SendPart!serverAnswers
  PROVE  SendInv'
<1>1. /\ SendTypes /\ CallInv /\ OutInv
  BY DEF SendInv
<1>2. UNCHANGED <<SendPart!buffer, send_done>>
  BY DEF SendPart!callSend, SendPart!call, SendPart!libssh2_keepalive_send,
         SendPart!entry, SendPart!read, SendPart!kexWaits,
         SendPart!serverRekeys, SendPart!serverAnswers
<1>3. /\ send_kex' = send_kex \/ (send_kex = "idle" /\ send_kex' = "kexinit")
         \/ (send_kex = "reply" /\ send_kex' = "newkeys")
         \/ (send_kex = "finish" /\ send_kex' = "idle")
      /\ CallInv'
  BY <1>1
  DEF SendPart!callSend, SendPart!call, SendPart!libssh2_keepalive_send,
      SendPart!entry, SendPart!read, SendPart!kexWaits, SendPart!serverRekeys,
      SendPart!serverAnswers, CallInv, SendPart!Body, SendPart!again,
      SendPart!leave, SendPart!Keepalive, SendPart!Reader, NamesDiffer
<1>4. send_kex' = send_kex \/ send_out = SendPart!None \/ send_out[1] # "kex"
  <2>1. ASSUME send_kex \in {"idle", "reply", "finish"},
               send_out # SendPart!None, send_out[1] = "kex"
        PROVE  FALSE
    <3>1. send_out \in KexPackets /\ send_out = <<"kex", send_kex>>
      BY <1>1, <2>1, PacketNames DEF SendTypes, OutInv
    <3> QED
      BY <2>1, <3>1 DEF KexPackets
  <2> QED
    BY <1>3, <2>1
<1>5. send_kex' \in {"idle", "kexinit", "reply", "newkeys", "finish"}
  BY <1>1, <1>3 DEF SendTypes
<1>6. /\ SendTypes' /\ OutInv' /\ WireInv' /\ NumberInv'
      /\ SendPart!ReportedIsSent' /\ QuietInv'
  BY <1>2, <1>3, <1>4, <1>5, NothingSent
<1> QED
  BY <1>3, <1>6 DEF SendInv

LEMMA SendStep == NamesDiffer /\ SendInv /\ [SendPart!Next]_(SendPart!vars)
                  => SendInv'
<1> SUFFICES ASSUME NamesDiffer, SendInv, [SendPart!Next]_(SendPart!vars)
             PROVE SendInv'
  OBVIOUS
<1>1. CASE SendPart!send
  BY <1>1, SendStepInv
<1>2. CASE SendPart!kexSends
  BY <1>2, KexSendsInv
<1>3. CASE UNCHANGED SendPart!vars
  <2>1. /\ UNCHANGED <<SendPart!buffer, send_done>> /\ send_kex' = send_kex
        /\ CallInv'
        /\ send_kex' \in {"idle", "kexinit", "reply", "newkeys", "finish"}
    BY <1>3 DEF SendPart!vars, SendInv, CallInv, SendTypes
  <2>2. /\ SendTypes' /\ OutInv' /\ WireInv' /\ NumberInv'
        /\ SendPart!ReportedIsSent' /\ QuietInv'
    BY <2>1, NothingSent
  <2> QED
    BY <2>1, <2>2 DEF SendInv
<1> QED
  BY <1>1, <1>2, <1>3, NoSendInv DEF SendPart!Next

LEMMA SendPromises == SendInv => /\ SendPart!WholePackets
                      /\ SendPart!NumberedAsSent
                                 /\ SendPart!ReportedIsSent
                                 /\ SendPart!QuietInKex
  BY DEF SendInv, WireInv, NumberInv, QuietInv

PacketsOfPart == part = "send" => SendInv

LEMMA PacketsPartInit == NamesDiffer /\ ProgressInit => PacketsOfPart
  BY SendInit DEF ProgressInit, PacketsOfPart

LEMMA PacketsPartNext ==
  NamesDiffer /\ PacketsOfPart /\ [ProgressNext]_all => PacketsOfPart'
<1> SUFFICES ASSUME NamesDiffer, PacketsOfPart, [ProgressNext]_all,
                    part' = "send"
             PROVE  SendInv'
  BY DEF PacketsOfPart
<1>1. part = "send" /\ [SendPart!Next]_(SendPart!vars)
  BY DEF ProgressNext, Others, all, SendPart!vars, SendPart!buffer, send_vars
<1> QED
  BY <1>1, SendStep DEF PacketsOfPart

\* Whatever the socket takes of each packet and whoever calls in between, for
\* any senders, packets, keepalives and key exchanges: packets leave whole,
\* numbered as sent, once and in order for each sender that is told so, and
\* nothing but the key exchange is sent during one.
THEOREM PacketsAreWhole ==
  ASSUME NamesDiffer
  PROVE  ProgressSpec => []PacketsWhole
<1>1. ProgressInit => PacketsOfPart
  BY PacketsPartInit
<1>2. PacketsOfPart /\ [ProgressNext]_all => PacketsOfPart'
  BY PacketsPartNext
<1>3. PacketsOfPart => PacketsWhole
  BY SendPromises DEF PacketsOfPart, PacketsWhole
<1> QED
  BY <1>1, <1>2, <1>3, PTL DEF ProgressSpec

-----------------------------------------------------------------------------
(* Tunnel *)
SlotRecords == [ch : Channel \cup {NoChannel},
                state : {"open", "draining", "closed"},
                closeComplete : BOOLEAN, finalized : BOOLEAN]
Entries == [ch : Channel, action : {"bind", "close"}]
Mems == [slot : [TunnelPart!Slot -> SlotRecords], count : Int,
         pending : Seq(Entries),
         deferred : Seq(Channel), open : SUBSET Channel, misused : BOOLEAN]

\* What has an owner is allocated.
Held(m) ==
  /\ \A i \in TunnelPart!Active(m) : m.slot[i].ch \in m.open
  /\ \A k \in DOMAIN m.pending : m.pending[k].ch \in m.open
  /\ \A k \in DOMAIN m.deferred : m.deferred[k] \in m.open

\* Slots and queues have no channel in common, nor one twice.
Apart(m) ==
  /\ \A i, j \in TunnelPart!Active(m) : m.slot[i].ch = m.slot[j].ch => i = j
  /\ \A k, l \in DOMAIN m.pending : m.pending[k].ch = m.pending[l].ch => k = l
  /\ \A k, l \in DOMAIN m.deferred : m.deferred[k] = m.deferred[l] => k = l
  /\ \A i \in TunnelPart!Active(m), k \in DOMAIN m.pending :
       m.slot[i].ch # m.pending[k].ch
  /\ \A i \in TunnelPart!Active(m), k \in DOMAIN m.deferred :
       m.slot[i].ch # m.deferred[k]
  /\ \A k \in DOMAIN m.pending, l \in DOMAIN m.deferred :
       m.pending[k].ch # m.deferred[l]

\* Allocated, and nobody's.
Unowned(m, c) ==
  /\ c \in m.open
  /\ \A i \in TunnelPart!Active(m) : m.slot[i].ch # c
  /\ \A k \in DOMAIN m.pending : m.pending[k].ch # c
  /\ \A k \in DOMAIN m.deferred : m.deferred[k] # c

Counted(m) == m.count = Cardinality(TunnelPart!Active(m))

MemInv(m) ==
  /\ m \in Mems /\ m.misused = FALSE
  /\ Held(m) /\ Apart(m) /\ Counted(m)

ChannelInv ==
  /\ MemInv(tunnel_mem)
  /\ tunnel_pc # "top" => tunnel_state = "connected"
  /\ tunnel_state # "connected" => TunnelPart!Active(tunnel_mem) = {}
  /\ tunnel_pc \in {"closing", "pending", "deferred"}
     => tunnel_at \in Nat \ {0}

SlotsCounted == MaxSlots \in Nat

\* A loop over the slots computes something: one step after the other, where
\* F[i] is what is known after slot i.
Keeps(T, F) ==
  \A i \in TunnelPart!Slot : \A x \in F[i - 1] : T[<<x, i>>] \in F[i]
Computes(f, b, T) ==
  f[0] = b /\ \A i \in TunnelPart!Slot : f[i] = T[<<f[i - 1], i>>]

LEMMA LoopExists ==
  ASSUME SlotsCounted, NEW S, NEW F \in [0 .. MaxSlots -> SUBSET S],
         NEW b \in F[0], NEW T, Keeps(T, F)
  PROVE  \E f \in [0 .. MaxSlots -> S] : Computes(f, b, T)
<1> DEFINE Upto(n, f) == /\ f \in [0 .. n -> S] /\ f[0] = b
                         /\ \A i \in 0 .. n : f[i] \in F[i]
                         /\ \A i \in 1 .. n : f[i] = T[<<f[i - 1], i>>]
           Bad == {n \in 0 .. MaxSlots : ~\E f : Upto(n, f)}
<1>1. ASSUME Bad # {} PROVE FALSE
  <2>1. PICK n \in Bad : \A k \in Bad : n <= k
    <3>1. Bad \subseteq Nat
      BY DEF SlotsCounted
    <3> HIDE DEF Bad
    <3> QED
      BY <1>1, <3>1, LeastNumber
  <2>2. n \in 0 .. MaxSlots /\ MaxSlots \in Nat /\ ~\E f : Upto(n, f)
    BY <2>1 DEF SlotsCounted
  <2>3. CASE n = 0
    <3>1. 0 \in 0 .. MaxSlots /\ b \in F[0] /\ b \in S
      BY <2>2
    <3>2. Upto(0, [i \in 0 .. 0 |-> b])
      BY <3>1
    <3> QED
      BY <2>2, <2>3, <3>2
  <2>4. CASE n # 0
    <3>1. n - 1 \in 0 .. MaxSlots /\ n - 1 \notin Bad
      <4> HIDE DEF Bad
      <4> QED
        BY <2>1, <2>2, <2>4
    <3>2. PICK f : Upto(n - 1, f)
      BY <3>1
    <3> DEFINE g == [i \in 0 .. n
                       |-> IF i = n THEN T[<<f[n - 1], n>>] ELSE f[i]]
    <3>3. n - 1 \in 0 .. n - 1 /\ n \in TunnelPart!Slot /\ n \in 0 .. MaxSlots
      BY <2>2, <2>4 DEF TunnelPart!Slot
    <3>4. T[<<f[n - 1], n>>] \in F[n] /\ T[<<f[n - 1], n>>] \in S
      BY <3>2, <3>3 DEF Keeps
    <3>5. g \in [0 .. n -> S] /\ \A i \in 0 .. n : g[i] \in F[i]
      <4>1. ASSUME NEW i \in 0 .. n, i # n PROVE i \in 0 .. n - 1
        BY <2>2, <4>1
      <4> QED
        BY <3>2, <3>4, <4>1
    <3>6. g[0] = b
      BY <2>2, <2>4, <3>2
    <3>7. ASSUME NEW i \in 1 .. n PROVE g[i] = T[<<g[i - 1], i>>]
      <4>1. /\ i \in 0 .. n /\ i - 1 \in 0 .. n /\ i - 1 # n
            /\ g[i - 1] = f[i - 1]
        BY <2>2
      <4>2. CASE i = n
        BY <4>1, <4>2
      <4>3. CASE i # n
        <5>1. i \in 1 .. n - 1 /\ g[i] = f[i]
          BY <2>2, <4>1, <4>3
        <5> QED
          BY <3>2, <4>1, <5>1
      <4> QED
        BY <4>2, <4>3
    <3>8. Upto(n, g)
      <4> HIDE DEF g
      <4> QED
        BY <3>5, <3>6, <3>7
    <3> QED
      BY <2>2, <3>8
  <2> QED
    BY <2>3, <2>4
<1>2. PICK f : Upto(MaxSlots, f)
  <2>1. MaxSlots \in 0 .. MaxSlots
    BY DEF SlotsCounted
  <2> QED
    BY <1>1, <2>1
<1> QED
  BY <1>2 DEF TunnelPart!Slot, Computes

\* What holds before the loop and is kept by each of its steps holds after.
LEMMA LoopInduction ==
  ASSUME SlotsCounted, NEW F, NEW f, f[0] \in F[0],
         \A i \in TunnelPart!Slot : f[i - 1] \in F[i - 1] => f[i] \in F[i]
  PROVE  f[MaxSlots] \in F[MaxSlots]
<1> DEFINE Bad == {i \in 0 .. MaxSlots : f[i] \notin F[i]}
<1>1. ASSUME Bad # {} PROVE FALSE
  <2>1. Bad \subseteq Nat
    BY DEF SlotsCounted
  <2>2. PICK n \in Bad : \A k \in Bad : n <= k
    <3> HIDE DEF Bad
    <3> QED
      BY <1>1, <2>1, LeastNumber
  <2>3. n \in 0 .. MaxSlots /\ MaxSlots \in Nat /\ f[n] \notin F[n] /\ n # 0
    BY <2>2 DEF SlotsCounted
  <2>4. n \in TunnelPart!Slot /\ n - 1 \in 0 .. MaxSlots
    BY <2>3 DEF TunnelPart!Slot
  <2>5. n - 1 \notin Bad
    <3> HIDE DEF Bad
    <3> QED
      BY <2>2, <2>3, <2>4
  <2> QED
    BY <2>3, <2>4, <2>5
<1>2. MaxSlots \in 0 .. MaxSlots
  BY DEF SlotsCounted
<1> QED
  BY <1>1, <1>2

\* An entry taken out of a queue.
LEMMA Removed ==
  ASSUME NEW S, NEW s \in Seq(S), NEW k \in 1 .. Len(s)
  PROVE  /\ TunnelPart!RemoveAt(s, k) \in Seq(S)
         /\ Len(TunnelPart!RemoveAt(s, k)) = Len(s) - 1
         /\ \A i \in DOMAIN TunnelPart!RemoveAt(s, k) :
              /\ (IF i < k THEN i ELSE i + 1) \in DOMAIN s \ {k}
              /\ TunnelPart!RemoveAt(s, k)[i] = s[IF i < k THEN i ELSE i + 1]
<1> DEFINE n == Len(s)
           front == SubSeq(s, 1, k - 1)
           back == SubSeq(s, k + 1, n)
<1>1. n \in Nat /\ k \in 1 .. n /\ DOMAIN s = 1 .. n
  OBVIOUS
<1>2. \A i \in 1 .. n : s[i] \in S
  OBVIOUS
<1>3. /\ front \in Seq(S) /\ Len(front) = k - 1
      /\ \A i \in 1 .. k - 1 : front[i] = s[i]
  <2> HIDE DEF n
  <2>1. \A i \in 1 .. k - 1 : s[i] \in S
    BY <1>1, <1>2
  <2>2. k - 1 \in Int
    BY <1>1
  <2>3. /\ front \in Seq(S)
           /\ Len(front) = IF 1 <= k - 1 THEN k - 1 - 1 + 1 ELSE 0
        /\ \A i \in 1 .. k - 1 - 1 + 1 : front[i] = s[1 + i - 1]
    BY <2>1, <2>2, SubSeqProperties
  <2> QED
    BY <1>1, <2>3
<1>4. /\ back \in Seq(S) /\ Len(back) = n - k
      /\ \A i \in 1 .. n - k : back[i] = s[k + i]
  <2> HIDE DEF n
  <2>1. \A i \in k + 1 .. n : s[i] \in S
    BY <1>1, <1>2
  <2>2. k + 1 \in Int /\ n \in Int
    BY <1>1
  <2>3. /\ back \in Seq(S)
        /\ Len(back) = IF k + 1 <= n THEN n - (k + 1) + 1 ELSE 0
        /\ \A i \in 1 .. n - (k + 1) + 1 : back[i] = s[k + 1 + i - 1]
    BY <2>1, <2>2, SubSeqProperties
  <2> QED
    BY <1>1, <2>3
<1>5. TunnelPart!RemoveAt(s, k) = front \o back
  BY DEF TunnelPart!RemoveAt
<1> HIDE DEF n, front, back
<1>6. /\ front \o back \in Seq(S) /\ Len(front \o back) = n - 1
      /\ \A i \in 1 .. n - 1 :
           (front \o back)[i]
               = IF i <= k - 1 THEN front[i] ELSE back[i - (k - 1)]
  <2>1. Len(front) + Len(back) = n - 1
    BY <1>1, <1>3, <1>4
  <2>2. /\ front \o back \in Seq(S)
        /\ Len(front \o back) = Len(front) + Len(back)
        /\ \A i \in 1 .. Len(front) + Len(back) :
             (front \o back)[i] = IF i <= Len(front) THEN front[i]
                                  ELSE back[i - Len(front)]
    BY <1>3, <1>4, ConcatProperties
  <2>3. Len(front) = k - 1
    BY <1>3
  <2> QED
    BY <2>1, <2>2, <2>3
<1>7. ASSUME NEW i \in DOMAIN TunnelPart!RemoveAt(s, k)
      PROVE  /\ (IF i < k THEN i ELSE i + 1) \in DOMAIN s \ {k}
             /\ TunnelPart!RemoveAt(s, k)[i] = s[IF i < k THEN i ELSE i + 1]
  <2>1. i \in 1 .. n - 1
    BY <1>5, <1>6
  <2>2. CASE i < k
    BY <1>1, <1>3, <1>5, <1>6, <2>1, <2>2
  <2>3. CASE ~(i < k)
    <3>1. i - (k - 1) \in 1 .. n - k /\ k + (i - (k - 1)) = i + 1
      BY <1>1, <2>1, <2>3
    <3>2. (front \o back)[i] = back[i - (k - 1)]
      BY <1>1, <1>6, <2>1, <2>3
    <3> QED
      BY <1>1, <1>4, <1>5, <2>1, <2>3, <3>1, <3>2
  <2> QED
    BY <2>2, <2>3
<1> QED
  BY <1>5, <1>6, <1>7 DEF n

LEMMA SlotsFinite ==
  ASSUME SlotsCounted, NEW m
  PROVE  IsFiniteSet(TunnelPart!Active(m))
         /\ Cardinality(TunnelPart!Active(m)) \in Nat
<1>1. IsFiniteSet(TunnelPart!Slot)
  BY FS_Interval DEF SlotsCounted, TunnelPart!Slot
<1>2. TunnelPart!Active(m) \subseteq TunnelPart!Slot
  BY DEF TunnelPart!Active
<1> QED
  BY <1>1, <1>2, FS_Subset, FS_CardinalityType

\* A slot is given up: finalizeClose() and abandonSlot().
Dropped(m, i, r) == [m EXCEPT !.slot[i] = r, !.count = @ - 1]

LEMMA SlotDropped ==
  ASSUME SlotsCounted, NEW m, MemInv(m), NEW i \in TunnelPart!Active(m),
         NEW r \in SlotRecords, r.state = "closed",
         NEW n, n = Dropped(m, i, r)
  PROVE  /\ MemInv(n) /\ Unowned(n, m.slot[i].ch) /\ m.slot[i].ch \in Channel
         /\ TunnelPart!Active(n) = TunnelPart!Active(m) \ {i} /\ m.count > 0
         /\ \A j \in TunnelPart!Slot : j # i => n.slot[j] = m.slot[j]
<1>1. m \in Mems /\ ~m.misused /\ Held(m) /\ Apart(m) /\ Counted(m)
      /\ i \in TunnelPart!Slot
  BY DEF MemInv, TunnelPart!Active
<1>2. /\ n \in Mems /\ n.slot = [m.slot EXCEPT ![i] = r]
      /\ n.count = m.count - 1 /\ n.pending = m.pending
      /\ n.deferred = m.deferred /\ n.open = m.open /\ n.misused = m.misused
  <2>1. m.count \in Int /\ m.slot \in [TunnelPart!Slot -> SlotRecords]
    BY <1>1 DEF Mems
  <2>2. m.count - 1 \in Int
        /\ [m.slot EXCEPT ![i] = r] \in [TunnelPart!Slot -> SlotRecords]
    BY <1>1, <2>1
  <2>3. n = [m EXCEPT !.slot = [m.slot EXCEPT ![i] = r], !.count = m.count - 1]
    BY <1>1 DEF Mems, Dropped
  <2> QED
    BY <1>1, <2>2, <2>3 DEF Mems
<1>3. /\ n.slot[i] = r /\ \A j \in TunnelPart!Slot : j # i
         => n.slot[j] = m.slot[j]
  BY <1>1, <1>2 DEF Mems
<1>4. TunnelPart!Active(n) = TunnelPart!Active(m) \ {i}
  BY <1>3 DEF TunnelPart!Active, TunnelPart!active
<1>5. Counted(n) /\ m.count > 0
  <2>1. IsFiniteSet(TunnelPart!Active(m))
        /\ Cardinality(TunnelPart!Active(m)) \in Nat
    BY SlotsFinite
  <2>2. Cardinality(TunnelPart!Active(m) \ {i})
            = Cardinality(TunnelPart!Active(m)) - 1
    BY <2>1, FS_RemoveElement
  <2>3. Cardinality(TunnelPart!Active(n)) \in Nat
    BY SlotsFinite
  <2>4. m.count = Cardinality(TunnelPart!Active(m))
        /\ i \in TunnelPart!Active(m)
    BY <1>1 DEF Counted
  <2>5. n.count = Cardinality(TunnelPart!Active(n)) /\ m.count > 0
    BY <1>2, <1>4, <2>1, <2>2, <2>3, <2>4
  <2> QED
    BY <2>5 DEF Counted
<1>6. \A j \in TunnelPart!Active(n) : j \in TunnelPart!Active(m)
      /\ n.slot[j] = m.slot[j]
  BY <1>3, <1>4 DEF TunnelPart!Active
<1>7. Held(n)
  BY <1>1, <1>2, <1>6 DEF Held
<1>8. Apart(n)
  BY <1>1, <1>2, <1>6 DEF Apart
<1>9. Unowned(n, m.slot[i].ch)
  <2>1. m.slot[i].ch \in n.open
    BY <1>1, <1>2 DEF Held
  <2>2. \A j \in TunnelPart!Active(n) : n.slot[j].ch # m.slot[i].ch
    BY <1>1, <1>4, <1>6 DEF Apart
  <2> QED
    BY <1>1, <1>2, <2>1, <2>2 DEF Unowned, Apart
<1>10. m.slot[i].ch \in Channel
  BY <1>1 DEF Held, Mems
<1> QED
  BY <1>1, <1>2, <1>3, <1>4, <1>5, <1>7, <1>8, <1>9, <1>10 DEF MemInv

\* A slot goes on with its channel: beginClose() and an unfinished close.
LEMMA SlotKept ==
  ASSUME SlotsCounted, NEW m, MemInv(m), NEW i \in TunnelPart!Active(m),
         NEW r \in SlotRecords, r.state # "closed", r.ch = m.slot[i].ch,
         NEW n, n = [m EXCEPT !.slot[i] = r]
  PROVE  /\ MemInv(n) /\ \A c : Unowned(m, c) => Unowned(n, c)
         /\ TunnelPart!Active(n) = TunnelPart!Active(m)
         /\ \A j \in TunnelPart!Slot : j # i => n.slot[j] = m.slot[j]
         /\ n.pending = m.pending
<1>1. m \in Mems /\ ~m.misused /\ Held(m) /\ Apart(m) /\ Counted(m)
      /\ i \in TunnelPart!Slot
  BY DEF MemInv, TunnelPart!Active
<1>2. /\ n \in Mems /\ n.slot = [m.slot EXCEPT ![i] = r]
      /\ n.count = m.count /\ n.pending = m.pending
      /\ n.deferred = m.deferred /\ n.open = m.open /\ n.misused = m.misused
  BY <1>1 DEF Mems
<1>3. /\ n.slot[i] = r /\ \A j \in TunnelPart!Slot : j # i
         => n.slot[j] = m.slot[j]
  BY <1>1, <1>2 DEF Mems
<1>4. TunnelPart!Active(n) = TunnelPart!Active(m)
      /\ \A j \in TunnelPart!Active(m) : n.slot[j].ch = m.slot[j].ch
  BY <1>3 DEF TunnelPart!Active, TunnelPart!active
<1>5. Held(n) /\ Apart(n) /\ Counted(n)
  BY <1>1, <1>2, <1>4 DEF Held, Apart, Counted
<1>6. \A c : Unowned(m, c) => Unowned(n, c)
  BY <1>2, <1>4 DEF Unowned
<1> QED
  BY <1>1, <1>2, <1>3, <1>4, <1>5, <1>6 DEF MemInv

\* libssh2 frees what nobody owns, or answers EAGAIN.
LEMMA NobodysFreed ==
  ASSUME NEW m, MemInv(m), NEW c, Unowned(m, c), NEW done \in BOOLEAN
  PROVE  /\ MemInv(TunnelPart!Freed(m, c, done))
         /\ TunnelPart!Freed(m, c, done).slot = m.slot
         /\ TunnelPart!Freed(m, c, done).pending = m.pending
         /\ TunnelPart!Active(TunnelPart!Freed(m, c, done))
                = TunnelPart!Active(m)
<1> DEFINE n == TunnelPart!Freed(m, c, done)
<1>1. m \in Mems /\ ~m.misused /\ Held(m) /\ Apart(m) /\ Counted(m)
  BY DEF MemInv
<1>2. /\ n \in Mems /\ n.slot = m.slot
      /\ n.count = m.count /\ n.pending = m.pending
      /\ n.deferred = m.deferred /\ ~n.misused
      /\ n.open = IF done THEN m.open \ {c} ELSE m.open
  BY <1>1 DEF Mems, TunnelPart!Freed, TunnelPart!Touch, Unowned
<1> HIDE DEF n
<1>3. TunnelPart!Active(n) = TunnelPart!Active(m)
  BY <1>2 DEF TunnelPart!Active, TunnelPart!active
<1>4. Apart(n) /\ Counted(n)
  BY <1>1, <1>2, <1>3 DEF Apart, Counted
<1>5. Held(n)
  BY <1>1, <1>2, <1>3 DEF Held, Unowned
<1> QED
  BY <1>2, <1>3, <1>4, <1>5 DEF MemInv, n

\* An unowned channel gets a slot.
LEMMA SlotBound ==
  ASSUME SlotsCounted, NEW m, MemInv(m), NEW c \in Channel, Unowned(m, c),
         NEW i \in TunnelPart!Slot, i \notin TunnelPart!Active(m)
  PROVE  MemInv(TunnelPart!bindChannel(m, i, c))
         /\ TunnelPart!bindChannel(m, i, c).pending = m.pending
<1> DEFINE r == [TunnelPart!Closed EXCEPT !.ch = c, !.state = "open",
                               !.finalized = m.slot[i].finalized]
           n == TunnelPart!bindChannel(m, i, c)
<1>1. m \in Mems /\ ~m.misused /\ Held(m) /\ Apart(m) /\ Counted(m)
  BY DEF MemInv
<1>2. r \in SlotRecords /\ r.ch = c /\ r.state # "closed"
  <2>1. m.slot[i].finalized \in BOOLEAN
    BY <1>1 DEF Mems, SlotRecords
  <2> QED
    BY <2>1 DEF TunnelPart!Closed, SlotRecords
<1>3. /\ n \in Mems /\ n.slot = [m.slot EXCEPT ![i] = r]
      /\ n.count = m.count + 1 /\ n.pending = m.pending
      /\ n.deferred = m.deferred /\ n.open = m.open /\ ~n.misused
  <2>1. m.count \in Int /\ m.slot \in [TunnelPart!Slot -> SlotRecords]
    BY <1>1 DEF Mems
  <2>2. m.count + 1 \in Int
        /\ [m.slot EXCEPT ![i] = r] \in [TunnelPart!Slot -> SlotRecords]
    BY <1>2, <2>1
  <2>3. TunnelPart!Touch(m, c) = m
    BY <1>1 DEF TunnelPart!Touch, Unowned, Mems
  <2>4. n = [m EXCEPT !.slot = [m.slot EXCEPT ![i] = r], !.count = m.count + 1]
    BY <1>1, <2>3 DEF Mems, TunnelPart!bindChannel
  <2> HIDE DEF r, n
  <2> QED
    BY <1>1, <2>2, <2>4 DEF Mems
<1> HIDE DEF r, n
<1>4. /\ n.slot[i] = r /\ \A j \in TunnelPart!Slot : j # i
         => n.slot[j] = m.slot[j]
  BY <1>1, <1>3 DEF Mems
<1>5. TunnelPart!Active(n) = TunnelPart!Active(m) \cup {i}
  BY <1>2, <1>4 DEF TunnelPart!Active, TunnelPart!active
<1>6. Counted(n)
  <2>1. IsFiniteSet(TunnelPart!Active(m))
        /\ Cardinality(TunnelPart!Active(m)) \in Nat
    BY SlotsFinite
  <2>2. Cardinality(TunnelPart!Active(m) \cup {i})
            = Cardinality(TunnelPart!Active(m)) + 1
    BY <2>1, FS_AddElement
  <2> QED
    BY <1>1, <1>3, <1>5, <2>2 DEF Counted
<1>7. \A j \in TunnelPart!Active(n) :
        \/ j = i /\ n.slot[j].ch = c
        \/ j # i /\ j \in TunnelPart!Active(m) /\ n.slot[j] = m.slot[j]
  BY <1>2, <1>4, <1>5 DEF TunnelPart!Active
<1>8. Held(n)
  BY <1>1, <1>3, <1>7 DEF Held, Unowned
<1>9. Apart(n)
  BY <1>1, <1>3, <1>7 DEF Apart, Unowned
<1> QED
  BY <1>3, <1>6, <1>8, <1>9 DEF MemInv, n

\* An unowned channel is queued, to be bound later.
LEMMA PendingAdded ==
  ASSUME NEW m, MemInv(m), NEW c \in Channel, Unowned(m, c)
  PROVE  MemInv(TunnelPart!pend(m, c))
<1> DEFINE n == TunnelPart!pend(m, c)
           q == [ch |-> c, action |-> "bind"]
           N == Len(m.pending)
<1>1. m \in Mems /\ ~m.misused /\ Held(m) /\ Apart(m) /\ Counted(m)
  BY DEF MemInv
<1>2. m.pending \in Seq(Entries) /\ q \in Entries
  BY <1>1 DEF Mems, Entries
<1>3. /\ n \in Mems /\ n.slot = m.slot /\ n.count = m.count
      /\ n.pending = Append(m.pending, q)
      /\ n.deferred = m.deferred /\ n.open = m.open /\ ~n.misused
  <2>1. n = [m EXCEPT !.pending = Append(m.pending, q)]
    BY <1>1 DEF Mems, TunnelPart!pend
  <2>2. Append(m.pending, q) \in Seq(Entries)
    BY <1>2
  <2> HIDE DEF n, q
  <2> QED
    BY <1>1, <2>1, <2>2 DEF Mems
<1>4. /\ DOMAIN n.pending = 1 .. N + 1 /\ DOMAIN m.pending = 1 .. N
      /\ N \in Nat
      /\ n.pending[N + 1].ch = c
      /\ \A k \in 1 .. N : n.pending[k] = m.pending[k]
  BY <1>2, <1>3
<1> HIDE DEF n, q, N
<1>5. \A k \in DOMAIN n.pending :
        \/ k = N + 1 /\ n.pending[k].ch = c
        \/ k # N + 1 /\ k \in DOMAIN m.pending /\ n.pending[k] = m.pending[k]
  BY <1>4
<1>6. TunnelPart!Active(n) = TunnelPart!Active(m)
  BY <1>3 DEF TunnelPart!Active, TunnelPart!active
<1>7. Held(n) /\ Counted(n)
  BY <1>1, <1>3, <1>5, <1>6 DEF Held, Counted, Unowned
<1>8. Apart(n)
  BY <1>1, <1>3, <1>5, <1>6 DEF Apart, Unowned
<1> QED
  BY <1>3, <1>7, <1>8 DEF MemInv, n

\* An unowned channel is queued, to be closed later.
LEMMA DeferredAdded ==
  ASSUME NEW m, MemInv(m), NEW c \in Channel, Unowned(m, c)
  PROVE  MemInv([m EXCEPT !.deferred = Append(@, c)])
<1> DEFINE n == [m EXCEPT !.deferred = Append(@, c)]
           N == Len(m.deferred)
<1>1. m \in Mems /\ ~m.misused /\ Held(m) /\ Apart(m) /\ Counted(m)
  BY DEF MemInv
<1>2. m.deferred \in Seq(Channel)
  BY <1>1 DEF Mems
<1>3. /\ n \in Mems /\ n.slot = m.slot /\ n.count = m.count
      /\ n.deferred = Append(m.deferred, c)
      /\ n.pending = m.pending /\ n.open = m.open /\ ~n.misused
  <2>1. n = [m EXCEPT !.deferred = Append(m.deferred, c)]
    BY <1>1 DEF Mems
  <2>2. Append(m.deferred, c) \in Seq(Channel)
    BY <1>2
  <2> HIDE DEF n
  <2> QED
    BY <1>1, <2>1, <2>2 DEF Mems
<1>4. /\ DOMAIN n.deferred = 1 .. N + 1 /\ DOMAIN m.deferred = 1 .. N
      /\ N \in Nat /\ n.deferred[N + 1] = c
      /\ \A k \in 1 .. N : n.deferred[k] = m.deferred[k]
  BY <1>2, <1>3
<1> HIDE DEF n, N
<1>5. \A k \in DOMAIN n.deferred :
        \/ k = N + 1 /\ n.deferred[k] = c
        \/ k # N + 1 /\ k \in DOMAIN m.deferred
           /\ n.deferred[k] = m.deferred[k]
  BY <1>4
<1>6. TunnelPart!Active(n) = TunnelPart!Active(m)
  BY <1>3 DEF TunnelPart!Active, TunnelPart!active
<1>7. Held(n) /\ Counted(n)
  BY <1>1, <1>3, <1>5, <1>6 DEF Held, Counted, Unowned
<1>8. Apart(n)
  BY <1>1, <1>3, <1>5, <1>6 DEF Apart, Unowned
<1> QED
  BY <1>3, <1>7, <1>8 DEF MemInv, n

\* An entry leaves its queue; its channel is nobody's for the moment.
LEMMA PendingRemoved ==
  ASSUME NEW m, MemInv(m), NEW k \in 1 .. Len(m.pending),
         NEW n, n = [m EXCEPT !.pending = TunnelPart!RemoveAt(@, k)]
  PROVE  /\ MemInv(n) /\ Unowned(n, m.pending[k].ch)
         /\ m.pending[k].ch \in Channel
         /\ Len(n.pending) = Len(m.pending) - 1
         /\ n.slot = m.slot /\ TunnelPart!Active(n) = TunnelPart!Active(m)
<1> DEFINE g(x) == IF x < k THEN x ELSE x + 1
<1>1. m \in Mems /\ ~m.misused /\ Held(m) /\ Apart(m) /\ Counted(m)
  BY DEF MemInv
<1>2. m.pending \in Seq(Entries) /\ k \in DOMAIN m.pending
  BY <1>1 DEF Mems
<1>3. /\ TunnelPart!RemoveAt(m.pending, k) \in Seq(Entries)
      /\ Len(TunnelPart!RemoveAt(m.pending, k)) = Len(m.pending) - 1
      /\ \A x \in DOMAIN TunnelPart!RemoveAt(m.pending, k) :
           /\ g(x) \in DOMAIN m.pending \ {k}
           /\ TunnelPart!RemoveAt(m.pending, k)[x] = m.pending[g(x)]
  BY <1>2, Removed
<1>4. /\ n \in Mems /\ n.slot = m.slot /\ n.count = m.count
      /\ n.pending = TunnelPart!RemoveAt(m.pending, k)
      /\ n.deferred = m.deferred /\ n.open = m.open /\ ~n.misused
  <2>1. n = [m EXCEPT !.pending = TunnelPart!RemoveAt(m.pending, k)]
    BY <1>1 DEF Mems
  <2> QED
    BY <1>1, <1>3, <2>1 DEF Mems
<1>5. \A x, y \in DOMAIN n.pending : g(x) = g(y) => x = y
  <2>1. DOMAIN n.pending \subseteq Int /\ k \in Int
    BY <1>3, <1>4
  <2> QED
    BY <2>1
<1>6. \A x \in DOMAIN n.pending :
        g(x) \in DOMAIN m.pending /\ g(x) # k /\ n.pending[x] = m.pending[g(x)]
  BY <1>3, <1>4
<1> HIDE DEF g
<1>7. TunnelPart!Active(n) = TunnelPart!Active(m)
  BY <1>4 DEF TunnelPart!Active, TunnelPart!active
<1>8. Held(n) /\ Counted(n)
  BY <1>1, <1>4, <1>6, <1>7 DEF Held, Counted
<1>9. Apart(n)
  BY <1>1, <1>4, <1>5, <1>6, <1>7 DEF Apart
<1>10. Unowned(n, m.pending[k].ch)
  BY <1>1, <1>2, <1>4, <1>6, <1>7 DEF Unowned, Apart, Held
<1>11. m.pending[k].ch \in Channel
  BY <1>1, <1>2 DEF Held, Mems
<1> QED
  BY <1>3, <1>4, <1>7, <1>8, <1>9, <1>10, <1>11 DEF MemInv

LEMMA DeferredRemoved ==
  ASSUME NEW m, MemInv(m), NEW k \in 1 .. Len(m.deferred),
         NEW n, n = [m EXCEPT !.deferred = TunnelPart!RemoveAt(@, k)]
  PROVE  MemInv(n) /\ Unowned(n, m.deferred[k]) /\ m.deferred[k] \in Channel
<1> DEFINE g(x) == IF x < k THEN x ELSE x + 1
<1>1. m \in Mems /\ ~m.misused /\ Held(m) /\ Apart(m) /\ Counted(m)
  BY DEF MemInv
<1>2. m.deferred \in Seq(Channel) /\ k \in DOMAIN m.deferred
  BY <1>1 DEF Mems
<1>3. /\ TunnelPart!RemoveAt(m.deferred, k) \in Seq(Channel)
      /\ \A x \in DOMAIN TunnelPart!RemoveAt(m.deferred, k) :
           /\ g(x) \in DOMAIN m.deferred \ {k}
           /\ TunnelPart!RemoveAt(m.deferred, k)[x] = m.deferred[g(x)]
  BY <1>2, Removed
<1>4. /\ n \in Mems /\ n.slot = m.slot /\ n.count = m.count
      /\ n.deferred = TunnelPart!RemoveAt(m.deferred, k)
      /\ n.pending = m.pending /\ n.open = m.open /\ ~n.misused
  <2>1. n = [m EXCEPT !.deferred = TunnelPart!RemoveAt(m.deferred, k)]
    BY <1>1 DEF Mems
  <2> QED
    BY <1>1, <1>3, <2>1 DEF Mems
<1>5. \A x, y \in DOMAIN n.deferred : g(x) = g(y) => x = y
  <2>1. DOMAIN n.deferred \subseteq Int /\ k \in Int
    BY <1>3, <1>4
  <2> QED
    BY <2>1
<1>6. \A x \in DOMAIN n.deferred :
        g(x) \in DOMAIN m.deferred /\ g(x) # k
        /\ n.deferred[x] = m.deferred[g(x)]
  BY <1>3, <1>4
<1> HIDE DEF g
<1>7. TunnelPart!Active(n) = TunnelPart!Active(m)
  BY <1>4 DEF TunnelPart!Active, TunnelPart!active
<1>8. Held(n) /\ Counted(n)
  BY <1>1, <1>4, <1>6, <1>7 DEF Held, Counted
<1>9. Apart(n)
  BY <1>1, <1>4, <1>5, <1>6, <1>7 DEF Apart
<1>10. Unowned(n, m.deferred[k])
  BY <1>1, <1>2, <1>4, <1>6, <1>7 DEF Unowned, Apart, Held
<1> QED
  BY <1>2, <1>4, <1>8, <1>9, <1>10 DEF MemInv

\* An entry that could not be closed is kept to be closed.
Closing(m, k) == [m EXCEPT !.pending[k].action = "close"]

LEMMA ActionChanged ==
  ASSUME NEW m, MemInv(m), NEW k \in 1 .. Len(m.pending),
         NEW n, n = Closing(m, k)
  PROVE  /\ MemInv(n) /\ Len(n.pending) = Len(m.pending)
<1>1. m \in Mems /\ ~m.misused /\ Held(m) /\ Apart(m) /\ Counted(m)
  BY DEF MemInv
<1> DEFINE q == [m.pending[k] EXCEPT !.action = "close"]
<1>2. m.pending \in Seq(Entries) /\ m.pending[k] \in Entries
  <2>1. m.pending \in Seq(Entries)
    BY <1>1 DEF Mems
  <2> QED
    BY <2>1
<1>3. q \in Entries /\ q.ch = m.pending[k].ch
  BY <1>2 DEF Entries
<1>4. /\ [m.pending EXCEPT ![k] = q] \in Seq(Entries)
      /\ Len([m.pending EXCEPT ![k] = q]) = Len(m.pending)
      /\ DOMAIN [m.pending EXCEPT ![k] = q] = DOMAIN m.pending
      /\ k \in DOMAIN m.pending
  <2> HIDE DEF q
  <2> QED
    BY <1>2, <1>3
<1>5. /\ n \in Mems /\ n.slot = m.slot /\ n.count = m.count
      /\ n.pending = [m.pending EXCEPT ![k] = q]
      /\ n.deferred = m.deferred /\ n.open = m.open /\ ~n.misused
  <2>1. n = [m EXCEPT !.pending = [m.pending EXCEPT ![k] = q]]
    BY <1>1 DEF Mems, Closing
  <2> HIDE DEF q
  <2> QED
    BY <1>1, <1>4, <2>1 DEF Mems
<1> HIDE DEF q
<1>6. /\ DOMAIN n.pending = DOMAIN m.pending
      /\ \A l \in DOMAIN m.pending : n.pending[l].ch = m.pending[l].ch
  BY <1>3, <1>4, <1>5
<1>7. TunnelPart!Active(n) = TunnelPart!Active(m)
  BY <1>5 DEF TunnelPart!Active, TunnelPart!active
<1>8. Held(n) /\ Counted(n)
  BY <1>1, <1>5, <1>6, <1>7 DEF Held, Counted
<1>9. Apart(n)
  <2>1. /\ \A i, j \in TunnelPart!Active(n) : n.slot[i].ch = n.slot[j].ch
           => i = j
        /\ \A a, b \in DOMAIN n.deferred : n.deferred[a] = n.deferred[b]
           => a = b
        /\ \A i \in TunnelPart!Active(n), a \in DOMAIN n.deferred :
             n.slot[i].ch # n.deferred[a]
    BY <1>1, <1>5, <1>7 DEF Apart
  <2>2. \A a, b \in DOMAIN n.pending :
          n.pending[a].ch = n.pending[b].ch => a = b
    BY <1>1, <1>6 DEF Apart
  <2>3. /\ \A i \in TunnelPart!Active(n), a \in DOMAIN n.pending :
             n.slot[i].ch # n.pending[a].ch
        /\ \A a \in DOMAIN n.pending, b \in DOMAIN n.deferred :
             n.pending[a].ch # n.deferred[b]
    BY <1>1, <1>5, <1>6, <1>7 DEF Apart
  <2> QED
    BY <2>1, <2>2, <2>3 DEF Apart
<1> QED
  BY <1>4, <1>5, <1>8, <1>9 DEF MemInv

\* A queue is cleared: all its channels are freed, or none of them.
LEMMA QueueCleared ==
  ASSUME NEW m, MemInv(m), NEW locked \in BOOLEAN, NEW done \in BOOLEAN
  PROVE  /\ MemInv(TunnelPart!clearPendingQueue(m, locked, done))
         /\ MemInv(TunnelPart!clearDeferredCloseQueue(m, locked, done))
<1>1. m \in Mems /\ ~m.misused /\ Held(m) /\ Apart(m) /\ Counted(m)
  BY DEF MemInv
<1>2. /\ m.pending \in Seq(Entries) /\ m.deferred \in Seq(Channel)
      /\ m.open \subseteq Channel
  BY <1>1 DEF Mems
<1>3. CASE ~locked
  <2>1. TunnelPart!clearPendingQueue(m, locked, done) = m
    BY <1>1, <1>3 DEF TunnelPart!clearPendingQueue, TunnelPart!clearQueue, Mems
  <2>2. TunnelPart!clearDeferredCloseQueue(m, locked, done) = m
    BY <1>1, <1>3
    DEF TunnelPart!clearDeferredCloseQueue, TunnelPart!clearQueue, Mems
  <2> QED
    BY <2>1, <2>2
<1>4. ASSUME locked PROVE MemInv(TunnelPart!clearPendingQueue(m, locked, done))
  <2> DEFINE cs == [k \in DOMAIN m.pending |-> m.pending[k].ch]
             n == TunnelPart!clearPendingQueue(m, locked, done)
             O == IF done THEN m.open \ TunnelPart!ToSet(cs) ELSE m.open
  <2>1. \A c : c \in TunnelPart!ToSet(cs)
        <=> \E k \in DOMAIN m.pending : c = m.pending[k].ch
    BY <1>2 DEF TunnelPart!ToSet
  <2>2. TunnelPart!ToSet(cs) \subseteq m.open
    BY <1>1, <2>1 DEF Held
  <2>3. n = [m EXCEPT !.misused = FALSE, !.open = O, !.pending = <<>>]
    <3> HIDE DEF cs
    <3>1. TunnelPart!clearQueue(m, cs, locked, done)
              = [m EXCEPT !.misused = FALSE, !.open = O]
      BY <1>1, <1>4, <2>2 DEF TunnelPart!clearQueue, Mems
    <3>2. n = [TunnelPart!clearQueue(m, cs, locked, done) EXCEPT !.pending
                 = <<>>]
      BY <1>4 DEF TunnelPart!clearPendingQueue, cs, TunnelPart!clearQueue
    <3> QED
      BY <1>1, <3>1, <3>2 DEF Mems
  <2>4. <<>> \in Seq(Entries) /\ DOMAIN <<>> = {} /\ O \subseteq Channel
    BY <1>2
  <2> HIDE DEF n, cs
  <2>5. /\ n \in Mems /\ n.slot = m.slot /\ n.count = m.count
        /\ n.pending = <<>> /\ DOMAIN n.pending = {}
        /\ n.deferred = m.deferred /\ n.open = O /\ ~n.misused
    <3> HIDE DEF O
    <3> QED
      BY <1>1, <2>3, <2>4 DEF Mems
  <2>6. TunnelPart!Active(n) = TunnelPart!Active(m)
    BY <2>5 DEF TunnelPart!Active, TunnelPart!active
  <2>7. Apart(n) /\ Counted(n)
    <3> HIDE DEF O
    <3> QED
      BY <1>1, <2>5, <2>6 DEF Apart, Counted
  <2>8. Held(n)
    <3>1. \A i \in TunnelPart!Active(m) : m.slot[i].ch
              \in m.open \ TunnelPart!ToSet(cs)
      BY <1>1, <2>1 DEF Held, Apart
    <3>2. \A k \in DOMAIN m.deferred : m.deferred[k]
              \in m.open \ TunnelPart!ToSet(cs)
      BY <1>1, <2>1 DEF Held, Apart
    <3> QED
      BY <2>5, <2>6, <3>1, <3>2 DEF Held
  <2> QED
    BY <2>5, <2>7, <2>8 DEF MemInv, n
<1>5. ASSUME locked PROVE MemInv(TunnelPart!clearDeferredCloseQueue(m, locked,
                                                                    done))
  <2> DEFINE n == TunnelPart!clearDeferredCloseQueue(m, locked, done)
             O == IF done
                 THEN m.open \ TunnelPart!ToSet(m.deferred) ELSE m.open
  <2>1. \A c : c \in TunnelPart!ToSet(m.deferred) <=>
                 \E k \in DOMAIN m.deferred : c = m.deferred[k]
    BY <1>2 DEF TunnelPart!ToSet
  <2>2. TunnelPart!ToSet(m.deferred) \subseteq m.open
    BY <1>1, <2>1 DEF Held
  <2>3. n = [m EXCEPT !.misused = FALSE, !.open = O, !.deferred = <<>>]
    <3>1. TunnelPart!clearQueue(m, m.deferred, locked, done)
            = [m EXCEPT !.misused = FALSE, !.open = O]
      BY <1>1, <1>5, <2>2 DEF TunnelPart!clearQueue, Mems
    <3>2. n = [TunnelPart!clearQueue(m, m.deferred, locked,
                                     done) EXCEPT !.deferred = <<>>]
      BY <1>5 DEF TunnelPart!clearDeferredCloseQueue, TunnelPart!clearQueue
    <3> QED
      BY <1>1, <3>1, <3>2 DEF Mems
  <2>4. <<>> \in Seq(Channel) /\ DOMAIN <<>> = {} /\ O \subseteq Channel
    BY <1>2
  <2> HIDE DEF n
  <2>5. /\ n \in Mems /\ n.slot = m.slot /\ n.count = m.count
        /\ n.deferred = <<>> /\ DOMAIN n.deferred = {}
        /\ n.pending = m.pending /\ n.open = O /\ ~n.misused
    <3> HIDE DEF O
    <3> QED
      BY <1>1, <2>3, <2>4 DEF Mems
  <2>6. TunnelPart!Active(n) = TunnelPart!Active(m)
    BY <2>5 DEF TunnelPart!Active, TunnelPart!active
  <2>7. Apart(n) /\ Counted(n)
    <3> HIDE DEF O
    <3> QED
      BY <1>1, <2>5, <2>6 DEF Apart, Counted
  <2>8. Held(n)
    <3>1. \A i \in TunnelPart!Active(m) : m.slot[i].ch
              \in m.open \ TunnelPart!ToSet(m.deferred)
      BY <1>1, <2>1 DEF Held, Apart
    <3>2. \A k \in DOMAIN m.pending : m.pending[k].ch
              \in m.open \ TunnelPart!ToSet(m.deferred)
      BY <1>1, <2>1 DEF Held, Apart
    <3> QED
      BY <2>5, <2>6, <3>1, <3>2 DEF Held
  <2> QED
    BY <2>5, <2>7, <2>8 DEF MemInv, n
<1> QED
  BY <1>3, <1>4, <1>5

\* finalizeClose() and beginClose() of an active slot, abandonSlot() of any.
LEMMA SlotSteps ==
  ASSUME SlotsCounted, NEW m, MemInv(m), NEW i \in TunnelPart!Slot
  PROVE  /\ MemInv(TunnelPart!abandonSlot(m, i))
         /\ MemInv(TunnelPart!beginClose(m, i))
         /\ \A c : Unowned(m, c) => Unowned(TunnelPart!beginClose(m, i), c)
         /\ TunnelPart!beginClose(m, i).pending = m.pending
         /\ TunnelPart!active(m, i)
            => \A x, y
                \in BOOLEAN : MemInv(TunnelPart!finalizeClose(m, i, x, y))
         /\ \A j \in TunnelPart!Slot : j # i =>
              /\ TunnelPart!abandonSlot(m, i).slot[j] = m.slot[j]
              /\ TunnelPart!beginClose(m, i).slot[j] = m.slot[j]
              /\ TunnelPart!active(m, i) => \A x, y \in BOOLEAN :
                                   TunnelPart!finalizeClose(m, i, x,
                                                            y).slot[j]
                                                                = m.slot[j]
<1>1. m \in Mems /\ m.slot[i] \in SlotRecords /\ ~m.misused /\ Held(m)
  BY DEF MemInv, Mems
<1>2. i \in TunnelPart!Active(m) <=> TunnelPart!active(m, i)
  BY DEF TunnelPart!Active
<1>3. /\ MemInv(TunnelPart!beginClose(m, i))
      /\ TunnelPart!beginClose(m, i).pending = m.pending
      /\ \A c : Unowned(m, c) => Unowned(TunnelPart!beginClose(m, i), c)
      /\ \A j \in TunnelPart!Slot : j # i
         => TunnelPart!beginClose(m, i).slot[j] = m.slot[j]
  <2>1. CASE m.slot[i].state = "open"
    <3> DEFINE r == [m.slot[i] EXCEPT !.state = "draining"]
    <3>1. r \in SlotRecords /\ r.state # "closed" /\ r.ch = m.slot[i].ch
      BY <1>1 DEF SlotRecords
    <3>2. TunnelPart!beginClose(m, i) = [m EXCEPT !.slot[i] = r]
      BY <1>1, <2>1 DEF TunnelPart!beginClose, Mems
    <3>3. i \in TunnelPart!Active(m)
      BY <2>1 DEF TunnelPart!Active, TunnelPart!active
    <3> HIDE DEF r
    <3> QED
      BY <3>1, <3>2, <3>3, SlotKept
  <2>2. CASE m.slot[i].state # "open"
    BY <2>2 DEF TunnelPart!beginClose
  <2> QED
    BY <2>1, <2>2
<1>4. /\ MemInv(TunnelPart!abandonSlot(m, i))
      /\ \A j \in TunnelPart!Slot : j # i
         => TunnelPart!abandonSlot(m, i).slot[j] = m.slot[j]
  <2>1. CASE TunnelPart!active(m, i)
    <3> DEFINE r == [TunnelPart!Closed EXCEPT !.finalized
                       = m.slot[i].finalized]
    <3>1. r \in SlotRecords /\ r.state = "closed"
      BY <1>1 DEF SlotRecords, TunnelPart!Closed
    <3>2. m.count > 0
      <4> HIDE DEF r
      <4> QED
        BY <1>2, <2>1, <3>1, SlotDropped
    <3>3. TunnelPart!abandonSlot(m, i)
              = [m EXCEPT !.slot[i] = r, !.count = @ - 1]
      BY <1>1, <2>1, <3>2 DEF TunnelPart!abandonSlot, Mems
    <3> DEFINE n == TunnelPart!abandonSlot(m, i)
    <3>4. n = Dropped(m, i, r)
      BY <3>3 DEF Dropped
    <3> HIDE DEF r, n
    <3>5. MemInv(n) /\ \A j \in TunnelPart!Slot : j # i
          => n.slot[j] = m.slot[j]
      BY <1>2, <2>1, <3>1, <3>4, SlotDropped
    <3> QED
      BY <3>5 DEF n
  <2>2. CASE ~TunnelPart!active(m, i)
    BY <2>2 DEF TunnelPart!abandonSlot
  <2> QED
    BY <2>1, <2>2
<1>5. ASSUME TunnelPart!active(m, i), NEW x \in BOOLEAN, NEW y \in BOOLEAN
      PROVE  /\ MemInv(TunnelPart!finalizeClose(m, i, x, y))
             /\ \A j \in TunnelPart!Slot : j # i =>
                  TunnelPart!finalizeClose(m, i, x, y).slot[j] = m.slot[j]
  <2> DEFINE c == m.slot[i].ch
  <2>1. i \in TunnelPart!Active(m) /\ c \in m.open
    BY <1>1, <1>2, <1>5 DEF Held
  <2>2. TunnelPart!Touch(m, c) = m
    BY <1>1, <2>1 DEF TunnelPart!Touch, Mems
  <2>3. CASE ~(m.slot[i].closeComplete \/ x)
    <3>1. TunnelPart!finalizeClose(m, i, x, y) = m
      BY <2>2, <2>3 DEF TunnelPart!finalizeClose
    <3> QED
      BY <3>1
  <2>4. CASE (m.slot[i].closeComplete \/ x) /\ ~y
    <3> DEFINE r == [m.slot[i] EXCEPT !.closeComplete = TRUE]
    <3>1. r \in SlotRecords /\ r.state # "closed" /\ r.ch = m.slot[i].ch
      BY <1>1, <1>5 DEF SlotRecords, TunnelPart!active
    <3>2. TunnelPart!finalizeClose(m, i, x, y) = [m EXCEPT !.slot[i] = r]
      BY <1>1, <2>2, <2>4 DEF TunnelPart!finalizeClose, Mems
    <3> HIDE DEF r, c
    <3> QED
      BY <2>1, <3>1, <3>2, SlotKept
  <2>5. CASE (m.slot[i].closeComplete \/ x) /\ y
    <3> DEFINE r == [TunnelPart!Closed EXCEPT !.finalized = TRUE]
               n == [m EXCEPT !.slot[i] = r, !.count = @ - 1]
    <3>1. r \in SlotRecords /\ r.state = "closed"
      BY <1>1 DEF SlotRecords, TunnelPart!Closed
    <3>2. /\ MemInv(n) /\ Unowned(n, c)
          /\ \A j \in TunnelPart!Slot : j # i => n.slot[j] = m.slot[j]
      <4>1. n = Dropped(m, i, r)
        BY DEF Dropped
      <4> HIDE DEF r, n
      <4> QED
        BY <2>1, <3>1, <4>1, SlotDropped
    <3>3. TunnelPart!finalizeClose(m, i, x, y) = TunnelPart!Freed(n, c, TRUE)
      BY <1>1, <2>1, <2>2, <2>5
      DEF TunnelPart!finalizeClose, TunnelPart!Freed, TunnelPart!Touch, Mems
    <3> HIDE DEF n, c, r
    <3>4. MemInv(TunnelPart!Freed(n, c, TRUE))
          /\ TunnelPart!Freed(n, c, TRUE).slot = n.slot
      BY <3>2, NobodysFreed
    <3> QED
      BY <3>2, <3>3, <3>4
  <2> QED
    BY <2>3, <2>4, <2>5
<1> QED
  BY <1>3, <1>4, <1>5

\* enterErrorState() closes or gives up one slot after the other.
LEMMA SlotsClosed ==
  ASSUME SlotsCounted, NEW m, MemInv(m), NEW locked \in BOOLEAN,
         NEW done \in BOOLEAN
  PROVE  MemInv(TunnelPart!closeSlots(m, locked, done))
<1> DEFINE S == {n \in Mems : MemInv(n)}
           T == [x \in S \X TunnelPart!Slot
                   |-> TunnelPart!closeSlot(x[1], x[2], locked, done)]
           F == [i \in 0 .. MaxSlots |-> S]
           P(g) == g = [i \in 0 .. MaxSlots |->
                          IF i = 0 THEN m
                          ELSE TunnelPart!closeSlot(g[i - 1], i, locked, done)]
<1>1. ASSUME NEW n \in S, NEW i \in TunnelPart!Slot
      PROVE TunnelPart!closeSlot(n, i, locked, done) \in S
  <2>1. MemInv(TunnelPart!abandonSlot(n, i)) /\ MemInv(n)
    BY <1>1, SlotSteps
  <2>2. TunnelPart!active(n, i)
        => MemInv(TunnelPart!finalizeClose(n, i, TRUE, done))
    BY <1>1, SlotSteps
  <2>3. MemInv(TunnelPart!closeSlot(n, i, locked, done))
    BY <2>1, <2>2 DEF TunnelPart!closeSlot
  <2> QED
    BY <2>3 DEF MemInv
<1>2. m \in S
  BY DEF MemInv
<1> HIDE DEF S
<1>3. ASSUME NEW i \in 0 .. MaxSlots PROVE F[i] = S
  OBVIOUS
<1>4. \A i \in TunnelPart!Slot : i \in 0 .. MaxSlots /\ i - 1 \in 0 .. MaxSlots
  BY DEF TunnelPart!Slot, SlotsCounted
<1>5. F \in [0 .. MaxSlots -> SUBSET S] /\ F[0] = S
  BY DEF SlotsCounted
<1>6. Keeps(T, F)
  BY <1>1, <1>3, <1>4 DEF Keeps
<1>7. \E g : P(g)
  <2> HIDE DEF T, F
  <2>1. PICK g \in [0 .. MaxSlots -> S] :
          Computes(g, m, T)
    BY <1>2, <1>5, <1>6, LoopExists
  <2>2. ASSUME NEW i \in 0 .. MaxSlots, i # 0
        PROVE  g[i] = TunnelPart!closeSlot(g[i - 1], i, locked, done)
    <3>1. i \in TunnelPart!Slot /\ g[i - 1] \in S
      BY <2>1, <2>2 DEF TunnelPart!Slot, SlotsCounted
    <3>2. T[<<g[i - 1], i>>] = TunnelPart!closeSlot(g[i - 1], i, locked, done)
      BY <3>1 DEF T
    <3> QED
      BY <2>1, <3>1, <3>2 DEF Computes
  <2>3. P(g)
    BY <2>1, <2>2 DEF Computes
  <2> QED
    BY <2>3
<1> DEFINE after == CHOOSE g : P(g)
<1>8. P(after)
  BY <1>7
<1>9. TunnelPart!closeSlots(m, locked, done) = after[MaxSlots]
  BY DEF TunnelPart!closeSlots
<1> HIDE DEF P, after, F
<1>10. after[MaxSlots] \in F[MaxSlots]
  <2>1. after[0] = m
    BY <1>8 DEF P, SlotsCounted
  <2>2. ASSUME NEW i \in TunnelPart!Slot, after[i - 1] \in F[i - 1]
        PROVE after[i] \in F[i]
    <3>1. after[i] = TunnelPart!closeSlot(after[i - 1], i, locked, done)
      BY <1>4, <1>8 DEF P, TunnelPart!Slot
    <3> QED
      BY <1>1, <1>3, <1>4, <2>2, <3>1
  <2> QED
    BY <1>2, <1>5, <2>1, <2>2, LoopInduction
<1>11. after[MaxSlots] \in S
  BY <1>3, <1>10 DEF SlotsCounted
<1> QED
  BY <1>9, <1>11 DEF S

\* Once the session is gone: what is left is forgotten slot by slot.
Forgotten(n, i) ==
  /\ n \in Mems /\ ~n.misused /\ n.open = {} /\ Counted(n)
  /\ \A j \in 1 .. i : ~TunnelPart!active(n, j)

LEMMA SlotForgotten ==
  ASSUME SlotsCounted, NEW i \in TunnelPart!Slot, NEW n, Forgotten(n, i - 1)
  PROVE  Forgotten(TunnelPart!abandonSlot(n, i), i)
<1>1. n \in Mems /\ ~n.misused /\ n.open = {}
      /\ n.count = Cardinality(TunnelPart!Active(n))
  BY DEF Forgotten, Counted
<1>2. \A j \in 1 .. i : j = i \/ j \in 1 .. i - 1
  BY DEF TunnelPart!Slot
<1>3. CASE ~TunnelPart!active(n, i)
  <2>1. TunnelPart!abandonSlot(n, i) = n
    BY <1>3 DEF TunnelPart!abandonSlot
  <2> QED
    BY <1>2, <1>3, <2>1 DEF Forgotten
<1>4. CASE TunnelPart!active(n, i)
  <2> DEFINE r == [TunnelPart!Closed EXCEPT !.finalized = n.slot[i].finalized]
             k == TunnelPart!abandonSlot(n, i)
  <2>1. i \in TunnelPart!Active(n) /\ r.state = "closed"
    BY <1>4 DEF TunnelPart!Active, TunnelPart!Closed
  <2>2. r \in SlotRecords
    <3>1. n.slot[i].finalized \in BOOLEAN
      BY <1>1 DEF Mems, SlotRecords
    <3> QED
      BY <3>1 DEF SlotRecords, TunnelPart!Closed
  <2>3. IsFiniteSet(TunnelPart!Active(n))
        /\ Cardinality(TunnelPart!Active(n)) \in Nat
    BY SlotsFinite
  <2>4. /\ Cardinality(TunnelPart!Active(n) \ {i})
               = Cardinality(TunnelPart!Active(n)) - 1
        /\ Cardinality(TunnelPart!Active(n) \ {i}) \in Nat
    BY <2>1, <2>3, FS_RemoveElement, FS_CardinalityType
  <2>5. n.count > 0
    BY <1>1, <2>3, <2>4
  <2>6. /\ [n.slot EXCEPT ![i] = r] \in [TunnelPart!Slot -> SlotRecords]
        /\ n.count - 1 \in Int
    <3> HIDE DEF r
    <3> QED
      BY <1>1, <2>2 DEF Mems
  <2>7. k = [n EXCEPT !.slot = [n.slot EXCEPT ![i] = r], !.count = n.count - 1]
    BY <1>1, <1>4, <2>5 DEF TunnelPart!abandonSlot, Mems
  <2> HIDE DEF r, k
  <2>8. /\ k \in Mems /\ ~k.misused /\ k.open = {} /\ k.count = n.count - 1
        /\ k.slot = [n.slot EXCEPT ![i] = r]
    BY <1>1, <2>6, <2>7 DEF Mems
  <2>9. /\ k.slot[i] = r /\ \A j \in TunnelPart!Slot : j # i
           => k.slot[j] = n.slot[j]
    BY <1>1, <2>8 DEF Mems
  <2>10. TunnelPart!Active(k) = TunnelPart!Active(n) \ {i}
         /\ ~TunnelPart!active(k, i)
    BY <2>1, <2>9 DEF TunnelPart!Active, TunnelPart!active
  <2>11. Counted(k)
    BY <1>1, <2>4, <2>8, <2>10 DEF Counted
  <2>12. ASSUME NEW j \in 1 .. i PROVE ~TunnelPart!active(k, j)
    <3>1. CASE j = i
      BY <2>10, <3>1
    <3>2. CASE j # i
      <4>1. j \in TunnelPart!Slot /\ ~TunnelPart!active(n, j)
        BY <1>2, <3>2 DEF Forgotten, TunnelPart!Slot, SlotsCounted
      <4> QED
        BY <2>9, <3>2, <4>1 DEF TunnelPart!active
    <3> QED
      BY <3>1, <3>2
  <2> QED
    BY <2>8, <2>11, <2>12 DEF Forgotten, k
<1> QED
  BY <1>3, <1>4

LEMMA AllForgotten ==
  ASSUME SlotsCounted, NEW m, Forgotten(m, 0)
  PROVE  MemInv(TunnelPart!forgetAll(m))
         /\ TunnelPart!Active(TunnelPart!forgetAll(m)) = {}
<1> DEFINE F == [i \in 0 .. MaxSlots |-> {n \in Mems : Forgotten(n, i)}]
           T == [x \in Mems \X TunnelPart!Slot
                   |-> TunnelPart!abandonSlot(x[1], x[2])]
           P(g) == g = [i \in 0 .. MaxSlots |->
                          IF i = 0 THEN m
                              ELSE TunnelPart!abandonSlot(g[i - 1], i)]
<1>1. ASSUME NEW i \in TunnelPart!Slot, NEW n, Forgotten(n, i - 1)
      PROVE  Forgotten(TunnelPart!abandonSlot(n, i), i)
             /\ TunnelPart!abandonSlot(n, i) \in Mems
  BY <1>1, SlotForgotten DEF Forgotten
<1>2. m \in Mems
  BY DEF Forgotten
<1>3. ASSUME NEW i \in 0 .. MaxSlots
      PROVE  /\ F[i] \subseteq Mems
             /\ \A n : n \in F[i] <=> Forgotten(n, i)
  BY <1>3 DEF Forgotten
<1>4. /\ \A i \in TunnelPart!Slot : i \in 0 .. MaxSlots
         /\ i - 1 \in 0 .. MaxSlots
      /\ 0 \in 0 .. MaxSlots /\ MaxSlots \in 0 .. MaxSlots
  BY DEF TunnelPart!Slot, SlotsCounted
<1>5. F \in [0 .. MaxSlots -> SUBSET Mems]
  OBVIOUS
<1> HIDE DEF F
<1>6. Keeps(T, F)
  <2>1. ASSUME NEW i \in TunnelPart!Slot, NEW n \in F[i - 1]
        PROVE T[<<n, i>>] \in F[i]
    <3>1. n \in Mems /\ Forgotten(n, i - 1)
      BY <1>3, <1>4
    <3>2. T[<<n, i>>] = TunnelPart!abandonSlot(n, i)
      BY <3>1
    <3> HIDE DEF T
    <3> QED
      BY <1>1, <1>3, <1>4, <3>1, <3>2
  <2> QED
    BY <2>1 DEF Keeps
<1>7. \E g : P(g)
  <2> HIDE DEF T
  <2>1. m \in F[0]
    BY <1>3, <1>4
  <2>2. PICK g \in [0 .. MaxSlots -> Mems] :
          Computes(g, m, T)
    BY <2>1, <1>5, <1>6, LoopExists
  <2>3. ASSUME NEW i \in 0 .. MaxSlots, i # 0
        PROVE  g[i] = TunnelPart!abandonSlot(g[i - 1], i)
    <3>1. i \in TunnelPart!Slot /\ g[i - 1] \in Mems
      BY <2>2, <2>3 DEF TunnelPart!Slot, SlotsCounted
    <3>2. T[<<g[i - 1], i>>] = TunnelPart!abandonSlot(g[i - 1], i)
      BY <3>1 DEF T
    <3> QED
      BY <2>2, <3>1, <3>2 DEF Computes
  <2>4. P(g)
    BY <2>2, <2>3 DEF Computes
  <2> QED
    BY <2>4
<1> DEFINE after == CHOOSE g : P(g)
           k == after[MaxSlots]
<1>8. P(after)
  BY <1>7
<1>9. TunnelPart!forgetAll(m) = [k EXCEPT !.pending = <<>>, !.deferred = <<>>]
  BY DEF TunnelPart!forgetAll
<1> HIDE DEF P, after
<1>10. k \in F[MaxSlots]
  <2>1. after[0] = m
    BY <1>8 DEF P, SlotsCounted
  <2>2. ASSUME NEW i \in TunnelPart!Slot, after[i - 1] \in F[i - 1]
        PROVE after[i] \in F[i]
    <3>1. after[i] = TunnelPart!abandonSlot(after[i - 1], i)
      BY <1>4, <1>8 DEF P, TunnelPart!Slot
    <3> QED
      BY <1>1, <1>3, <1>4, <2>2, <3>1
  <2>3. after[0] \in F[0]
    BY <1>3, <1>4, <2>1
  <2> QED
    BY <2>2, <2>3, LoopInduction
<1> HIDE DEF k
<1>11. Forgotten(k, MaxSlots)
  BY <1>3, <1>4, <1>10
<1> DEFINE n == TunnelPart!forgetAll(m)
<1>12. /\ n \in Mems /\ n.slot = k.slot /\ n.count = k.count /\ ~n.misused
       /\ n.open = {} /\ n.pending = <<>> /\ n.deferred = <<>>
  <2>1. k \in Mems /\ ~k.misused /\ k.open = {}
    BY <1>11 DEF Forgotten
  <2>2. <<>> \in Seq(Entries) /\ <<>> \in Seq(Channel)
    OBVIOUS
  <2> QED
    BY <1>9, <2>1, <2>2 DEF Mems
<1> HIDE DEF n
<1>13. TunnelPart!Active(n) = {} /\ TunnelPart!Active(k) = {}
  BY <1>11, <1>12
  DEF TunnelPart!Active, TunnelPart!active, Forgotten, TunnelPart!Slot
<1>14. DOMAIN n.pending = {} /\ DOMAIN n.deferred = {}
  BY <1>12
<1>15. Held(n) /\ Apart(n)
  BY <1>13, <1>14 DEF Held, Apart
<1>16. Counted(n)
  BY <1>11, <1>12, <1>13 DEF Forgotten, Counted
<1> QED
  BY <1>12, <1>13, <1>15, <1>16 DEF MemInv, n

LEMMA SessionTornDown ==
  ASSUME SlotsCounted, NEW m, MemInv(m), NEW lock \in [1 .. 3 -> BOOLEAN],
         NEW done \in BOOLEAN
  PROVE  MemInv(TunnelPart!torndown(m, lock, done))
         /\ TunnelPart!Active(TunnelPart!torndown(m, lock, done)) = {}
<1> DEFINE m1 == TunnelPart!clearPendingQueue(m, lock[1], done)
           m2 == TunnelPart!clearDeferredCloseQueue(m1, lock[2], done)
           m3 == TunnelPart!closeSlots(m2, lock[3], done)
           m4 == TunnelPart!cleanupSession(m3)
<1>1. MemInv(m1)
  BY QueueCleared
<1> HIDE DEF m1
<1>2. MemInv(m2)
  BY <1>1, QueueCleared
<1> HIDE DEF m2
<1>3. MemInv(m3)
  BY <1>2, SlotsClosed
<1> HIDE DEF m3
<1>4. m3 \in Mems /\ ~m3.misused /\ Counted(m3)
  BY <1>3 DEF MemInv
<1>5. /\ m4 \in Mems /\ ~m4.misused /\ m4.open = {}
      /\ m4.slot = m3.slot /\ m4.count = m3.count
  BY <1>4 DEF TunnelPart!cleanupSession, Mems
<1> HIDE DEF m4
<1>6. TunnelPart!Active(m4) = TunnelPart!Active(m3)
  BY <1>5 DEF TunnelPart!Active, TunnelPart!active
<1>7. Forgotten(m4, 0)
  BY <1>4, <1>5, <1>6 DEF Forgotten, Counted
<1>8. TunnelPart!torndown(m, lock, done) = TunnelPart!forgetAll(m4)
  BY DEF TunnelPart!torndown, m1, m2, m3, m4
<1> QED
  BY <1>7, <1>8, AllForgotten

Opened(m, c) == [m EXCEPT !.open = @ \cup {c}]

LEMMA ChannelOpened ==
  ASSUME NEW m, MemInv(m), NEW c \in Channel \ m.open, NEW n, n = Opened(m, c)
  PROVE  MemInv(n) /\ Unowned(n, c) /\ n.slot = m.slot
         /\ TunnelPart!Active(n) = TunnelPart!Active(m)
<1>1. m \in Mems /\ ~m.misused /\ Held(m) /\ Apart(m) /\ Counted(m)
  BY DEF MemInv
<1>2. /\ n \in Mems /\ n.slot = m.slot /\ n.count = m.count
      /\ n.pending = m.pending /\ n.deferred = m.deferred
      /\ n.open = m.open \cup {c} /\ ~n.misused
  BY <1>1 DEF Mems, Opened
<1>3. TunnelPart!Active(n) = TunnelPart!Active(m)
  BY <1>2 DEF TunnelPart!Active, TunnelPart!active
<1>4. Apart(n) /\ Counted(n)
  <2>1. Apart(n)
    BY <1>1, <1>2, <1>3 DEF Apart
  <2>2. Counted(n)
    BY <1>1, <1>2, <1>3 DEF Counted
  <2> QED
    BY <2>1, <2>2
<1>5. Held(n)
  BY <1>1, <1>2, <1>3 DEF Held
<1>6. Unowned(n, c)
  BY <1>1, <1>2, <1>3 DEF Held, Unowned
<1> QED
  BY <1>2, <1>3, <1>4, <1>5, <1>6 DEF MemInv

LEMMA FreeSlotFound ==
  ASSUME SlotsCounted, NEW m, NEW cooling, TunnelPart!allocated(m, cooling) # 0
  PROVE  TunnelPart!allocated(m, cooling) \in TunnelPart!Slot
         /\ TunnelPart!allocated(m, cooling) \notin TunnelPart!Active(m)
<1> DEFINE T == TunnelPart!findFreeSlot(m, cooling)
<1>1. T \subseteq Nat /\ T \subseteq TunnelPart!Slot
  BY DEF TunnelPart!findFreeSlot, TunnelPart!Slot
<1>2. T # {} /\ TunnelPart!allocated(m, cooling)
          = CHOOSE i \in T : \A j \in T : i <= j
  BY DEF TunnelPart!allocated
<1>3. \A i \in T : i \notin TunnelPart!Active(m)
  BY DEF TunnelPart!findFreeSlot, TunnelPart!Active
<1> HIDE DEF T
<1>4. \E i \in T : \A j \in T : i <= j
  BY <1>1, <1>2, LeastNumber
<1>5. TunnelPart!allocated(m, cooling) \in T
  BY <1>2, <1>4
<1> QED
  BY <1>1, <1>3, <1>5

LEMMA StaleRecycled ==
  ASSUME SlotsCounted, NEW m, MemInv(m),
         NEW stale \in {0} \cup TunnelPart!Active(m)
  PROVE  /\ MemInv(TunnelPart!recycled(m, stale))
         /\ TunnelPart!recycled(m, stale).pending = m.pending
         /\ \A c : Unowned(m, c) => Unowned(TunnelPart!recycled(m, stale), c)
<1>1. CASE stale = 0
  BY <1>1 DEF TunnelPart!recycled
<1>2. CASE stale # 0
  <2>1. stale \in TunnelPart!Slot
    BY <1>2 DEF TunnelPart!Active
  <2>2. TunnelPart!recycled(m, stale) = TunnelPart!beginClose(m, stale)
    BY <1>2 DEF TunnelPart!recycled
  <2> QED
    BY <2>1, <2>2, SlotSteps
<1> QED
  BY <1>1, <1>2

\* What handleNewConnection() does with a channel it has accepted.
LEMMA Deferred ==
  ASSUME SlotsCounted, NEW m, MemInv(m), NEW c \in Channel, Unowned(m, c),
         NEW locked \in BOOLEAN, NEW done \in BOOLEAN
  PROVE  MemInv(TunnelPart!enqueueDeferredClose(m, c, locked, done))
<1>1. MemInv(TunnelPart!Freed(m, c, done))
  BY NobodysFreed
<1>2. MemInv([m EXCEPT !.deferred = Append(@, c)])
  BY DeferredAdded
<1> QED
  BY <1>1, <1>2
  DEF TunnelPart!enqueueDeferredClose, TunnelPart!closeAcceptedChannel

LEMMA ChannelPlaced ==
  ASSUME SlotsCounted, NEW m, MemInv(m), NEW c \in Channel, Unowned(m, c),
         NEW o \in TunnelPart!Oracle(m)
  PROVE  MemInv(TunnelPart!placed(m, c, o))
         /\ MemInv(TunnelPart!refused(m, c, o))
<1> DEFINE i == TunnelPart!allocated(m, o.cooling)
           rest == TunnelPart!recycled(m, o.stale)
<1>1. /\ o.done \in BOOLEAN /\ o.binds \in BOOLEAN
      /\ o.lock[1] \in BOOLEAN /\ o.lock[2] \in BOOLEAN
      /\ o.lock[3] \in BOOLEAN
      /\ o.stale \in {0} \cup TunnelPart!Active(m)
  BY DEF TunnelPart!Oracle
<1>2. MemInv(rest) /\ Unowned(rest, c)
  BY <1>1, StaleRecycled
<1>3. i # 0 => MemInv(TunnelPart!bindChannel(m, i, c))
  BY FreeSlotFound, SlotBound
<1>4. MemInv(TunnelPart!pend(m, c))
      /\ MemInv(TunnelPart!enqueueDeferredClose(m, c, o.lock[2], o.done))
  BY <1>1, PendingAdded, Deferred
<1>5. MemInv(TunnelPart!closeAcceptedChannel(m, c, o.done))
  BY <1>1, NobodysFreed DEF TunnelPart!closeAcceptedChannel
<1> HIDE DEF rest
<1>6. MemInv(TunnelPart!pend(rest, c))
      /\ MemInv(TunnelPart!enqueueDeferredClose(rest, c, o.lock[2], o.done))
  BY <1>1, <1>2, PendingAdded, Deferred
<1>7. MemInv(TunnelPart!closeAcceptedChannel(rest, c, o.done))
  BY <1>1, <1>2, NobodysFreed DEF TunnelPart!closeAcceptedChannel
<1>8. MemInv(TunnelPart!refused(m, c, o))
  BY <1>4, <1>5 DEF TunnelPart!refused
<1>9. CASE i # 0
  <2>1. /\ o.lock[1] /\ o.binds
           => TunnelPart!placed(m, c, o) = TunnelPart!bindChannel(m, i, c)
        /\ ~(o.lock[1] /\ o.binds) =>
             TunnelPart!placed(m, c, o) \in {TunnelPart!pend(m, c),
                                  TunnelPart!enqueueDeferredClose(m, c,
                                                                  o.lock[2],
                                                                  o.done)}
    BY <1>1, <1>9 DEF TunnelPart!placed
  <2> QED
    BY <1>3, <1>4, <1>8, <1>9, <2>1
<1>10. CASE i = 0
  <2>1. TunnelPart!placed(m, c, o) \in
          {TunnelPart!pend(rest, c),
           TunnelPart!closeAcceptedChannel(rest, c, o.done),
           TunnelPart!enqueueDeferredClose(rest, c, o.lock[2], o.done), rest}
    BY <1>1, <1>10 DEF TunnelPart!placed, rest
  <2> QED
    BY <1>2, <1>6, <1>7, <1>8, <2>1
<1> QED
  BY <1>9, <1>10

\* An entry of the pending queue is closed, or kept to be closed.
LEMMA EntryClosed ==
  ASSUME SlotsCounted, NEW m, MemInv(m), NEW k \in 1 .. Len(m.pending),
         NEW locked \in BOOLEAN, NEW done \in BOOLEAN
  PROVE  /\ MemInv(TunnelPart!toClose(m, k, locked, done))
         /\ Len(TunnelPart!toClose(m, k, locked, done).pending)
              \in {Len(m.pending), Len(m.pending) - 1}
<1>1. CASE locked
  <2> DEFINE n == [m EXCEPT !.pending = TunnelPart!RemoveAt(@, k)]
             c == m.pending[k].ch
  <2>1. MemInv(n) /\ Unowned(n, c) /\ Len(n.pending) = Len(m.pending) - 1
    BY PendingRemoved
  <2>2. TunnelPart!toClose(m, k, locked, done) = TunnelPart!Freed(n, c, done)
    <3>1. m \in Mems
      BY DEF MemInv
    <3> QED
      BY <1>1, <3>1
      DEF TunnelPart!toClose, TunnelPart!closeAcceptedChannel,
          TunnelPart!Freed, TunnelPart!Touch, Mems
  <2> HIDE DEF n, c
  <2> QED
    BY <2>1, <2>2, NobodysFreed
<1>2. CASE ~locked
  <2>1. /\ MemInv(Closing(m, k))
        /\ Len(Closing(m, k).pending) = Len(m.pending)
    BY ActionChanged
  <2> QED
    BY <1>2, <2>1 DEF TunnelPart!toClose, Closing
<1> QED
  BY <1>1, <1>2

LEMMA EntryDrained ==
  ASSUME SlotsCounted, NEW m, MemInv(m), NEW k \in 1 .. Len(m.pending),
         NEW old \in BOOLEAN, NEW o \in TunnelPart!Oracle(m)
  PROVE  /\ MemInv(TunnelPart!drained(m, k, old, o))
         /\ Len(TunnelPart!drained(m, k, old, o).pending)
              \in {Len(m.pending), Len(m.pending) - 1}
<1> DEFINE c == m.pending[k].ch
           i == TunnelPart!allocated(m, o.cooling)
           Good(n) == /\ MemInv(n)
                      /\ Len(n.pending)
                             \in {Len(m.pending), Len(m.pending) - 1}
<1>1. /\ o.done \in BOOLEAN /\ o.binds \in BOOLEAN
      /\ o.lock[1] \in BOOLEAN /\ o.lock[2] \in BOOLEAN
      /\ o.stale \in {0} \cup TunnelPart!Active(m)
  BY DEF TunnelPart!Oracle
<1>2. m \in Mems /\ m.pending[k].action \in {"bind", "close"}
  <2>1. m \in Mems /\ m.pending \in Seq(Entries)
    BY DEF MemInv, Mems
  <2>2. m.pending[k] \in Entries
    BY <2>1
  <2> QED
    BY <2>1, <2>2 DEF Entries
<1>3. Good(TunnelPart!toClose(m, k, o.lock[1], o.done))
      /\ Good(TunnelPart!toClose(m, k, o.lock[2], o.done))
  BY <1>1, EntryClosed
<1>4. Good(m) /\ Good(TunnelPart!recycled(m, o.stale))
  BY <1>1, StaleRecycled
<1>5. ASSUME i # 0
      PROVE  Good([TunnelPart!bindChannel(m, i, c) EXCEPT !.pending
                     = TunnelPart!RemoveAt(@, k)])
  <2> DEFINE n == [m EXCEPT !.pending = TunnelPart!RemoveAt(@, k)]
  <2>1. /\ MemInv(n) /\ Unowned(n, c) /\ c \in Channel
        /\ Len(n.pending) = Len(m.pending) - 1
        /\ TunnelPart!Active(n) = TunnelPart!Active(m)
    BY PendingRemoved
  <2>2. i \in TunnelPart!Slot /\ i \notin TunnelPart!Active(n)
    BY <1>5, <2>1, FreeSlotFound
  <2>3. [TunnelPart!bindChannel(m, i, c) EXCEPT !.pending
           = TunnelPart!RemoveAt(@, k)] = TunnelPart!bindChannel(n, i, c)
    <3>1. n \in Mems /\ n.slot = m.slot /\ n.count = m.count /\ n.open = m.open
      BY <1>2, <2>1 DEF MemInv, Mems
    <3>2. c \in n.open
      BY <2>1 DEF Unowned
    <3> HIDE DEF i, c, n
    <3>3. TunnelPart!Touch(m, c) = m /\ TunnelPart!Touch(n, c) = n
      BY <1>2, <3>1, <3>2 DEF TunnelPart!Touch, Mems
    <3> QED
      BY <1>2, <3>1, <3>3 DEF TunnelPart!bindChannel, n, Mems
  <2> HIDE DEF n, i, c
  <2>4. Good(TunnelPart!bindChannel(n, i, c))
    BY <2>1, <2>2, SlotBound
  <2> HIDE DEF Good
  <2> QED
    BY <2>3, <2>4
<1> HIDE DEF Good, i, c
<1>6. TunnelPart!drained(m, k, old, o) \in
        {TunnelPart!toClose(m, k, o.lock[1], o.done),
         TunnelPart!toClose(m, k, o.lock[2], o.done), m,
         TunnelPart!recycled(m, o.stale)}
      \/ /\ i # 0
         /\ TunnelPart!drained(m, k, old, o)
              = [TunnelPart!bindChannel(m, i, c) EXCEPT !.pending
                   = TunnelPart!RemoveAt(@, k)]
  BY <1>1, <1>2 DEF TunnelPart!drained, i, c
<1>7. Good(TunnelPart!drained(m, k, old, o))
  BY <1>3, <1>4, <1>5, <1>6
<1> QED
  BY <1>7 DEF Good

\* pumpAll(): each slot is dealt with as it was found.
Dealings == {"nothing", "begin close", "close again", "free again", "finalize",
             "abandon"}
DealsWith(m, what) ==
  \A i \in TunnelPart!Slot : what[i] \in Dealings
  /\ (~TunnelPart!active(m, i) => what[i] = "nothing")

LEMMA SlotsPumped ==
  ASSUME SlotsCounted, NEW m, MemInv(m), NEW what, DealsWith(m, what)
  PROVE  MemInv(TunnelPart!pumpSlots(m, what))
<1> DEFINE Found(n, i) == /\ MemInv(n)
                          /\ \A j \in TunnelPart!Slot : j > i
                             => n.slot[j] = m.slot[j]
           F == [i \in 0 .. MaxSlots |-> {n \in Mems : Found(n, i)}]
           T == [x \in Mems \X TunnelPart!Slot
                   |-> TunnelPart!pumped(x[1], x[2], what[x[2]])]
           P(g) == g = [i \in 0 .. MaxSlots |->
                          IF i = 0 THEN m
                              ELSE TunnelPart!pumped(g[i - 1], i, what[i])]
<1>1. ASSUME NEW i \in TunnelPart!Slot, NEW n, Found(n, i - 1)
      PROVE  Found(TunnelPart!pumped(n, i, what[i]), i)
  <2> DEFINE k == TunnelPart!pumped(n, i, what[i])
  <2>1. MemInv(n) /\ n.slot[i] = m.slot[i] /\ i \in Int
    <3>1. i \in Int /\ i > i - 1
      BY DEF TunnelPart!Slot, SlotsCounted
    <3> QED
      BY <1>1, <3>1
  <2>2. what[i] \in Dealings
        /\ (what[i] # "nothing" => TunnelPart!active(n, i))
    BY <2>1 DEF TunnelPart!active, DealsWith
  <2>3. \/ k \in {n, TunnelPart!beginClose(n, i), TunnelPart!abandonSlot(n, i)}
        \/ /\ TunnelPart!active(n, i)
           /\ \E x, y \in BOOLEAN : k = TunnelPart!finalizeClose(n, i, x, y)
    BY <2>2 DEF TunnelPart!pumped, Dealings
  <2> HIDE DEF k
  <2>4. MemInv(k) /\ \A j \in TunnelPart!Slot : j # i => k.slot[j] = n.slot[j]
    <3>1. CASE k \in {n, TunnelPart!beginClose(n, i),
                      TunnelPart!abandonSlot(n, i)}
      <4>1. /\ MemInv(TunnelPart!abandonSlot(n, i))
            /\ \A j \in TunnelPart!Slot : j # i
               => TunnelPart!abandonSlot(n, i).slot[j] = n.slot[j]
        BY <2>1, SlotSteps
      <4>2. /\ MemInv(TunnelPart!beginClose(n, i))
            /\ \A j \in TunnelPart!Slot : j # i
               => TunnelPart!beginClose(n, i).slot[j] = n.slot[j]
        BY <2>1, SlotSteps
      <4> QED
        BY <2>1, <3>1, <4>1, <4>2
    <3>2. ASSUME TunnelPart!active(n, i), NEW x \in BOOLEAN, NEW y \in BOOLEAN,
                 k = TunnelPart!finalizeClose(n, i, x, y)
          PROVE  MemInv(k) /\ \A j \in TunnelPart!Slot : j # i
                 => k.slot[j] = n.slot[j]
      BY <2>1, <3>2, SlotSteps
    <3> QED
      BY <2>3, <3>1, <3>2
  <2>5. ASSUME NEW j \in TunnelPart!Slot, j > i PROVE k.slot[j] = m.slot[j]
    <3>1. j > i - 1 /\ j # i
      BY <2>1, <2>5 DEF TunnelPart!Slot
    <3> QED
      BY <1>1, <2>4, <3>1
  <2> QED
    BY <2>4, <2>5 DEF k
<1>2. m \in Mems /\ Found(m, 0) /\ \A n, i : Found(n, i) => n \in Mems
  BY DEF MemInv
<1> HIDE DEF Found
<1>3. ASSUME NEW i \in 0 .. MaxSlots
      PROVE  /\ F[i] \subseteq Mems
             /\ \A n : n \in F[i] <=> Found(n, i)
  BY <1>2, <1>3
<1>4. /\ \A i \in TunnelPart!Slot : i \in 0 .. MaxSlots
         /\ i - 1 \in 0 .. MaxSlots
      /\ 0 \in 0 .. MaxSlots /\ MaxSlots \in 0 .. MaxSlots
  BY DEF TunnelPart!Slot, SlotsCounted
<1>5. F \in [0 .. MaxSlots -> SUBSET Mems]
  OBVIOUS
<1> HIDE DEF F
<1>6. Keeps(T, F)
  <2>1. ASSUME NEW i \in TunnelPart!Slot, NEW n \in F[i - 1]
        PROVE T[<<n, i>>] \in F[i]
    <3>1. n \in Mems /\ Found(n, i - 1)
      BY <1>3, <1>4
    <3>2. T[<<n, i>>] = TunnelPart!pumped(n, i, what[i])
      BY <3>1
    <3> HIDE DEF T
    <3> QED
      BY <1>1, <1>3, <1>4, <3>1, <3>2
  <2> QED
    BY <2>1 DEF Keeps
<1>7. \E g : P(g)
  <2> HIDE DEF T
  <2>1. m \in F[0]
    BY <1>2, <1>3, <1>4
  <2>2. PICK g \in [0 .. MaxSlots -> Mems] :
          Computes(g, m, T)
    BY <2>1, <1>5, <1>6, LoopExists
  <2>3. ASSUME NEW i \in 0 .. MaxSlots, i # 0
        PROVE  g[i] = TunnelPart!pumped(g[i - 1], i, what[i])
    <3>1. i \in TunnelPart!Slot /\ g[i - 1] \in Mems
      BY <2>2, <2>3 DEF TunnelPart!Slot, SlotsCounted
    <3>2. T[<<g[i - 1], i>>] = TunnelPart!pumped(g[i - 1], i, what[i])
      BY <3>1 DEF T
    <3> QED
      BY <2>2, <3>1, <3>2 DEF Computes
  <2>4. P(g)
    BY <2>2, <2>3 DEF Computes
  <2> QED
    BY <2>4
<1> DEFINE after == CHOOSE g : P(g)
<1>8. P(after)
  BY <1>7
<1>9. TunnelPart!pumpSlots(m, what) = after[MaxSlots]
  BY DEF TunnelPart!pumpSlots
<1> HIDE DEF P, after
<1>10. after[MaxSlots] \in F[MaxSlots]
  <2>1. after[0] = m
    BY <1>8 DEF P, SlotsCounted
  <2>2. ASSUME NEW i \in TunnelPart!Slot, after[i - 1] \in F[i - 1]
        PROVE after[i] \in F[i]
    <3>1. after[i] = TunnelPart!pumped(after[i - 1], i, what[i])
      BY <1>4, <1>8 DEF P, TunnelPart!Slot
    <3> QED
      BY <1>1, <1>3, <1>4, <2>2, <3>1
  <2>3. after[0] \in F[0]
    BY <1>2, <1>3, <1>4, <2>1
  <2> QED
    BY <2>2, <2>3, LoopInduction
<1> QED
  BY <1>3, <1>4, <1>9, <1>10 DEF Found

LEMMA ChannelInit == SlotsCounted /\ TunnelPart!Init => ChannelInv
<1> SUFFICES ASSUME SlotsCounted, TunnelPart!Init PROVE ChannelInv
  OBVIOUS
<1>1. tunnel_mem = TunnelPart!Empty /\ tunnel_pc = "top"
  BY DEF TunnelPart!Init
<1>2. TunnelPart!Closed \in SlotRecords
  BY DEF TunnelPart!Closed, SlotRecords
<1>3. <<>> \in Seq(Entries) /\ <<>> \in Seq(Channel) /\ DOMAIN <<>> = {}
  OBVIOUS
<1>4. /\ tunnel_mem \in Mems /\ tunnel_mem.misused = FALSE
      /\ tunnel_mem.count = 0
      /\ tunnel_mem.pending = <<>> /\ tunnel_mem.deferred = <<>>
      /\ \A i \in TunnelPart!Slot : tunnel_mem.slot[i] = TunnelPart!Closed
  <2> HIDE DEF TunnelPart!Closed
  <2> QED
    BY <1>1, <1>2, <1>3 DEF TunnelPart!Empty, Mems
<1>5. TunnelPart!Active(tunnel_mem) = {}
  BY <1>4 DEF TunnelPart!Active, TunnelPart!active, TunnelPart!Closed
<1>6. Held(tunnel_mem) /\ Apart(tunnel_mem) /\ Counted(tunnel_mem)
  <2>1. Held(tunnel_mem) /\ Apart(tunnel_mem)
    BY <1>3, <1>4, <1>5 DEF Held, Apart
  <2>2. Cardinality({}) = 0
    BY FS_EmptySet
  <2> QED
    BY <1>4, <1>5, <2>1, <2>2 DEF Counted
<1> QED
  BY <1>1, <1>4, <1>5, <1>6 DEF ChannelInv, MemInv

LEMMA SessionGivenUp ==
  ASSUME SlotsCounted, NEW m, MemInv(m), TunnelPart!enterErrorState(m)
  PROVE  ChannelInv'
<1>1. PICK lock \in [1 .. 3 -> BOOLEAN], done \in BOOLEAN :
        tunnel_mem' = TunnelPart!torndown(m, lock, done)
  BY DEF TunnelPart!enterErrorState
<1>2. MemInv(tunnel_mem') /\ TunnelPart!Active(tunnel_mem') = {}
  BY <1>1, SessionTornDown
<1>3. MemInv(tunnel_mem)' /\ TunnelPart!Active(tunnel_mem)' = {}
  BY <1>2
  DEF MemInv, Mems, Held, Apart, Counted, TunnelPart!Active, TunnelPart!active
<1> QED
  BY <1>3 DEF ChannelInv, TunnelPart!enterErrorState

LEMMA ChannelStep ==
  SlotsCounted /\ ChannelInv /\ [TunnelPart!Next]_(TunnelPart!vars)
  => ChannelInv'
<1> SUFFICES ASSUME SlotsCounted, ChannelInv,
                    [TunnelPart!Next]_(TunnelPart!vars) PROVE ChannelInv'
  OBVIOUS
<1>1. /\ MemInv(tunnel_mem)
      /\ tunnel_pc # "top" => tunnel_state = "connected"
      /\ tunnel_state # "connected" => TunnelPart!Active(tunnel_mem) = {}
      /\ tunnel_pc \in {"closing", "pending", "deferred"}
         => tunnel_at \in Nat \ {0}
  BY DEF ChannelInv
<1> USE <1>1
\* What is left to show of a step that does not tear the session down.
<1>2. ASSUME MemInv(tunnel_mem'), tunnel_state' = tunnel_state
             \/ tunnel_state' = "connected",
             tunnel_state' # "connected" => tunnel_mem' = tunnel_mem,
             tunnel_pc' # "top" => tunnel_state' = "connected",
             tunnel_pc' \in {"closing", "pending", "deferred"}
             => tunnel_at' \in Nat \ {0}
      PROVE  ChannelInv'
  <2>1. MemInv(tunnel_mem)'
    BY <1>2
    DEF MemInv, Mems, Held, Apart, Counted, TunnelPart!Active,
        TunnelPart!active
  <2>2. tunnel_state' # "connected" => TunnelPart!Active(tunnel_mem)' = {}
    BY <1>2 DEF TunnelPart!Active, TunnelPart!active
  <2> QED
    BY <1>2, <2>1, <2>2 DEF ChannelInv
<1>3. CASE TunnelPart!Connect
  <2>1. tunnel_mem' = tunnel_mem /\ tunnel_pc' = "top"
        /\ tunnel_state' \in {"connected", "error"}
    BY <1>3 DEF TunnelPart!Connect, TunnelPart!connectSSH
  <2>2. TunnelPart!Active(tunnel_mem) = {}
    BY <1>3 DEF TunnelPart!Connect
  <2>3. MemInv(tunnel_mem)' /\ TunnelPart!Active(tunnel_mem)' = {}
    BY <2>1, <2>2
    DEF MemInv, Mems, Held, Apart, Counted, TunnelPart!Active,
        TunnelPart!active
  <2> QED
    BY <2>1, <2>3 DEF ChannelInv
<1>4. ASSUME NEW lock \in [1 .. 3 -> BOOLEAN], NEW done \in BOOLEAN,
             tunnel_mem' = TunnelPart!torndown(tunnel_mem, lock, done),
             tunnel_pc' = "top"
      PROVE  ChannelInv'
  <2>1. MemInv(tunnel_mem') /\ TunnelPart!Active(tunnel_mem') = {}
    BY <1>4, SessionTornDown
  <2>2. MemInv(tunnel_mem)' /\ TunnelPart!Active(tunnel_mem)' = {}
    BY <2>1
    DEF MemInv, Mems, Held, Apart, Counted, TunnelPart!Active,
        TunnelPart!active
  <2> QED
    BY <1>4, <2>2 DEF ChannelInv
<1>5. CASE TunnelPart!disconnect
  BY <1>4, <1>5 DEF TunnelPart!disconnect
<1>6. CASE TunnelPart!handleReconnection
  <2>1. [k \in 1 .. 3 |-> TRUE] \in [1 .. 3 -> BOOLEAN]
    OBVIOUS
  <2> QED
    BY <1>4, <1>6, <2>1 DEF TunnelPart!handleReconnection
<1>7. CASE TunnelPart!loopChecks
  <2>1. \/ TunnelPart!enterErrorState(tunnel_mem)
        \/ tunnel_pc' = "closing" /\ tunnel_at' = 1
           /\ tunnel_mem' = tunnel_mem /\ tunnel_state' = tunnel_state
    BY <1>7 DEF TunnelPart!loopChecks
  <2>2. tunnel_state = "connected"
    BY <1>7 DEF TunnelPart!loopChecks
  <2> QED
    BY <1>2, <2>1, <2>2, SessionGivenUp
<1>8. CASE TunnelPart!acceptNothing
  <2>1. \/ TunnelPart!enterErrorState(tunnel_mem)
        \/ tunnel_pc' = "pump" /\ tunnel_mem' = tunnel_mem
           /\ tunnel_state' = tunnel_state
    BY <1>8 DEF TunnelPart!acceptNothing
  <2>2. tunnel_pc = "accept"
    BY <1>8 DEF TunnelPart!acceptNothing
  <2> QED
    BY <1>2, <2>1, <2>2, SessionGivenUp
<1>9. CASE TunnelPart!acceptChannel
  <2>1. /\ tunnel_state = "connected" /\ tunnel_state' = tunnel_state
        /\ tunnel_pc' \in {"accept", "pump"}
    BY <1>9 DEF TunnelPart!acceptChannel
  <2>2. PICK c \in TunnelPart!Unopened, o \in TunnelPart!Oracle(tunnel_mem) :
          tunnel_mem'
              \in {TunnelPart!placed(Opened(tunnel_mem, c), c, o),
                   TunnelPart!refused(Opened(tunnel_mem, c), c, o)}
    BY <1>9 DEF TunnelPart!acceptChannel, Opened
  <2> DEFINE m == Opened(tunnel_mem, c)
  <2>3. c \in Channel \ tunnel_mem.open
    BY DEF TunnelPart!Unopened
  <2>4. /\ MemInv(m) /\ Unowned(m, c)
        /\ m.slot = tunnel_mem.slot
        /\ TunnelPart!Active(m) = TunnelPart!Active(tunnel_mem)
    BY <2>3, ChannelOpened
  <2> HIDE DEF m
  <2>5. o \in TunnelPart!Oracle(m)
    BY <2>4 DEF TunnelPart!Oracle
  <2>6. MemInv(TunnelPart!placed(m, c, o))
        /\ MemInv(TunnelPart!refused(m, c, o))
    BY <2>3, <2>4, <2>5, ChannelPlaced
  <2>7. MemInv(tunnel_mem')
    BY <2>2, <2>6 DEF m
  <2> QED
    BY <1>2, <2>1, <2>7
<1>10. CASE TunnelPart!pumpAll
  <2>1. tunnel_pc = "pump" /\ tunnel_state = "connected"
    BY <1>10 DEF TunnelPart!pumpAll
  <2>2. PICK f :
          /\ \A i \in TunnelPart!Slot : f[i] \in TunnelPart!Pumps(i)
          /\ \/ TunnelPart!enterErrorState(TunnelPart!pumpSlots(tunnel_mem, f))
             \/ /\ tunnel_mem' = TunnelPart!pumpSlots(tunnel_mem, f)
                /\ tunnel_pc' = "pending" /\ tunnel_at' = 1
                /\ tunnel_state' = tunnel_state
    BY <1>10 DEF TunnelPart!pumpAll
  <2>3. DealsWith(tunnel_mem, f)
    BY <2>2 DEF DealsWith, TunnelPart!Pumps, Dealings
  <2>4. MemInv(TunnelPart!pumpSlots(tunnel_mem, f))
    BY <2>3, SlotsPumped
  <2> QED
    BY <1>2, <2>1, <2>2, <2>4, SessionGivenUp
<1>11. CASE TunnelPart!drainPendingQueue
  <2>1. /\ tunnel_pc = "pending" /\ tunnel_pc' = tunnel_pc
        /\ tunnel_state' = tunnel_state /\ tunnel_at \in Nat \ {0}
        /\ tunnel_at <= Len(tunnel_mem.pending)
        /\ tunnel_at' = tunnel_at + 1
                   - (Len(tunnel_mem.pending) - Len(tunnel_mem'.pending))
    BY <1>11 DEF TunnelPart!drainPendingQueue
  <2>2. Len(tunnel_mem.pending) \in Nat
    BY DEF MemInv, Mems
  <2>3. tunnel_at \in 1 .. Len(tunnel_mem.pending)
    BY <2>1, <2>2
  <2>4. PICK o \in TunnelPart!Oracle(tunnel_mem),
        old \in BOOLEAN : tunnel_mem'
            = TunnelPart!drained(tunnel_mem, tunnel_at, old, o)
    BY <1>11 DEF TunnelPart!drainPendingQueue
  <2>5. /\ MemInv(tunnel_mem')
        /\ Len(tunnel_mem'.pending)
               \in {Len(tunnel_mem.pending), Len(tunnel_mem.pending) - 1}
    BY <2>3, <2>4, EntryDrained
  <2>6. tunnel_at' \in Nat \ {0}
    BY <2>1, <2>2, <2>5
  <2> QED
    BY <1>2, <2>1, <2>5, <2>6
<1>12. CASE TunnelPart!drainDeferredCloseQueue
  <2>1. /\ tunnel_pc \in {"closing", "deferred"} /\ tunnel_pc' = tunnel_pc
        /\ tunnel_state' = tunnel_state
        /\ tunnel_at \in Nat \ {0} /\ tunnel_at <= Len(tunnel_mem.deferred)
    BY <1>12 DEF TunnelPart!drainDeferredCloseQueue
  <2>2. Len(tunnel_mem.deferred) \in Nat
    BY DEF MemInv, Mems
  <2>3. tunnel_at \in 1 .. Len(tunnel_mem.deferred)
        /\ tunnel_state = "connected"
    BY <2>1, <2>2
  <2> DEFINE n == [tunnel_mem EXCEPT !.deferred
                     = TunnelPart!RemoveAt(@, tunnel_at)]
             c == tunnel_mem.deferred[tunnel_at]
  <2>4. MemInv(n) /\ Unowned(n, c)
    BY <2>3, DeferredRemoved
  <2>5. PICK done \in BOOLEAN :
          \/ /\ tunnel_mem'
                    = [TunnelPart!closeAcceptedChannel(tunnel_mem, c, done)
                          EXCEPT !.deferred
                              = TunnelPart!RemoveAt(@, tunnel_at)]
             /\ tunnel_at' = tunnel_at
          \/ tunnel_mem' = tunnel_mem /\ tunnel_at' = tunnel_at + 1
    BY <1>12 DEF TunnelPart!drainDeferredCloseQueue
  <2>6. [TunnelPart!closeAcceptedChannel(tunnel_mem, c,
                                         done) EXCEPT !.deferred
                                             = TunnelPart!RemoveAt(@,
                                                                   tunnel_at)]
          = TunnelPart!Freed(n, c, done)
    <3>1. tunnel_mem \in Mems
      BY DEF MemInv
    <3> HIDE DEF c
    <3> QED
      BY <3>1
      DEF TunnelPart!closeAcceptedChannel, TunnelPart!Freed, TunnelPart!Touch,
          Mems
  <2>7. MemInv(TunnelPart!Freed(n, c, done))
    <3> HIDE DEF n, c
    <3> QED
      BY <2>4, NobodysFreed
  <2>8. MemInv(tunnel_mem') /\ tunnel_at' \in Nat \ {0}
    <3> HIDE DEF n, c
    <3> QED
      BY <2>1, <2>5, <2>6, <2>7
  <2> QED
    BY <1>2, <2>1, <2>3, <2>8
<1>13. CASE TunnelPart!queueDone
  <2>1. /\ tunnel_mem' = tunnel_mem /\ tunnel_state' = tunnel_state
        /\ tunnel_at' = 1 /\ tunnel_pc # "top"
    BY <1>13 DEF TunnelPart!queueDone
  <2> QED
    BY <1>2, <2>1
<1>14. CASE TunnelPart!Tick \/ TunnelPart!linkDies \/ TunnelPart!serverChanges
            \/ UNCHANGED TunnelPart!vars
  <2>1. tunnel_mem' = tunnel_mem /\ tunnel_state' = tunnel_state
        /\ tunnel_pc' = tunnel_pc /\ tunnel_at' = tunnel_at
    BY <1>14
    DEF TunnelPart!Tick, TunnelPart!linkDies, TunnelPart!serverChanges,
        TunnelPart!vars
  <2> QED
    BY <1>2, <2>1
<1> QED
  BY <1>3, <1>5, <1>6, <1>7, <1>8, <1>9, <1>10, <1>11, <1>12, <1>13, <1>14
  DEF TunnelPart!Next, TunnelPart!Loop

LEMMA ChannelPromises ==
  ASSUME SlotsCounted, ChannelInv
  PROVE  TunnelPart!NoUseAfterFree /\ TunnelPart!OneOwner
         /\ TunnelPart!CountsActive
<1>1. ~tunnel_mem.misused /\ Apart(tunnel_mem) /\ Counted(tunnel_mem)
  BY DEF ChannelInv, MemInv
<1>2. TunnelPart!NoUseAfterFree
  BY <1>1 DEF TunnelPart!NoUseAfterFree
<1>3. TunnelPart!CountsActive
  <2>1. tunnel_mem.count
            = TunnelPart!Cardinality(TunnelPart!Active(tunnel_mem))
    BY <1>1, SameCardinality DEF Counted
  <2>2. tunnel_state # "connected"
        => Cardinality(TunnelPart!Active(tunnel_mem)) = 0
    BY FS_EmptySet DEF ChannelInv
  <2> QED
    BY <1>1, <2>1, <2>2 DEF TunnelPart!CountsActive, Counted
<1>4. ASSUME NEW c \in Channel PROVE Cardinality(TunnelPart!Owners(c)) <= 1
  <2>1. ASSUME NEW x \in TunnelPart!Owners(c), NEW y \in TunnelPart!Owners(c)
        PROVE x = y
    <3>1. ASSUME NEW z \in TunnelPart!Owners(c)
          PROVE  \/ \E i \in TunnelPart!Active(tunnel_mem) : z = <<"slot", i>>
                    /\ tunnel_mem.slot[i].ch = c
                 \/ \E k \in DOMAIN tunnel_mem.pending :
                      z = <<"pending", k>> /\ tunnel_mem.pending[k].ch = c
                 \/ \E k \in DOMAIN tunnel_mem.deferred :
                      z = <<"deferred", k>> /\ tunnel_mem.deferred[k] = c
      BY <3>1 DEF TunnelPart!Owners
    <3> QED
      BY <1>1, <3>1 DEF Apart
  <2>2. CASE TunnelPart!Owners(c) = {}
    BY <2>2, FS_EmptySet
  <2>3. CASE TunnelPart!Owners(c) # {}
    <3>1. PICK x \in TunnelPart!Owners(c) : TRUE
      BY <2>3
    <3>2. TunnelPart!Owners(c) = {x}
      BY <2>1, <3>1
    <3>3. Cardinality({x}) = 1
      BY FS_Singleton
    <3> QED
      BY <3>2, <3>3
  <2> QED
    BY <2>2, <2>3
<1>5. TunnelPart!OneOwner
  <2>1. \A c \in Channel : TunnelPart!Cardinality(TunnelPart!Owners(c)) <= 1
    BY <1>4, SameCardinality
  <2> QED
    BY <2>1 DEF TunnelPart!OneOwner, TunnelPart!Cardinality
<1> QED
  BY <1>2, <1>3, <1>5

ChannelsOfPart == part = "tunnel" => ChannelInv

LEMMA ChannelsPartInit == SlotsCounted /\ ProgressInit => ChannelsOfPart
  BY ChannelInit DEF ProgressInit, ChannelsOfPart

LEMMA ChannelsPartNext ==
  SlotsCounted /\ ChannelsOfPart /\ [ProgressNext]_all => ChannelsOfPart'
<1> SUFFICES ASSUME SlotsCounted, ChannelsOfPart, [ProgressNext]_all,
                    part' = "tunnel"
             PROVE  ChannelInv'
  BY DEF ChannelsOfPart
<1>1. part = "tunnel" /\ [TunnelPart!Next]_(TunnelPart!vars)
  BY DEF ProgressNext, Others, all, TunnelPart!vars, tunnel_vars
<1> QED
  BY <1>1, ChannelStep DEF ChannelsOfPart

\* Whatever locks are busy, whatever libssh2 postpones and whenever the session
\* is lost, for any number of slots and any length of the queues: a channel has
\* one owner at most, none is used after it was freed, and activeCount_ is the
\* number of active slots.
THEOREM ChannelsAreOwned ==
  ASSUME SlotsCounted
  PROVE  ProgressSpec => []ChannelsOwned
<1>1. ProgressInit => ChannelsOfPart
  BY ChannelsPartInit
<1>2. ChannelsOfPart /\ [ProgressNext]_all => ChannelsOfPart'
  BY ChannelsPartNext
<1>3. ChannelsOfPart => ChannelsOwned
  BY ChannelPromises DEF ChannelsOfPart, ChannelsOwned
<1> QED
  BY <1>1, <1>2, <1>3, PTL DEF ProgressSpec
=============================================================================
