----------------------------- MODULE CredStore ------------------------------
(***************************************************************************)
(* The credential store of the box: class CredStorage of pass_store.cpp.   *)
(*                                                                         *)
(* The credentials are a doubly linked list of records in the flash        *)
(* key-value store (NVS), between a head record with key 0 and a tail      *)
(* record with key 0xffffffff whose nextId is the next free identifier.    *)
(* Adding or removing one takes three NVS writes.  The box can lose power  *)
(* between any two of them; at the next start garbageCollect() walks the   *)
(* chain, repairs what an interrupted operation left behind and wipes the  *)
(* pool when it cannot.                                                    *)
(*                                                                         *)
(* Operations are called by two tasks that share the object without a      *)
(* lock: the AsyncTCP task (the "set credential" request of the web UI)    *)
(* and the Arduino loop task (a used credential is decremented or removed, *)
(* and the cache is refreshed after a time synchronisation).  An operation *)
(* reads the records it needs in one step here and then does its writes    *)
(* one at a time.                                                          *)
(***************************************************************************)
EXTENDS Naturals, FiniteSets

CONSTANTS
  LAST_KEY,            (* key of the tail record, 0xffffffff in the code    *)
  CRED_GC_MAX_SCAN_ID, (* most records the repair walks, 4096 in the code   *)
  MaxCreds,            (* credentials the NVS partition has room for        *)
  Idents,              (* name, type and secret of a credential             *)
  Attrs,               (* door, validity interval and uses left             *)
  ValidData,           (* the credentials validateCred() accepts            *)
  ActiveData,          (* the credentials isActive() lets into the cache    *)
  Serialized,          (* TRUE: the two tasks never overlap two operations  *)
  CrashAnywhere,       (* FALSE: restarts only happen between operations    *)
  MaxFaults,           (* NVS writes, erases and clears that may fail       *)
  NoRec,               (* value of a key that is not in NVS                 *)
  Legacy,              (* a record of the old, smaller format               *)
  NoData               (* content of a sentinel, or of no cache entry       *)

FIRST_KEY == 0
Keys == FIRST_KEY .. LAST_KEY
RealIds == Keys \ {FIRST_KEY, LAST_KEY}
Data == [ident : Idents, attr : Attrs]
Tasks == {"web", "loop"}

ASSUME ConstantsAssumption ==
  /\ LAST_KEY \in Nat /\ LAST_KEY > 1
  /\ MaxCreds \in Nat /\ CRED_GC_MAX_SCAN_ID \in Nat
  /\ MaxCreds < CRED_GC_MAX_SCAN_ID
  /\ ValidData \subseteq Data /\ ActiveData \subseteq ValidData
  /\ NoData \notin Data
  /\ Serialized \in BOOLEAN /\ CrashAnywhere \in BOOLEAN
  /\ MaxFaults \in Nat

\* struct CredRecord; the head and tail carry no credential.
CredRecord == [credId : Keys, prevId : Keys, nextId : Keys,
               data : Data \union {NoData}]

ASSUME NotARecordAssumption ==
  NoRec # Legacy /\ NoRec \notin CredRecord /\ Legacy \notin CredRecord

VARIABLES
  nvs,    (* the flash: each key's record, NoRec or Legacy                  *)
  cache,  (* credsCache: the content cached for each identifier             *)
  op,     (* each task's operation: where it is and the records it holds    *)
  boot,   (* begin(): where it is, the record and the step of its walk, and *)
          (* the faults there had been when it started                      *)
  faults, (* NVS operations that have failed so far                         *)
  acked   (* identifiers addCred() returned and nobody has removed since    *)

vars == <<nvs, cache, op, boot, faults, acked>>

Blank == [credId |-> FIRST_KEY, prevId |-> FIRST_KEY, nextId |-> FIRST_KEY,
          data |-> NoData]
Idle == [pc |-> "idle", cred |-> Blank, prev |-> Blank, next |-> Blank]

OpSteps == {"idle", "insertPrev", "insertCred", "insertTail", "update",
            "removePrev", "removeCred", "removeNext", "refresh"}
BootSteps == {"off", "ensure", "clear", "head", "tail", "walk", "relink",
              "cache", "up"}

TypeOK ==
  /\ nvs \in [Keys -> CredRecord \union {NoRec, Legacy}]
  /\ cache \in [RealIds -> Data \union {NoData}]
  /\ op \in [Tasks -> [pc : OpSteps, cred : CredRecord, prev : CredRecord,
                       next : CredRecord]]
  /\ boot \in [pc : BootSteps, then : {"ensure", "cache"}, cur : Keys,
               next : CredRecord, steps : 0 .. CRED_GC_MAX_SCAN_ID,
               seen : 0 .. MaxFaults]
  /\ faults \in 0 .. MaxFaults
  /\ acked \in SUBSET RealIds

-----------------------------------------------------------------------------
(***************************************************************************)
(* Reads and writes of NVS.                                                *)
(***************************************************************************)

\* readData(): the key holds a record of the current format.
Readable(k) == nvs[k] \notin {NoRec, Legacy}

Present == {k \in Keys : Readable(k)}

\* prefs.putBytes() and prefs.remove() succeed or fail.
Outcomes == IF faults < MaxFaults THEN BOOLEAN ELSE {TRUE}

\* writeData(): a record is stored under its own identifier.
writeData(rec, ok) ==
  /\ nvs' = IF ok THEN [nvs EXCEPT ![rec.credId] = rec] ELSE nvs
  /\ faults' = IF ok THEN faults ELSE faults + 1

removeKey(k, ok) ==
  /\ nvs' = IF ok THEN [nvs EXCEPT ![k] = NoRec] ELSE nvs
  /\ faults' = IF ok THEN faults ELSE faults + 1

verifyLocalChain(k) ==
  /\ Readable(k)
  /\ \/ nvs[k].credId \in {FIRST_KEY, LAST_KEY}
     \/ /\ Readable(nvs[k].prevId) /\ Readable(nvs[k].nextId)
        /\ nvs[nvs[k].prevId].nextId = nvs[k].credId
        /\ nvs[nvs[k].nextId].prevId = nvs[k].credId

isStoredCredValid(rec) == rec.data \in ValidData

Step(t, pc) == op' = [op EXCEPT ![t].pc = pc]
Return(t) == op' = [op EXCEPT ![t] = Idle]

\* A task starts an operation when it has none; no lock keeps the other task
\* out, so that overlap is excluded only when Serialized says so.
MayStart(t) ==
  /\ boot.pc = "up"
  /\ op[t].pc = "idle"
  /\ Serialized => \A s \in Tasks : op[s].pc = "idle"

-----------------------------------------------------------------------------
(***************************************************************************)
(* addCred(): link the last record to the new one, write the new one, then *)
(* move the tail.  Only the result of the last write is looked at.         *)
(***************************************************************************)
\* Mutant: the next free identifier is counted on by two.
addCredSkipsId(d) ==
  LET last == nvs[LAST_KEY]
      new  == last.nextId
  IN  /\ MayStart("web")
      /\ d \in ValidData
      /\ Readable(LAST_KEY) /\ Readable(last.prevId)
      /\ new < LAST_KEY
      /\ Cardinality(Present \ {FIRST_KEY, LAST_KEY}) < MaxCreds
      /\ op' = [op EXCEPT !["web"] =
                  [pc   |-> "insertPrev",
                   prev |-> [nvs[last.prevId] EXCEPT !.nextId = new],
                   cred |-> [credId |-> new, prevId |-> last.prevId,
                             nextId |-> LAST_KEY, data |-> d],
                   next |-> [last EXCEPT !.nextId = new + 2, !.prevId = new]]]
      /\ UNCHANGED <<nvs, cache, boot, faults, acked>>

addCred(d) ==
  LET last == nvs[LAST_KEY]
      new  == last.nextId
  IN  /\ MayStart("web")
      /\ d \in ValidData
      /\ Readable(LAST_KEY) /\ Readable(last.prevId)
      /\ new < LAST_KEY                                  \* bound of the model
      /\ Cardinality(Present \ {FIRST_KEY, LAST_KEY}) < MaxCreds
      /\ op' = [op EXCEPT !["web"] =
                  [pc   |-> "insertPrev",
                   prev |-> [nvs[last.prevId] EXCEPT !.nextId = new],
                   cred |-> [credId |-> new, prevId |-> last.prevId,
                             nextId |-> LAST_KEY, data |-> d],
                   next |-> [last EXCEPT !.nextId = new + 1, !.prevId = new]]]
      /\ UNCHANGED <<nvs, cache, boot, faults, acked>>

insertPrev(t) ==
  /\ op[t].pc = "insertPrev"
  /\ \E ok \in Outcomes : writeData(op[t].prev, ok)
  /\ Step(t, "insertCred")
  /\ UNCHANGED <<cache, boot, acked>>

insertCred(t) ==
  /\ op[t].pc = "insertCred"
  /\ \E ok \in Outcomes : writeData(op[t].cred, ok)
  /\ Step(t, "insertTail")
  /\ UNCHANGED <<cache, boot, acked>>

\* The identifier is returned, and cached, when the tail was written.
insertTail(t) ==
  LET new == op[t].cred
  IN  /\ op[t].pc = "insertTail"
      /\ \E ok \in Outcomes :
           /\ writeData(op[t].next, ok)
           /\ cache' = IF ok THEN [cache EXCEPT ![new.credId] = new.data]
                             ELSE cache
           /\ acked' = IF ok THEN acked \union {new.credId} ELSE acked
      /\ Return(t)
      /\ UNCHANGED boot

-----------------------------------------------------------------------------
(***************************************************************************)
(* updateCred(): one write; name, type and secret must be the stored ones. *)
(***************************************************************************)
Updatable(id, d) ==
  /\ Readable(id)
  /\ nvs[id].data # NoData /\ nvs[id].data.ident = d.ident

updateCred(t, id, d) ==
  /\ MayStart(t)
  /\ d \in ValidData
  /\ Updatable(id, d)
  /\ verifyLocalChain(id)
  /\ op' = [op EXCEPT ![t] = [Idle EXCEPT
              !.pc = "update", !.cred = [nvs[id] EXCEPT !.data = d]]]
  /\ UNCHANGED <<nvs, cache, boot, faults, acked>>

updateWrite(t) ==
  LET rec == op[t].cred
  IN  /\ op[t].pc = "update"
      /\ \E ok \in Outcomes :
           /\ writeData(rec, ok)
           /\ cache' = IF ok THEN [cache EXCEPT ![rec.credId] = rec.data]
                             ELSE cache
      /\ Return(t)
      /\ UNCHANGED <<boot, acked>>

-----------------------------------------------------------------------------
(***************************************************************************)
(* removeCred(): bypass the record, erase it, then link its successor      *)
(* back.  No result is looked at.                                          *)
(***************************************************************************)
removeCred(t, id, ident) ==
  LET rec == nvs[id]
  IN  /\ MayStart(t)
      /\ Readable(id)
      /\ verifyLocalChain(id)
      /\ rec.data # NoData /\ rec.data.ident = ident
      /\ Readable(rec.prevId) /\ Readable(rec.nextId)
      /\ op' = [op EXCEPT ![t] =
                  [pc   |-> "removePrev",
                   cred |-> rec,
                   prev |-> [nvs[rec.prevId] EXCEPT !.nextId = rec.nextId],
                   next |-> [nvs[rec.nextId] EXCEPT !.prevId = rec.prevId]]]
      /\ UNCHANGED <<nvs, cache, boot, faults, acked>>

\* Mutant: the record is erased before it is bypassed.
removeEraseFirst(t) ==
  /\ op[t].pc = "removePrev"
  /\ \E ok \in Outcomes : removeKey(op[t].cred.credId, ok)
  /\ acked' = acked \ {op[t].cred.credId}
  /\ Step(t, "removeCred")
  /\ UNCHANGED <<cache, boot>>

\* From this write on the removal is completed, if need be by the repair.
removePrev(t) ==
  /\ op[t].pc = "removePrev"
  /\ \E ok \in Outcomes : writeData(op[t].prev, ok)
  /\ acked' = acked \ {op[t].cred.credId}
  /\ Step(t, "removeCred")
  /\ UNCHANGED <<cache, boot>>

removeErase(t) ==
  /\ op[t].pc = "removeCred"
  /\ \E ok \in Outcomes : removeKey(op[t].cred.credId, ok)
  /\ Step(t, "removeNext")
  /\ UNCHANGED <<cache, boot, acked>>

\* Mutant: the removed credential stays in the cache.
removeNextKeepsCache(t) ==
  /\ op[t].pc = "removeNext"
  /\ \E ok \in Outcomes : writeData(op[t].next, ok)
  /\ Return(t)
  /\ UNCHANGED <<cache, boot, acked>>

removeNext(t) ==
  /\ op[t].pc = "removeNext"
  /\ \E ok \in Outcomes : writeData(op[t].next, ok)
  /\ cache' = [cache EXCEPT ![op[t].cred.credId] = NoData]
  /\ Return(t)
  /\ UNCHANGED <<boot, acked>>

-----------------------------------------------------------------------------
(***************************************************************************)
(* rebuildCache(): from the head along nextId, caching active credentials, *)
(* up to the tail or to a key that cannot be read.                         *)
(***************************************************************************)

\* The record at key k enters the cache if it is active.
Cached(k) ==
  IF k \in RealIds /\ Readable(k) /\ nvs[k].data \in ActiveData
    THEN [cache EXCEPT ![k] = nvs[k].data]
    ELSE cache

WalkEnds(k) == k = LAST_KEY \/ ~Readable(k)

NoCache == [i \in RealIds |-> NoData]

\* refreshCache(), called by loop() after a time synchronisation.
refreshCache ==
  /\ MayStart("loop")
  /\ cache' = NoCache
  /\ op' = [op EXCEPT !["loop"] = [Idle EXCEPT !.pc = "refresh"]]
  /\ UNCHANGED <<nvs, boot, faults, acked>>

refreshStep ==
  LET k == op["loop"].cred.nextId
  IN  /\ op["loop"].pc = "refresh"
      /\ cache' = Cached(k)
      /\ IF WalkEnds(k)
           THEN Return("loop")
           ELSE op' = [op EXCEPT !["loop"].cred.nextId = nvs[k].nextId]
      /\ UNCHANGED <<nvs, boot, faults, acked>>

-----------------------------------------------------------------------------
(***************************************************************************)
(* begin(): setup() runs it before any other task uses the store.          *)
(***************************************************************************)
GoTo(pc) == boot' = [boot EXCEPT !.pc = pc]
RunReset == boot' = [boot EXCEPT !.pc = "clear", !.then = "cache"]

\* Power fails, or the box restarts: memory is lost, NVS is not.
Crash ==
  /\ IF CrashAnywhere
       THEN boot.pc # "off"
       ELSE boot.pc = "up" /\ \A t \in Tasks : op[t].pc \in {"idle", "refresh"}
  /\ boot' = [boot EXCEPT !.pc = "off"]
  /\ op' = [t \in Tasks |-> Idle]
  /\ cache' = NoCache
  /\ UNCHANGED <<nvs, faults, acked>>

\* A pool of the old record format is discarded.
begin ==
  /\ boot.pc = "off"
  /\ boot' = [boot EXCEPT !.seen = faults, !.then = "ensure",
                !.pc = IF nvs[FIRST_KEY] = Legacy THEN "clear" ELSE "ensure"]
  /\ UNCHANGED <<nvs, cache, op, faults, acked>>

\* A sentinel is missing: start from an empty pool.  Otherwise walk the chain.
ensurePool ==
  /\ boot.pc = "ensure"
  /\ IF /\ Readable(FIRST_KEY) /\ Readable(LAST_KEY)
        /\ nvs[FIRST_KEY].credId = FIRST_KEY /\ nvs[LAST_KEY].credId = LAST_KEY
       THEN boot' = [boot EXCEPT !.pc = "walk", !.cur = FIRST_KEY, !.steps = 0]
       ELSE RunReset
  /\ UNCHANGED <<nvs, cache, op, faults, acked>>

\* resetPool(): prefs.clear() erases key after key, in any order.
resetErase ==
  /\ boot.pc = "clear"
  /\ \E k \in Keys : nvs[k] # NoRec /\ removeKey(k, TRUE)
  /\ UNCHANGED <<cache, op, boot, acked>>

resetCleared ==
  /\ boot.pc = "clear"
  /\ \/ (\A k \in Keys : nvs[k] = NoRec) /\ faults' = faults
     \/ FALSE \in Outcomes /\ faults' = faults + 1
  /\ GoTo("head")
  /\ UNCHANGED <<nvs, cache, op, acked>>

resetHead ==
  /\ boot.pc = "head"
  /\ \E ok \in Outcomes :
       writeData([credId |-> FIRST_KEY, prevId |-> FIRST_KEY,
                  nextId |-> LAST_KEY, data |-> NoData], ok)
  /\ GoTo("tail")
  /\ UNCHANGED <<cache, op, acked>>

resetTail ==
  /\ boot.pc = "tail"
  /\ \E ok \in Outcomes :
       writeData([credId |-> LAST_KEY, prevId |-> FIRST_KEY, nextId |-> 1,
                  data |-> NoData], ok)
  /\ boot' = [boot EXCEPT !.pc = boot.then, !.cur = FIRST_KEY]
  /\ cache' = NoCache
  /\ UNCHANGED <<op, acked>>

-----------------------------------------------------------------------------
(***************************************************************************)
(* repairCredChain(): one action per way an iteration of its loop can end. *)
(* Nothing else writes NVS meanwhile: the copies the code keeps of the     *)
(* current, next and tail records are the stored ones, except for the next *)
(* record once a bypassed record was erased.                               *)
(***************************************************************************)
Current == nvs[boot.cur]
NextRec == IF boot.pc = "relink" THEN boot.next ELSE nvs[Current.nextId]

\* The walk goes on from the current record: the loop bound is not reached
\* and its successor is not the head nor the record itself.
Walking ==
  /\ boot.pc = "walk"
  /\ boot.steps < CRED_GC_MAX_SCAN_ID
  /\ Current.nextId \notin {FIRST_KEY, boot.cur}

\* The successor is a record that may be in a chain.
Sound ==
  /\ Readable(Current.nextId)
  /\ NextRec.credId = Current.nextId
  /\ Current.nextId \in RealIds => isStoredCredValid(NextRec)

\* The successor does not point back to the current record.
Gap == NextRec.prevId # boot.cur

UnfinishedInsert == NextRec.prevId = Current.prevId /\ Current.nextId = LAST_KEY

\* Only the first write of an insertion was done: undo it.
rollbackInsert ==
  /\ Walking /\ ~Readable(Current.nextId)
  /\ boot.cur = nvs[LAST_KEY].prevId
  /\ \E ok \in Outcomes : writeData([Current EXCEPT !.nextId = LAST_KEY], ok)
  /\ boot' = [boot EXCEPT !.pc = "cache", !.cur = FIRST_KEY]
  /\ UNCHANGED <<cache, op, acked>>

\* Mutant: the next free identifier is left as it was.
redoInsertKeepsNextId ==
  /\ Walking /\ Sound /\ Gap /\ UnfinishedInsert
  /\ \E ok \in Outcomes : writeData([nvs[LAST_KEY] EXCEPT !.prevId = boot.cur], ok)
  /\ boot' = [boot EXCEPT !.pc = "cache", !.cur = FIRST_KEY]
  /\ UNCHANGED <<cache, op, acked>>

\* Two writes of an insertion were done: do the third.
redoInsert ==
  /\ Walking /\ Sound /\ Gap /\ UnfinishedInsert
  /\ \E ok \in Outcomes :
       writeData([nvs[LAST_KEY] EXCEPT !.prevId = boot.cur,
                                       !.nextId = boot.cur + 1], ok)
  /\ boot' = [boot EXCEPT !.pc = "cache", !.cur = FIRST_KEY]
  /\ UNCHANGED <<cache, op, acked>>

\* Mutant: an unfinished insertion is taken for a removal.
redoRemovalOfInsert ==
  /\ Walking /\ Sound /\ Gap
  /\ Readable(NextRec.prevId) /\ nvs[NextRec.prevId].credId = NextRec.prevId
  /\ \E ok \in Outcomes : removeKey(NextRec.prevId, ok)
  /\ boot' = [boot EXCEPT !.pc = "relink", !.next = NextRec]
  /\ UNCHANGED <<cache, op, acked>>

\* One write of a removal was done: erase the bypassed record.
redoRemoval ==
  /\ Walking /\ Sound /\ Gap /\ ~UnfinishedInsert
  /\ Readable(NextRec.prevId) /\ nvs[NextRec.prevId].credId = NextRec.prevId
  /\ \E ok \in Outcomes : removeKey(NextRec.prevId, ok)
  /\ boot' = [boot EXCEPT !.pc = "relink", !.next = NextRec]
  /\ UNCHANGED <<cache, op, acked>>

\* The bypassed record is gone: link its successor back.
relinkNext ==
  /\ boot.pc = "relink" \/ (Walking /\ Sound /\ Gap /\ ~UnfinishedInsert)
  /\ ~Readable(NextRec.prevId)
  /\ \E ok \in Outcomes : writeData([NextRec EXCEPT !.prevId = boot.cur], ok)
  /\ boot' = [boot EXCEPT !.pc = "cache", !.cur = FIRST_KEY]
  /\ UNCHANGED <<cache, op, acked>>

walkOn ==
  /\ Walking /\ Sound /\ ~Gap
  /\ boot' = IF Current.nextId = LAST_KEY
               THEN [boot EXCEPT !.pc = "cache", !.cur = FIRST_KEY]
               ELSE [boot EXCEPT !.cur = Current.nextId, !.steps = @ + 1]
  /\ UNCHANGED <<nvs, cache, op, faults, acked>>

\* What repairCredChain() takes for damage it cannot repair.
Hopeless ==
  \/ boot.pc = "walk" /\ ~Walking
  \/ Walking /\ ~Readable(Current.nextId) /\ boot.cur # nvs[LAST_KEY].prevId
  \/ Walking /\ Readable(Current.nextId) /\ ~Sound
  \/ boot.pc = "relink" /\ Readable(NextRec.prevId)

\* Mutant: the damage is ignored.
giveUpSilently ==
  /\ Hopeless
  /\ boot' = [boot EXCEPT !.pc = "cache", !.cur = FIRST_KEY]
  /\ UNCHANGED <<nvs, cache, op, faults, acked>>

\* The chain cannot be repaired: the whole pool is reset.
giveUp ==
  /\ Hopeless
  /\ RunReset
  /\ UNCHANGED <<nvs, cache, op, faults, acked>>

\* Mutant: the walk that fills the cache does not move on.
bootCacheStays ==
  /\ boot.pc = "cache"
  /\ cache' = Cached(boot.cur)
  /\ IF WalkEnds(boot.cur) THEN GoTo("up") ELSE UNCHANGED boot
  /\ UNCHANGED <<nvs, op, faults, acked>>

bootCache ==
  /\ boot.pc = "cache"
  /\ cache' = Cached(boot.cur)
  /\ boot' = IF WalkEnds(boot.cur) THEN [boot EXCEPT !.pc = "up"]
                                   ELSE [boot EXCEPT !.cur = Current.nextId]
  /\ UNCHANGED <<nvs, op, faults, acked>>

-----------------------------------------------------------------------------
Init ==
  /\ \/ nvs = [k \in Keys |-> NoRec]
     \/ nvs = [k \in Keys |-> IF k \in {FIRST_KEY, 1, LAST_KEY} THEN Legacy
                                                                ELSE NoRec]
  /\ cache = NoCache
  /\ op = [t \in Tasks |-> Idle]
  /\ boot = [pc |-> "off", then |-> "ensure", cur |-> FIRST_KEY,
             next |-> Blank, steps |-> 0, seen |-> 0]
  /\ faults = 0
  /\ acked = {}

Requests ==
  \/ \E d \in Data : addCred(d)
  \/ \E t \in Tasks, id \in Keys, d \in Data : updateCred(t, id, d)
  \/ \E t \in Tasks, id \in Keys, ident \in Idents : removeCred(t, id, ident)
  \/ refreshCache

TaskStep(t) ==
  \/ insertPrev(t) \/ insertCred(t) \/ insertTail(t)
  \/ updateWrite(t)
  \/ removePrev(t) \/ removeErase(t) \/ removeNext(t)

BootStep ==
  \/ begin \/ ensurePool
  \/ resetErase \/ resetCleared \/ resetHead \/ resetTail
  \/ rollbackInsert \/ redoInsert \/ redoRemoval \/ relinkNext
  \/ walkOn \/ giveUp \/ bootCache

Next ==
  \/ Requests
  \/ \E t \in Tasks : TaskStep(t)
  \/ refreshStep
  \/ BootStep
  \/ Crash

Spec == Init /\ [][Next]_vars

\* begin() and an operation a task has started run on without waiting for
\* anything; requests and power failures are up to the world outside.
FairSpec ==
  /\ Spec
  /\ WF_vars(BootStep)
  /\ WF_vars(refreshStep)
  /\ \A t \in Tasks : WF_vars(TaskStep(t))

-----------------------------------------------------------------------------
(***************************************************************************)
(* Properties.                                                             *)
(***************************************************************************)

\* Neither an operation nor the repair is under way.
Quiet ==
  /\ boot.pc \in {"cache", "up"}
  /\ \A t \in Tasks : op[t].pc \in {"idle", "refresh"}

\* j is the first identifier after i in S.
Adjacent(S, i, j) ==
  i \in S /\ j \in S /\ i < j /\ \A k \in S : k <= i \/ j <= k

\* The records of S are one list, sorted by identifier and linked both ways
\* from head to tail.
Chained(S) ==
  /\ {FIRST_KEY, LAST_KEY} \subseteq S /\ S \subseteq Present
  /\ \A k \in S \ {LAST_KEY} : Adjacent(S, k, nvs[k].nextId)
  /\ \A k \in S \ {FIRST_KEY} : Adjacent(S, nvs[k].prevId, k)

\* The chain of pass_store.cpp:9-18, whenever nothing is under way: all the
\* records in NVS form one list, and the tail's next free identifier is above
\* all of theirs.  An interrupted operation may neither break the list nor
\* leave a record outside of it.
WellChained ==
  Quiet =>
    /\ Chained(Present)
    /\ \A k \in Present \ {LAST_KEY} : k < nvs[LAST_KEY].nextId

\* The record of i is stored and another one links to it: i is part of the
\* pool, now and after any crash.
Committed(i) ==
  Readable(i) /\ \E p \in Present \ {LAST_KEY} : nvs[p].nextId = i

\* Once addCred() has returned an identifier the credential is in the pool
\* until somebody removes it, through crashes at any write and crashes in the
\* repair itself.
Durable == \A i \in acked : Committed(i)

\* When no operation is under way the cache agrees with NVS: whatever it
\* holds is the stored content, and it holds every active credential.
CacheCoherent ==
  (boot.pc = "up" /\ \A t \in Tasks : op[t].pc = "idle") =>
    \A i \in RealIds :
      /\ cache[i] # NoData => Committed(i) /\ cache[i] = nvs[i].data
      /\ Committed(i) /\ nvs[i].data \in ActiveData => cache[i] = nvs[i].data

\* The pool an observer would find after a restart.
PoolOf == [i \in RealIds |-> IF Committed(i) THEN nvs[i].data ELSE NoData]

LastIssued ==
  IF ~Readable(LAST_KEY) THEN 0
  ELSE LET free == nvs[LAST_KEY].nextId
       IN  IF free \in RealIds /\ Readable(free) THEN free ELSE free - 1

Pool == INSTANCE CredPool WITH pool <- PoolOf, lastId <- LastIssued

\* CredStorage implements CredPool: an addition takes effect with the second
\* of its writes and a removal with the first, and every other write, crash
\* and repair leaves the pool as it was.
AtomicPool == Pool!Spec

\* The keys a walk along nextId from the head comes to.
Reachable ==
  {k \in Keys : \A S \in SUBSET Keys :
     (FIRST_KEY \in S /\ \A j \in S \ {LAST_KEY} :
                           Readable(j) => nvs[j].nextId \in S) => k \in S}

\* A write that failed is healed by the next start: when begin() completes and
\* no write of its own failed, the list from head to tail is linked both ways
\* again - shortened, or emptied, but never left for addCred(), removeCred()
\* and rebuildCache() to stumble over.
Healed ==
  (boot.pc = "cache" /\ boot.seen = faults) =>
    Chained(Reachable)

\* The repair ends: if power failures cease, begin() completes and the store
\* stays up, whatever the last failure interrupted.
EventuallyUp == <>[][boot'.pc # "off"]_vars => <>[](boot.pc = "up")

=============================================================================
