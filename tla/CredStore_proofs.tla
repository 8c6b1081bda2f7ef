-------------------------- MODULE CredStore_proofs --------------------------
(***************************************************************************)
(* Proofs about CredStore, for any number of identifiers and credentials,  *)
(* when one operation runs at a time and NVS does what it is told, but     *)
(* power may fail between any two writes: the list is whole whenever       *)
(* nothing is under way, what addCred() has returned stays, the cache      *)
(* agrees with NVS, and the store implements CredPool.                     *)
(***************************************************************************)
EXTENDS CredStore, FiniteSetTheorems, TLAPS

\* The environment of the run credstore_crash.
OneAtATime == Serialized /\ MaxFaults = 0

-----------------------------------------------------------------------------
(***************************************************************************)
(* The shapes NVS can be in, v being its content.  An operation takes it   *)
(* through the unfinished ones, and a power failure may leave it there.    *)
(***************************************************************************)
Stored(v) == {k \in Keys : v[k] \notin {NoRec, Legacy}}
Real(S) == S \ {FIRST_KEY, LAST_KEY}

\* The record with the links p and n, and the identifier and content of old.
Relinks(rec, old, p, n) ==
  /\ rec \in CredRecord
  /\ rec.credId = old.credId /\ rec.data = old.data
  /\ rec.prevId = p /\ rec.nextId = n

\* Each record is filed under its own identifier, with the content that the
\* place in the list calls for.
Filed(v) ==
  /\ v \in [Keys -> CredRecord \union {NoRec, Legacy}]
  /\ {FIRST_KEY, LAST_KEY} \subseteq Stored(v)
  /\ \A k \in Stored(v) : v[k].credId = k
  /\ \A k \in Real(Stored(v)) : v[k].data \in ValidData
  /\ v[FIRST_KEY].data = NoData /\ v[LAST_KEY].data = NoData
  /\ v[FIRST_KEY].prevId = FIRST_KEY
  /\ Cardinality(Real(Stored(v))) <= MaxCreds

\* The links from the keys K, forward and back, follow the order of S.
Forward(v, S, K) == \A k \in K : Adjacent(S, k, v[k].nextId)
Backward(v, S, K) == \A k \in K : Adjacent(S, v[k].prevId, k)

\* The next free identifier is above all that are in use.
Above(v, S) == \A k \in S \ {LAST_KEY} : k < v[LAST_KEY].nextId

\* Nothing is unfinished.
Clean(v) ==
  LET S == Stored(v)
  IN  /\ Filed(v) /\ Above(v, S)
      /\ Forward(v, S, S \ {LAST_KEY}) /\ Backward(v, S, S \ {FIRST_KEY})

\* The last record p links to n, which has not been written yet.
Announced(v, p, n) ==
  LET S == Stored(v)
  IN  /\ Filed(v) /\ Above(v, S)
      /\ p = v[LAST_KEY].prevId /\ n = v[LAST_KEY].nextId
      /\ n < LAST_KEY /\ n \notin S /\ p \in S /\ v[p].nextId = n
      /\ Cardinality(Real(S)) < MaxCreds
      /\ Forward(v, S, S \ {LAST_KEY, p}) /\ Backward(v, S, S \ {FIRST_KEY})

\* n is written behind p, but the tail does not know it.
Inserted(v, p, n) ==
  LET S == Stored(v)
  IN  /\ Filed(v)
      /\ p = v[LAST_KEY].prevId /\ n = v[LAST_KEY].nextId
      /\ n \in Real(S) /\ v[n].prevId = p /\ v[n].nextId = LAST_KEY
      /\ Forward(v, S, S \ {LAST_KEY}) /\ Backward(v, S, S \ {FIRST_KEY, LAST_KEY})

\* r is still stored between p and q, but p links to q.
Bypassed(v, p, r, q) ==
  LET S == Stored(v)
      L == S \ {r}
  IN  /\ Filed(v) /\ Above(v, S)
      /\ r \in Real(S) /\ v[r].prevId = p /\ v[r].nextId = q
      /\ Adjacent(S, p, r) /\ Adjacent(S, r, q)
      /\ v[q].prevId = r
      /\ Forward(v, L, L \ {LAST_KEY}) /\ Backward(v, L, L \ {FIRST_KEY, q})

\* r is erased, but q links back to it.
Erased(v, p, r, q) ==
  LET S == Stored(v)
  IN  /\ Filed(v) /\ Above(v, S)
      /\ r \in RealIds \ S /\ p < r /\ r < q
      /\ Adjacent(S, p, q) /\ v[q].prevId = r
      /\ Forward(v, S, S \ {LAST_KEY}) /\ Backward(v, S, S \ {FIRST_KEY, q})

\* The credentials of the pool: stored, and linked to by another record.
Members(v) ==
  {i \in RealIds : i \in Stored(v) /\ \E p \in Stored(v) \ {LAST_KEY} : v[p].nextId = i}

\* What the repair can mend from the record c on.
Repairable(v, c) ==
  \/ Clean(v)
  \/ \E p, n \in Keys : Announced(v, p, n) \/ Inserted(v, p, n)
  \/ \E p, r, q \in Keys : (Bypassed(v, p, r, q) \/ Erased(v, p, r, q)) /\ c < r

HeadRec == [credId |-> FIRST_KEY, prevId |-> FIRST_KEY, nextId |-> LAST_KEY, data |-> NoData]
TailRec == [credId |-> LAST_KEY, prevId |-> FIRST_KEY, nextId |-> 1, data |-> NoData]

\* No pool yet: nothing but perhaps the head.
NoPool(v) ==
  /\ v \in [Keys -> CredRecord \union {NoRec, Legacy}]
  /\ Stored(v) \subseteq {FIRST_KEY}

-----------------------------------------------------------------------------
(***************************************************************************)
(* The inductive invariant.                                                *)
(***************************************************************************)

\* The cache c agrees with the content v on the identifiers I.
Agrees(v, c, I) ==
  \A i \in I :
    /\ c[i] # NoData => i \in Stored(v) /\ c[i] = v[i].data
    /\ i \in Stored(v) /\ v[i].data \in ActiveData => c[i] = v[i].data

\* A walk that fills the cache c has come to k.
CachedUpTo(v, c, k) ==
  /\ k \in Stored(v)
  /\ Agrees(v, c, {i \in RealIds : i < k})
  /\ \A i \in RealIds : k <= i => c[i] = NoData

\* What an operation holds fits the shape NVS is in.
Inserting(o) ==
  LET n == o.cred.credId
      p == o.cred.prevId
  IN  /\ o.pc \in {"insertPrev", "insertCred", "insertTail"}
      /\ Agrees(nvs, cache, RealIds \ {n})
      /\ n \in RealIds /\ n = nvs[LAST_KEY].nextId /\ p = nvs[LAST_KEY].prevId
      /\ o.cred.nextId = LAST_KEY /\ o.cred.data \in ValidData
      /\ Relinks(o.next, nvs[LAST_KEY], n, n + 1)
      /\ o.pc = "insertPrev" =>
           /\ Clean(nvs) /\ Cardinality(Real(Stored(nvs))) < MaxCreds
           /\ Relinks(o.prev, nvs[p], nvs[p].prevId, n)
      /\ o.pc = "insertCred" => Announced(nvs, p, n)
      /\ o.pc = "insertTail" => Inserted(nvs, p, n) /\ nvs[n].data = o.cred.data

Updating(o) ==
  LET k == o.cred.credId
  IN  /\ o.pc = "update"
      /\ Agrees(nvs, cache, RealIds \ {k})
      /\ Clean(nvs) /\ k \in Real(Stored(nvs))
      /\ o.cred.data \in ValidData /\ o.cred.data.ident = nvs[k].data.ident
      /\ o.cred.prevId = nvs[k].prevId /\ o.cred.nextId = nvs[k].nextId

Removing(o) ==
  LET r == o.cred.credId
      p == o.cred.prevId
      q == o.cred.nextId
  IN  /\ o.pc \in {"removePrev", "removeCred", "removeNext"}
      /\ Agrees(nvs, cache, RealIds \ {r})
      /\ Relinks(o.next, nvs[q], p, nvs[q].nextId)
      /\ o.pc = "removePrev" =>
           /\ Clean(nvs) /\ r \in Real(Stored(nvs))
           /\ p = nvs[r].prevId /\ q = nvs[r].nextId
           /\ Relinks(o.prev, nvs[p], nvs[p].prevId, q)
      /\ o.pc = "removeCred" => Bypassed(nvs, p, r, q)
      /\ o.pc = "removeNext" => Erased(nvs, p, r, q)

OpInv(o) ==
  \/ o.pc = "idle" /\ Clean(nvs) /\ Agrees(nvs, cache, RealIds)
  \/ o.pc = "refresh" /\ Clean(nvs) /\ CachedUpTo(nvs, cache, o.cred.nextId)
  \/ Inserting(o) \/ Updating(o) \/ Removing(o)

\* One task may be at work; the other one has no operation.
UpInv ==
  boot.pc = "up" =>
    \E t \in Tasks : OpInv(op[t]) /\ \A s \in Tasks \ {t} : op[s].pc = "idle"

\* The repair has not passed what it has to repair.
WalkInv ==
  /\ boot.cur \in Stored(nvs) \ {LAST_KEY}
  /\ boot.steps <= Cardinality({k \in Real(Stored(nvs)) : k <= boot.cur})
  /\ Repairable(nvs, boot.cur)

RelinkInv ==
  \E r, q \in Keys : Erased(nvs, boot.cur, r, q) /\ boot.next = nvs[q]

\* No operation is under way before begin() has ended.
BootInv ==
  /\ boot.pc \in {"off", "ensure"} =>
       (NoPool(nvs) /\ acked = {}) \/ Repairable(nvs, FIRST_KEY)
  /\ boot.pc \in {"clear", "head", "tail"} => NoPool(nvs) /\ acked = {}
  /\ boot.pc = "head" => Stored(nvs) = {}
  /\ boot.pc = "tail" => Stored(nvs) = {FIRST_KEY} /\ nvs[FIRST_KEY] = HeadRec
  /\ boot.pc = "walk" => WalkInv
  /\ boot.pc = "relink" => RelinkInv
  /\ boot.pc = "cache" => Clean(nvs) /\ CachedUpTo(nvs, cache, boot.cur)
  /\ boot.pc \notin {"cache", "up"} => cache = NoCache
  /\ boot.pc # "up" => op = [t \in Tasks |-> Idle]

StoreInv ==
  TypeOK /\ faults = 0 /\ BootInv /\ UpInv /\ acked \subseteq Members(nvs)
-----------------------------------------------------------------------------
(***************************************************************************)
(* Lemmas about keys, writes and order.                                    *)
(***************************************************************************)
NvsType == [Keys -> CredRecord \union {NoRec, Legacy}]

LEMMA KeyFacts ==
  /\ Keys = 0 .. LAST_KEY /\ LAST_KEY \in Nat /\ LAST_KEY > 1
  /\ FIRST_KEY = 0 /\ FIRST_KEY \in Keys /\ LAST_KEY \in Keys /\ 1 \in RealIds
  /\ \A k \in Keys : k \in Nat /\ 0 <= k /\ k <= LAST_KEY
  /\ \A k \in RealIds : k \in Keys /\ 0 < k /\ k < LAST_KEY
  /\ RealIds = Real(Keys)
BY ConstantsAssumption DEF Keys, RealIds, FIRST_KEY, Real

\* w is v with the record rec at the key k.
Wrote(v, w, k, rec) ==
  /\ w \in NvsType
  /\ Stored(w) = Stored(v) \union {k}
  /\ w[k] = rec
  /\ \A j \in Keys : j # k => w[j] = v[j]

\* w is v without the record at the key k.
Wiped(v, w, k) ==
  /\ w \in NvsType
  /\ Stored(w) = Stored(v) \ {k}
  /\ \A j \in Keys : j # k => w[j] = v[j]

\* writeData() stores the record, and changes no other key.
LEMMA WriteKey ==
  ASSUME NEW v \in NvsType, NEW k \in Keys, NEW rec \in CredRecord
  PROVE  Wrote(v, [v EXCEPT ![k] = rec], k, rec)
BY NotARecordAssumption DEF NvsType, Stored, Wrote

\* prefs.remove() changes no other key.
LEMMA EraseKey ==
  ASSUME NEW v \in NvsType, NEW k \in Keys
  PROVE  Wiped(v, [v EXCEPT ![k] = NoRec], k)
BY NotARecordAssumption DEF NvsType, Stored, Wiped

\* A stored key holds a record.
LEMMA StoredRecord ==
  ASSUME NEW v \in NvsType, NEW k \in Stored(v)
  PROVE  /\ k \in Keys /\ v[k] \in CredRecord
         /\ v[k].credId \in Keys /\ v[k].prevId \in Keys /\ v[k].nextId \in Keys
         /\ v[k].data \in Data \union {NoData}
BY DEF NvsType, Stored, CredRecord

\* A record that differs from another one in its links.
LEMMA Relinked ==
  ASSUME NEW old \in CredRecord, NEW k \in Keys
  PROVE  /\ Relinks([old EXCEPT !.nextId = k], old, old.prevId, k)
         /\ Relinks([old EXCEPT !.prevId = k], old, k, old.nextId)
         /\ \A j \in Keys :
              Relinks([old EXCEPT !.nextId = j, !.prevId = k], old, k, j)
BY DEF CredRecord, Relinks

LEMMA FinitePool ==
  ASSUME NEW v
  PROVE  /\ Stored(v) \subseteq Keys /\ Real(Stored(v)) \subseteq RealIds
         /\ IsFiniteSet(Real(Stored(v))) /\ Cardinality(Real(Stored(v))) \in Nat
<1>1. IsFiniteSet(Keys)
  BY KeyFacts, FS_Interval
<1>2. Stored(v) \subseteq Keys /\ Real(Stored(v)) \subseteq RealIds
  BY KeyFacts DEF Stored, Real
<1> QED
  BY <1>1, <1>2, FS_Subset, FS_CardinalityType DEF Real

\* A key has at most one neighbour on each side.
LEMMA OneNeighbour ==
  ASSUME NEW S \in SUBSET Keys, NEW i, NEW j, NEW k
  PROVE  /\ Adjacent(S, i, j) /\ Adjacent(S, i, k) => j = k
         /\ Adjacent(S, i, k) /\ Adjacent(S, j, k) => i = j
<1> \A x, y \in S : x \in Nat /\ y \in Nat
  BY KeyFacts
<1>1. ASSUME Adjacent(S, i, j), Adjacent(S, i, k) PROVE j = k
  <2>1. j <= i \/ k <= j
    BY <1>1 DEF Adjacent
  <2>2. k <= i \/ j <= k
    BY <1>1 DEF Adjacent
  <2> QED
    BY <1>1, <2>1, <2>2 DEF Adjacent
<1>2. ASSUME Adjacent(S, i, k), Adjacent(S, j, k) PROVE i = j
  <2>1. i <= j \/ k <= i
    BY <1>2 DEF Adjacent
  <2>2. j <= i \/ k <= j
    BY <1>2 DEF Adjacent
  <2> QED
    BY <1>2, <2>1, <2>2 DEF Adjacent
<1> QED
  BY <1>1, <1>2

\* Whoever has a successor is not the tail, and whoever has a predecessor is
\* not the head.
LEMMA Between ==
  ASSUME NEW S \in SUBSET Keys, NEW i, NEW j, Adjacent(S, i, j)
  PROVE  /\ i \in S \ {LAST_KEY} /\ j \in S \ {FIRST_KEY} /\ i < j
         /\ i \in Keys /\ j \in Keys
         /\ \A k \in S : k <= i \/ j <= k
BY KeyFacts DEF Adjacent

-----------------------------------------------------------------------------
(***************************************************************************)
(* What each write makes of each shape.                                    *)
(***************************************************************************)

\* Replacing a stored record by another one that may stand there.
LEMMA FiledWrite ==
  ASSUME NEW v, Filed(v), NEW k \in Stored(v), NEW rec \in CredRecord,
         rec.credId = k, rec.data = v[k].data \/ (k \in RealIds /\ rec.data \in ValidData),
         k = FIRST_KEY => rec.prevId = FIRST_KEY,
         NEW w, Wrote(v, w, k, rec)
  PROVE  Filed(w) /\ Stored(w) = Stored(v)
<1>2. Stored(w) = Stored(v) /\ Stored(v) \subseteq Keys
  BY FinitePool DEF Wrote
<1>3. \A j \in Stored(w) : w[j].credId = j
  BY <1>2 DEF Filed, Wrote
<1>4. \A j \in Real(Stored(w)) : w[j].data \in ValidData
  BY <1>2, KeyFacts DEF Filed, Real, Wrote
<1>5. w[FIRST_KEY].data = NoData /\ w[LAST_KEY].data = NoData
  BY <1>2, KeyFacts DEF Filed, Wrote
<1>6. w[FIRST_KEY].prevId = FIRST_KEY
  BY <1>2, KeyFacts DEF Filed, Wrote
<1> QED
  BY <1>2, <1>3, <1>4, <1>5, <1>6 DEF Filed, NvsType, Wrote

\* Relinking a stored record.
LEMMA FiledRelink ==
  ASSUME NEW v, Filed(v), NEW k \in Stored(v), NEW rec, NEW p, NEW n,
         Relinks(rec, v[k], p, n), k = FIRST_KEY => p = FIRST_KEY,
         NEW w, Wrote(v, w, k, rec)
  PROVE  Filed(w) /\ Stored(w) = Stored(v)
BY FiledWrite DEF Relinks, Filed

LEMMA FiledFacts ==
  ASSUME NEW v, Filed(v)
  PROVE  /\ v \in NvsType /\ Stored(v) \subseteq Keys
         /\ FIRST_KEY \in Stored(v) \ {LAST_KEY} /\ LAST_KEY \in Stored(v) \ {FIRST_KEY}
         /\ \A k \in Stored(v) : v[k] \in CredRecord
BY FinitePool, StoredRecord, KeyFacts DEF Filed, NvsType

\* addCred(), first write: the last record links to the new one.
LEMMA Announce ==
  ASSUME NEW v, Clean(v), Cardinality(Real(Stored(v))) < MaxCreds,
         NEW p, p = v[LAST_KEY].prevId, NEW n, n = v[LAST_KEY].nextId, n \in RealIds,
         NEW rec, Relinks(rec, v[p], v[p].prevId, n),
         NEW w, Wrote(v, w, p, rec)
  PROVE  Announced(w, p, n) /\ Stored(w) = Stored(v)
<1> DEFINE S == Stored(v)
<1>1. Filed(v) /\ S \subseteq Keys /\ LAST_KEY \in S \ {FIRST_KEY}
  BY FiledFacts DEF Clean
<1>2. Adjacent(S, p, LAST_KEY) /\ p \in S \ {LAST_KEY}
  <2>1. Adjacent(S, p, LAST_KEY)
    BY <1>1 DEF Clean, Backward
  <2> QED
    BY <1>1, <2>1, Between
<1>3. Filed(w) /\ Stored(w) = S
  <2>1. p = FIRST_KEY => v[p].prevId = FIRST_KEY
    BY <1>1 DEF Filed
  <2> QED
    BY <1>1, <1>2, <2>1, FiledRelink
<1>4. w[LAST_KEY] = v[LAST_KEY] /\ w[p] = rec /\ \A j \in S : w[j].prevId = v[j].prevId
  BY <1>1, <1>2 DEF Wrote, Relinks
<1>5. n \notin S
  BY <1>1, KeyFacts DEF Clean, Above
<1>6. Above(w, S)
  BY <1>4 DEF Clean, Above
<1>7. Forward(w, S, S \ {LAST_KEY, p})
  BY <1>1 DEF Clean, Forward, Wrote
<1>8. Backward(w, S, S \ {FIRST_KEY})
  BY <1>4 DEF Clean, Backward
<1> QED
  BY <1>2, <1>3, <1>4, <1>5, <1>6, <1>7, <1>8, KeyFacts DEF Announced, Relinks

\* addCred(), second write: the new record.
LEMMA Insert ==
  ASSUME NEW v, NEW p, NEW n, Announced(v, p, n),
         NEW rec \in CredRecord, rec.credId = n, rec.prevId = p,
         rec.nextId = LAST_KEY, rec.data \in ValidData,
         NEW w, Wrote(v, w, n, rec)
  PROVE  Inserted(w, p, n) /\ Stored(w) = Stored(v) \union {n}
<1> DEFINE S == Stored(v)
           T == S \union {n}
<1>1. Filed(v) /\ S \subseteq Keys /\ FIRST_KEY \in S \ {LAST_KEY} /\ LAST_KEY \in S \ {FIRST_KEY}
  BY FiledFacts DEF Announced
<1>2. n \in RealIds /\ n \in Keys
  <2>1. n \in Keys
    BY <1>1, FiledFacts, StoredRecord DEF Announced
  <2> QED
    BY <1>1, <2>1, KeyFacts DEF Announced, Above, RealIds
<1>3. Stored(w) = T /\ w[n] = rec
  BY DEF Wrote
<1>4. n \notin S /\ \A j \in S : w[j] = v[j]
  BY <1>1 DEF Announced, Wrote
<1>5. Adjacent(S, p, LAST_KEY) /\ p \in S \ {LAST_KEY}
  <2>1. Adjacent(S, p, LAST_KEY)
    BY <1>1 DEF Announced, Backward
  <2> QED
    BY <1>1, <2>1, Between
<1>6. \A k \in S \ {LAST_KEY} : k < n
  BY <1>1 DEF Announced, Above
<1>7. Adjacent(T, p, n) /\ Adjacent(T, n, LAST_KEY)
  BY <1>1, <1>2, <1>5, <1>6, KeyFacts DEF Adjacent
<1>8. \A i, j \in S : Adjacent(S, i, j) /\ j # LAST_KEY => Adjacent(T, i, j)
  BY <1>1, <1>2, <1>6, KeyFacts DEF Adjacent
<1>9. ASSUME NEW k \in T \ {LAST_KEY} PROVE Adjacent(T, k, w[k].nextId)
  <2>1. CASE k = n
    BY <2>1, <1>3, <1>7
  <2>2. CASE k = p
    BY <2>2, <1>4, <1>5, <1>7 DEF Announced
  <2>3. CASE k \in S \ {LAST_KEY, p}
    <3>1. Adjacent(S, k, v[k].nextId) /\ v[k].nextId \in S
      BY <2>3, <1>1, Between DEF Announced, Forward
    <3>2. v[k].nextId # LAST_KEY
      BY <2>3, <3>1, <1>1, <1>5, OneNeighbour
    <3> QED
      BY <2>3, <3>1, <3>2, <1>4, <1>8
  <2> QED
    BY <2>1, <2>2, <2>3
<1>10. ASSUME NEW k \in T \ {FIRST_KEY, LAST_KEY} PROVE Adjacent(T, w[k].prevId, k)
  <2>1. CASE k = n
    BY <2>1, <1>3, <1>7
  <2>2. CASE k \in S
    <3>1. Adjacent(S, v[k].prevId, k) /\ v[k].prevId \in S
      BY <2>2, <1>1, Between DEF Announced, Backward
    <3> QED
      BY <2>2, <3>1, <1>4, <1>8
  <2> QED
    BY <2>1, <2>2
<1>11. Cardinality(Real(T)) <= MaxCreds
  <2>1. Real(T) = Real(S) \union {n} /\ n \notin Real(S)
    BY <1>2, <1>4, KeyFacts DEF Real
  <2>2. Cardinality(Real(T)) = Cardinality(Real(S)) + 1
    BY <2>1, FinitePool, FS_AddElement
  <2> QED
    BY <2>2, FinitePool, ConstantsAssumption DEF Announced
<1>12. Filed(w)
  <2>1. \A k \in T : w[k].credId = k
    BY <1>3, <1>4, <1>1 DEF Filed
  <2>2. \A k \in Real(T) : w[k].data \in ValidData
    BY <1>3, <1>4, <1>1 DEF Filed, Real
  <2>3. w[FIRST_KEY] = v[FIRST_KEY] /\ w[LAST_KEY] = v[LAST_KEY]
    BY <1>1, <1>4
  <2> QED
    BY <2>1, <2>2, <2>3, <1>1, <1>3, <1>11 DEF Filed, NvsType, Wrote
<1>13. w[LAST_KEY] = v[LAST_KEY]
  BY <1>1, <1>4
<1>14. n \in Real(T)
  BY <1>2, KeyFacts DEF Real
<1>15. Forward(w, T, T \ {LAST_KEY})
  BY <1>9 DEF Forward
<1>16. Backward(w, T, T \ {FIRST_KEY, LAST_KEY})
  BY <1>10 DEF Backward
<1> QED
  BY <1>3, <1>12, <1>13, <1>14, <1>15, <1>16 DEF Inserted, Announced

\* addCred(), third write, by the operation or by redoInsert: the tail.
LEMMA MoveTail ==
  ASSUME NEW v, NEW p, NEW n, Inserted(v, p, n),
         NEW rec, Relinks(rec, v[LAST_KEY], n, n + 1),
         NEW w, Wrote(v, w, LAST_KEY, rec)
  PROVE  Clean(w) /\ Stored(w) = Stored(v)
<1> DEFINE S == Stored(v)
<1>1. Filed(v) /\ S \subseteq Keys /\ LAST_KEY \in S \ {FIRST_KEY}
  BY FiledFacts DEF Inserted
<1>2. n \in RealIds /\ n \in S \ {LAST_KEY}
  BY <1>1, KeyFacts DEF Inserted, Real
<1>3. Filed(w) /\ Stored(w) = S
  BY <1>1, FiledRelink DEF Inserted
<1>4. Adjacent(S, n, LAST_KEY)
  BY <1>2 DEF Inserted, Forward
<1>5. Above(w, S)
  <2>1. \A k \in S \ {LAST_KEY} : k <= n
    BY <1>1, <1>4, KeyFacts DEF Adjacent
  <2>2. w[LAST_KEY].nextId = n + 1
    BY DEF Wrote, Relinks
  <2> QED
    BY <2>1, <2>2, <1>1, <1>2, KeyFacts DEF Above
<1>6. Forward(w, S, S \ {LAST_KEY})
  BY <1>1 DEF Inserted, Forward, Wrote
<1>7. Backward(w, S, S \ {FIRST_KEY})
  BY <1>1, <1>4 DEF Inserted, Backward, Wrote, Relinks
<1> QED
  BY <1>3, <1>5, <1>6, <1>7 DEF Clean

\* rollbackInsert: the last record links to the tail again.
LEMMA Rollback ==
  ASSUME NEW v, NEW p, NEW n, Announced(v, p, n),
         NEW rec, Relinks(rec, v[p], v[p].prevId, LAST_KEY),
         NEW w, Wrote(v, w, p, rec)
  PROVE  Clean(w) /\ Stored(w) = Stored(v)
<1> DEFINE S == Stored(v)
<1>1. Filed(v) /\ S \subseteq Keys /\ LAST_KEY \in S \ {FIRST_KEY}
  BY FiledFacts DEF Announced
<1>2. Adjacent(S, p, LAST_KEY) /\ p \in S \ {LAST_KEY}
  <2>1. Adjacent(S, p, LAST_KEY)
    BY <1>1 DEF Announced, Backward
  <2> QED
    BY <1>1, <2>1, Between
<1>3. Filed(w) /\ Stored(w) = S
  <2>1. p = FIRST_KEY => v[p].prevId = FIRST_KEY
    BY <1>1 DEF Filed
  <2> QED
    BY <1>1, <1>2, <2>1, FiledRelink
<1>4. w[LAST_KEY] = v[LAST_KEY] /\ \A j \in S : w[j].prevId = v[j].prevId
  BY <1>1, <1>2 DEF Wrote, Relinks
<1>5. Above(w, S)
  BY <1>4 DEF Announced, Above
<1>6. Forward(w, S, S \ {LAST_KEY})
  <2> SUFFICES ASSUME NEW k \in S \ {LAST_KEY} PROVE Adjacent(S, k, w[k].nextId)
    BY DEF Forward
  <2>1. CASE k = p
    BY <2>1, <1>2 DEF Wrote, Relinks
  <2>2. CASE k # p
    BY <2>2, <1>1 DEF Announced, Forward, Wrote
  <2> QED
    BY <2>1, <2>2
<1>7. Backward(w, S, S \ {FIRST_KEY})
  BY <1>4 DEF Announced, Backward
<1> QED
  BY <1>3, <1>5, <1>6, <1>7 DEF Clean

\* updateCred(): other content in the same place.
LEMMA Rewrite ==
  ASSUME NEW v, Clean(v), NEW k \in Real(Stored(v)),
         NEW rec \in CredRecord, rec.credId = k, rec.data \in ValidData,
         rec.prevId = v[k].prevId, rec.nextId = v[k].nextId,
         NEW w, Wrote(v, w, k, rec)
  PROVE  Clean(w) /\ Stored(w) = Stored(v)
<1> DEFINE S == Stored(v)
<1>1. Filed(v) /\ S \subseteq Keys /\ k \in S \ {LAST_KEY} /\ k \in RealIds
  BY FiledFacts, FinitePool DEF Clean, Real
<1>2. Filed(w) /\ Stored(w) = S
  <2>1. k # FIRST_KEY
    BY <1>1, KeyFacts
  <2> QED
    BY <1>1, <2>1, FiledWrite
<1>3. /\ w[LAST_KEY] = v[LAST_KEY]
      /\ \A j \in S : w[j].prevId = v[j].prevId /\ w[j].nextId = v[j].nextId
  BY <1>1, KeyFacts DEF Wrote
<1>4. Above(w, S) /\ Forward(w, S, S \ {LAST_KEY}) /\ Backward(w, S, S \ {FIRST_KEY})
  BY <1>3 DEF Clean, Above, Forward, Backward
<1> QED
  BY <1>2, <1>4 DEF Clean

\* Without r, its neighbours p and q are adjacent.
LEMMA Without ==
  ASSUME NEW S \in SUBSET Keys, NEW p, NEW r, NEW q, Adjacent(S, p, r), Adjacent(S, r, q)
  PROVE  /\ Adjacent(S \ {r}, p, q)
         /\ \A i, j : Adjacent(S, i, j) /\ i # r /\ j # r => Adjacent(S \ {r}, i, j)
<1>1. /\ p \in S /\ r \in S /\ q \in S /\ p < r /\ r < q
      /\ p \in Nat /\ r \in Nat /\ q \in Nat
      /\ \A k \in S : k \in Nat /\ (k <= p \/ r <= k) /\ (k <= r \/ q <= k)
  BY KeyFacts DEF Adjacent
<1>2. Adjacent(S \ {r}, p, q)
  BY <1>1 DEF Adjacent
<1> QED
  BY <1>2 DEF Adjacent

\* removeCred(), first write: the predecessor p of r links to its successor q.
LEMMA Bypass ==
  ASSUME NEW v, NEW w, NEW p, NEW r, NEW q, NEW rec,
         Clean(v), r \in Real(Stored(v)), v[r].prevId = p, v[r].nextId = q,
         Relinks(rec, v[p], v[p].prevId, q), Wrote(v, w, p, rec)
  PROVE  Bypassed(w, p, r, q) /\ Stored(w) = Stored(v)
<1> DEFINE S == Stored(v)
           L == S \ {r}
<1>1. /\ Filed(v) /\ S \subseteq Keys /\ r \in S \ {LAST_KEY}
      /\ r \in S \ {FIRST_KEY} /\ r \in RealIds
  BY FiledFacts, FinitePool DEF Clean, Real
<1>2. Adjacent(S, p, r) /\ Adjacent(S, r, q)
  BY <1>1 DEF Clean, Forward, Backward
<1>3. p \in S \ {LAST_KEY} /\ q \in S \ {FIRST_KEY} /\ p # r /\ q # r /\ p # q
  <2>1. p < r /\ r < q /\ p \in Nat /\ q \in Nat /\ r \in Nat
    BY <1>1, <1>2, KeyFacts, Between
  <2> QED
    BY <2>1, <1>1, <1>2, Between
<1>4. Filed(w) /\ Stored(w) = S
  <2>1. p = FIRST_KEY => v[p].prevId = FIRST_KEY
    BY <1>1 DEF Filed
  <2> QED
    BY <1>1, <1>3, <2>1, FiledRelink
<1>5. /\ w[LAST_KEY] = v[LAST_KEY] /\ w[p].nextId = q
      /\ \A j \in S : w[j].prevId = v[j].prevId
      /\ \A j \in S \ {p} : w[j].nextId = v[j].nextId
  BY <1>1, <1>3, KeyFacts DEF Wrote, Relinks
<1>6. v[q].prevId = r
  <2>1. Adjacent(S, v[q].prevId, q)
    BY <1>3 DEF Clean, Backward
  <2> QED
    BY <1>1, <1>2, <2>1, OneNeighbour
<1>7. Forward(w, L, L \ {LAST_KEY})
  <2> SUFFICES ASSUME NEW k \in L \ {LAST_KEY} PROVE Adjacent(L, k, w[k].nextId)
    BY DEF Forward
  <2>1. CASE k = p
    BY <2>1, <1>1, <1>2, <1>5, Without
  <2>2. CASE k # p
    <3>1. Adjacent(S, k, v[k].nextId)
      BY DEF Clean, Forward
    <3>2. v[k].nextId # r
      BY <2>2, <3>1, <1>1, <1>2, OneNeighbour
    <3> QED
      BY <2>2, <3>1, <3>2, <1>1, <1>2, <1>5, Without
  <2> QED
    BY <2>1, <2>2
<1>8. Backward(w, L, L \ {FIRST_KEY, q})
  <2> SUFFICES ASSUME NEW k \in L \ {FIRST_KEY, q} PROVE Adjacent(L, w[k].prevId, k)
    BY DEF Backward
  <2>1. Adjacent(S, v[k].prevId, k)
    BY DEF Clean, Backward
  <2>2. v[k].prevId # r
    BY <2>1, <1>1, <1>2, OneNeighbour
  <2> QED
    BY <2>1, <2>2, <1>1, <1>2, <1>5, Without
<1>9. Above(w, S)
  BY <1>5 DEF Clean, Above
<1> QED
  BY <1>1, <1>2, <1>3, <1>4, <1>5, <1>6, <1>7, <1>8, <1>9 DEF Bypassed, Real

\* removeCred(), second write, by the operation or by redoRemoval: r is gone.
LEMMA Erase ==
  ASSUME NEW v, NEW p, NEW r, NEW q, Bypassed(v, p, r, q),
         NEW w, Wiped(v, w, r)
  PROVE  Erased(w, p, r, q) /\ Stored(w) = Stored(v) \ {r}
<1> DEFINE S == Stored(v)
           L == S \ {r}
<1>1. /\ Filed(v) /\ S \subseteq Keys /\ r \in S /\ r \in RealIds
      /\ FIRST_KEY \in S /\ LAST_KEY \in S /\ r # FIRST_KEY /\ r # LAST_KEY
  BY FiledFacts, FinitePool DEF Bypassed, Real
<1>2. p < r /\ r < q /\ Adjacent(L, p, q) /\ q \in L
  <2>1. Adjacent(S, p, r) /\ Adjacent(S, r, q)
    BY DEF Bypassed
  <2>2. Adjacent(L, p, q)
    BY <1>1, <2>1, Without
  <2> QED
    BY <2>1, <2>2 DEF Adjacent
<1>3. Stored(w) = L /\ \A j \in L : w[j] = v[j]
  BY <1>1 DEF Wiped
<1>4. Cardinality(Real(L)) <= MaxCreds
  <2>1. Real(L) \subseteq Real(S) /\ IsFiniteSet(Real(S))
    BY FinitePool DEF Real
  <2>2. IsFiniteSet(Real(L)) /\ Cardinality(Real(L)) <= Cardinality(Real(S))
    BY <2>1, FS_Subset
  <2>3. Cardinality(Real(L)) \in Nat /\ Cardinality(Real(S)) \in Nat
    BY <2>1, <2>2, FS_CardinalityType
  <2>4. Cardinality(Real(S)) <= MaxCreds
    BY <1>1 DEF Filed
  <2> QED
    BY <2>2, <2>3, <2>4, ConstantsAssumption
<1>5. Filed(w)
  <2>1. \A k \in Real(L) : w[k].data \in ValidData
    BY <1>1, <1>3 DEF Filed, Real
  <2> QED
    BY <2>1, <1>1, <1>3, <1>4 DEF Filed, Wiped, NvsType
<1>6. Above(w, L) /\ Forward(w, L, L \ {LAST_KEY}) /\ Backward(w, L, L \ {FIRST_KEY, q})
  BY <1>1, <1>3 DEF Bypassed, Above, Forward, Backward
<1>7. w[q].prevId = r
  BY <1>2, <1>3 DEF Bypassed
<1> QED
  BY <1>1, <1>2, <1>3, <1>5, <1>6, <1>7 DEF Erased

\* removeCred(), third write, by the operation or by relinkNext: q links back
\* to p.
LEMMA LinkBack ==
  ASSUME NEW v, NEW p, NEW r, NEW q, Erased(v, p, r, q),
         NEW rec, Relinks(rec, v[q], p, v[q].nextId),
         NEW w, Wrote(v, w, q, rec)
  PROVE  Clean(w) /\ Stored(w) = Stored(v)
<1> DEFINE S == Stored(v)
<1>1. Filed(v) /\ S \subseteq Keys
  BY FiledFacts DEF Erased
<1>2. Adjacent(S, p, q) /\ q \in S \ {FIRST_KEY}
  BY <1>1, Between DEF Erased
<1>3. Filed(w) /\ Stored(w) = S
  BY <1>1, <1>2, FiledRelink
<1>4. w[LAST_KEY].nextId = v[LAST_KEY].nextId /\ \A j \in S : w[j].nextId = v[j].nextId
  BY <1>1, <1>2, KeyFacts DEF Wrote, Relinks
<1>5. Above(w, S) /\ Forward(w, S, S \ {LAST_KEY})
  BY <1>4 DEF Erased, Above, Forward
<1>6. Backward(w, S, S \ {FIRST_KEY})
  BY <1>1, <1>2 DEF Erased, Backward, Wrote, Relinks
<1> QED
  BY <1>3, <1>5, <1>6 DEF Clean

\* resetTail: the empty pool.
LEMMA EmptyPool ==
  ASSUME NEW v \in NvsType, Stored(v) = {FIRST_KEY, LAST_KEY},
         v[FIRST_KEY] = HeadRec, v[LAST_KEY] = TailRec
  PROVE  Clean(v)
<1>1. Real(Stored(v)) = {}
  BY DEF Real
<1>2. Cardinality(Real(Stored(v))) <= MaxCreds
  BY <1>1, FS_EmptySet, ConstantsAssumption
<1>3. Filed(v)
  BY <1>1, <1>2 DEF Filed, HeadRec, TailRec, NvsType
<1>4. Adjacent(Stored(v), FIRST_KEY, LAST_KEY)
  BY KeyFacts DEF Adjacent
<1>5. Above(v, Stored(v))
  BY KeyFacts DEF Above, TailRec
<1>6. Forward(v, Stored(v), Stored(v) \ {LAST_KEY}) /\ Backward(v, Stored(v), Stored(v) \ {FIRST_KEY})
  BY <1>4 DEF Forward, Backward, HeadRec, TailRec
<1> QED
  BY <1>3, <1>5, <1>6 DEF Clean

-----------------------------------------------------------------------------
(***************************************************************************)
(* What each shape says of the pool.                                       *)
(***************************************************************************)
LEMMA CommittedMembers ==
  \A i \in RealIds : Committed(i) <=> i \in Members(nvs)
<1>1. \A k \in Keys : Readable(k) <=> k \in Stored(nvs)
  BY DEF Readable, Stored
<1>2. Present = Stored(nvs)
  BY DEF Readable, Present, Stored
<1> QED
  BY <1>1, <1>2, KeyFacts DEF Committed, Members

\* A record whose predecessor links to it is in the list.
LEMMA LinkedMember ==
  ASSUME NEW v, NEW L \in SUBSET Stored(v), NEW i \in RealIds, NEW p,
         Adjacent(L, p, i), Adjacent(L, p, v[p].nextId)
  PROVE  i \in Members(v)
<1>1. L \subseteq Keys
  BY FinitePool
<1>2. v[p].nextId = i /\ p \in L \ {LAST_KEY} /\ i \in L
  BY <1>1, OneNeighbour, Between
<1> QED
  BY <1>2 DEF Members

LEMMA CleanMembers ==
  ASSUME NEW v, Clean(v)
  PROVE  Members(v) = Real(Stored(v))
<1>1. Stored(v) \subseteq Keys
  BY FinitePool
<1>2. ASSUME NEW i \in Real(Stored(v)) PROVE i \in Members(v)
  <2>1. i \in Stored(v) \ {FIRST_KEY} /\ i \in RealIds
    BY FinitePool DEF Real
  <2>2. Adjacent(Stored(v), v[i].prevId, i)
    BY <2>1 DEF Clean, Backward
  <2>3. v[i].prevId \in Stored(v) \ {LAST_KEY}
    BY <1>1, <2>2, Between
  <2>4. Adjacent(Stored(v), v[i].prevId, v[v[i].prevId].nextId)
    BY <2>3 DEF Clean, Forward
  <2> QED
    BY <2>1, <2>2, <2>4, LinkedMember
<1> QED
  BY <1>2, KeyFacts DEF Members, Real

LEMMA AnnouncedMembers ==
  ASSUME NEW v, NEW p, NEW n, Announced(v, p, n)
  PROVE  Members(v) = Real(Stored(v))
<1> DEFINE S == Stored(v)
<1>1. S \subseteq Keys /\ LAST_KEY \in S \ {FIRST_KEY}
  BY FiledFacts DEF Announced
<1>2. Adjacent(S, p, LAST_KEY)
  BY <1>1 DEF Announced, Backward
<1>3. ASSUME NEW i \in Real(S) PROVE i \in Members(v)
  <2>1. i \in S \ {FIRST_KEY} /\ i \in RealIds /\ i # LAST_KEY
    BY FinitePool DEF Real
  <2>2. Adjacent(S, v[i].prevId, i)
    BY <2>1 DEF Announced, Backward
  <2>3. v[i].prevId \in S \ {LAST_KEY, p}
    BY <1>1, <1>2, <2>1, <2>2, Between, OneNeighbour
  <2>4. Adjacent(S, v[i].prevId, v[v[i].prevId].nextId)
    BY <2>3 DEF Announced, Forward
  <2> QED
    BY <2>1, <2>2, <2>4, LinkedMember
<1> QED
  BY <1>3, KeyFacts DEF Members, Real

LEMMA InsertedMembers ==
  ASSUME NEW v, NEW p, NEW n, Inserted(v, p, n)
  PROVE  Members(v) = Real(Stored(v))
<1> DEFINE S == Stored(v)
<1>1. S \subseteq Keys
  BY FinitePool
<1>2. ASSUME NEW i \in Real(S) PROVE i \in Members(v)
  <2>1. i \in S \ {FIRST_KEY, LAST_KEY} /\ i \in RealIds
    BY FinitePool DEF Real
  <2>2. Adjacent(S, v[i].prevId, i)
    BY <2>1 DEF Inserted, Backward
  <2>3. v[i].prevId \in S \ {LAST_KEY}
    BY <1>1, <2>2, Between
  <2>4. Adjacent(S, v[i].prevId, v[v[i].prevId].nextId)
    BY <2>3 DEF Inserted, Forward
  <2> QED
    BY <2>1, <2>2, <2>4, LinkedMember
<1> QED
  BY <1>2, KeyFacts DEF Members, Real

\* A bypassed record is no longer in the list, the others are.
LEMMA BypassedMembers ==
  ASSUME NEW v, NEW p, NEW r, NEW q, Bypassed(v, p, r, q)
  PROVE  Members(v) = Real(Stored(v)) \ {r}
<1> DEFINE S == Stored(v)
           L == S \ {r}
<1>1. S \subseteq Keys /\ L \subseteq Keys
  BY FinitePool
<1>2. p \in S \ {LAST_KEY} /\ p # r /\ r # q /\ Adjacent(L, p, q) /\ r \in S
  <2>1. Adjacent(S, p, r) /\ Adjacent(S, r, q)
    BY DEF Bypassed
  <2>2. p < r /\ r < q /\ p \in Nat /\ q \in Nat /\ r \in Nat
    BY <1>1, <2>1, KeyFacts, Between
  <2> QED
    BY <1>1, <2>1, <2>2, Between, Without
<1>3. ASSUME NEW i \in Real(S) \ {r} PROVE i \in Members(v)
  <2>1. i \in L \ {FIRST_KEY} /\ i \in RealIds
    BY FinitePool DEF Real
  <2>2. CASE i = q
    <3>1. Adjacent(L, p, v[p].nextId)
      BY <1>2 DEF Bypassed, Forward
    <3> QED
      BY <2>1, <2>2, <1>2, <3>1, LinkedMember
  <2>3. CASE i # q
    <3>1. Adjacent(L, v[i].prevId, i)
      BY <2>1, <2>3 DEF Bypassed, Backward
    <3>2. v[i].prevId \in L \ {LAST_KEY}
      BY <1>1, <3>1, Between
    <3>3. Adjacent(L, v[i].prevId, v[v[i].prevId].nextId)
      BY <3>2 DEF Bypassed, Forward
    <3> QED
      BY <2>1, <3>1, <3>3, LinkedMember
  <2> QED
    BY <2>2, <2>3
<1>4. ASSUME NEW k \in S \ {LAST_KEY} PROVE v[k].nextId # r
  <2>1. CASE k = r
    BY <1>2, <2>1 DEF Bypassed
  <2>2. CASE k # r
    <3>1. Adjacent(L, k, v[k].nextId)
      BY <2>2 DEF Bypassed, Forward
    <3> QED
      BY <3>1 DEF Adjacent
  <2> QED
    BY <2>1, <2>2
<1> QED
  BY <1>3, <1>4, KeyFacts DEF Members, Real

LEMMA ErasedMembers ==
  ASSUME NEW v, NEW p, NEW r, NEW q, Erased(v, p, r, q)
  PROVE  Members(v) = Real(Stored(v))
<1> DEFINE S == Stored(v)
<1>1. S \subseteq Keys
  BY FinitePool
<1>2. ASSUME NEW i \in Real(S) PROVE i \in Members(v)
  <2>1. i \in S \ {FIRST_KEY} /\ i \in RealIds
    BY FinitePool DEF Real
  <2>2. PICK k \in S : Adjacent(S, k, i)
    <3>1. CASE i = q
      BY <1>1, <3>1, Between DEF Erased
    <3>2. CASE i # q
      <4>1. Adjacent(S, v[i].prevId, i)
        BY <2>1, <3>2 DEF Erased, Backward
      <4> QED
        BY <1>1, <4>1, Between
    <3> QED
      BY <3>1, <3>2
  <2>3. Adjacent(S, k, v[k].nextId)
    BY <1>1, <2>2, Between DEF Erased, Forward
  <2> QED
    BY <2>1, <2>2, <2>3, LinkedMember
<1> QED
  BY <1>2, KeyFacts DEF Members, Real

LEMMA NoMembers ==
  ASSUME NEW v, NoPool(v)
  PROVE  Members(v) = {}
BY KeyFacts DEF NoPool, Members

\* The greatest identifier ever used, as CredPool's lastId.
Issued(v) ==
  IF LAST_KEY \notin Stored(v) THEN 0
  ELSE LET free == v[LAST_KEY].nextId
       IN  IF free \in RealIds \cap Stored(v) THEN free ELSE free - 1

LEMMA LastIssuedIs == LastIssued = Issued(nvs)
<1>1. \A k \in Keys : Readable(k) <=> k \in Stored(nvs)
  BY DEF Readable, Stored
<1> QED
  BY <1>1, KeyFacts DEF LastIssued, Issued

LEMMA IssuedIs ==
  ASSUME NEW v
  PROVE  /\ Clean(v) => Issued(v) = v[LAST_KEY].nextId - 1
         /\ \A p, n : Announced(v, p, n) => Issued(v) = n - 1
         /\ \A p, n : Inserted(v, p, n) => Issued(v) = n
         /\ \A p, r, q : Bypassed(v, p, r, q) => Issued(v) = v[LAST_KEY].nextId - 1
         /\ \A p, r, q : Erased(v, p, r, q) => Issued(v) = v[LAST_KEY].nextId - 1
         /\ NoPool(v) => Issued(v) = 0
<1>1. ASSUME Filed(v), Above(v, Stored(v)) PROVE Issued(v) = v[LAST_KEY].nextId - 1
  <2>1. v[LAST_KEY].nextId \notin RealIds \cap Stored(v)
    BY <1>1, FiledFacts, KeyFacts DEF Above
  <2> QED
    BY <1>1, <2>1, FiledFacts DEF Issued
<1>2. ASSUME NEW p, NEW n, Inserted(v, p, n) PROVE Issued(v) = n
  <2>1. n \in RealIds \cap Stored(v) /\ n = v[LAST_KEY].nextId
    BY <1>2, FinitePool DEF Inserted, Real
  <2>2. LAST_KEY \in Stored(v)
    BY <1>2, FiledFacts DEF Inserted
  <2> QED
    BY <2>1, <2>2 DEF Issued
<1>3. NoPool(v) => Issued(v) = 0
  BY KeyFacts DEF NoPool, Issued
<1> QED
  BY <1>1, <1>2, <1>3 DEF Clean, Announced, Bypassed, Erased

-----------------------------------------------------------------------------
(***************************************************************************)
(* Walks.                                                                  *)
(***************************************************************************)

\* The record c links to its successor, which links back.
Regular(v, c) ==
  LET S == Stored(v)
      x == v[c].nextId
  IN  /\ c \in S \ {LAST_KEY} /\ x \in S \ {FIRST_KEY}
      /\ Adjacent(S, c, x) /\ v[x].prevId = c
      /\ v[x].credId = x /\ (x \in RealIds => v[x].data \in ValidData)

\* Whatever is unfinished, a walk that has come to c either finds the next
\* record in order, and what there is to mend behind it, or has come to the
\* place.
LEMMA WalkCases ==
  ASSUME NEW v, NEW c \in Stored(v) \ {LAST_KEY}, Repairable(v, c)
  PROVE  \/ /\ Regular(v, c)
            /\ v[c].nextId = LAST_KEY => Clean(v)
            /\ Repairable(v, v[c].nextId)
         \/ \E n \in Keys : Announced(v, c, n)
         \/ \E p \in Keys : Inserted(v, p, c)
         \/ \E r, q \in Keys : Bypassed(v, c, r, q) \/ Erased(v, c, r, q)
<1> DEFINE S == Stored(v)
           x == v[c].nextId
<1>1. S \subseteq Keys
  BY FinitePool
<1>2. ASSUME Filed(v), Adjacent(S, c, x), v[x].prevId = c PROVE Regular(v, c)
  <2>1. x \in S \ {FIRST_KEY}
    BY <1>1, <1>2, Between
  <2>2. v[x].credId = x /\ (x \in RealIds => v[x].data \in ValidData)
    BY <1>2, <2>1, KeyFacts DEF Filed, Real
  <2> QED
    BY <1>2, <2>1, <2>2 DEF Regular
<1>3. CASE Clean(v)
  <2>1. Adjacent(S, c, x)
    BY <1>3 DEF Clean, Forward
  <2>2. Adjacent(S, v[x].prevId, x)
    BY <1>1, <1>3, <2>1, Between DEF Clean, Backward
  <2>3. v[x].prevId = c
    BY <1>1, <2>1, <2>2, OneNeighbour
  <2> QED
    BY <1>2, <1>3, <2>1, <2>3 DEF Clean, Repairable
<1>4. CASE \E p, n \in Keys : Announced(v, p, n) /\ c # p
  <2>1. PICK p, n \in Keys : Announced(v, p, n) /\ c # p
    BY <1>4
  <2>2. Adjacent(S, c, x)
    BY <2>1 DEF Announced, Forward
  <2>3. Adjacent(S, v[x].prevId, x)
    BY <1>1, <2>1, <2>2, Between DEF Announced, Backward
  <2>4. v[x].prevId = c
    BY <1>1, <2>2, <2>3, OneNeighbour
  <2>5. x # LAST_KEY
    BY <2>1, <2>4 DEF Announced
  <2> QED
    BY <1>2, <2>1, <2>2, <2>4, <2>5 DEF Announced, Repairable
<1>5. CASE \E p, n \in Keys : Inserted(v, p, n) /\ c # n
  <2>1. PICK p, n \in Keys : Inserted(v, p, n) /\ c # n
    BY <1>5
  <2>2. Adjacent(S, c, x)
    BY <2>1 DEF Inserted, Forward
  <2>3. n \in S \ {LAST_KEY} /\ v[n].nextId = LAST_KEY
    BY <2>1 DEF Inserted, Real
  <2>4. Adjacent(S, n, LAST_KEY)
    BY <2>1, <2>3 DEF Inserted, Forward
  <2>5. x # LAST_KEY
    BY <1>1, <2>1, <2>2, <2>4, OneNeighbour
  <2>6. Adjacent(S, v[x].prevId, x)
    BY <1>1, <2>1, <2>2, <2>5, Between DEF Inserted, Backward
  <2>7. v[x].prevId = c
    BY <1>1, <2>2, <2>6, OneNeighbour
  <2> QED
    BY <1>2, <2>1, <2>2, <2>5, <2>7 DEF Inserted, Repairable
<1>6. CASE \E p, r, q \in Keys : Bypassed(v, p, r, q) /\ c < r /\ c # p
  <2>1. PICK p, r, q \in Keys : Bypassed(v, p, r, q) /\ c < r /\ c # p
    BY <1>6
  <2> DEFINE L == S \ {r}
  <2>2. Adjacent(S, p, r) /\ Adjacent(S, r, q) /\ L \subseteq Keys
    BY <1>1, <2>1 DEF Bypassed
  <2>3. p \in L /\ r \in S /\ p < r /\ r < q /\ q \in S /\ c < p
    BY <1>1, <2>1, <2>2, KeyFacts DEF Adjacent
  <2>4. c \in L \ {LAST_KEY}
    BY <2>1, KeyFacts
  <2>5. Adjacent(L, c, x)
    BY <2>1, <2>4 DEF Bypassed, Forward
  <2>6. x <= p /\ x \in S \ {FIRST_KEY} /\ x \in Nat
    BY <1>1, <2>3, <2>5, KeyFacts DEF Adjacent
  <2>7. x < r /\ x # q /\ x # LAST_KEY
    BY <1>1, <2>3, <2>6, KeyFacts
  <2>8. Adjacent(S, c, x)
    BY <1>1, <2>5, <2>7, KeyFacts DEF Adjacent
  <2>9. x \in L \ {FIRST_KEY, q}
    BY <2>1, <2>6, <2>7, KeyFacts
  <2>10. v[x].prevId = c
    <3>1. Adjacent(L, v[x].prevId, x)
      BY <2>1, <2>9 DEF Bypassed, Backward
    <3> QED
      BY <2>2, <2>5, <3>1, OneNeighbour
  <2> QED
    BY <1>2, <2>1, <2>7, <2>8, <2>10 DEF Bypassed, Repairable
<1>7. CASE \E p, r, q \in Keys : Erased(v, p, r, q) /\ c < r /\ c # p
  <2>1. PICK p, r, q \in Keys : Erased(v, p, r, q) /\ c < r /\ c # p
    BY <1>7
  <2>2. Adjacent(S, p, q) /\ p < r /\ r < q /\ r \in RealIds
    BY <2>1 DEF Erased
  <2>3. p \in S /\ q \in S /\ c < p
    BY <1>1, <2>1, <2>2, KeyFacts DEF Adjacent
  <2>4. Adjacent(S, c, x)
    BY <2>1 DEF Erased, Forward
  <2>5. x <= p /\ x \in S \ {FIRST_KEY} /\ x \in Nat
    BY <1>1, <2>3, <2>4, KeyFacts DEF Adjacent
  <2>6. x < r /\ x # q /\ x # LAST_KEY
    BY <1>1, <2>2, <2>3, <2>5, KeyFacts
  <2>7. Adjacent(S, v[x].prevId, x)
    BY <2>1, <2>5, <2>6 DEF Erased, Backward
  <2>8. v[x].prevId = c
    BY <1>1, <2>4, <2>7, OneNeighbour
  <2> QED
    BY <1>2, <2>1, <2>4, <2>6, <2>8 DEF Erased, Repairable
<1>8. CASE \/ \E n \in Keys : Announced(v, c, n)
           \/ \E p \in Keys : Inserted(v, p, c)
           \/ \E r, q \in Keys : Bypassed(v, c, r, q) \/ Erased(v, c, r, q)
  BY <1>8
<1> QED
  BY <1>3, <1>4, <1>5, <1>6, <1>7, <1>8 DEF Repairable

\* A shape is mended from the head on.
LEMMA MendedFromHead ==
  ASSUME NEW v
  PROVE  /\ Clean(v) => Repairable(v, FIRST_KEY)
         /\ \A p, n \in Keys : Announced(v, p, n) \/ Inserted(v, p, n) => Repairable(v, FIRST_KEY)
         /\ \A p, r, q \in Keys : Bypassed(v, p, r, q) \/ Erased(v, p, r, q) =>
              Repairable(v, FIRST_KEY)
         /\ \A c \in Keys : Repairable(v, c) => Repairable(v, FIRST_KEY) /\ Filed(v)
<1>1. \A p, r, q \in Keys : Bypassed(v, p, r, q) \/ Erased(v, p, r, q) => FIRST_KEY < r
  <2> SUFFICES ASSUME NEW p \in Keys, NEW r \in Keys, NEW q \in Keys,
                      Bypassed(v, p, r, q) \/ Erased(v, p, r, q)
               PROVE  r \in RealIds
    BY KeyFacts
  <2> QED
    BY FinitePool DEF Bypassed, Erased, Real
<1>2. \A p, r, q \in Keys : Bypassed(v, p, r, q) \/ Erased(v, p, r, q) => Filed(v)
  BY DEF Bypassed, Erased
<1>3. \A p, n \in Keys : Announced(v, p, n) \/ Inserted(v, p, n) => Filed(v)
  BY DEF Announced, Inserted
<1>4. Clean(v) => Filed(v)
  BY DEF Clean
<1> QED
  BY <1>1, <1>2, <1>3, <1>4 DEF Repairable

\* One more record passed, one more counted: the walk never runs into its
\* bound.
LEMMA WalkCounts ==
  ASSUME NEW v, Filed(v), NEW c
  PROVE  LET Passed(k) == {j \in Real(Stored(v)) : j <= k}
         IN  /\ Cardinality(Passed(c)) \in Nat
             /\ Cardinality(Passed(c)) < CRED_GC_MAX_SCAN_ID
             /\ \A x \in RealIds : Adjacent(Stored(v), c, x) =>
                  /\ Cardinality(Passed(x)) \in Nat
                  /\ Cardinality(Passed(c)) + 1 <= Cardinality(Passed(x))
<1> DEFINE R == Real(Stored(v))
           Passed(k) == {j \in R : j <= k}
<1>1. /\ R \subseteq RealIds /\ IsFiniteSet(R) /\ Cardinality(R) \in Nat
      /\ Cardinality(R) <= MaxCreds
  BY FinitePool DEF Filed
<1>2. \A k : /\ IsFiniteSet(Passed(k)) /\ Cardinality(Passed(k)) \in Nat
             /\ Cardinality(Passed(k)) <= Cardinality(R)
  BY <1>1, FS_Subset, FS_CardinalityType
<1>3. Cardinality(Passed(c)) < CRED_GC_MAX_SCAN_ID
  BY <1>1, <1>2, ConstantsAssumption
<1>4. ASSUME NEW x \in RealIds, Adjacent(Stored(v), c, x)
      PROVE  Cardinality(Passed(c)) + 1 <= Cardinality(Passed(x))
  <2>1. x \in R /\ c < x /\ c \in Nat /\ x \in Nat
    BY <1>4, KeyFacts, FinitePool DEF Adjacent, Real
  <2>2. x \notin Passed(c)
    BY <2>1
  <2>3. Passed(c) \union {x} \subseteq Passed(x)
    <3>1. \A j \in R : j <= c => j <= x
      BY <1>1, <2>1, KeyFacts
    <3>2. x <= x
      BY <2>1
    <3> QED
      BY <2>1, <3>1, <3>2
  <2>4. /\ IsFiniteSet(Passed(c) \union {x})
        /\ Cardinality(Passed(c) \union {x}) = Cardinality(Passed(c)) + 1
    BY <1>2, <2>2, FS_AddElement
  <2>5. Cardinality(Passed(c) \union {x}) <= Cardinality(Passed(x))
    BY <1>2, <2>3, FS_Subset
  <2> QED
    BY <2>4, <2>5
<1> QED
  BY <1>2, <1>3, <1>4

CacheType == [RealIds -> Data \union {NoData}]

\* rebuildCache(): one more record of the list.
LEMMA FillCache ==
  ASSUME NEW v, Clean(v), NEW c \in CacheType, NEW k, CachedUpTo(v, c, k),
         NEW d, d = IF k \in RealIds /\ v[k].data \in ActiveData
                      THEN [c EXCEPT ![k] = v[k].data] ELSE c
  PROVE  /\ d \in CacheType
         /\ k = LAST_KEY => Agrees(v, d, RealIds)
         /\ k # LAST_KEY => CachedUpTo(v, d, v[k].nextId)
<1> DEFINE S == Stored(v)
           x == v[k].nextId
<1>1. S \subseteq Keys /\ k \in S
  BY FinitePool DEF CachedUpTo
<1>2. d \in CacheType /\ \A i \in RealIds \ {k} : d[i] = c[i]
  BY ConstantsAssumption DEF CacheType
<1>3. ASSUME k = LAST_KEY PROVE Agrees(v, d, RealIds)
  <2>1. {i \in RealIds : i < k} = RealIds /\ d = c
    BY <1>3, KeyFacts
  <2> QED
    BY <2>1 DEF CachedUpTo
<1>4. ASSUME k # LAST_KEY PROVE CachedUpTo(v, d, x)
  <2>1. Adjacent(S, k, x) /\ k \in Nat /\ x \in Nat /\ k < x /\ x \in S
    <3>1. Adjacent(S, k, x)
      BY <1>1, <1>4 DEF Clean, Forward
    <3> QED
      BY <1>1, <3>1, Between, KeyFacts
  <2>2. ASSUME NEW i \in RealIds, i < x
        PROVE  /\ d[i] # NoData => i \in S /\ d[i] = v[i].data
               /\ i \in S /\ v[i].data \in ActiveData => d[i] = v[i].data
    <3>1. CASE i < k
      BY <3>1, <1>2, <2>1, KeyFacts DEF CachedUpTo, Agrees
    <3>2. CASE i = k
      <4>1. c[k] = NoData
        BY <3>2, <2>1, KeyFacts DEF CachedUpTo
      <4> QED
        BY <3>2, <4>1, <1>1 DEF CacheType
    <3>3. CASE k < i
      <4>1. i \notin S
        BY <2>2, <3>3, <2>1, <1>1, KeyFacts DEF Adjacent
      <4>2. d[i] = NoData
        BY <3>3, <1>2, <2>1, KeyFacts DEF CachedUpTo
      <4> QED
        BY <4>1, <4>2
    <3> QED
      BY <3>1, <3>2, <3>3, <2>1, KeyFacts
  <2>3. \A i \in RealIds : x <= i => d[i] = NoData
    BY <1>2, <2>1, KeyFacts DEF CachedUpTo
  <2> QED
    BY <2>1, <2>2, <2>3 DEF CachedUpTo, Agrees
<1> QED
  BY <1>2, <1>3, <1>4

\* A cache that is empty has come to the head.
LEMMA EmptyCache ==
  ASSUME NEW v, Clean(v)
  PROVE  NoCache \in CacheType /\ CachedUpTo(v, NoCache, FIRST_KEY)
<1>1. {i \in RealIds : i < FIRST_KEY} = {}
  BY KeyFacts
<1> QED
  BY <1>1, FiledFacts DEF Clean, NoCache, CacheType, CachedUpTo, Agrees

-----------------------------------------------------------------------------
(***************************************************************************)
(* The steps of the store.                                                 *)
(***************************************************************************)
OpType == [pc : OpSteps, cred : CredRecord, prev : CredRecord, next : CredRecord]

LEMMA IdleType == Idle \in OpType /\ Idle.pc = "idle" /\ Blank \in CredRecord
BY KeyFacts DEF Idle, Blank, OpType, OpSteps, CredRecord

\* A write succeeds, as MaxFaults = 0 says.
LEMMA WriteStep ==
  ASSUME OneAtATime, nvs \in NvsType, faults = 0, NEW rec \in CredRecord,
         \E ok \in Outcomes : writeData(rec, ok)
  PROVE  nvs' \in NvsType /\ faults' = 0 /\ Wrote(nvs, nvs', rec.credId, rec)
<1>1. Outcomes = {TRUE}
  BY DEF Outcomes, OneAtATime
<1>2. nvs' = [nvs EXCEPT ![rec.credId] = rec] /\ faults' = 0
  BY <1>1 DEF writeData
<1>3. rec.credId \in Keys
  BY DEF CredRecord
<1>4. Wrote(nvs, [nvs EXCEPT ![rec.credId] = rec], rec.credId, rec)
  BY <1>3, WriteKey
<1> QED
  BY <1>2, <1>4 DEF Wrote

LEMMA EraseStep ==
  ASSUME OneAtATime, nvs \in NvsType, faults = 0, NEW k \in Keys,
         \E ok \in Outcomes : removeKey(k, ok)
  PROVE  nvs' \in NvsType /\ faults' = 0 /\ Wiped(nvs, nvs', k)
<1>1. Outcomes = {TRUE}
  BY DEF Outcomes, OneAtATime
<1>2. nvs' = [nvs EXCEPT ![k] = NoRec] /\ faults' = 0
  BY <1>1 DEF removeKey
<1>3. Wiped(nvs, [nvs EXCEPT ![k] = NoRec], k)
  BY EraseKey
<1> QED
  BY <1>2, <1>3 DEF Wiped

\* Relinking a record changes no content.
LEMMA SameContent ==
  ASSUME NEW v \in NvsType, NEW w, NEW k \in Stored(v), NEW rec, NEW p, NEW n,
         Relinks(rec, v[k], p, n), Wrote(v, w, k, rec)
  PROVE  Stored(w) = Stored(v) /\ \A i \in Keys : w[i].data = v[i].data
BY FinitePool DEF Wrote, Relinks

LEMMA AgreesStill ==
  ASSUME NEW I \in SUBSET RealIds, NEW v, NEW w, NEW c, NEW d, Agrees(v, c, I),
         \A i \in I : /\ i \in Stored(w) <=> i \in Stored(v)
                      /\ i \in Stored(v) => w[i].data = v[i].data
                      /\ d[i] = c[i]
  PROVE  Agrees(w, d, I)
BY DEF Agrees

\* A task that has an operation is the only one, and begin() has ended.
LEMMA AtWork ==
  ASSUME StoreInv, NEW t \in Tasks, op[t].pc # "idle"
  PROVE  boot.pc = "up" /\ OpInv(op[t]) /\ \A s \in Tasks \ {t} : op[s].pc = "idle"
<1>1. boot.pc = "up"
  BY IdleType DEF StoreInv, BootInv
<1> QED
  BY <1>1 DEF StoreInv, UpInv

\* Before an operation the list is whole and cached.
LEMMA AtRest ==
  ASSUME OneAtATime, StoreInv, NEW t \in Tasks, MayStart(t)
  PROVE  /\ boot.pc = "up" /\ \A s \in Tasks : op[s].pc = "idle"
         /\ Clean(nvs) /\ Agrees(nvs, cache, RealIds)
<1>1. boot.pc = "up" /\ \A s \in Tasks : op[s].pc = "idle"
  BY DEF MayStart, OneAtATime
<1>2. PICK s \in Tasks : OpInv(op[s])
  BY <1>1 DEF StoreInv, UpInv
<1>3. op[s].pc = "idle"
  BY <1>1
<1> QED
  BY <1>1, <1>2, <1>3 DEF OpInv, Inserting, Updating, Removing

\* A step of the task t leaves the store in order.
LEMMA TaskDone ==
  ASSUME StoreInv, boot.pc = "up", boot' = boot, NEW t \in Tasks,
         op' \in [Tasks -> OpType], \A s \in Tasks \ {t} : op'[s].pc = "idle",
         OpInv(op[t])', nvs' \in NvsType, cache' \in CacheType, faults' = 0,
         acked' \subseteq Members(nvs')
  PROVE  StoreInv'
<1>1. TypeOK'
  BY ConstantsAssumption DEF StoreInv, TypeOK, OpType, CacheType, NvsType, Members
<1>2. BootInv'
  BY DEF StoreInv, BootInv
<1>3. UpInv'
  BY DEF UpInv
<1> QED
  BY <1>1, <1>2, <1>3 DEF StoreInv

LEMMA Types ==
  ASSUME StoreInv
  PROVE  /\ nvs \in NvsType /\ cache \in CacheType /\ op \in [Tasks -> OpType]
         /\ faults = 0 /\ acked \subseteq Members(nvs)
         /\ boot \in [pc : BootSteps, then : {"ensure", "cache"}, cur : Keys,
                      next : CredRecord, steps : 0 .. CRED_GC_MAX_SCAN_ID,
                      seen : 0 .. MaxFaults]
         /\ \A t \in Tasks : /\ op[t].cred \in CredRecord /\ op[t].prev \in CredRecord
                             /\ op[t].next \in CredRecord /\ op[t].pc \in OpSteps
BY DEF StoreInv, TypeOK, NvsType, CacheType, OpType

\* Step(t, pc) and Return(t).
LEMMA OpSteppedTo ==
  ASSUME NEW t \in Tasks, op \in [Tasks -> OpType], NEW pc \in OpSteps, Step(t, pc)
  PROVE  /\ op' \in [Tasks -> OpType]
         /\ op'[t].pc = pc /\ op'[t].cred = op[t].cred
         /\ op'[t].prev = op[t].prev /\ op'[t].next = op[t].next
         /\ \A s \in Tasks \ {t} : op'[s] = op[s]
BY DEF Step, OpType

LEMMA OpReturned ==
  ASSUME NEW t \in Tasks, op \in [Tasks -> OpType], Return(t)
  PROVE  /\ op' \in [Tasks -> OpType] /\ op'[t].pc = "idle"
         /\ \A s \in Tasks \ {t} : op'[s] = op[s]
BY IdleType DEF Return

\* The pool an observer would find in v.
Content(v) == [i \in RealIds |-> IF i \in Members(v) THEN v[i].data ELSE NoData]

SamePool(v, w) == Content(w) = Content(v) /\ Issued(w) = Issued(v)

LEMMA SamePoolIf ==
  ASSUME NEW v, NEW w, Members(w) = Members(v), Issued(w) = Issued(v),
         \A i \in Members(v) : w[i].data = v[i].data
  PROVE  SamePool(v, w)
BY DEF SamePool, Content

\* addCred() takes the next free identifier and reads the records to write.
LEMMA AddCredInv ==
  ASSUME OneAtATime, StoreInv, NEW d \in Data, addCred(d)
  PROVE  StoreInv' /\ SamePool(nvs, nvs')
<1> DEFINE last == nvs[LAST_KEY]
           new == last.nextId
           p == last.prevId
           cred == [credId |-> new, prevId |-> p, nextId |-> LAST_KEY, data |-> d]
           prev == [nvs[p] EXCEPT !.nextId = new]
           next == [last EXCEPT !.nextId = new + 1, !.prevId = new]
           o == [pc |-> "insertPrev", prev |-> prev, cred |-> cred, next |-> next]
<1>1. /\ boot.pc = "up" /\ \A s \in Tasks : op[s].pc = "idle"
      /\ Clean(nvs) /\ Agrees(nvs, cache, RealIds) /\ "web" \in Tasks
  BY AtRest DEF addCred, Tasks
<1>2. /\ d \in ValidData /\ new < LAST_KEY /\ op' = [op EXCEPT !["web"] = o]
      /\ Cardinality(Present \ {FIRST_KEY, LAST_KEY}) < MaxCreds
      /\ UNCHANGED <<nvs, cache, boot, faults, acked>>
  BY DEF addCred
<1>3. Filed(nvs) /\ nvs \in NvsType /\ LAST_KEY \in Stored(nvs) /\ last \in CredRecord
  BY <1>1, FiledFacts DEF Clean
<1>4. new \in RealIds
  <2>1. FIRST_KEY < new
    BY <1>1, <1>3, FiledFacts DEF Clean, Above
  <2>2. new \in Keys
    BY <1>3 DEF CredRecord
  <2> QED
    BY <1>2, <2>1, <2>2, KeyFacts DEF RealIds
<1>5. p \in Stored(nvs) /\ p \in Keys /\ nvs[p] \in CredRecord
  <2>1. Adjacent(Stored(nvs), p, LAST_KEY)
    BY <1>1, <1>3, FiledFacts DEF Clean, Backward
  <2> QED
    BY <2>1, <1>3, FiledFacts DEF Adjacent
<1>6. Relinks(prev, nvs[p], nvs[p].prevId, new)
  BY <1>4, <1>5, Relinked, KeyFacts
<1>7. Relinks(next, last, new, new + 1)
  <2>1. new + 1 \in Keys /\ new \in Keys
    BY <1>4, KeyFacts
  <2> QED
    BY <2>1, <1>3, Relinked
<1>8. cred \in CredRecord
  BY <1>2, <1>4, <1>5, KeyFacts, ConstantsAssumption DEF CredRecord
<1>9. o \in OpType
  BY <1>6, <1>7, <1>8 DEF OpType, OpSteps, Relinks
<1>10. /\ op' \in [Tasks -> OpType] /\ op'["web"] = o
       /\ \A s \in Tasks \ {"web"} : op'[s].pc = "idle"
  BY <1>1, <1>2, <1>9, Types
<1>11. Present \ {FIRST_KEY, LAST_KEY} = Real(Stored(nvs))
  BY DEF Present, Readable, Stored, Real
<1>12. Agrees(nvs, cache, RealIds \ {new})
  BY <1>1 DEF Agrees
<1>13. Inserting(o)
  BY <1>1, <1>2, <1>4, <1>6, <1>7, <1>11, <1>12 DEF Inserting
<1>14. OpInv(op["web"])'
  BY <1>2, <1>10, <1>13 DEF OpInv, Inserting
<1>15. StoreInv'
  BY <1>1, <1>2, <1>10, <1>14, Types, TaskDone
<1> QED
  BY <1>2, <1>15 DEF SamePool

\* addCred(), first write.
LEMMA InsertPrevInv ==
  ASSUME OneAtATime, StoreInv, NEW t \in Tasks, insertPrev(t)
  PROVE  StoreInv' /\ SamePool(nvs, nvs')
<1> DEFINE o == op[t]
           n == o.cred.credId
           p == o.cred.prevId
<1>1. /\ boot.pc = "up" /\ Inserting(o) /\ o.pc = "insertPrev"
      /\ \A s \in Tasks \ {t} : op[s].pc = "idle"
  BY AtWork DEF insertPrev, OpInv, Updating, Removing
<1>2. /\ Clean(nvs) /\ Cardinality(Real(Stored(nvs))) < MaxCreds
      /\ n \in RealIds /\ n = nvs[LAST_KEY].nextId /\ p = nvs[LAST_KEY].prevId
      /\ o.cred.nextId = LAST_KEY /\ o.cred.data \in ValidData
      /\ Relinks(o.prev, nvs[p], nvs[p].prevId, n)
      /\ Relinks(o.next, nvs[LAST_KEY], n, n + 1)
      /\ Agrees(nvs, cache, RealIds \ {n})
  BY <1>1 DEF Inserting
<1>3. /\ Filed(nvs) /\ LAST_KEY \in Stored(nvs) /\ p \in Stored(nvs) /\ p # LAST_KEY
      /\ nvs[p].credId = p /\ Stored(nvs) \subseteq Keys
  <2>1. Filed(nvs) /\ LAST_KEY \in Stored(nvs) \ {FIRST_KEY} /\ Stored(nvs) \subseteq Keys
    BY <1>2, FiledFacts DEF Clean
  <2>2. Adjacent(Stored(nvs), p, LAST_KEY)
    BY <1>2, <2>1 DEF Clean, Backward
  <2> QED
    BY <2>1, <2>2, Between DEF Filed
<1>4. nvs' \in NvsType /\ faults' = 0 /\ Wrote(nvs, nvs', p, o.prev)
  <2>1. o.prev.credId = p /\ o.prev \in CredRecord
    BY <1>2, <1>3 DEF Relinks
  <2> QED
    BY <2>1, Types, WriteStep DEF insertPrev
<1>5. Announced(nvs', p, n) /\ Stored(nvs') = Stored(nvs)
  BY <1>2, <1>4, Announce
<1>6. /\ op' \in [Tasks -> OpType] /\ op'[t].pc = "insertCred"
      /\ op'[t].cred = o.cred /\ op'[t].next = o.next
      /\ \A s \in Tasks \ {t} : op'[s].pc = "idle"
  BY <1>1, Types, OpSteppedTo DEF insertPrev, OpSteps
<1>7. cache' = cache /\ boot' = boot /\ acked' = acked
  BY DEF insertPrev
<1>8. \A i \in Keys : nvs'[i].data = nvs[i].data
  BY <1>2, <1>3, <1>4, Types, SameContent
<1>9. nvs'[LAST_KEY] = nvs[LAST_KEY]
  BY <1>3, <1>4 DEF Wrote
<1>10. Agrees(nvs', cache', RealIds \ {n})
  BY <1>2, <1>5, <1>7, <1>8, KeyFacts, AgreesStill
<1>11. OpInv(op[t])'
  BY <1>2, <1>5, <1>6, <1>9, <1>10 DEF OpInv, Inserting
<1>12. Members(nvs') = Members(nvs) /\ Members(nvs) \subseteq Keys
  BY <1>2, <1>5, CleanMembers, AnnouncedMembers, KeyFacts DEF Members
<1>13. SamePool(nvs, nvs')
  <2>1. Issued(nvs') = Issued(nvs)
    BY <1>2, <1>5, IssuedIs
  <2> QED
    BY <2>1, <1>8, <1>12, SamePoolIf
<1>14. StoreInv'
  BY <1>1, <1>4, <1>6, <1>7, <1>11, <1>12, Types, TaskDone
<1> QED
  BY <1>13, <1>14

\* addCred(), second write: from now on the credential is in the pool.
AddsTo(v, w) ==
  \E n \in RealIds, d \in Data :
    /\ n = Issued(v) + 1 /\ Issued(w) = n
    /\ Content(w) = [Content(v) EXCEPT ![n] = d]

LEMMA InsertCredInv ==
  ASSUME OneAtATime, StoreInv, NEW t \in Tasks, insertCred(t)
  PROVE  StoreInv' /\ AddsTo(nvs, nvs')
<1> DEFINE o == op[t]
           n == o.cred.credId
           p == o.cred.prevId
<1>1. /\ boot.pc = "up" /\ Inserting(o) /\ o.pc = "insertCred"
      /\ \A s \in Tasks \ {t} : op[s].pc = "idle"
  BY AtWork DEF insertCred, OpInv, Updating, Removing
<1>2. /\ Announced(nvs, p, n) /\ n \in RealIds
      /\ n = nvs[LAST_KEY].nextId /\ p = nvs[LAST_KEY].prevId
      /\ o.cred.nextId = LAST_KEY /\ o.cred.data \in ValidData
      /\ Relinks(o.next, nvs[LAST_KEY], n, n + 1)
      /\ Agrees(nvs, cache, RealIds \ {n})
  BY <1>1 DEF Inserting
<1>3. nvs' \in NvsType /\ faults' = 0 /\ Wrote(nvs, nvs', n, o.cred)
  BY Types, WriteStep DEF insertCred
<1>4. Inserted(nvs', p, n) /\ Stored(nvs') = Stored(nvs) \union {n}
  BY <1>2, <1>3, Types, Insert
<1>5. /\ op' \in [Tasks -> OpType] /\ op'[t].pc = "insertTail"
      /\ op'[t].cred = o.cred /\ op'[t].next = o.next
      /\ \A s \in Tasks \ {t} : op'[s].pc = "idle"
  BY <1>1, Types, OpSteppedTo DEF insertCred, OpSteps
<1>6. cache' = cache /\ boot' = boot /\ acked' = acked
  BY DEF insertCred
<1>7. \A i \in Keys \ {n} : nvs'[i] = nvs[i]
  BY <1>3 DEF Wrote
<1>8. nvs'[LAST_KEY] = nvs[LAST_KEY] /\ nvs'[n].data = o.cred.data
  BY <1>2, <1>3, <1>7, KeyFacts DEF Wrote
<1>9. Agrees(nvs', cache', RealIds \ {n})
  BY <1>2, <1>4, <1>6, <1>7, KeyFacts, AgreesStill
<1>10. OpInv(op[t])'
  BY <1>2, <1>4, <1>5, <1>8, <1>9 DEF OpInv, Inserting
<1>11. Members(nvs') = Members(nvs) \union {n} /\ Members(nvs) \subseteq Keys \ {n}
  <2>1. Members(nvs) = Real(Stored(nvs)) /\ Members(nvs') = Real(Stored(nvs'))
    BY <1>2, <1>4, AnnouncedMembers, InsertedMembers
  <2>2. Stored(nvs) \subseteq Keys /\ n \notin Stored(nvs)
    BY <1>2, FinitePool DEF Announced
  <2> QED
    BY <2>1, <2>2, <1>2, <1>4, KeyFacts DEF Real
<1>12. AddsTo(nvs, nvs')
  <2>1. Issued(nvs) = n - 1 /\ Issued(nvs') = n
    BY <1>2, <1>4, IssuedIs
  <2>2. Content(nvs') = [Content(nvs) EXCEPT ![n] = o.cred.data]
    BY <1>2, <1>7, <1>8, <1>11, KeyFacts DEF Content
  <2>3. Issued(nvs) + 1 = n
    BY <2>1, <1>2, KeyFacts
  <2>4. o.cred.data \in Data
    BY <1>2, ConstantsAssumption
  <2> QED
    BY <2>1, <2>2, <2>3, <2>4, <1>2 DEF AddsTo
<1>13. StoreInv'
  BY <1>1, <1>3, <1>5, <1>6, <1>10, <1>11, Types, TaskDone
<1> QED
  BY <1>12, <1>13

\* An entry that the operation writes itself makes the cache agree everywhere.
LEMMA AgreesAll ==
  ASSUME NEW k \in RealIds, NEW v, NEW c, Agrees(v, c, RealIds \ {k}),
         NEW d, NEW e, d = [c EXCEPT ![k] = e], c \in CacheType,
         \/ k \in Stored(v) /\ e = v[k].data
         \/ k \notin Stored(v) /\ e = NoData
  PROVE  Agrees(v, d, RealIds)
BY DEF Agrees, CacheType

\* addCred(), third write.
LEMMA InsertTailInv ==
  ASSUME OneAtATime, StoreInv, NEW t \in Tasks, insertTail(t)
  PROVE  StoreInv' /\ SamePool(nvs, nvs')
<1> DEFINE o == op[t]
           n == o.cred.credId
           p == o.cred.prevId
<1>1. /\ boot.pc = "up" /\ Inserting(o) /\ o.pc = "insertTail"
      /\ \A s \in Tasks \ {t} : op[s].pc = "idle"
  BY AtWork DEF insertTail, OpInv, Updating, Removing
<1>2. /\ Inserted(nvs, p, n) /\ n \in RealIds /\ nvs[n].data = o.cred.data
      /\ n = nvs[LAST_KEY].nextId /\ o.cred.data \in ValidData
      /\ Relinks(o.next, nvs[LAST_KEY], n, n + 1)
      /\ Agrees(nvs, cache, RealIds \ {n})
  BY <1>1 DEF Inserting
<1>3. Filed(nvs) /\ LAST_KEY \in Stored(nvs) /\ nvs[LAST_KEY].credId = LAST_KEY
  BY <1>2, FiledFacts DEF Inserted, Filed
<1>4. /\ nvs' \in NvsType /\ faults' = 0 /\ Wrote(nvs, nvs', LAST_KEY, o.next)
      /\ cache' = [cache EXCEPT ![n] = o.cred.data] /\ acked' = acked \union {n}
  <2>1. o.next.credId = LAST_KEY /\ o.next \in CredRecord
    BY <1>2, <1>3 DEF Relinks
  <2>2. Outcomes = {TRUE}
    BY Types DEF Outcomes, OneAtATime
  <2>3. \E ok \in Outcomes : writeData(o.next, ok)
    BY DEF insertTail
  <2> QED
    BY <2>1, <2>2, <2>3, Types, WriteStep DEF insertTail
<1>5. Clean(nvs') /\ Stored(nvs') = Stored(nvs)
  BY <1>2, <1>4, MoveTail
<1>6. /\ op' \in [Tasks -> OpType] /\ op'[t].pc = "idle"
      /\ \A s \in Tasks \ {t} : op'[s].pc = "idle"
  BY <1>1, Types, OpReturned DEF insertTail
<1>7. boot' = boot
  BY DEF insertTail
<1>8. \A i \in Keys : nvs'[i].data = nvs[i].data
  BY <1>2, <1>3, <1>4, Types, SameContent
<1>9. n \in Real(Stored(nvs')) /\ nvs'[n].data = o.cred.data
  BY <1>2, <1>5, <1>8, KeyFacts DEF Inserted
<1>10. Agrees(nvs', cache, RealIds \ {n})
  BY <1>2, <1>5, <1>8, KeyFacts, AgreesStill
<1>11. Agrees(nvs', cache', RealIds)
  BY <1>2, <1>4, <1>9, <1>10, Types, AgreesAll DEF Real
<1>12. OpInv(op[t])'
  BY <1>5, <1>6, <1>11 DEF OpInv
<1>13. /\ Members(nvs') = Members(nvs) /\ n \in Members(nvs)
       /\ Members(nvs) \subseteq Keys
  BY <1>2, <1>5, <1>9, CleanMembers, InsertedMembers, KeyFacts DEF Members
<1>14. SamePool(nvs, nvs')
  <2>1. nvs'[LAST_KEY].nextId = n + 1
    BY <1>2, <1>4 DEF Wrote, Relinks
  <2>2. Issued(nvs') = Issued(nvs)
    BY <2>1, <1>2, <1>5, IssuedIs, KeyFacts
  <2> QED
    BY <2>2, <1>8, <1>13, SamePoolIf
<1>15. cache' \in CacheType
  BY <1>2, <1>4, Types, ConstantsAssumption DEF CacheType
<1>16. acked' \subseteq Members(nvs')
  BY <1>4, <1>13, Types
<1>17. StoreInv'
  BY <1>1, <1>4, <1>6, <1>7, <1>12, <1>15, <1>16, TaskDone
<1> QED
  BY <1>14, <1>17

\* A readable key of a whole list that holds a credential.
LEMMA CredentialKey ==
  ASSUME NEW v, Clean(v), NEW k \in Keys, k \in Stored(v), v[k].data # NoData
  PROVE  k \in Real(Stored(v)) /\ k \in RealIds
BY FinitePool DEF Clean, Filed, Real

\* updateCred() reads the record to replace.
LEMMA UpdateCredInv ==
  ASSUME OneAtATime, StoreInv, NEW t \in Tasks, NEW id \in Keys, NEW d \in Data,
         updateCred(t, id, d)
  PROVE  StoreInv' /\ SamePool(nvs, nvs')
<1> DEFINE cred == [nvs[id] EXCEPT !.data = d]
           o == [Idle EXCEPT !.pc = "update", !.cred = cred]
<1>1. /\ boot.pc = "up" /\ \A s \in Tasks : op[s].pc = "idle"
      /\ Clean(nvs) /\ Agrees(nvs, cache, RealIds)
  BY AtRest DEF updateCred
<1>2. /\ d \in ValidData /\ id \in Stored(nvs) /\ op' = [op EXCEPT ![t] = o]
      /\ nvs[id].data # NoData /\ nvs[id].data.ident = d.ident
      /\ UNCHANGED <<nvs, cache, boot, faults, acked>>
  BY DEF updateCred, Updatable, Readable, Stored
<1>3. /\ id \in Real(Stored(nvs)) /\ id \in RealIds
      /\ nvs[id] \in CredRecord /\ nvs[id].credId = id
  BY <1>1, <1>2, CredentialKey, FiledFacts DEF Clean, Filed
<1>4. /\ cred \in CredRecord /\ cred.credId = id /\ cred.data = d
      /\ cred.prevId = nvs[id].prevId /\ cred.nextId = nvs[id].nextId
  BY <1>3 DEF CredRecord
<1>5. o \in OpType /\ o.pc = "update" /\ o.cred = cred
  BY <1>4, IdleType DEF OpType, OpSteps
<1>6. /\ op' \in [Tasks -> OpType] /\ op'[t] = o
      /\ \A s \in Tasks \ {t} : op'[s].pc = "idle"
  BY <1>1, <1>2, <1>5, Types
<1>7. Agrees(nvs, cache, RealIds \ {id})
  BY <1>1 DEF Agrees
<1>8. Updating(o)
  BY <1>1, <1>2, <1>3, <1>4, <1>5, <1>7 DEF Updating
<1>9. OpInv(op[t])'
  BY <1>2, <1>6, <1>8 DEF OpInv, Updating
<1>10. StoreInv'
  BY <1>1, <1>2, <1>6, <1>9, Types, TaskDone
<1> QED
  BY <1>2, <1>10 DEF SamePool

\* updateCred(), its write: the credential keeps its name, type and secret.
Updates(v, w) ==
  \E i \in RealIds, d \in Data :
    /\ Content(v)[i] # NoData /\ Content(v)[i].ident = d.ident
    /\ Content(w) = [Content(v) EXCEPT ![i] = d] /\ Issued(w) = Issued(v)

LEMMA UpdateWriteInv ==
  ASSUME OneAtATime, StoreInv, NEW t \in Tasks, updateWrite(t)
  PROVE  StoreInv' /\ Updates(nvs, nvs')
<1> DEFINE o == op[t]
           k == o.cred.credId
           d == o.cred.data
<1>1. /\ boot.pc = "up" /\ Updating(o)
      /\ \A s \in Tasks \ {t} : op[s].pc = "idle"
  BY AtWork DEF updateWrite, OpInv, Inserting, Removing
<1>2. /\ Clean(nvs) /\ k \in Real(Stored(nvs)) /\ k \in RealIds
      /\ d \in ValidData /\ d.ident = nvs[k].data.ident
      /\ o.cred.prevId = nvs[k].prevId /\ o.cred.nextId = nvs[k].nextId
      /\ Agrees(nvs, cache, RealIds \ {k})
  BY <1>1, FinitePool DEF Updating
<1>3. /\ nvs' \in NvsType /\ faults' = 0 /\ Wrote(nvs, nvs', k, o.cred)
      /\ cache' = [cache EXCEPT ![k] = d]
  <2>1. Outcomes = {TRUE}
    BY Types DEF Outcomes, OneAtATime
  <2>2. \E ok \in Outcomes : writeData(o.cred, ok)
    BY DEF updateWrite
  <2> QED
    BY <2>1, <2>2, Types, WriteStep DEF updateWrite
<1>4. Clean(nvs') /\ Stored(nvs') = Stored(nvs)
  BY <1>2, <1>3, Types, Rewrite
<1>5. /\ op' \in [Tasks -> OpType] /\ op'[t].pc = "idle"
      /\ \A s \in Tasks \ {t} : op'[s].pc = "idle"
  BY <1>1, Types, OpReturned DEF updateWrite
<1>6. boot' = boot /\ acked' = acked
  BY DEF updateWrite
<1>7. nvs'[k].data = d /\ \A i \in Keys \ {k} : nvs'[i] = nvs[i]
  BY <1>3 DEF Wrote
<1>8. Agrees(nvs', cache, RealIds \ {k})
  BY <1>2, <1>4, <1>7, KeyFacts, AgreesStill
<1>9. Agrees(nvs', cache', RealIds)
  <2>1. k \in Stored(nvs')
    BY <1>2, <1>4 DEF Real
  <2> QED
    BY <2>1, <1>2, <1>3, <1>7, <1>8, Types, AgreesAll
<1>10. OpInv(op[t])'
  BY <1>4, <1>5, <1>9 DEF OpInv
<1>11. Members(nvs') = Members(nvs) /\ k \in Members(nvs)
  BY <1>2, <1>4, CleanMembers
<1>12. Updates(nvs, nvs')
  <2>1. nvs'[LAST_KEY] = nvs[LAST_KEY]
    BY <1>2, <1>7, KeyFacts
  <2>2. Issued(nvs') = Issued(nvs)
    BY <2>1, <1>2, <1>4, IssuedIs
  <2>3. Content(nvs') = [Content(nvs) EXCEPT ![k] = d]
    BY <1>2, <1>7, <1>11, KeyFacts DEF Content
  <2>4. Content(nvs)[k] = nvs[k].data /\ nvs[k].data # NoData
    BY <1>2, <1>11, ConstantsAssumption DEF Content, Clean, Filed
  <2> QED
    BY <2>2, <2>3, <2>4, <1>2, ConstantsAssumption DEF Updates
<1>13. cache' \in CacheType
  BY <1>2, <1>3, Types, ConstantsAssumption DEF CacheType
<1>14. StoreInv'
  BY <1>1, <1>3, <1>5, <1>6, <1>10, <1>11, <1>13, Types, TaskDone
<1> QED
  BY <1>12, <1>14

\* removeCred() reads the record and its neighbours.
LEMMA RemoveCredInv ==
  ASSUME OneAtATime, StoreInv, NEW t \in Tasks, NEW id \in Keys, NEW ident \in Idents,
         removeCred(t, id, ident)
  PROVE  StoreInv' /\ SamePool(nvs, nvs')
<1> DEFINE rec == nvs[id]
           p == rec.prevId
           q == rec.nextId
           prev == [nvs[p] EXCEPT !.nextId = q]
           next == [nvs[q] EXCEPT !.prevId = p]
           o == [pc |-> "removePrev", cred |-> rec, prev |-> prev, next |-> next]
<1>1. /\ boot.pc = "up" /\ \A s \in Tasks : op[s].pc = "idle"
      /\ Clean(nvs) /\ Agrees(nvs, cache, RealIds)
  BY AtRest DEF removeCred
<1>2. /\ id \in Stored(nvs) /\ op' = [op EXCEPT ![t] = o] /\ rec.data # NoData
      /\ UNCHANGED <<nvs, cache, boot, faults, acked>>
  BY DEF removeCred, Readable, Stored
<1>3. id \in Real(Stored(nvs)) /\ id \in RealIds /\ rec \in CredRecord /\ rec.credId = id
  BY <1>1, <1>2, CredentialKey, FiledFacts DEF Clean, Filed
<1>4. /\ p \in Stored(nvs) /\ q \in Stored(nvs) /\ p \in Keys /\ q \in Keys
      /\ nvs[p] \in CredRecord /\ nvs[q] \in CredRecord
  <2>1. Adjacent(Stored(nvs), p, id) /\ Adjacent(Stored(nvs), id, q)
    BY <1>1, <1>3 DEF Clean, Forward, Backward, Real
  <2> QED
    BY <2>1, <1>1, FiledFacts DEF Adjacent, Clean
<1>5. Relinks(prev, nvs[p], nvs[p].prevId, q) /\ Relinks(next, nvs[q], p, nvs[q].nextId)
  BY <1>4, Relinked
<1>6. o \in OpType
  BY <1>3, <1>5 DEF OpType, OpSteps, Relinks
<1>7. /\ op' \in [Tasks -> OpType] /\ op'[t] = o
      /\ \A s \in Tasks \ {t} : op'[s].pc = "idle"
  BY <1>1, <1>2, <1>6, Types
<1>8. Agrees(nvs, cache, RealIds \ {id})
  BY <1>1 DEF Agrees
<1>9. Removing(o)
  BY <1>1, <1>3, <1>5, <1>8 DEF Removing
<1>10. OpInv(op[t])'
  BY <1>2, <1>7, <1>9 DEF OpInv, Removing
<1>11. StoreInv'
  BY <1>1, <1>2, <1>7, <1>10, Types, TaskDone
<1> QED
  BY <1>2, <1>11 DEF SamePool

\* removeCred(), first write: from now on the credential is not in the pool.
RemovesFrom(v, w) ==
  \E i \in RealIds :
    /\ Content(v)[i] # NoData
    /\ Content(w) = [Content(v) EXCEPT ![i] = NoData] /\ Issued(w) = Issued(v)

LEMMA RemovePrevInv ==
  ASSUME OneAtATime, StoreInv, NEW t \in Tasks, removePrev(t)
  PROVE  StoreInv' /\ RemovesFrom(nvs, nvs')
<1> DEFINE o == op[t]
           r == o.cred.credId
           p == o.cred.prevId
           q == o.cred.nextId
<1>1. /\ boot.pc = "up" /\ Removing(o) /\ o.pc = "removePrev"
      /\ \A s \in Tasks \ {t} : op[s].pc = "idle"
  BY AtWork DEF removePrev, OpInv, Inserting, Updating
<1>2. /\ Clean(nvs) /\ r \in Real(Stored(nvs)) /\ r \in RealIds
      /\ p = nvs[r].prevId /\ q = nvs[r].nextId
      /\ Relinks(o.prev, nvs[p], nvs[p].prevId, q)
      /\ Relinks(o.next, nvs[q], p, nvs[q].nextId)
      /\ Agrees(nvs, cache, RealIds \ {r})
  BY <1>1, FinitePool DEF Removing
<1>3. /\ p \in Stored(nvs) \ {LAST_KEY} /\ nvs[p].credId = p /\ p # q /\ q \in Keys
      /\ Stored(nvs) \subseteq Keys
  <2>1. Adjacent(Stored(nvs), p, r) /\ Adjacent(Stored(nvs), r, q)
    BY <1>2 DEF Clean, Forward, Backward, Real
  <2>2. Stored(nvs) \subseteq Keys /\ \A k \in Stored(nvs) : nvs[k].credId = k
    BY <1>2, FiledFacts DEF Clean, Filed
  <2>3. p \in Stored(nvs) \ {LAST_KEY} /\ p < r /\ r < q /\ q \in Keys /\ p \in Keys /\ r \in Keys
    BY <2>1, <2>2, Between
  <2> QED
    BY <2>2, <2>3, KeyFacts
<1>4. nvs' \in NvsType /\ faults' = 0 /\ Wrote(nvs, nvs', p, o.prev)
  <2>1. o.prev.credId = p /\ o.prev \in CredRecord
    BY <1>2, <1>3 DEF Relinks
  <2> QED
    BY <2>1, Types, WriteStep DEF removePrev
<1>5. Bypassed(nvs', p, r, q) /\ Stored(nvs') = Stored(nvs)
  <2> HIDE DEF p, q, r
  <2>1. Clean(nvs) /\ r \in Real(Stored(nvs)) /\ p = nvs[r].prevId /\ q = nvs[r].nextId
    BY <1>2
  <2>2. Relinks(o.prev, nvs[p], nvs[p].prevId, q) /\ Wrote(nvs, nvs', p, o.prev)
    BY <1>2, <1>4
  <2> QED
    BY <2>1, <2>2, Bypass
<1>6. /\ op' \in [Tasks -> OpType] /\ op'[t].pc = "removeCred"
      /\ op'[t].cred = o.cred /\ op'[t].next = o.next
      /\ \A s \in Tasks \ {t} : op'[s].pc = "idle"
  BY <1>1, Types, OpSteppedTo DEF removePrev, OpSteps
<1>7. cache' = cache /\ boot' = boot /\ acked' = acked \ {r}
  BY DEF removePrev
<1>8. \A i \in Keys : nvs'[i].data = nvs[i].data
  BY <1>2, <1>3, <1>4, Types, SameContent
<1>9. nvs'[q] = nvs[q] /\ nvs'[LAST_KEY] = nvs[LAST_KEY]
  BY <1>3, <1>4, KeyFacts DEF Wrote
<1>10. Agrees(nvs', cache', RealIds \ {r})
  BY <1>2, <1>5, <1>7, <1>8, KeyFacts, AgreesStill
<1>11. OpInv(op[t])'
  BY <1>2, <1>5, <1>6, <1>9, <1>10 DEF OpInv, Removing
<1>12. Members(nvs') = Members(nvs) \ {r} /\ r \in Members(nvs) /\ Members(nvs) \subseteq Keys
  <2>1. Members(nvs) = Real(Stored(nvs)) /\ Members(nvs') = Real(Stored(nvs')) \ {r}
    BY <1>2, <1>5, CleanMembers, BypassedMembers
  <2> QED
    BY <2>1, <1>2, <1>3, <1>5 DEF Real
<1>13. RemovesFrom(nvs, nvs')
  <2>1. Issued(nvs') = Issued(nvs)
    BY <1>2, <1>5, <1>9, IssuedIs
  <2>2. Content(nvs') = [Content(nvs) EXCEPT ![r] = NoData]
    BY <1>2, <1>8, <1>12, KeyFacts DEF Content
  <2>3. Content(nvs)[r] # NoData
    BY <1>2, <1>12, ConstantsAssumption DEF Content, Clean, Filed
  <2> QED
    BY <2>1, <2>2, <2>3, <1>2 DEF RemovesFrom
<1>14. acked' \subseteq Members(nvs')
  BY <1>7, <1>12, Types
<1>15. StoreInv'
  BY <1>1, <1>4, <1>6, <1>7, <1>11, <1>14, Types, TaskDone
<1> QED
  BY <1>13, <1>15

\* removeCred(), second write.
LEMMA RemoveEraseInv ==
  ASSUME OneAtATime, StoreInv, NEW t \in Tasks, removeErase(t)
  PROVE  StoreInv' /\ SamePool(nvs, nvs')
<1> DEFINE o == op[t]
           r == o.cred.credId
           p == o.cred.prevId
           q == o.cred.nextId
<1>1. /\ boot.pc = "up" /\ Removing(o) /\ o.pc = "removeCred"
      /\ \A s \in Tasks \ {t} : op[s].pc = "idle"
  BY AtWork DEF removeErase, OpInv, Inserting, Updating
<1>2. /\ Bypassed(nvs, p, r, q)
      /\ Relinks(o.next, nvs[q], p, nvs[q].nextId)
      /\ Agrees(nvs, cache, RealIds \ {r})
  BY <1>1 DEF Removing
<1>3. r \in RealIds /\ r \in Keys /\ r # q /\ q \in Keys
  <2>1. Adjacent(Stored(nvs), r, q) /\ r \in RealIds /\ Stored(nvs) \subseteq Keys
    BY <1>2, FinitePool DEF Bypassed
  <2>2. r < q /\ q \in Keys
    BY <2>1, Between
  <2> QED
    BY <2>1, <2>2, KeyFacts
<1>4. nvs' \in NvsType /\ faults' = 0 /\ Wiped(nvs, nvs', r)
  BY <1>3, Types, EraseStep DEF removeErase
<1>5. Erased(nvs', p, r, q) /\ Stored(nvs') = Stored(nvs) \ {r}
  BY <1>2, <1>4, Erase
<1>6. /\ op' \in [Tasks -> OpType] /\ op'[t].pc = "removeNext"
      /\ op'[t].cred = o.cred /\ op'[t].next = o.next
      /\ \A s \in Tasks \ {t} : op'[s].pc = "idle"
  BY <1>1, Types, OpSteppedTo DEF removeErase, OpSteps
<1>7. cache' = cache /\ boot' = boot /\ acked' = acked
  BY DEF removeErase
<1>8. \A i \in Keys \ {r} : nvs'[i] = nvs[i]
  BY <1>4 DEF Wiped
<1>9. nvs'[q] = nvs[q] /\ nvs'[LAST_KEY] = nvs[LAST_KEY]
  BY <1>3, <1>8, KeyFacts
<1>10. Agrees(nvs', cache', RealIds \ {r})
  BY <1>2, <1>5, <1>7, <1>8, KeyFacts, AgreesStill
<1>11. OpInv(op[t])'
  BY <1>2, <1>5, <1>6, <1>9, <1>10 DEF OpInv, Removing
<1>12. Members(nvs') = Members(nvs) /\ Members(nvs) \subseteq Keys \ {r}
  <2>1. Members(nvs) = Real(Stored(nvs)) \ {r} /\ Members(nvs') = Real(Stored(nvs'))
    BY <1>2, <1>5, BypassedMembers, ErasedMembers
  <2> QED
    BY <2>1, <1>5, FinitePool, KeyFacts DEF Real
<1>13. SamePool(nvs, nvs')
  <2>1. Issued(nvs') = Issued(nvs)
    BY <1>2, <1>5, <1>9, IssuedIs
  <2> QED
    BY <2>1, <1>8, <1>12, SamePoolIf
<1>14. StoreInv'
  BY <1>1, <1>4, <1>6, <1>7, <1>11, <1>12, Types, TaskDone
<1> QED
  BY <1>13, <1>14

\* removeCred(), third write.
LEMMA RemoveNextInv ==
  ASSUME OneAtATime, StoreInv, NEW t \in Tasks, removeNext(t)
  PROVE  StoreInv' /\ SamePool(nvs, nvs')
<1> DEFINE o == op[t]
           r == o.cred.credId
           p == o.cred.prevId
           q == o.cred.nextId
<1>1. /\ boot.pc = "up" /\ Removing(o) /\ o.pc = "removeNext"
      /\ \A s \in Tasks \ {t} : op[s].pc = "idle"
  BY AtWork DEF removeNext, OpInv, Inserting, Updating
<1>2. /\ Erased(nvs, p, r, q)
      /\ Relinks(o.next, nvs[q], p, nvs[q].nextId)
      /\ Agrees(nvs, cache, RealIds \ {r})
  BY <1>1 DEF Removing
<1>3. q \in Stored(nvs) /\ q \in Keys /\ nvs[q].credId = q /\ r \in RealIds \ Stored(nvs)
  <2>1. Filed(nvs) /\ Adjacent(Stored(nvs), p, q) /\ r \in RealIds \ Stored(nvs)
    BY <1>2 DEF Erased
  <2>2. q \in Stored(nvs) /\ Stored(nvs) \subseteq Keys
    BY <2>1, FiledFacts DEF Adjacent
  <2> QED
    BY <2>1, <2>2 DEF Filed
<1>4. /\ nvs' \in NvsType /\ faults' = 0 /\ Wrote(nvs, nvs', q, o.next)
      /\ cache' = [cache EXCEPT ![r] = NoData]
  <2>1. o.next.credId = q /\ o.next \in CredRecord
    BY <1>2, <1>3 DEF Relinks
  <2> QED
    BY <2>1, Types, WriteStep DEF removeNext
<1>5. Clean(nvs') /\ Stored(nvs') = Stored(nvs)
  BY <1>2, <1>4, LinkBack
<1>6. /\ op' \in [Tasks -> OpType] /\ op'[t].pc = "idle"
      /\ \A s \in Tasks \ {t} : op'[s].pc = "idle"
  BY <1>1, Types, OpReturned DEF removeNext
<1>7. boot' = boot /\ acked' = acked
  BY DEF removeNext
<1>8. \A i \in Keys : nvs'[i].data = nvs[i].data
  BY <1>2, <1>3, <1>4, Types, SameContent
<1>9. Agrees(nvs', cache, RealIds \ {r})
  BY <1>2, <1>5, <1>8, KeyFacts, AgreesStill
<1>10. Agrees(nvs', cache', RealIds)
  BY <1>3, <1>4, <1>5, <1>9, Types, AgreesAll
<1>11. OpInv(op[t])'
  BY <1>5, <1>6, <1>10 DEF OpInv
<1>12. Members(nvs') = Members(nvs) /\ Members(nvs) \subseteq Keys
  BY <1>2, <1>5, CleanMembers, ErasedMembers, KeyFacts DEF Members
<1>13. SamePool(nvs, nvs')
  <2>1. nvs'[LAST_KEY].nextId = nvs[LAST_KEY].nextId
    BY <1>2, <1>3, <1>4, KeyFacts DEF Wrote, Relinks
  <2>2. Issued(nvs') = Issued(nvs)
    BY <2>1, <1>2, <1>5, IssuedIs
  <2> QED
    BY <2>2, <1>8, <1>12, SamePoolIf
<1>14. cache' \in CacheType
  BY <1>3, <1>4, Types DEF CacheType
<1>15. StoreInv'
  BY <1>1, <1>4, <1>6, <1>7, <1>11, <1>12, <1>14, Types, TaskDone
<1> QED
  BY <1>13, <1>15

\* refreshCache() empties the cache and starts at the head.
LEMMA RefreshCacheInv ==
  ASSUME OneAtATime, StoreInv, refreshCache
  PROVE  StoreInv' /\ SamePool(nvs, nvs')
<1> DEFINE o == [Idle EXCEPT !.pc = "refresh"]
<1>1. /\ boot.pc = "up" /\ \A s \in Tasks : op[s].pc = "idle"
      /\ Clean(nvs) /\ "loop" \in Tasks
  BY AtRest DEF refreshCache, Tasks
<1>2. /\ cache' = NoCache /\ op' = [op EXCEPT !["loop"] = o]
      /\ UNCHANGED <<nvs, boot, faults, acked>>
  BY DEF refreshCache
<1>3. o \in OpType /\ o.pc = "refresh" /\ o.cred.nextId = FIRST_KEY
  BY IdleType DEF OpType, OpSteps, Idle, Blank
<1>4. /\ op' \in [Tasks -> OpType] /\ op'["loop"] = o
      /\ \A s \in Tasks \ {"loop"} : op'[s].pc = "idle"
  BY <1>1, <1>2, <1>3, Types
<1>5. NoCache \in CacheType /\ CachedUpTo(nvs, NoCache, FIRST_KEY)
  BY <1>1, EmptyCache
<1>6. OpInv(op["loop"])'
  BY <1>1, <1>2, <1>3, <1>4, <1>5 DEF OpInv
<1>7. StoreInv'
  BY <1>1, <1>2, <1>4, <1>5, <1>6, Types, TaskDone
<1> QED
  BY <1>2, <1>7 DEF SamePool

\* The record that a walk caches is stored.
LEMMA CachedIs ==
  ASSUME NEW k \in Stored(nvs)
  PROVE  /\ Cached(k) = IF k \in RealIds /\ nvs[k].data \in ActiveData
                          THEN [cache EXCEPT ![k] = nvs[k].data] ELSE cache
         /\ WalkEnds(k) <=> k = LAST_KEY
BY DEF Cached, WalkEnds, Readable, Stored

\* refreshCache(), one record.
LEMMA RefreshStepInv ==
  ASSUME OneAtATime, StoreInv, refreshStep
  PROVE  StoreInv' /\ SamePool(nvs, nvs')
<1> DEFINE o == op["loop"]
           k == o.cred.nextId
<1>1. /\ boot.pc = "up" /\ o.pc = "refresh" /\ "loop" \in Tasks /\ OpInv(o)
      /\ \A s \in Tasks \ {"loop"} : op[s].pc = "idle"
  BY AtWork DEF refreshStep, Tasks
<1>2. Clean(nvs) /\ CachedUpTo(nvs, cache, k) /\ k \in Stored(nvs)
  BY <1>1 DEF OpInv, Inserting, Updating, Removing, CachedUpTo
<1>3. cache' = Cached(k) /\ UNCHANGED <<nvs, boot, faults, acked>>
  BY DEF refreshStep
<1>4. /\ cache' \in CacheType
      /\ k = LAST_KEY => Agrees(nvs, cache', RealIds)
      /\ k # LAST_KEY => CachedUpTo(nvs, cache', nvs[k].nextId)
  BY <1>2, <1>3, CachedIs, Types, FillCache
<1>5. CASE k = LAST_KEY
  <2>1. Return("loop")
    BY <1>2, <1>5, CachedIs DEF refreshStep
  <2>2. /\ op' \in [Tasks -> OpType] /\ op'["loop"].pc = "idle"
        /\ \A s \in Tasks \ {"loop"} : op'[s].pc = "idle"
    BY <2>1, <1>1, Types, OpReturned
  <2>3. OpInv(op["loop"])'
    BY <2>2, <1>2, <1>3, <1>4, <1>5 DEF OpInv
  <2> QED
    BY <2>2, <2>3, <1>1, <1>3, <1>4, Types, TaskDone DEF SamePool
<1>6. CASE k # LAST_KEY
  <2>1. op' = [op EXCEPT !["loop"].cred.nextId = nvs[k].nextId]
    BY <1>2, <1>6, CachedIs DEF refreshStep
  <2>2. nvs[k].nextId \in Keys
    BY <1>2, Types, StoredRecord
  <2>3. /\ op' \in [Tasks -> OpType] /\ op'["loop"].pc = "refresh"
        /\ op'["loop"].cred.nextId = nvs[k].nextId
        /\ \A s \in Tasks \ {"loop"} : op'[s].pc = "idle"
    BY <2>1, <2>2, <1>1, Types DEF OpType, CredRecord
  <2>4. OpInv(op["loop"])'
    BY <2>3, <1>2, <1>3, <1>4, <1>6 DEF OpInv
  <2> QED
    BY <2>3, <2>4, <1>1, <1>3, <1>4, Types, TaskDone DEF SamePool
<1> QED
  BY <1>5, <1>6

-----------------------------------------------------------------------------
(***************************************************************************)
(* begin().                                                                *)
(***************************************************************************)
BootType == [pc : BootSteps, then : {"ensure", "cache"}, cur : Keys,
             next : CredRecord, steps : 0 .. CRED_GC_MAX_SCAN_ID, seen : 0 .. MaxFaults]

\* What holds before a step of begin().
LEMMA Booting ==
  ASSUME StoreInv, boot.pc # "up"
  PROVE  /\ op = [t \in Tasks |-> Idle] /\ op \in [Tasks -> OpType]
         /\ boot \in BootType
         /\ boot.pc # "cache" => cache = NoCache
BY Types DEF StoreInv, BootInv, BootType

\* What is left to show of such a step.
LEMMA BootDone ==
  ASSUME StoreInv, boot' \in BootType, boot'.pc # "up",
         op' = [t \in Tasks |-> Idle], nvs' \in NvsType, cache' \in CacheType,
         faults' = 0, acked' \subseteq Members(nvs'), BootInv'
  PROVE  StoreInv'
<1>1. op' \in [Tasks -> OpType]
  BY IdleType
<1>2. TypeOK'
  BY <1>1, ConstantsAssumption
     DEF TypeOK, OpType, CacheType, NvsType, BootType, Members
<1> QED
  BY <1>2 DEF StoreInv, UpInv

\* The list is whole again: the cache is filled next.
LEMMA ToCache ==
  ASSUME StoreInv, boot.pc \notin {"cache", "up"},
         boot' = [boot EXCEPT !.pc = "cache", !.cur = FIRST_KEY],
         op' = op, cache' = cache, nvs' \in NvsType, Clean(nvs'), faults' = 0,
         acked' \subseteq Members(nvs')
  PROVE  StoreInv'
<1>1. op = [t \in Tasks |-> Idle] /\ boot \in BootType /\ cache = NoCache
  BY Booting
<1>2. boot' \in BootType /\ boot'.pc = "cache" /\ boot'.cur = FIRST_KEY
  BY <1>1, KeyFacts DEF BootType, BootSteps
<1>3. cache' \in CacheType /\ CachedUpTo(nvs', cache', FIRST_KEY)
  BY <1>1, EmptyCache
<1>4. BootInv'
  BY <1>1, <1>2, <1>3 DEF BootInv
<1> QED
  BY <1>1, <1>2, <1>3, <1>4, BootDone

LEMMA BeginInv ==
  ASSUME OneAtATime, StoreInv, begin
  PROVE  StoreInv' /\ SamePool(nvs, nvs')
<1>1. /\ boot.pc = "off" /\ UNCHANGED <<nvs, cache, op, faults, acked>>
      /\ boot' = [boot EXCEPT !.seen = faults, !.then = "ensure",
                    !.pc = IF nvs[FIRST_KEY] = Legacy THEN "clear" ELSE "ensure"]
  BY DEF begin
<1>2. /\ op = [t \in Tasks |-> Idle] /\ boot \in BootType /\ cache = NoCache
      /\ (NoPool(nvs) /\ acked = {}) \/ Repairable(nvs, FIRST_KEY)
  BY <1>1, Booting DEF StoreInv, BootInv
<1>3. nvs[FIRST_KEY] = Legacy => NoPool(nvs) /\ acked = {}
  <2>1. Repairable(nvs, FIRST_KEY) => FIRST_KEY \in Stored(nvs)
    BY MendedFromHead, FiledFacts, KeyFacts
  <2> QED
    BY <1>2, <2>1 DEF Stored
<1>4. boot' \in BootType /\ boot'.pc = IF nvs[FIRST_KEY] = Legacy THEN "clear" ELSE "ensure"
  <2>1. faults \in 0 .. MaxFaults
    BY Types, ConstantsAssumption
  <2> QED
    BY <1>1, <1>2, <2>1 DEF BootType, BootSteps
<1>5. BootInv'
  BY <1>1, <1>2, <1>3, <1>4 DEF BootInv
<1> QED
  BY <1>1, <1>2, <1>4, <1>5, Types, BootDone DEF SamePool

LEMMA EnsurePoolInv ==
  ASSUME OneAtATime, StoreInv, ensurePool
  PROVE  StoreInv' /\ SamePool(nvs, nvs')
<1>1. boot.pc = "ensure" /\ UNCHANGED <<nvs, cache, op, faults, acked>>
  BY DEF ensurePool
<1>2. /\ op = [t \in Tasks |-> Idle] /\ boot \in BootType /\ cache = NoCache
      /\ (NoPool(nvs) /\ acked = {}) \/ Repairable(nvs, FIRST_KEY)
  BY <1>1, Booting DEF StoreInv, BootInv
<1>3. CASE Repairable(nvs, FIRST_KEY)
  <2>1. Filed(nvs)
    BY <1>3, MendedFromHead, KeyFacts
  <2>2. boot' = [boot EXCEPT !.pc = "walk", !.cur = FIRST_KEY, !.steps = 0]
    BY <2>1, FiledFacts DEF ensurePool, Filed, Readable, Stored
  <2>3. /\ boot' \in BootType /\ boot'.pc = "walk" /\ boot'.cur = FIRST_KEY
        /\ boot'.steps = 0
    <3>1. 0 \in 0 .. CRED_GC_MAX_SCAN_ID /\ FIRST_KEY \in Keys
      BY KeyFacts, ConstantsAssumption
    <3> QED
      BY <2>2, <1>2, <3>1 DEF BootType, BootSteps
  <2>4. 0 <= Cardinality({k \in Real(Stored(nvs)) : k <= FIRST_KEY})
    BY <2>1, WalkCounts
  <2>5. WalkInv'
    BY <2>1, <2>3, <2>4, <1>1, <1>3, FiledFacts DEF WalkInv
  <2>6. BootInv'
    BY <2>3, <2>5, <1>1, <1>2 DEF BootInv
  <2> QED
    BY <1>1, <1>2, <2>3, <2>6, Types, BootDone DEF SamePool
<1>4. CASE NoPool(nvs) /\ acked = {}
  <2>1. RunReset
    BY <1>4, KeyFacts DEF ensurePool, NoPool, Readable, Stored
  <2>2. boot' \in BootType /\ boot'.pc = "clear"
    BY <2>1, <1>2 DEF RunReset, BootType, BootSteps
  <2>3. BootInv'
    BY <2>2, <1>1, <1>2, <1>4 DEF BootInv
  <2> QED
    BY <1>1, <1>2, <2>2, <2>3, Types, BootDone DEF SamePool
<1> QED
  BY <1>2, <1>3, <1>4

\* resetPool(): the old content is erased, whatever the order.
LEMMA ResetEraseInv ==
  ASSUME OneAtATime, StoreInv, resetErase
  PROVE  StoreInv' /\ SamePool(nvs, nvs')
<1>1. boot.pc = "clear" /\ UNCHANGED <<cache, op, boot, acked>>
  BY DEF resetErase
<1>2. /\ op = [t \in Tasks |-> Idle] /\ boot \in BootType /\ cache = NoCache
      /\ NoPool(nvs) /\ acked = {}
  BY <1>1, Booting DEF StoreInv, BootInv
<1>3. PICK k \in Keys : removeKey(k, TRUE)
  BY DEF resetErase
<1>4. nvs' = [nvs EXCEPT ![k] = NoRec] /\ faults' = 0
  BY <1>3, Types DEF removeKey
<1>5. Wiped(nvs, [nvs EXCEPT ![k] = NoRec], k)
  BY Types, EraseKey
<1>6. nvs' \in NvsType /\ Stored(nvs') \subseteq {FIRST_KEY}
  BY <1>2, <1>4, <1>5 DEF Wiped, NoPool
<1>7. NoPool(nvs')
  BY <1>6 DEF NoPool, NvsType
<1>8. BootInv'
  BY <1>1, <1>2, <1>7 DEF BootInv
<1>9. SamePool(nvs, nvs')
  BY <1>2, <1>7, NoMembers, IssuedIs, SamePoolIf
<1> QED
  BY <1>1, <1>2, <1>4, <1>6, <1>8, <1>9, Types, BootDone

LEMMA ResetClearedInv ==
  ASSUME OneAtATime, StoreInv, resetCleared
  PROVE  StoreInv' /\ SamePool(nvs, nvs')
<1>1. /\ boot.pc = "clear" /\ UNCHANGED <<nvs, cache, op, acked>>
      /\ boot' = [boot EXCEPT !.pc = "head"]
  BY DEF resetCleared, GoTo
<1>2. /\ op = [t \in Tasks |-> Idle] /\ boot \in BootType /\ cache = NoCache
      /\ NoPool(nvs) /\ acked = {}
  BY <1>1, Booting DEF StoreInv, BootInv
<1>3. (\A k \in Keys : nvs[k] = NoRec) /\ faults' = 0
  <2>1. Outcomes = {TRUE}
    BY Types DEF Outcomes, OneAtATime
  <2> QED
    BY <2>1, Types DEF resetCleared
<1>4. Stored(nvs) = {}
  BY <1>3 DEF Stored
<1>5. boot' \in BootType /\ boot'.pc = "head"
  BY <1>1, <1>2 DEF BootType, BootSteps
<1>6. BootInv'
  BY <1>1, <1>2, <1>4, <1>5 DEF BootInv
<1> QED
  BY <1>1, <1>2, <1>3, <1>5, <1>6, Types, BootDone DEF SamePool

LEMMA ResetHeadInv ==
  ASSUME OneAtATime, StoreInv, resetHead
  PROVE  StoreInv' /\ SamePool(nvs, nvs')
<1>1. /\ boot.pc = "head" /\ UNCHANGED <<cache, op, acked>>
      /\ boot' = [boot EXCEPT !.pc = "tail"]
  BY DEF resetHead, GoTo
<1>2. /\ op = [t \in Tasks |-> Idle] /\ boot \in BootType /\ cache = NoCache
      /\ Stored(nvs) = {} /\ acked = {} /\ NoPool(nvs)
  BY <1>1, Booting DEF StoreInv, BootInv
<1>3. HeadRec \in CredRecord /\ HeadRec.credId = FIRST_KEY
  BY KeyFacts DEF HeadRec, CredRecord
<1>4. nvs' \in NvsType /\ faults' = 0 /\ Wrote(nvs, nvs', FIRST_KEY, HeadRec)
  <2>1. \E ok \in Outcomes : writeData(HeadRec, ok)
    BY DEF resetHead, HeadRec
  <2> QED
    BY <2>1, <1>3, Types, WriteStep
<1>5. Stored(nvs') = {FIRST_KEY} /\ nvs'[FIRST_KEY] = HeadRec
  BY <1>2, <1>4 DEF Wrote
<1>6. NoPool(nvs')
  BY <1>4, <1>5 DEF NoPool, NvsType
<1>7. boot' \in BootType /\ boot'.pc = "tail"
  BY <1>1, <1>2 DEF BootType, BootSteps
<1>8. BootInv'
  BY <1>1, <1>2, <1>5, <1>6, <1>7 DEF BootInv
<1>9. SamePool(nvs, nvs')
  BY <1>2, <1>6, NoMembers, IssuedIs, SamePoolIf
<1> QED
  BY <1>1, <1>2, <1>4, <1>7, <1>8, <1>9, Types, BootDone

LEMMA ResetTailInv ==
  ASSUME OneAtATime, StoreInv, resetTail
  PROVE  StoreInv' /\ SamePool(nvs, nvs')
<1>1. /\ boot.pc = "tail" /\ UNCHANGED <<op, acked>> /\ cache' = NoCache
      /\ boot' = [boot EXCEPT !.pc = boot.then, !.cur = FIRST_KEY]
  BY DEF resetTail
<1>2. /\ op = [t \in Tasks |-> Idle] /\ boot \in BootType
      /\ Stored(nvs) = {FIRST_KEY} /\ nvs[FIRST_KEY] = HeadRec /\ acked = {} /\ NoPool(nvs)
  BY <1>1, Booting DEF StoreInv, BootInv
<1>3. TailRec \in CredRecord /\ TailRec.credId = LAST_KEY
  BY KeyFacts DEF TailRec, CredRecord
<1>4. nvs' \in NvsType /\ faults' = 0 /\ Wrote(nvs, nvs', LAST_KEY, TailRec)
  <2>1. \E ok \in Outcomes : writeData(TailRec, ok)
    BY DEF resetTail, TailRec
  <2> QED
    BY <2>1, <1>3, Types, WriteStep
<1>5. /\ Stored(nvs') = {FIRST_KEY, LAST_KEY} /\ nvs'[FIRST_KEY] = HeadRec
      /\ nvs'[LAST_KEY] = TailRec
  BY <1>2, <1>4, KeyFacts DEF Wrote
<1>6. Clean(nvs')
  BY <1>4, <1>5, EmptyPool
<1>7. boot' \in BootType /\ boot'.pc \in {"ensure", "cache"} /\ boot'.cur = FIRST_KEY
  BY <1>1, <1>2, KeyFacts DEF BootType, BootSteps
<1>8. cache' \in CacheType /\ CachedUpTo(nvs', cache', FIRST_KEY) /\ Repairable(nvs', FIRST_KEY)
  BY <1>1, <1>6, EmptyCache DEF Repairable
<1>9. BootInv'
  BY <1>1, <1>2, <1>6, <1>7, <1>8 DEF BootInv
<1>10. SamePool(nvs, nvs')
  <2>1. Members(nvs') = {} /\ Members(nvs) = {}
    BY <1>2, <1>5, <1>6, CleanMembers, NoMembers DEF Real
  <2>2. Issued(nvs') = 0 /\ Issued(nvs) = 0
    <3>1. nvs'[LAST_KEY].nextId = 1
      BY <1>5 DEF TailRec
    <3> QED
      BY <3>1, <1>2, <1>6, IssuedIs
  <2> QED
    BY <2>1, <2>2, SamePoolIf
<1> QED
  BY <1>1, <1>2, <1>4, <1>7, <1>8, <1>9, <1>10, BootDone

\* The walk that fills the cache at the end of begin().
LEMMA BootCacheInv ==
  ASSUME OneAtATime, StoreInv, bootCache
  PROVE  StoreInv' /\ SamePool(nvs, nvs')
<1> DEFINE k == boot.cur
<1>1. /\ boot.pc = "cache" /\ cache' = Cached(k)
      /\ UNCHANGED <<nvs, op, faults, acked>>
  BY DEF bootCache
<1>2. /\ op = [t \in Tasks |-> Idle] /\ op \in [Tasks -> OpType] /\ boot \in BootType
      /\ Clean(nvs) /\ CachedUpTo(nvs, cache, k) /\ k \in Stored(nvs)
  BY <1>1, Booting DEF StoreInv, BootInv, CachedUpTo
<1>3. /\ cache' \in CacheType
      /\ k = LAST_KEY => Agrees(nvs, cache', RealIds)
      /\ k # LAST_KEY => CachedUpTo(nvs, cache', nvs[k].nextId)
  BY <1>1, <1>2, CachedIs, Types, FillCache
<1>4. CASE k = LAST_KEY
  <2>1. boot' = [boot EXCEPT !.pc = "up"]
    BY <1>2, <1>4, CachedIs DEF bootCache
  <2>2. boot' \in BootType /\ boot'.pc = "up"
    BY <2>1, <1>2 DEF BootType, BootSteps
  <2>3. TypeOK'
    BY <2>2, <1>1, <1>2, <1>3, Types, ConstantsAssumption
       DEF TypeOK, OpType, CacheType, NvsType, BootType, Members
  <2>4. BootInv'
    BY <2>2 DEF BootInv
  <2>5. UpInv'
    <3>1. \A t \in Tasks : op'[t].pc = "idle"
      BY <1>1, <1>2, IdleType
    <3>2. \A t \in Tasks : OpInv(op[t])'
      BY <3>1, <1>1, <1>2, <1>3, <1>4 DEF OpInv
    <3> QED
      BY <3>1, <3>2 DEF UpInv, Tasks
  <2> QED
    BY <2>3, <2>4, <2>5, <1>1, Types DEF StoreInv, SamePool
<1>5. CASE k # LAST_KEY
  <2>1. boot' = [boot EXCEPT !.cur = nvs[k].nextId]
    BY <1>2, <1>5, CachedIs DEF bootCache, Current
  <2>2. nvs[k].nextId \in Keys
    BY <1>2, Types, StoredRecord
  <2>3. boot' \in BootType /\ boot'.pc = "cache" /\ boot'.cur = nvs[k].nextId
    BY <2>1, <2>2, <1>1, <1>2 DEF BootType, BootSteps
  <2>4. BootInv'
    BY <2>3, <1>1, <1>2, <1>3, <1>5 DEF BootInv
  <2> QED
    BY <2>3, <2>4, <1>1, <1>2, <1>3, Types, BootDone DEF SamePool
<1> QED
  BY <1>4, <1>5

-----------------------------------------------------------------------------
(***************************************************************************)
(* repairCredChain().                                                      *)
(***************************************************************************)

\* The bound of the loop is not reached, and a successor that is stored
\* behind the current record may be in a chain.
LEMMA WalkGoesOn ==
  ASSUME StoreInv, boot.pc = "walk", Current.nextId \in RealIds \union {LAST_KEY},
         boot.cur < Current.nextId
  PROVE  /\ Walking /\ NextRec = nvs[Current.nextId]
         /\ Readable(Current.nextId) <=> Current.nextId \in Stored(nvs)
         /\ Current.nextId \in Stored(nvs) => Sound
         /\ boot.cur \in Stored(nvs) \ {LAST_KEY} /\ Filed(nvs)
<1>1. WalkInv /\ boot \in BootType
  BY Booting DEF StoreInv, BootInv
<1>2. Filed(nvs) /\ boot.cur \in Stored(nvs) \ {LAST_KEY} /\ boot.cur \in Keys
  BY <1>1, MendedFromHead, FinitePool DEF WalkInv
<1>3. boot.steps < CRED_GC_MAX_SCAN_ID
  <2>1. /\ Cardinality({k \in Real(Stored(nvs)) : k <= boot.cur}) \in Nat
        /\ Cardinality({k \in Real(Stored(nvs)) : k <= boot.cur}) < CRED_GC_MAX_SCAN_ID
    BY <1>2, WalkCounts
  <2>2. boot.steps \in Nat
    BY <1>1, ConstantsAssumption DEF BootType
  <2> QED
    BY <2>1, <2>2, <1>1, ConstantsAssumption DEF WalkInv
<1>4. Current.nextId \notin {FIRST_KEY, boot.cur} /\ Current.nextId \in Keys
  BY <1>2, KeyFacts
<1>5. Readable(Current.nextId) <=> Current.nextId \in Stored(nvs)
  BY <1>4 DEF Readable, Stored
<1>6. NextRec = nvs[Current.nextId]
  BY DEF NextRec
<1>7. ASSUME Current.nextId \in Stored(nvs) PROVE Sound
  <2>1. nvs[Current.nextId].credId = Current.nextId
    BY <1>2, <1>7 DEF Filed
  <2>2. Current.nextId \in RealIds => nvs[Current.nextId].data \in ValidData
    BY <1>2, <1>7, KeyFacts DEF Filed, Real
  <2> QED
    BY <2>1, <2>2, <1>5, <1>6, <1>7 DEF Sound, isStoredCredValid
<1> QED
  BY <1>2, <1>3, <1>4, <1>5, <1>6, <1>7 DEF Walking

\* A step of the repair while it walks.
Repairing == rollbackInsert \/ redoInsert \/ redoRemoval \/ relinkNext \/ walkOn \/ giveUp

\* Where the list is in order the repair goes on.
LEMMA RegularInv ==
  ASSUME OneAtATime, StoreInv, boot.pc = "walk", Repairing, Regular(nvs, boot.cur),
         Current.nextId = LAST_KEY => Clean(nvs), Repairable(nvs, Current.nextId)
  PROVE  StoreInv' /\ SamePool(nvs, nvs')
<1> DEFINE c == boot.cur
           x == Current.nextId
<1>1. /\ c \in Stored(nvs) \ {LAST_KEY} /\ x \in Stored(nvs) \ {FIRST_KEY}
      /\ Adjacent(Stored(nvs), c, x) /\ nvs[x].prevId = c
  BY DEF Regular, Current
<1>2. x \in RealIds \union {LAST_KEY} /\ c < x
  BY <1>1, FinitePool, KeyFacts DEF Adjacent, RealIds
<1>3. Walking /\ Sound /\ NextRec = nvs[x] /\ Readable(x) /\ Filed(nvs)
  BY <1>1, <1>2, WalkGoesOn
<1>4. ~Gap
  BY <1>1, <1>3 DEF Gap
<1>5. walkOn
  BY <1>3, <1>4 DEF Repairing, rollbackInsert, redoInsert, redoRemoval, relinkNext,
                    giveUp, Hopeless
<1>6. UNCHANGED <<nvs, cache, op, faults, acked>>
  BY <1>5 DEF walkOn
<1>7. CASE x = LAST_KEY
  <2>1. boot' = [boot EXCEPT !.pc = "cache", !.cur = FIRST_KEY]
    BY <1>5, <1>7 DEF walkOn
  <2> QED
    BY <1>6, <1>7, <2>1, Types, ToCache DEF SamePool
<1>8. CASE x # LAST_KEY
  <2>1. boot' = [boot EXCEPT !.cur = x, !.steps = boot.steps + 1]
    BY <1>5, <1>8 DEF walkOn
  <2>2. /\ op = [t \in Tasks |-> Idle] /\ boot \in BootType /\ cache = NoCache
        /\ WalkInv
    BY Booting DEF StoreInv, BootInv
  <2>3. boot.steps + 1 \in 0 .. CRED_GC_MAX_SCAN_ID /\ x \in Keys /\ boot.steps \in Nat
    BY <1>3, <1>2, <2>2, KeyFacts, ConstantsAssumption DEF Walking, BootType
  <2>4. /\ boot' \in BootType /\ boot'.pc = "walk" /\ boot'.cur = x
        /\ boot'.steps = boot.steps + 1
    BY <2>1, <2>2, <2>3 DEF BootType, BootSteps
  <2>5. boot.steps + 1 <= Cardinality({k \in Real(Stored(nvs)) : k <= x})
    <3>1. x \in RealIds
      BY <1>2, <1>8
    <3>2. boot.steps <= Cardinality({k \in Real(Stored(nvs)) : k <= c})
      BY <2>2 DEF WalkInv
    <3>3. /\ Cardinality({k \in Real(Stored(nvs)) : k <= c}) \in Nat
          /\ Cardinality({k \in Real(Stored(nvs)) : k <= x}) \in Nat
          /\ Cardinality({k \in Real(Stored(nvs)) : k <= c}) + 1
               <= Cardinality({k \in Real(Stored(nvs)) : k <= x})
      BY <3>1, <1>1, <1>3, WalkCounts
    <3> QED
      BY <3>2, <3>3, <2>3
  <2>6. WalkInv'
    BY <1>1, <1>6, <1>8, <2>4, <2>5 DEF WalkInv
  <2>7. BootInv'
    BY <1>6, <2>2, <2>4, <2>6 DEF BootInv
  <2> QED
    BY <1>6, <2>2, <2>4, <2>7, Types, BootDone DEF SamePool
<1> QED
  BY <1>7, <1>8

\* An addition that was announced and not written is undone.
LEMMA AnnouncedInv ==
  ASSUME OneAtATime, StoreInv, boot.pc = "walk", Repairing,
         NEW n \in Keys, Announced(nvs, boot.cur, n)
  PROVE  StoreInv' /\ SamePool(nvs, nvs')
<1> DEFINE c == boot.cur
           rec == [nvs[c] EXCEPT !.nextId = LAST_KEY]
<1>1. /\ Filed(nvs) /\ c \in Stored(nvs) /\ nvs[c].nextId = n /\ n \notin Stored(nvs)
      /\ c = nvs[LAST_KEY].prevId /\ n < LAST_KEY
  BY DEF Announced
<1>2. /\ c < n /\ n \in RealIds
  <2>1. c # LAST_KEY
    <3>1. Adjacent(Stored(nvs), c, LAST_KEY)
      BY <1>1, FiledFacts DEF Announced, Backward
    <3> QED
      BY <3>1, FinitePool, Between
  <2>2. c < n /\ FIRST_KEY < n
    BY <1>1, <2>1, FiledFacts DEF Announced, Above
  <2> QED
    BY <2>2, <1>1, KeyFacts DEF RealIds
<1>3. Walking /\ ~Readable(Current.nextId) /\ Current = nvs[c] /\ ~Sound
  BY <1>1, <1>2, WalkGoesOn DEF Current, Sound
<1>4. rollbackInsert
  BY <1>1, <1>3 DEF Repairing, redoInsert, redoRemoval, relinkNext, walkOn, giveUp, Hopeless
<1>5. nvs[c] \in CredRecord /\ nvs[c].credId = c
  BY <1>1, FiledFacts DEF Filed
<1>6. Relinks(rec, nvs[c], nvs[c].prevId, LAST_KEY)
  BY <1>5, Relinked, KeyFacts
<1>7. nvs' \in NvsType /\ faults' = 0 /\ Wrote(nvs, nvs', c, rec)
  <2>1. \E ok \in Outcomes : writeData(rec, ok)
    BY <1>3, <1>4 DEF rollbackInsert
  <2>2. rec \in CredRecord /\ rec.credId = c
    BY <1>5, <1>6 DEF Relinks
  <2> QED
    BY <2>1, <2>2, Types, WriteStep
<1>8. Clean(nvs') /\ Stored(nvs') = Stored(nvs)
  <2> HIDE DEF rec
  <2> QED
    BY <1>6, <1>7, Rollback
<1>9. Members(nvs') = Members(nvs) /\ Members(nvs) \subseteq Keys
  BY <1>8, CleanMembers, AnnouncedMembers, KeyFacts DEF Members
<1>10. \A i \in Keys : nvs'[i].data = nvs[i].data
  BY <1>1, <1>6, <1>7, Types, SameContent
<1>11. SamePool(nvs, nvs')
  <2>1. nvs'[LAST_KEY] = nvs[LAST_KEY]
    BY <1>2, <1>7, KeyFacts DEF Wrote
  <2>2. Issued(nvs') = Issued(nvs)
    BY <1>8, <2>1, IssuedIs DEF Announced
  <2> QED
    BY <1>9, <1>10, <2>2, SamePoolIf
<1>12. /\ boot' = [boot EXCEPT !.pc = "cache", !.cur = FIRST_KEY]
       /\ UNCHANGED <<cache, op, acked>>
  BY <1>4 DEF rollbackInsert
<1> QED
  BY <1>7, <1>8, <1>9, <1>11, <1>12, Types, ToCache

\* An addition whose record is written is completed.
LEMMA InsertedInv ==
  ASSUME OneAtATime, StoreInv, boot.pc = "walk", Repairing,
         NEW p \in Keys, Inserted(nvs, p, boot.cur)
  PROVE  StoreInv' /\ SamePool(nvs, nvs')
<1> DEFINE c == boot.cur
           rec == [nvs[LAST_KEY] EXCEPT !.prevId = c, !.nextId = c + 1]
<1>1. /\ Filed(nvs) /\ c \in Stored(nvs) \ {LAST_KEY} /\ c \in RealIds
      /\ nvs[c].nextId = LAST_KEY /\ nvs[c].prevId = p
      /\ p = nvs[LAST_KEY].prevId /\ c = nvs[LAST_KEY].nextId
      /\ LAST_KEY \in Stored(nvs) \ {FIRST_KEY}
  BY FinitePool, FiledFacts DEF Inserted, Real
<1>2. p # c
  <2>1. Adjacent(Stored(nvs), p, c)
    BY <1>1, KeyFacts DEF Inserted, Backward
  <2> QED
    BY <2>1, <1>1, FinitePool, Between, KeyFacts
<1>3. /\ Walking /\ Sound /\ NextRec = nvs[LAST_KEY] /\ Current = nvs[c]
      /\ Readable(LAST_KEY)
  <2>1. Current = nvs[c] /\ c < LAST_KEY
    BY <1>1, KeyFacts DEF Current
  <2> QED
    BY <1>1, <2>1, WalkGoesOn
<1>4. Gap /\ UnfinishedInsert
  BY <1>1, <1>2, <1>3 DEF Gap, UnfinishedInsert
<1>5. redoInsert
  BY <1>1, <1>3, <1>4 DEF Repairing, rollbackInsert, redoRemoval, relinkNext, walkOn,
                          giveUp, Hopeless
<1>6. nvs[LAST_KEY] \in CredRecord /\ nvs[LAST_KEY].credId = LAST_KEY
  BY <1>1, FiledFacts DEF Filed
<1>7. Relinks(rec, nvs[LAST_KEY], c, c + 1)
  <2>1. c \in Keys /\ c + 1 \in Keys
    BY <1>1, KeyFacts
  <2> QED
    BY <2>1, <1>6 DEF Relinks, CredRecord
<1>8. nvs' \in NvsType /\ faults' = 0 /\ Wrote(nvs, nvs', LAST_KEY, rec)
  <2>1. \E ok \in Outcomes : writeData(rec, ok)
    BY <1>5 DEF redoInsert
  <2>2. rec \in CredRecord /\ rec.credId = LAST_KEY
    BY <1>6, <1>7 DEF Relinks
  <2> QED
    BY <2>1, <2>2, Types, WriteStep
<1>9. Clean(nvs') /\ Stored(nvs') = Stored(nvs)
  <2> HIDE DEF rec
  <2> QED
    BY <1>7, <1>8, MoveTail
<1>10. Members(nvs') = Members(nvs) /\ Members(nvs) \subseteq Keys
  BY <1>9, CleanMembers, InsertedMembers, KeyFacts DEF Members
<1>11. \A i \in Keys : nvs'[i].data = nvs[i].data
  BY <1>1, <1>7, <1>8, Types, SameContent
<1>12. SamePool(nvs, nvs')
  <2>1. nvs'[LAST_KEY].nextId = c + 1
    BY <1>7, <1>8 DEF Wrote, Relinks
  <2>2. Issued(nvs') = Issued(nvs)
    BY <1>1, <1>9, <2>1, IssuedIs, KeyFacts
  <2> QED
    BY <1>10, <1>11, <2>2, SamePoolIf
<1>13. /\ boot' = [boot EXCEPT !.pc = "cache", !.cur = FIRST_KEY]
       /\ UNCHANGED <<cache, op, acked>>
  BY <1>5 DEF redoInsert
<1> QED
  BY <1>8, <1>9, <1>10, <1>12, <1>13, Types, ToCache

\* Where a removal was interrupted, the next record links back to a record
\* that is not before the current one.
LEMMA RemovalSeen ==
  ASSUME StoreInv, boot.pc = "walk", NEW r \in Keys, NEW q \in Keys,
         Bypassed(nvs, boot.cur, r, q) \/ Erased(nvs, boot.cur, r, q)
  PROVE  /\ Walking /\ Sound /\ Gap /\ ~UnfinishedInsert
         /\ Current.nextId = q /\ NextRec = nvs[q] /\ nvs[q].prevId = r /\ Readable(q)
         /\ r \in RealIds /\ r # q /\ boot.cur # r
         /\ Readable(r) <=> r \in Stored(nvs)
<1> DEFINE c == boot.cur
           L == Stored(nvs) \ {r}
<1>1. L \subseteq Keys /\ Stored(nvs) \subseteq Keys
  BY FinitePool
<1>2. /\ Filed(nvs) /\ r \in RealIds /\ nvs[q].prevId = r /\ Adjacent(L, c, q)
      /\ Forward(nvs, L, L \ {LAST_KEY}) /\ Backward(nvs, L, L \ {FIRST_KEY, q})
  <2>1. CASE Bypassed(nvs, c, r, q)
    <3>1. Adjacent(L, c, q)
      BY <1>1, <2>1, Without DEF Bypassed
    <3> QED
      BY <2>1, <3>1, FinitePool DEF Bypassed
  <2>2. CASE Erased(nvs, c, r, q)
    <3>1. L = Stored(nvs)
      BY <2>2 DEF Erased
    <3> QED
      BY <2>2, <3>1 DEF Erased
  <2> QED
    BY <2>1, <2>2
<1>3. c \in L \ {LAST_KEY} /\ q \in L \ {FIRST_KEY} /\ c < q /\ c \in Keys
  BY <1>1, <1>2, Between
<1>4. Current = nvs[c] /\ nvs[c].nextId = q
  <2>1. Adjacent(L, c, nvs[c].nextId)
    BY <1>2, <1>3 DEF Forward
  <2> QED
    BY <2>1, <1>1, <1>2, OneNeighbour DEF Current
<1>5. Walking /\ Sound /\ NextRec = nvs[q] /\ Readable(q)
  <2>1. q \in RealIds \union {LAST_KEY} /\ q \in Stored(nvs)
    BY <1>1, <1>3 DEF RealIds
  <2> QED
    BY <2>1, <1>3, <1>4, WalkGoesOn
<1>6. Gap
  BY <1>2, <1>3, <1>5 DEF Gap
<1>7. nvs[c].prevId # r
  <2>1. CASE c = FIRST_KEY
    BY <2>1, <1>2, KeyFacts DEF Filed
  <2>2. CASE c # FIRST_KEY
    <3>1. c \in L \ {FIRST_KEY, q}
      BY <2>2, <1>3, KeyFacts
    <3>2. Adjacent(L, nvs[c].prevId, c)
      BY <3>1, <1>2 DEF Backward
    <3> QED
      BY <3>2 DEF Adjacent
  <2> QED
    BY <2>1, <2>2
<1>8. ~UnfinishedInsert
  BY <1>2, <1>4, <1>5, <1>7 DEF UnfinishedInsert
<1>9. Readable(r) <=> r \in Stored(nvs)
  BY DEF Readable, Stored
<1> QED
  BY <1>2, <1>3, <1>4, <1>5, <1>6, <1>8, <1>9

\* A bypassed record is erased.
LEMMA BypassedInv ==
  ASSUME OneAtATime, StoreInv, boot.pc = "walk", Repairing,
         NEW r \in Keys, NEW q \in Keys, Bypassed(nvs, boot.cur, r, q)
  PROVE  StoreInv' /\ SamePool(nvs, nvs')
<1> DEFINE c == boot.cur
<1>1. /\ Walking /\ Sound /\ Gap /\ ~UnfinishedInsert
      /\ Current.nextId = q /\ NextRec = nvs[q] /\ nvs[q].prevId = r /\ Readable(q)
      /\ r \in RealIds /\ r # q /\ (Readable(r) <=> r \in Stored(nvs))
  BY RemovalSeen
<1>2. Readable(r) /\ r \in Stored(nvs) /\ nvs[r].credId = r
  BY <1>1 DEF Bypassed, Filed, Real
<1>3. redoRemoval
  BY <1>1, <1>2 DEF Repairing, rollbackInsert, redoInsert, relinkNext, walkOn, giveUp,
                    Hopeless
<1>4. nvs' \in NvsType /\ faults' = 0 /\ Wiped(nvs, nvs', r)
  <2>1. \E ok \in Outcomes : removeKey(r, ok)
    BY <1>1, <1>3 DEF redoRemoval
  <2> QED
    BY <2>1, Types, EraseStep
<1>5. Erased(nvs', c, r, q) /\ Stored(nvs') = Stored(nvs) \ {r}
  BY <1>4, Erase
<1>6. \A i \in Keys \ {r} : nvs'[i] = nvs[i]
  BY <1>4 DEF Wiped
<1>7. Members(nvs') = Members(nvs) /\ Members(nvs) \subseteq Keys \ {r}
  <2>1. Members(nvs) = Real(Stored(nvs)) \ {r} /\ Members(nvs') = Real(Stored(nvs'))
    BY <1>5, BypassedMembers, ErasedMembers
  <2> QED
    BY <2>1, <1>5, FinitePool, KeyFacts DEF Real
<1>8. SamePool(nvs, nvs')
  <2>1. nvs'[LAST_KEY] = nvs[LAST_KEY]
    BY <1>1, <1>6, KeyFacts
  <2>2. Issued(nvs') = Issued(nvs)
    BY <2>1, <1>5, IssuedIs
  <2> QED
    BY <2>2, <1>6, <1>7, SamePoolIf
<1>9. /\ boot' = [boot EXCEPT !.pc = "relink", !.next = nvs[q]]
      /\ UNCHANGED <<cache, op, acked>>
  BY <1>1, <1>3 DEF redoRemoval
<1>10. /\ op = [t \in Tasks |-> Idle] /\ boot \in BootType /\ cache = NoCache
  BY Booting
<1>11. nvs[q] \in CredRecord /\ nvs'[q] = nvs[q]
  <2>1. nvs[q] \in CredRecord
    BY <1>1, Types DEF Readable, NvsType
  <2> QED
    BY <2>1, <1>1, <1>6
<1>12. boot' \in BootType /\ boot'.pc = "relink" /\ boot'.next = nvs'[q] /\ boot'.cur = c
  BY <1>9, <1>10, <1>11 DEF BootType, BootSteps
<1>13. RelinkInv'
  BY <1>5, <1>12 DEF RelinkInv
<1>14. BootInv'
  BY <1>9, <1>10, <1>12, <1>13 DEF BootInv
<1> QED
  BY <1>4, <1>7, <1>8, <1>9, <1>10, <1>12, <1>14, Types, BootDone

\* The successor of an erased record is linked back, at once or, when the
\* erasing was cut short by a power failure, after a new walk.
LEMMA ErasedInv ==
  ASSUME OneAtATime, StoreInv, NEW r \in Keys, NEW q \in Keys,
         Erased(nvs, boot.cur, r, q), relinkNext, NextRec = nvs[q],
         boot.pc \in {"walk", "relink"}
  PROVE  StoreInv' /\ SamePool(nvs, nvs')
<1> DEFINE c == boot.cur
           rec == [nvs[q] EXCEPT !.prevId = c]
<1>1. /\ Filed(nvs) /\ q \in Stored(nvs) /\ c \in Keys /\ Stored(nvs) \subseteq Keys
  BY FiledFacts, Between DEF Erased
<1>2. nvs[q] \in CredRecord /\ nvs[q].credId = q
  BY <1>1, FiledFacts DEF Filed
<1>3. Relinks(rec, nvs[q], c, nvs[q].nextId)
  BY <1>1, <1>2, Relinked
<1>4. nvs' \in NvsType /\ faults' = 0 /\ Wrote(nvs, nvs', q, rec)
  <2>1. \E ok \in Outcomes : writeData(rec, ok)
    BY DEF relinkNext
  <2>2. rec \in CredRecord /\ rec.credId = q
    BY <1>2, <1>3 DEF Relinks
  <2> QED
    BY <2>1, <2>2, Types, WriteStep
<1>5. Clean(nvs') /\ Stored(nvs') = Stored(nvs)
  <2> HIDE DEF rec
  <2> QED
    BY <1>3, <1>4, LinkBack
<1>6. Members(nvs') = Members(nvs) /\ Members(nvs) \subseteq Keys
  BY <1>5, CleanMembers, ErasedMembers, KeyFacts DEF Members
<1>7. \A i \in Keys : nvs'[i].data = nvs[i].data
  BY <1>1, <1>3, <1>4, Types, SameContent
<1>8. SamePool(nvs, nvs')
  <2>1. nvs'[LAST_KEY].nextId = nvs[LAST_KEY].nextId
    BY <1>3, <1>4, KeyFacts DEF Wrote, Relinks
  <2>2. Issued(nvs') = Issued(nvs)
    BY <2>1, <1>5, IssuedIs
  <2> QED
    BY <2>2, <1>6, <1>7, SamePoolIf
<1>9. /\ boot' = [boot EXCEPT !.pc = "cache", !.cur = FIRST_KEY]
      /\ UNCHANGED <<cache, op, acked>>
  BY DEF relinkNext
<1> QED
  BY <1>4, <1>5, <1>6, <1>8, <1>9, Types, ToCache

LEMMA RepairInv ==
  ASSUME OneAtATime, StoreInv, Repairing
  PROVE  StoreInv' /\ SamePool(nvs, nvs')
<1>1. boot.pc \in {"walk", "relink"}
  BY DEF Repairing, rollbackInsert, redoInsert, redoRemoval, relinkNext, walkOn, giveUp,
         Hopeless, Walking
<1>2. CASE boot.pc = "walk"
  <2>1. boot.cur \in Stored(nvs) \ {LAST_KEY} /\ Repairable(nvs, boot.cur)
    BY <1>2 DEF StoreInv, BootInv, WalkInv
  <2>2. CASE /\ Regular(nvs, boot.cur)
             /\ nvs[boot.cur].nextId = LAST_KEY => Clean(nvs)
             /\ Repairable(nvs, nvs[boot.cur].nextId)
    BY <1>2, <2>2, RegularInv DEF Current
  <2>3. CASE \E n \in Keys : Announced(nvs, boot.cur, n)
    BY <1>2, <2>3, AnnouncedInv
  <2>4. CASE \E p \in Keys : Inserted(nvs, p, boot.cur)
    BY <1>2, <2>4, InsertedInv
  <2>5. CASE \E r, q \in Keys : Bypassed(nvs, boot.cur, r, q)
    BY <1>2, <2>5, BypassedInv
  <2>6. CASE \E r, q \in Keys : Erased(nvs, boot.cur, r, q)
    <3>1. PICK r, q \in Keys : Erased(nvs, boot.cur, r, q)
      BY <2>6
    <3>2. /\ Walking /\ Sound /\ Gap /\ ~UnfinishedInsert
          /\ Current.nextId = q /\ NextRec = nvs[q] /\ nvs[q].prevId = r
          /\ Readable(q) /\ (Readable(r) <=> r \in Stored(nvs))
      BY <1>2, <3>1, RemovalSeen
    <3>3. ~Readable(r)
      BY <3>1, <3>2 DEF Erased
    <3>4. relinkNext
      BY <1>2, <3>2, <3>3 DEF Repairing, rollbackInsert, redoInsert, redoRemoval, walkOn,
                              giveUp, Hopeless
    <3> QED
      BY <1>1, <3>1, <3>2, <3>4, ErasedInv
  <2> QED
    BY <2>1, <2>2, <2>3, <2>4, <2>5, <2>6, WalkCases
<1>3. CASE boot.pc = "relink"
  <2>1. PICK r, q \in Keys : Erased(nvs, boot.cur, r, q) /\ boot.next = nvs[q]
    BY <1>3 DEF StoreInv, BootInv, RelinkInv
  <2>2. NextRec = nvs[q] /\ NextRec.prevId = r
    BY <1>3, <2>1 DEF NextRec, Erased
  <2>3. ~Readable(NextRec.prevId)
    BY <2>1, <2>2 DEF Erased, Readable, Stored
  <2>4. relinkNext
    BY <1>3, <2>3 DEF Repairing, rollbackInsert, redoInsert, redoRemoval, walkOn, giveUp,
                      Hopeless, Walking
  <2> QED
    BY <1>1, <2>1, <2>2, <2>4, ErasedInv
<1> QED
  BY <1>1, <1>2, <1>3

\* A power failure leaves NVS in a shape that the repair can mend.
LEMMA CrashInv ==
  ASSUME OneAtATime, StoreInv, Crash
  PROVE  StoreInv' /\ SamePool(nvs, nvs')
<1>1. /\ boot' = [boot EXCEPT !.pc = "off"] /\ op' = [t \in Tasks |-> Idle]
      /\ cache' = NoCache /\ UNCHANGED <<nvs, faults, acked>>
  BY DEF Crash
<1>2. boot' \in BootType /\ boot'.pc = "off"
  BY <1>1, Types DEF BootType, BootSteps
<1>3. boot.pc # "off"
  BY DEF Crash
<1>4. (NoPool(nvs) /\ acked = {}) \/ Repairable(nvs, FIRST_KEY)
  <2>1. CASE boot.pc \in {"ensure", "clear", "head", "tail"}
    BY <2>1 DEF StoreInv, BootInv
  <2>2. CASE boot.pc \in {"walk", "cache"}
    <3>1. boot.cur \in Keys
      BY Types
    <3> QED
      BY <2>2, <3>1, MendedFromHead DEF StoreInv, BootInv, WalkInv
  <2>3. CASE boot.pc = "relink"
    <3>1. PICK r, q \in Keys : Erased(nvs, boot.cur, r, q)
      BY <2>3 DEF StoreInv, BootInv, RelinkInv
    <3>2. boot.cur \in Keys
      BY Types
    <3> QED
      BY <3>1, <3>2, MendedFromHead
  <2>4. CASE boot.pc = "up"
    <3>1. PICK t \in Tasks : OpInv(op[t])
      BY <2>4 DEF StoreInv, UpInv
    <3>2. /\ op[t].cred.credId \in Keys /\ op[t].cred.prevId \in Keys
          /\ op[t].cred.nextId \in Keys
      BY Types DEF CredRecord
    <3>3. \/ Clean(nvs)
          \/ Announced(nvs, op[t].cred.prevId, op[t].cred.credId)
          \/ Inserted(nvs, op[t].cred.prevId, op[t].cred.credId)
          \/ Bypassed(nvs, op[t].cred.prevId, op[t].cred.credId, op[t].cred.nextId)
          \/ Erased(nvs, op[t].cred.prevId, op[t].cred.credId, op[t].cred.nextId)
      BY <3>1 DEF OpInv, Inserting, Updating, Removing
    <3> QED
      BY <3>2, <3>3, MendedFromHead
  <2> QED
    BY <1>3, <2>1, <2>2, <2>3, <2>4, Types DEF BootSteps
<1>5. BootInv'
  BY <1>1, <1>2, <1>4 DEF BootInv
<1>6. cache' \in CacheType
  BY <1>1 DEF NoCache, CacheType
<1> QED
  BY <1>1, <1>2, <1>5, <1>6, Types, BootDone DEF SamePool

-----------------------------------------------------------------------------
(***************************************************************************)
(* The invariant and the pool.                                             *)
(***************************************************************************)
LEMMA InitInv ==
  ASSUME OneAtATime, Init
  PROVE  StoreInv /\ NoPool(nvs)
<1>1. nvs \in NvsType /\ Stored(nvs) = {}
  BY DEF Init, NvsType, Stored
<1>2. NoPool(nvs)
  BY <1>1 DEF NoPool, NvsType
<1>3. op \in [Tasks -> OpType] /\ op = [t \in Tasks |-> Idle]
  BY IdleType DEF Init
<1>4. boot \in BootType /\ boot.pc = "off"
  BY IdleType, KeyFacts, ConstantsAssumption DEF Init, BootType, BootSteps
<1>5. cache = NoCache /\ cache \in CacheType /\ faults = 0 /\ acked = {}
  BY DEF Init, NoCache, CacheType
<1>6. TypeOK
  BY <1>1, <1>3, <1>4, <1>5, ConstantsAssumption
     DEF TypeOK, OpType, CacheType, NvsType, BootType
<1>7. BootInv
  BY <1>2, <1>3, <1>4, <1>5 DEF BootInv
<1> QED
  BY <1>2, <1>4, <1>5, <1>6, <1>7 DEF StoreInv, UpInv

\* Every step keeps the invariant, and does to the pool what CredPool allows.
LEMMA StepInv ==
  ASSUME OneAtATime, StoreInv, [Next]_vars
  PROVE  /\ StoreInv'
         /\ \/ SamePool(nvs, nvs') \/ AddsTo(nvs, nvs')
            \/ Updates(nvs, nvs') \/ RemovesFrom(nvs, nvs')
<1>1. CASE Requests
  <2>1. ASSUME NEW d \in Data, addCred(d) PROVE StoreInv' /\ SamePool(nvs, nvs')
    BY <2>1, AddCredInv
  <2>2. ASSUME NEW t \in Tasks, NEW id \in Keys, NEW d \in Data, updateCred(t, id, d)
        PROVE  StoreInv' /\ SamePool(nvs, nvs')
    BY <2>2, UpdateCredInv
  <2>3. ASSUME NEW t \in Tasks, NEW id \in Keys, NEW i \in Idents, removeCred(t, id, i)
        PROVE  StoreInv' /\ SamePool(nvs, nvs')
    BY <2>3, RemoveCredInv
  <2> QED
    BY <1>1, <2>1, <2>2, <2>3, RefreshCacheInv DEF Requests
<1>2. CASE \E t \in Tasks : TaskStep(t)
  <2>1. PICK t \in Tasks : TaskStep(t)
    BY <1>2
  <2> QED
    BY <2>1, InsertPrevInv, InsertCredInv, InsertTailInv, UpdateWriteInv, RemovePrevInv,
       RemoveEraseInv, RemoveNextInv DEF TaskStep
<1>3. CASE refreshStep
  BY <1>3, RefreshStepInv
<1>4. CASE BootStep
  <2>1. CASE Repairing
    BY <2>1, RepairInv
  <2>2. CASE ~Repairing
    BY <1>4, <2>2, BeginInv, EnsurePoolInv, ResetEraseInv, ResetClearedInv, ResetHeadInv,
       ResetTailInv, BootCacheInv DEF BootStep, Repairing
  <2> QED
    BY <2>1, <2>2
<1>5. CASE Crash
  BY <1>5, CrashInv
<1>6. CASE UNCHANGED vars
  <2>1. UNCHANGED <<nvs, cache, op, boot, faults, acked>>
    BY <1>6 DEF vars
  <2>2. TypeOK' /\ faults' = 0 /\ acked' \subseteq Members(nvs') /\ SamePool(nvs, nvs')
    BY <2>1 DEF StoreInv, TypeOK, SamePool
  <2>3. BootInv'
    BY <2>1 DEF StoreInv, BootInv, WalkInv, RelinkInv
  <2>4. \A t \in Tasks : OpInv(op[t]) => OpInv(op[t])'
    BY <2>1 DEF OpInv, Inserting, Updating, Removing
  <2>5. UpInv'
    BY <2>1, <2>4 DEF StoreInv, UpInv
  <2> QED
    BY <2>2, <2>3, <2>5 DEF StoreInv
<1> QED
  BY <1>1, <1>2, <1>3, <1>4, <1>5, <1>6 DEF Next

LEMMA AlwaysStoreInv ==
  ASSUME OneAtATime
  PROVE  Spec => []StoreInv
<1>1. Init => StoreInv
  BY InitInv
<1>2. StoreInv /\ [Next]_vars => StoreInv'
  BY StepInv
<1> QED
  BY <1>1, <1>2, PTL DEF Spec

\* The store never leaves its types: identifiers stay within the keys, and
\* neither the repair nor an operation holds anything but a record.
THEOREM StoreTypes ==
  ASSUME OneAtATime
  PROVE  Spec => []TypeOK
<1>1. StoreInv => TypeOK
  BY DEF StoreInv
<1> QED
  BY <1>1, AlwaysStoreInv, PTL

\* Whenever neither an operation nor the repair is under way, all the records
\* in NVS are one list in the order of their identifiers, linked both ways,
\* and the next free identifier is above all of them: no power failure, at any
\* write of addCred(), removeCred() or of the repair itself, leaves anything
\* else behind.
THEOREM ListIsWhole ==
  ASSUME OneAtATime
  PROVE  Spec => []WellChained
<1>1. StoreInv => WellChained
  <2> SUFFICES ASSUME StoreInv, Quiet
               PROVE  /\ Chained(Present)
                      /\ \A k \in Present \ {LAST_KEY} : k < nvs[LAST_KEY].nextId
    BY DEF WellChained
  <2>1. Clean(nvs)
    <3>1. CASE boot.pc = "cache"
      BY <3>1 DEF StoreInv, BootInv
    <3>2. CASE boot.pc = "up"
      <4>1. PICK t \in Tasks : OpInv(op[t])
        BY <3>2 DEF StoreInv, UpInv
      <4>2. op[t].pc \in {"idle", "refresh"}
        BY DEF Quiet
      <4> QED
        BY <4>1, <4>2 DEF OpInv, Inserting, Updating, Removing
    <3> QED
      BY <3>1, <3>2 DEF Quiet
  <2>2. Present = Stored(nvs)
    BY DEF Present, Readable, Stored
  <2> QED
    BY <2>1, <2>2 DEF Chained, Clean, Filed, Above, Forward, Backward
<1> QED
  BY <1>1, AlwaysStoreInv, PTL

\* A credential whose identifier addCred() has returned is in the pool until
\* somebody removes it, through power failures at any write.
THEOREM AcknowledgedStays ==
  ASSUME OneAtATime
  PROVE  Spec => []Durable
<1>1. StoreInv => Durable
  <2>1. StoreInv => acked \subseteq RealIds
    BY DEF StoreInv, Members
  <2> QED
    BY <2>1, CommittedMembers DEF StoreInv, Durable
<1> QED
  BY <1>1, AlwaysStoreInv, PTL

\* Between operations the cache that unlocks doors holds what is in NVS: no
\* removed or replaced credential, and every active one.
THEOREM CacheIsNvs ==
  ASSUME OneAtATime
  PROVE  Spec => []CacheCoherent
<1>1. StoreInv => CacheCoherent
  <2> SUFFICES ASSUME StoreInv, boot.pc = "up", \A t \in Tasks : op[t].pc = "idle",
                      NEW i \in RealIds
               PROVE  /\ cache[i] # NoData => Committed(i) /\ cache[i] = nvs[i].data
                      /\ Committed(i) /\ nvs[i].data \in ActiveData => cache[i] = nvs[i].data
    BY DEF CacheCoherent
  <2>1. Clean(nvs) /\ Agrees(nvs, cache, RealIds)
    <3>1. PICK t \in Tasks : OpInv(op[t])
      BY DEF StoreInv, UpInv
    <3> QED
      BY <3>1 DEF OpInv, Inserting, Updating, Removing
  <2>2. Committed(i) <=> i \in Stored(nvs)
    BY <2>1, CommittedMembers, CleanMembers, KeyFacts DEF Real
  <2> QED
    BY <2>1, <2>2 DEF Agrees
<1> QED
  BY <1>1, AlwaysStoreInv, PTL

\* The variables of CredPool, read from NVS now and after a step.
LEMMA PoolIs ==
  /\ PoolOf = Content(nvs) /\ LastIssued = Issued(nvs)
  /\ PoolOf' = Content(nvs') /\ LastIssued' = Issued(nvs')
<1>1. PoolOf = Content(nvs)
  BY CommittedMembers DEF PoolOf, Content
<1>2. PoolOf' = Content(nvs')
  <2>1. \A k \in Keys : Readable(k)' <=> k \in Stored(nvs')
    BY DEF Readable, Stored
  <2>2. Present' = Stored(nvs')
    BY DEF Readable, Present, Stored
  <2>3. \A i \in RealIds : Committed(i)' <=> i \in Members(nvs')
    BY <2>1, <2>2, KeyFacts DEF Committed, Members
  <2> QED
    BY <2>3 DEF PoolOf, Content
<1>3. LastIssued' = Issued(nvs')
  <2>1. \A k \in Keys : Readable(k)' <=> k \in Stored(nvs')
    BY DEF Readable, Stored
  <2> QED
    BY <2>1, KeyFacts DEF LastIssued, Issued
<1> QED
  BY <1>1, <1>2, <1>3, LastIssuedIs

\* CredStorage implements CredPool: to whoever looks at the box after a
\* restart, an addition, an update or a removal has happened as a whole or not
\* at all, an identifier is issued once, and power failures and repairs change
\* nothing.
THEOREM StoreImplementsPool ==
  ASSUME OneAtATime
  PROVE  Spec => AtomicPool
<1>1. Init => Pool!Init
  <2> SUFFICES ASSUME Init PROVE Pool!Init
    OBVIOUS
  <2>1. NoPool(nvs)
    BY InitInv
  <2>2. Members(nvs) = {} /\ Issued(nvs) = 0
    BY <2>1, NoMembers, IssuedIs
  <2> QED
    BY <2>2, PoolIs DEF Pool!Init, Content
<1>2. StoreInv /\ [Next]_vars => [Pool!Next]_(Pool!poolVars)
  <2> SUFFICES ASSUME StoreInv, [Next]_vars PROVE Pool!Next \/ UNCHANGED Pool!poolVars
    OBVIOUS
  <2>1. CASE SamePool(nvs, nvs')
    BY <2>1, PoolIs DEF SamePool, Pool!poolVars
  <2>2. CASE AddsTo(nvs, nvs')
    BY <2>2, PoolIs DEF AddsTo, Pool!Next, Pool!Add
  <2>3. CASE Updates(nvs, nvs')
    BY <2>3, PoolIs DEF Updates, Pool!Next, Pool!Update
  <2>4. CASE RemovesFrom(nvs, nvs')
    BY <2>4, PoolIs DEF RemovesFrom, Pool!Next, Pool!Remove
  <2> QED
    BY <2>1, <2>2, <2>3, <2>4, StepInv
<1> QED
  BY <1>1, <1>2, AlwaysStoreInv, PTL DEF Spec, AtomicPool, Pool!Spec
=============================================================================
