---------------------------- MODULE CredProtocol ----------------------------
(***************************************************************************)
(* Credentials as the web protocol and the state machine see them:         *)
(* cred_protocol.cpp, and of pass_store.cpp the functions that look at     *)
(* what a credential says: verifyCred(), usedCred(), getCreds() and        *)
(* updateCred(), on the cache in its order.  The list in NVS underneath is *)
(* CredStore's subject; here it is a function from identifiers.            *)
(*                                                                         *)
(* Days are numbered from 1; a limit of 0 is none.                         *)
(***************************************************************************)
EXTENDS Integers, Sequences, SequencesExt, FiniteSets, FiniteSetsExt

CONSTANTS
  MaxId,    (* bound: identifiers                                           *)
  LastDay,  (* bound: days                                                  *)
  Doors     (* logical doors                                                *)

VARIABLES
  now,       (* the day                                                     *)
  store,     (* records in NVS                                              *)
  cache,     (* credsCache, in its order                                    *)
  verified,  (* verifiedCredId                                              *)
  last       (* the last operation and what it found                        *)

vars == <<now, store, cache, verified, last>>

Types == {"ctPin", "ctCode"}
Absent == -9
None == [id |-> 0]
Ids == 1 .. MaxId
Records == [id : Ids, type : Types, from : 0 .. LastDay, to : 0 .. LastDay, door : Doors,
            remaining : -1 .. 2]

\* The requests of setCred in which all fields are well-formed.
Saving(types, unlimited, remaining) ==
  [type : types, deleting : {FALSE}, id : 0 .. MaxId, from : {Absent, 2}, to : {Absent, 1},
   door : {Absent} \cup (Doors \ {Min(Doors)}), unlimited : unlimited, remaining : remaining]
Savings == Saving({"ctPin"}, {"absent", "yes", "no"}, {Absent, 2})
           \cup Saving({"ctCode"}, {"yes"}, {2}) \cup Saving({"ctCode"}, {"absent"}, {Absent})
Deletions == [type : Types, deleting : {TRUE}, id : 0 .. MaxId]

TypeOK ==
  /\ now \in 1 .. LastDay /\ verified \in 0 .. MaxId
  /\ store \in [Ids -> Records \cup {None}]
  /\ \A i \in DOMAIN cache : cache[i] \in Records

Init ==
  /\ now = 1 /\ verified = 0 /\ last = [op |-> "none"]
  /\ store = [i \in Ids |-> None] /\ cache = <<>>

----------------------------------------------------------------------------
(* pass_store.cpp *)

\* Mutant: the end of the period is only looked at when the cache is built.
validSinceStart(p) == p.from = 0 \/ now >= p.from
validNow(p) == (p.from = 0 \/ now >= p.from) /\ (p.to = 0 \/ now <= p.to)
isActive(p) == validNow(p) /\ p.remaining # 0

orderedLimits(p) == p.from = 0 \/ p.to = 0 \/ p.from <= p.to
validateCred(p) == orderedLimits(p)

At(id) == SelectInSeq(cache, LAMBDA p : p.id = id)

\* rebuildCache(): the list, of which the active ones
Active == {i \in Ids : store[i] # None /\ isActive(store[i])}
nth(k) == CHOOSE i \in Active : Cardinality({j \in Active : j <= i}) = k
rebuilt == [k \in 1 .. Cardinality(Active) |-> store[nth(k)]]

\* updateCred(): replaced in place, or appended when it was not cached.
cached(rec) == IF At(rec.id) # 0 THEN [cache EXCEPT ![At(rec.id)] = rec] ELSE Append(cache, rec)

\* The results of a write: done, or refused by NVS.
updateCred(rec) ==
  \/ validateCred(rec) /\ store' = [store EXCEPT ![rec.id] = rec] /\ cache' = cached(rec)
  \/ UNCHANGED <<store, cache>>

addCred(rec) ==
  LET id == IF \E i \in Ids : store[i] # None THEN Max({i \in Ids : store[i] # None}) + 1 ELSE 1
      new == [rec EXCEPT !.id = id]
  IN  \/ /\ id \in Ids /\ validateCred(rec)
         /\ store' = [store EXCEPT ![id] = new] /\ cache' = Append(cache, new)
      \/ UNCHANGED <<store, cache>>

\* The record leaves the list, and the first one with its identifier the cache.
without(id) == IF At(id) # 0 THEN RemoveAt(cache, At(id)) ELSE cache
removeCred(id) ==
  \/ store' = [store EXCEPT ![id] = None] /\ cache' = without(id)
  \/ UNCHANGED <<store, cache>>

\* getCred(): of the type that is asked for.
getCred(id, type) == IF store[id] # None /\ store[id].type = type THEN store[id] ELSE None

\* getCreds(): the page of `count' records from identifier `first' on.
listed(p, first, type) == isActive(p) /\ p.id >= first /\ p.type = type
getCreds(first, count, type) ==
  LET page[n \in 0 .. Len(cache)] ==
        IF n = 0 THEN <<>>
        ELSE IF listed(cache[n], first, type) /\ Len(page[n - 1]) < count
          THEN Append(page[n - 1], cache[n])
        ELSE page[n - 1]
  IN  page[Len(cache)]

----------------------------------------------------------------------------
(* cred_protocol.cpp *)

\* The record a request starts from.
startFrom(r) ==
  IF r.id = 0 THEN [id |-> 1, type |-> r.type, from |-> 0, to |-> 0, door |-> Min(Doors),
                    remaining |-> IF r.type = "ctCode" THEN 1 ELSE -1]
  ELSE getCred(r.id, r.type)

\* ... and what it says on top; for a packet number no amount.
amount(r, old) ==
  IF r.type = "ctCode" THEN old
  ELSE CASE r.unlimited = "yes" -> -1
         [] r.unlimited # "yes" /\ r.remaining # Absent -> r.remaining
         [] OTHER -> old

given(field, old) == IF field = Absent THEN old ELSE field
changed(r, old) ==
  [old EXCEPT !.from = given(r.from, @), !.to = given(r.to, @), !.door = given(r.door, @),
              !.remaining = amount(r, @)]

\* What applyCredChangeImpl() refuses of a request whose fields are well-formed.
refused(r) ==
  \/ r.deleting /\ r.id = 0
  \/ startFrom(r) = None
  \/ /\ ~r.deleting
     /\ \/ ~orderedLimits(changed(r, startFrom(r)))
        \/ /\ r.type = "ctPin" /\ r.unlimited = "no"
           /\ r.remaining < 0

applyCredChange(r) ==
  /\ IF refused(r) THEN last' = [op |-> "none"] /\ UNCHANGED <<store, cache>>
     ELSE LET new == changed(r, startFrom(r))
          IN \/ /\ r.deleting /\ removeCred(r.id) /\ last' = [op |-> "none"]
             \/ /\ ~r.deleting /\ r.id # 0 /\ updateCred(new)
                /\ last' = [op |-> "update", id |-> r.id,
                            kept |-> {f \in {"from", "to", "door"} : r[f] = Absent} \cup {"type"}]
             \/ ~r.deleting /\ r.id = 0 /\ addCred(new) /\ last' = [op |-> "none"]
  /\ UNCHANGED <<now, verified>>

setCred == \E r \in Savings \cup Deletions : applyCredChange(r)

\* A request with a field that is missing or cannot be parsed changes nothing;
\* a list is only read.
buildCredResponse ==
  /\ last' = [op |-> "list"]
  /\ UNCHANGED <<now, store, cache, verified>>

----------------------------------------------------------------------------
(* The state machine *)

\* All credentials of a type have the same text here: the first one decides.
verifyCred(type) ==
  LET i == SelectInSeq(cache, LAMBDA p : p.type = type)
  IN  /\ last' = [op |-> "verify", found |-> IF i # 0 /\ isActive(cache[i]) THEN cache[i] ELSE None]
      /\ verified' = last'.found.id
      /\ UNCHANGED <<now, store, cache>>

\* Mutant: the last use leaves the credential in place.
spentKept(p) == updateCred([p EXCEPT !.remaining = IF @ > 1 THEN @ - 1 ELSE 1])

\* usedCred() takes one use away; the last one with the credential.
spent(p) ==
  CASE p.remaining > 1 -> updateCred([p EXCEPT !.remaining = @ - 1])
    [] p.remaining = 1 -> removeCred(p.id)
    [] OTHER           -> UNCHANGED <<store, cache>>

usedCred(door) ==
  /\ verified # 0
  /\ LET i == At(verified)
     IN  IF i # 0 /\ cache[i].door = door /\ isActive(cache[i])
           THEN /\ spent(cache[i])
                /\ LET ok == cache[i].remaining = -1 \/ store' # store
                   IN  /\ last' = [op |-> "used", ok |-> ok, cred |-> cache[i]]
                       /\ verified' = IF ok THEN 0 ELSE verified
           ELSE /\ last' = [op |-> "used", ok |-> FALSE, cred |-> None] /\ verified' = 0
                /\ UNCHANGED <<store, cache>>
  /\ UNCHANGED now

\* loop() after a synchronisation of the clock, and the next day.
refreshCache == cache' = rebuilt /\ last' = [op |-> "none"] /\ UNCHANGED <<now, store, verified>>
nextDay == /\ now < LastDay /\ now' = now + 1
           /\ last' = [op |-> "none"] /\ UNCHANGED <<store, cache, verified>>

Next == \/ setCred \/ buildCredResponse \/ refreshCache \/ nextDay
        \/ \E type \in Types : verifyCred(type)
        \/ \E door \in Doors : usedCred(door)

Spec == Init /\ [][Next]_vars

----------------------------------------------------------------------------
(* Properties *)

\* No sequence of requests, each of which may give one end of the period only,
\* stores a credential whose validity ends before it begins.
NeverBackwards == \A i \in Ids : store[i] # None => store[i].from = 0 \/ store[i].to = 0
                                                    \/ store[i].from <= store[i].to

\* A code opens a door only by a credential that NVS holds, of that type, on a
\* day within its limits, with uses left; the cache may have become stale since
\* it was built.
AcceptedIsValid ==
  last.op = "verify" /\ last.found # None =>
    LET p == last.found
    IN  /\ store[p.id] = p
        /\ p.from = 0 \/ p.from <= now
        /\ p.to = 0 \/ now <= p.to
        /\ p.remaining # 0

\* A page of a list shows a credential once, as NVS has it, after any sequence
\* of changes, uses and rebuilds of the cache.
ShownOnce ==
  last.op = "list" => \A type \in Types, first \in 0 .. MaxId :
    LET rows == getCreds(first, MaxId, type)
    IN  /\ \A i, j \in DOMAIN rows : i # j => rows[i].id # rows[j].id
        /\ \A i \in DOMAIN rows : rows[i] = store[rows[i].id]

\* A use that is reported as charged leaves one use less of that credential and
\* nothing else changed, whatever requests came between the code and the door.
ChargedStep ==
  last'.op = "used" /\ last'.ok =>
    LET p == last'.cred
    IN  \A i \in Ids :
          store'[i] = IF i # p.id \/ p.remaining = -1 THEN store[i]
                      ELSE IF p.remaining = 1 THEN None ELSE [store[i] EXCEPT !.remaining = @ - 1]
Charged == [][ChargedStep]_vars

\* A request changes what it names: of an existing record the fields it carries,
\* and never the type.
NamedOnlyStep ==
  last'.op = "update" =>
    \A i \in Ids : IF i # last'.id THEN store'[i] = store[i]
                   ELSE \A f \in last'.kept : store'[i][f] = store[i][f]
NamedOnly == [][NamedOnlyStep]_vars

(***************************************************************************)
(* What these rest on: a credential is stored under its identifier, and    *)
(* the cache holds stored credentials as they are stored, each one once.   *)
(***************************************************************************)
CredsInv ==
  /\ store \in [Ids -> Records \cup {None}]
  /\ \A i \in Ids : store[i] # None => store[i].id = i
  /\ cache \in Seq(Records)
  /\ \A k \in 1 .. Len(cache) : cache[k] = store[cache[k].id]
  /\ \A k, l \in 1 .. Len(cache) : cache[k].id = cache[l].id => k = l

=============================================================================
