----------------------- MODULE ClientWatchdog_proofs ------------------------
(***************************************************************************)
(* Proofs about ClientWatchdog, for a table of any size and any clients,   *)
(* where an event waits for a round of loop() to end: no entry outlives    *)
(* its client or is there twice, and with room for all clients every       *)
(* connected one has an entry.                                             *)
(***************************************************************************)
EXTENDS ClientWatchdog, FiniteSetTheorems, WellFoundedInduction, TLAPS

Entry == [active : BOOLEAN, clientId : Clients \cup {NoClient}, age : Int]

\* The entries below f are those of clients of the server, none twice.
Entered(t, f, s) ==
  /\ t \in [Slots -> Entry] /\ f \in 0 .. DEFAULT_MAX_WS_CLIENTS
  /\ \A i \in Slots : i < f =>
       t[i].clientId \in Clients /\ s[t[i].clientId] # "away"
  /\ \A i, j \in Slots : i < j /\ j < f => t[i].clientId # t[j].clientId

Used(t, f) == \A i \in Slots : i < f => t[i].active

HasEntry(t, f, c) == \E i \in Slots : i < f /\ t[i].clientId = c

\* While an entry is removed it is the scan's, and its client was closed.
ScanInv ==
  /\ scan \in [at : {"none", "scan", "remove", "shift"}, i : Nat]
  /\ \A i \in Slots : i < free =>
       entries[i].active \/ (scan.at = "shift" /\ i = scan.i)
  /\ scan.at \in {"remove", "shift"} =>
       scan.i < free /\ status[entries[scan.i].clientId] # "connected"

WatchdogInv ==
  /\ status \in [Clients -> {"away", "connected", "closing"}]
  /\ Entered(entries, free, status)
  /\ ScanInv

Fits == Cardinality(Clients) <= DEFAULT_MAX_WS_CLIENTS
Tracked(t, f, s) ==
  \A c \in Clients : s[c] = "connected" => HasEntry(t, f, c)
TrackedInv == Fits => Tracked(entries, free, status)

\* What is assumed of the constants.
TableFits == DEFAULT_MAX_WS_CLIENTS \in Nat /\ IsFiniteSet(Clients)

-----------------------------------------------------------------------------
(* The table *)

\* A set of natural numbers has a least element.
LEMMA LeastNumber ==
  ASSUME NEW T, T \subseteq Nat, T # {}
  PROVE  \E x \in T : \A y \in T : x <= y
<1> DEFINE R == {r \in Nat \X Nat : r[1] < r[2]}
<1>1. IsWellFoundedOn(R, Nat)
  <2>1. OpToRel(<, Nat) = R
    BY DEF OpToRel
  <2> QED
    BY <2>1, NatLessThanWellFounded
<1>2. \A x, y \in Nat : y < x => <<y, x>> \in R
  OBVIOUS
<1>3. PICK x \in T : \A y \in T : ~(<<y, x>> \in R)
  <2> HIDE DEF R
  <2> QED
    BY <1>1, WFMin
<1> HIDE DEF R
<1>4. \A y \in T : x \in Nat /\ y \in Nat /\ ~(y < x)
  BY <1>2, <1>3
<1> QED
  BY <1>4

\* What the entries are after one is removed.
LEMMA Shifted ==
  ASSUME TableFits, NEW t \in [Slots -> Entry],
         NEW f \in 0 .. DEFAULT_MAX_WS_CLIENTS, NEW i \in Slots, i < f
  PROVE  /\ shifted(t, f, i) \in [Slots -> Entry]
         /\ f - 1 \in 0 .. DEFAULT_MAX_WS_CLIENTS
         /\ \A k \in Slots : k < f - 1 =>
              /\ k >= i => k + 1 \in Slots /\ shifted(t, f, i)[k] = t[k + 1]
              /\ k < i => shifted(t, f, i)[k] = t[k]
<1>1. DEFAULT_MAX_WS_CLIENTS \in Nat /\ i \in Int /\ f \in Int /\ 0 <= i
  BY DEF TableFits, Slots
<1>2. ASSUME NEW k \in Slots, k \in i .. f - 2 PROVE k + 1 \in Slots
  BY <1>1, <1>2 DEF Slots
<1>3. shifted(t, f, i) \in [Slots -> Entry]
  BY <1>2 DEF shifted
<1>4. f - 1 \in 0 .. DEFAULT_MAX_WS_CLIENTS
  BY <1>1
<1>5. ASSUME NEW k \in Slots, k < f - 1
      PROVE  /\ k >= i => k + 1 \in Slots /\ shifted(t, f, i)[k] = t[k + 1]
             /\ k < i => shifted(t, f, i)[k] = t[k]
  <2>1. /\ k \in Int
        /\ k >= i => k \in i .. f - 2
        /\ k < i => k \notin i .. f - 2
    BY <1>1, <1>5 DEF Slots
  <2> QED
    BY <1>2, <2>1 DEF shifted
<1> QED
  BY <1>3, <1>4, <1>5

\* An entry that is removed leaves the others: those of the same clients.
LEMMA RemovedEntry ==
  ASSUME TableFits, NEW t, NEW f, NEW s, NEW i \in Slots, i < f,
         Entered(t, f, s), \A k \in Slots : k < f => t[k].active \/ k = i
  PROVE  /\ Entered(shifted(t, f, i), f - 1, s)
         /\ Used(shifted(t, f, i), f - 1)
         /\ \A k \in Slots : k < f - 1 =>
              \E l \in Slots : /\ l < f /\ l # i
                               /\ shifted(t, f, i)[k].clientId = t[l].clientId
         /\ \A d : HasEntry(t, f, d) /\ d # t[i].clientId =>
                     HasEntry(shifted(t, f, i), f - 1, d)
<1> DEFINE u == shifted(t, f, i)
<1>1. /\ DEFAULT_MAX_WS_CLIENTS \in Nat /\ i \in Int /\ 0 <= i
      /\ f \in 0 .. DEFAULT_MAX_WS_CLIENTS /\ f \in Int
      /\ t \in [Slots -> Entry] /\ Slots \subseteq Int
  BY DEF TableFits, Slots, Entered
<1>2. /\ u \in [Slots -> Entry]
      /\ f - 1 \in 0 .. DEFAULT_MAX_WS_CLIENTS
      /\ \A k \in Slots : k < f - 1 =>
           /\ k >= i => k + 1 \in Slots /\ u[k] = t[k + 1]
           /\ k < i => u[k] = t[k]
  BY <1>1, Shifted
<1> HIDE DEF u
<1>3. ASSUME NEW k \in Slots, k < f - 1
      PROVE  \E l \in Slots : /\ l < f /\ l # i /\ k <= l /\ l <= k + 1
                              /\ u[k] = t[l] /\ (l = k + 1 <=> k >= i)
  <2>1. CASE k >= i
    BY <1>1, <1>2, <1>3, <2>1
  <2>2. CASE k < i
    BY <1>1, <1>2, <1>3, <2>2
  <2> QED
    BY <1>1, <2>1, <2>2
<1>4. ASSUME NEW k \in Slots, k < f - 1
      PROVE  /\ u[k].active /\ u[k].clientId \in Clients
             /\ s[u[k].clientId] # "away"
  BY <1>3, <1>4 DEF Entered
<1>5. ASSUME NEW k \in Slots, NEW j \in Slots, k < j, j < f - 1
      PROVE  u[k].clientId # u[j].clientId
  <2>1. k < f - 1
    BY <1>1, <1>5
  <2>2. PICK a \in Slots : /\ a < f /\ u[k] = t[a] /\ a <= k + 1 /\ k <= a
                           /\ (a = k + 1 <=> k >= i)
    BY <1>3, <2>1
  <2>3. PICK b \in Slots : /\ b < f /\ u[j] = t[b] /\ b <= j + 1 /\ j <= b
                           /\ (b = j + 1 <=> j >= i)
    BY <1>3, <1>5
  <2>4. a < b
    BY <1>1, <1>5, <2>2, <2>3
  <2> QED
    BY <2>2, <2>3, <2>4 DEF Entered
<1>6. ASSUME NEW d, HasEntry(t, f, d), d # t[i].clientId
      PROVE  HasEntry(u, f - 1, d)
  <2>1. PICK l \in Slots : l < f /\ t[l].clientId = d
    BY <1>6 DEF HasEntry
  <2>2. l # i
    BY <1>6, <2>1
  <2>3. CASE l < i
    <3>1. l < f - 1 /\ u[l] = t[l]
      BY <1>1, <1>2, <2>1, <2>3
    <3> QED
      BY <2>1, <3>1 DEF HasEntry
  <2>4. CASE l > i
    <3>1. l - 1 \in Slots /\ l - 1 < f - 1 /\ l - 1 >= i
      BY <1>1, <2>1, <2>4 DEF Slots
    <3>2. u[l - 1] = t[l]
      BY <1>1, <1>2, <3>1
    <3> QED
      BY <2>1, <3>1, <3>2 DEF HasEntry
  <2> QED
    BY <1>1, <2>2, <2>3, <2>4
<1>7. Entered(u, f - 1, s)
  BY <1>2, <1>4, <1>5 DEF Entered
<1>8. Used(u, f - 1)
  BY <1>4 DEF Used
<1> QED
  BY <1>3, <1>6, <1>7, <1>8 DEF u

-----------------------------------------------------------------------------
(* The loop of watchdogRemoveEntry() *)

\* The table after the first n slots.
Walk(n, c, f) ==
  f = [k \in 0 .. n |-> IF k = 0 THEN [t |-> entries, f |-> free]
                                 ELSE removedFrom(f[k - 1], k - 1, c)]

LEMMA WalkExists ==
  ASSUME TableFits, NEW c
  PROVE  \E f : Walk(DEFAULT_MAX_WS_CLIENTS, c, f)
<1> DEFINE Bad == {n \in 0 .. DEFAULT_MAX_WS_CLIENTS : ~\E f : Walk(n, c, f)}
<1>1. ASSUME Bad # {} PROVE FALSE
  <2>1. PICK n \in Bad : \A k \in Bad : n <= k
    <3>1. Bad \subseteq Nat
      OBVIOUS
    <3> HIDE DEF Bad
    <3> QED
      BY <1>1, <3>1, LeastNumber
  <2>2. n \in 0 .. DEFAULT_MAX_WS_CLIENTS /\ n \in Nat /\ ~\E f : Walk(n, c, f)
    BY <2>1
  <2>3. CASE n = 0
    <3> DEFINE g == [k \in 0 .. 0 |-> [t |-> entries, f |-> free]]
    <3>1. Walk(0, c, g)
      <4>1. \A k \in 0 .. 0 : k = 0
        OBVIOUS
      <4> QED
        BY <4>1 DEF Walk
    <3> QED
      BY <2>2, <2>3, <3>1
  <2>4. CASE n # 0
    <3>1. n - 1 \in 0 .. DEFAULT_MAX_WS_CLIENTS /\ n - 1 \notin Bad
      <4>1. n - 1 \in 0 .. DEFAULT_MAX_WS_CLIENTS /\ ~(n <= n - 1)
        BY <2>2, <2>4 DEF TableFits
      <4> HIDE DEF Bad
      <4> QED
        BY <2>1, <4>1
    <3>2. PICK f : Walk(n - 1, c, f)
      BY <3>1
    <3> DEFINE g == [k \in 0 .. n |->
                       IF k = n THEN removedFrom(f[n - 1], n - 1, c) ELSE f[k]]
    <3>3. ASSUME NEW k \in 0 .. n
          PROVE  g[k] = IF k = 0 THEN [t |-> entries, f |-> free]
                                 ELSE removedFrom(g[k - 1], k - 1, c)
      <4>1. CASE k = n
        <5>1. n - 1 \in 0 .. n /\ n - 1 # n
          BY <2>2, <2>4
        <5>2. g[n - 1] = f[n - 1] /\ g[n] = removedFrom(f[n - 1], n - 1, c)
          BY <5>1, <2>2
        <5> HIDE DEF g
        <5> QED
          BY <2>4, <4>1, <5>2
      <4>2. CASE k # n
        <5>1. k \in 0 .. n - 1
          BY <2>2, <4>2
        <5>2. f[k] = IF k = 0 THEN [t |-> entries, f |-> free]
                              ELSE removedFrom(f[k - 1], k - 1, c)
          BY <3>2, <5>1 DEF Walk
        <5>3. g[k] = f[k] /\ (k # 0 => g[k - 1] = f[k - 1])
          BY <2>2, <4>2
        <5> HIDE DEF g
        <5> QED
          BY <5>2, <5>3
      <4> QED
        BY <4>1, <4>2
    <3>4. Walk(n, c, g)
      <4>1. g = [k \in 0 .. n |-> g[k]]
        OBVIOUS
      <4> HIDE DEF g
      <4> QED
        BY <3>3, <4>1 DEF Walk
    <3> QED
      BY <2>2, <3>4
  <2> QED
    BY <2>3, <2>4
<1>2. DEFAULT_MAX_WS_CLIENTS \in 0 .. DEFAULT_MAX_WS_CLIENTS
  BY DEF TableFits
<1> QED
  BY <1>1, <1>2

\* The first k slots are done: none of them holds the client, and the others
\* are where they were.
Walked(tf, k, c) ==
  /\ Entered(tf.t, tf.f, status) /\ Used(tf.t, tf.f)
  /\ \A i \in Slots : i < k /\ i < tf.f => tf.t[i].clientId # c
  /\ \A d \in Clients : HasEntry(entries, free, d) /\ d # c
                          => HasEntry(tf.t, tf.f, d)

LEMMA WalkStep ==
  ASSUME TableFits, NEW c \in Clients, NEW tf, NEW k \in Slots,
         Walked(tf, k, c)
  PROVE  Walked(removedFrom(tf, k, c), k + 1, c)
<1>1. k \in Int /\ tf.f \in Int /\ Slots \subseteq Int
  BY DEF TableFits, Slots, Walked, Entered
<1>2. CASE ~(k < tf.f /\ holds(tf.t, k, c))
  <2>1. removedFrom(tf, k, c) = tf
    BY <1>2 DEF removedFrom
  <2>2. ASSUME NEW i \in Slots, i < k + 1, i < tf.f PROVE tf.t[i].clientId # c
    <3>1. CASE i < k
      BY <2>2, <3>1 DEF Walked
    <3>2. CASE i = k
      BY <1>2, <2>2, <3>2 DEF Walked, Used, holds
    <3> QED
      BY <1>1, <2>2, <3>1, <3>2
  <2> QED
    BY <2>1, <2>2 DEF Walked
<1>3. CASE k < tf.f /\ holds(tf.t, k, c)
  <2> DEFINE t == deactivated(tf.t, k)
             u == shifted(t, tf.f, k)
  <2>1. /\ removedFrom(tf, k, c) = [t |-> u, f |-> tf.f - 1]
        /\ tf.t[k].clientId = c
    BY <1>3 DEF removedFrom, holds
  <2>2. /\ t \in [Slots -> Entry]
        /\ \A i \in Slots : t[i].clientId = tf.t[i].clientId
        /\ \A i \in Slots : i # k => t[i] = tf.t[i]
    <3>1. tf.t \in [Slots -> Entry]
      BY DEF Walked, Entered
    <3> QED
      BY <3>1 DEF deactivated, Entry
  <2> HIDE DEF t
  <2>3. Entered(t, tf.f, status)
    BY <2>2 DEF Walked, Entered
  <2>4. \A i \in Slots : i < tf.f => t[i].active \/ i = k
    BY <2>2 DEF Walked, Used
  <2>5. /\ Entered(u, tf.f - 1, status)
        /\ Used(u, tf.f - 1)
        /\ \A i \in Slots : i < tf.f - 1 =>
             \E l \in Slots : /\ l < tf.f /\ l # k
                              /\ u[i].clientId = t[l].clientId
        /\ \A d : HasEntry(t, tf.f, d) /\ d # t[k].clientId =>
                    HasEntry(u, tf.f - 1, d)
    BY <1>3, <2>3, <2>4, RemovedEntry
  <2> HIDE DEF u
  <2>6. \A l \in Slots : l < tf.f /\ l # k => tf.t[l].clientId # c
    BY <1>1, <1>3, <2>1 DEF Walked, Entered
  <2>7. \A i \in Slots : i < tf.f - 1 => u[i].clientId # c
    BY <2>2, <2>5, <2>6
  <2>8. ASSUME NEW d \in Clients, HasEntry(entries, free, d), d # c
        PROVE  HasEntry(u, tf.f - 1, d)
    <3>1. HasEntry(tf.t, tf.f, d)
      BY <2>8 DEF Walked
    <3>2. HasEntry(t, tf.f, d)
      BY <2>2, <3>1 DEF HasEntry
    <3> QED
      BY <2>1, <2>2, <2>5, <2>8, <3>2
  <2> QED
    BY <2>1, <2>5, <2>7, <2>8 DEF Walked
<1> QED
  BY <1>2, <1>3

\* After the loop the client has no entry, and every other has what it had.
LEMMA EntryRemoved ==
  ASSUME TableFits, NEW c \in Clients, NEW f,
         Walk(DEFAULT_MAX_WS_CLIENTS, c, f),
         Entered(entries, free, status), Used(entries, free)
  PROVE  Walked(f[DEFAULT_MAX_WS_CLIENTS], DEFAULT_MAX_WS_CLIENTS, c)
<1> DEFINE N == DEFAULT_MAX_WS_CLIENTS
           Bad == {k \in 0 .. N : ~Walked(f[k], k, c)}
<1>1. N \in Nat /\ Slots = 0 .. N - 1
  BY DEF TableFits, Slots
<1>2. f[0] = [t |-> entries, f |-> free]
  BY <1>1 DEF Walk
<1>3. ASSUME NEW k \in 0 .. N, k # 0
      PROVE  f[k] = removedFrom(f[k - 1], k - 1, c)
  BY <1>3 DEF Walk
<1>4. Walked(f[0], 0, c)
  <2>1. \A i \in Slots : ~(i < 0)
    BY <1>1
  <2> QED
    BY <1>2, <2>1 DEF Walked
<1>5. ASSUME Bad # {} PROVE FALSE
  <2>1. PICK n \in Bad : \A k \in Bad : n <= k
    <3>1. Bad \subseteq Nat
      OBVIOUS
    <3> HIDE DEF Bad
    <3> QED
      BY <1>5, <3>1, LeastNumber
  <2>2. n \in 0 .. N /\ n \in Int /\ ~Walked(f[n], n, c) /\ n # 0
    BY <1>4, <2>1
  <2>3. n - 1 \in 0 .. N /\ n - 1 \in Slots /\ ~(n <= n - 1) /\ (n - 1) + 1 = n
    BY <1>1, <2>2
  <2>4. n - 1 \notin Bad
    <3> HIDE DEF Bad
    <3> QED
      BY <2>1, <2>3
  <2>5. Walked(f[n - 1], n - 1, c)
    BY <2>3, <2>4
  <2>6. Walked(removedFrom(f[n - 1], n - 1, c), n, c)
    BY <2>3, <2>5, WalkStep
  <2> QED
    BY <1>3, <2>2, <2>6
<1>6. N \in 0 .. N
  BY <1>1
<1> QED
  BY <1>5, <1>6

-----------------------------------------------------------------------------
(* The steps *)

IInv == WatchdogInv /\ TrackedInv

LEMMA WatchdogInit == TableFits /\ Init => IInv
<1> SUFFICES ASSUME TableFits, Init PROVE IInv
  OBVIOUS
<1>1. DEFAULT_MAX_WS_CLIENTS \in Nat /\ Slots \subseteq Int
  BY DEF TableFits, Slots
<1>2. /\ free = 0 /\ 0 \in 0 .. DEFAULT_MAX_WS_CLIENTS
      /\ \A i \in Slots : ~(i < free)
  BY <1>1 DEF Init, Slots
<1>3. entries \in [Slots -> Entry]
  BY DEF Init, Unused, Entry
<1>4. Entered(entries, free, status)
  <2>1. \A i, j \in Slots : ~(i < j /\ j < free)
    BY <1>2
  <2> QED
    BY <1>2, <1>3, <2>1 DEF Entered
<1>5. ScanInv
  BY <1>2 DEF Init, ScanInv, Rest
<1>6. \A c \in Clients : status[c] = "away"
  BY DEF Init
<1>7. status \in [Clients -> {"away", "connected", "closing"}]
  BY DEF Init
<1> QED
  BY <1>4, <1>5, <1>6, <1>7 DEF IInv, WatchdogInv, TrackedInv, Tracked

\* The entries stay those of clients of the server when a client only comes
\* nearer to its end or to the server.
LEMMA OtherStatus ==
  ASSUME NEW t, NEW f, NEW s, NEW r, Entered(t, f, s),
         \A c \in Clients : s[c] # "away" => r[c] # "away"
  PROVE  Entered(t, f, r)
  BY DEF Entered

\* With room for all clients there is room for one that has no entry.
LEMMA RoomForOne ==
  ASSUME TableFits, Fits, NEW c \in Clients, Entered(entries, free, status),
         ~HasEntry(entries, free, c)
  PROVE  free < DEFAULT_MAX_WS_CLIENTS
<1> DEFINE D == {i \in Slots : i < free}
           g == [i \in D |-> entries[i].clientId]
<1>1. DEFAULT_MAX_WS_CLIENTS \in Nat /\ free \in 0 .. DEFAULT_MAX_WS_CLIENTS
  BY DEF TableFits, Entered
<1>2. D = 0 .. free - 1
  BY <1>1 DEF Slots
<1>3. Cardinality(D) = free
  <2>1. 0 \in Int /\ free - 1 \in Int
    BY <1>1
  <2>2. Cardinality(0 .. free - 1) =
          IF 0 > free - 1 THEN 0 ELSE (free - 1) - 0 + 1
    BY <2>1, FS_Interval
  <2> HIDE DEF D
  <2> QED
    BY <1>1, <1>2, <2>2
<1>4. /\ IsFiniteSet(Clients \ {c})
      /\ Cardinality(Clients \ {c}) = Cardinality(Clients) - 1
      /\ Cardinality(Clients) \in Nat
  BY FS_RemoveElement, FS_CardinalityType DEF TableFits
<1>5. g \in Injection(D, Clients \ {c})
  <2>1. \A i \in D : entries[i].clientId \in Clients \ {c}
    BY DEF Entered, HasEntry
  <2>2. ASSUME NEW i \in D, NEW j \in D, i # j PROVE g[i] # g[j]
    <3>1. /\ i \in Slots /\ j \in Slots /\ i < free /\ j < free
          /\ i < j \/ j < i
      BY <1>1, <1>2, <2>2
    <3> QED
      BY <3>1 DEF Entered
  <2>3. g \in [D -> Clients \ {c}]
    BY <2>1
  <2> QED
    BY <2>2, <2>3 DEF Injection, IsInjective
<1>6. Cardinality(D) <= Cardinality(Clients \ {c})
  <2> HIDE DEF D, g
  <2> QED
    BY <1>4, <1>5, FS_Injection
<1> QED
  BY <1>1, <1>3, <1>4, <1>6 DEF Fits

\* A client that answers, for the first time or again.
LEMMA ResponseStep ==
  ASSUME TableFits, IInv, NEW c \in Clients, scan.at = "none",
         handleWatchdogResponse(c), UNCHANGED scan,
         \/ UNCHANGED status /\ status[c] # "away"
         \/ status[c] = "away" /\ status' = [status EXCEPT ![c] = "connected"]
  PROVE  IInv'
<1>1. /\ DEFAULT_MAX_WS_CLIENTS \in Nat /\ Slots \subseteq Int
      /\ free \in 0 .. DEFAULT_MAX_WS_CLIENTS /\ free \in Int
      /\ entries \in [Slots -> Entry]
      /\ status \in [Clients -> {"away", "connected", "closing"}]
      /\ Entered(entries, free, status)
      /\ Slots = 0 .. DEFAULT_MAX_WS_CLIENTS - 1
  BY DEF TableFits, Slots, IInv, WatchdogInv, Entered
<1>2. /\ status' \in [Clients -> {"away", "connected", "closing"}]
      /\ status'[c] # "away"
      /\ \A d \in Clients : status[d] # "away" => status'[d] # "away"
      /\ \A d \in Clients :
           d # c /\ status'[d] = "connected" => status[d] = "connected"
  BY <1>1
<1>3. Used(entries, free)
  BY DEF Used, IInv, WatchdogInv, ScanInv
<1>4. EntriesOf(c) = {} => ~HasEntry(entries, free, c)
  BY <1>3 DEF EntriesOf, HasEntry, holds, Used
<1>5. Entered(entries, free, status')
  BY <1>1, <1>2, OtherStatus
<1>6. Tracked(entries, free, status') \/ ~Fits \/ EntriesOf(c) = {}
  <2>1. ASSUME EntriesOf(c) # {} PROVE HasEntry(entries, free, c)
    BY <2>1 DEF EntriesOf, HasEntry, holds
  <2> QED
    BY <1>2, <2>1 DEF IInv, TrackedInv, Tracked
<1>7. CASE /\ EntriesOf(c) # {} /\ UNCHANGED free
           /\ entries' = [entries EXCEPT
                ![CHOOSE i \in EntriesOf(c) :
                    \A j \in EntriesOf(c) : i <= j].age = 0]
  <2> DEFINE w == CHOOSE i \in EntriesOf(c) : \A j \in EntriesOf(c) : i <= j
  <2>1. w \in Slots
    <3>1. EntriesOf(c) \subseteq Nat
      BY <1>1 DEF EntriesOf
    <3>2. \E i \in EntriesOf(c) : \A j \in EntriesOf(c) : i <= j
      BY <1>7, <3>1, LeastNumber
    <3> QED
      BY <3>2 DEF EntriesOf
  <2>2. entries' = [entries EXCEPT ![w].age = 0]
    BY <1>7
  <2> HIDE DEF w
  <2>3. /\ entries' \in [Slots -> Entry]
        /\ \A i \in Slots : /\ entries'[i].clientId = entries[i].clientId
                            /\ entries'[i].active = entries[i].active
    BY <1>1, <2>1, <2>2 DEF Entry
  <2>4. Entered(entries', free', status')
    BY <1>5, <1>7, <2>3 DEF Entered
  <2>5. ScanInv'
    BY <1>3, <1>7, <2>3 DEF ScanInv, IInv, WatchdogInv, Used
  <2>6. TrackedInv'
    BY <1>6, <1>7, <2>3 DEF TrackedInv, Tracked, HasEntry, Fits
  <2> QED
    BY <1>2, <2>4, <2>5, <2>6 DEF IInv, WatchdogInv
<1>8. CASE /\ EntriesOf(c) = {} /\ free < DEFAULT_MAX_WS_CLIENTS
           /\ entries' = [entries EXCEPT ![free] =
                [active |-> TRUE, clientId |-> c, age |-> 0]]
           /\ free' = free + 1
  <2>1. free \in Slots
    BY <1>1, <1>8
  <2>2. [active |-> TRUE, clientId |-> c, age |-> 0] \in Entry
    BY DEF Entry
  <2>3. /\ entries' \in [Slots -> Entry]
        /\ \A i \in Slots : i # free => entries'[i] = entries[i]
        /\ entries'[free].clientId = c /\ entries'[free].active
    BY <1>1, <1>8, <2>1, <2>2
  <2>4. free' \in 0 .. DEFAULT_MAX_WS_CLIENTS
    BY <1>1, <1>8
  <2>5. \A i \in Slots : i < free' => i < free \/ i = free
    BY <1>1, <1>8
  <2>6. \A i \in Slots : i < free => entries[i].clientId # c
    BY <1>4, <1>8 DEF HasEntry
  <2>7. Entered(entries', free', status')
    <3>1. ASSUME NEW i \in Slots, i < free'
          PROVE  entries'[i].clientId \in Clients
                 /\ status'[entries'[i].clientId] # "away"
      <4>1. CASE i = free
        BY <1>2, <2>3, <4>1
      <4>2. CASE i # free
        BY <1>5, <2>3, <2>5, <3>1, <4>2 DEF Entered
      <4> QED
        BY <4>1, <4>2
    <3>2. ASSUME NEW i \in Slots, NEW j \in Slots, i < j, j < free'
          PROVE  entries'[i].clientId # entries'[j].clientId
      <4>1. i < free /\ i # free
        BY <1>1, <1>8, <3>2
      <4>2. CASE j = free
        BY <2>3, <2>6, <4>1, <4>2
      <4>3. CASE j # free
        BY <1>5, <2>3, <2>5, <3>2, <4>1, <4>3 DEF Entered
      <4> QED
        BY <4>2, <4>3
    <3> QED
      BY <2>3, <2>4, <3>1, <3>2 DEF Entered
  <2>8. ScanInv'
    BY <1>3, <2>3, <2>5 DEF ScanInv, IInv, WatchdogInv, Used
  <2>9. ASSUME Fits, NEW d \in Clients, status'[d] = "connected"
        PROVE  HasEntry(entries', free', d)
    <3>1. CASE d = c
      BY <1>1, <1>8, <2>1, <2>3, <3>1 DEF HasEntry
    <3>2. CASE d # c
      <4>1. PICK i \in Slots : i < free /\ entries[i].clientId = d
        BY <1>2, <2>9, <3>2 DEF IInv, TrackedInv, Tracked, HasEntry
      <4>2. i # free /\ i < free'
        BY <1>1, <1>8, <4>1
      <4> QED
        BY <2>3, <4>1, <4>2 DEF HasEntry
    <3> QED
      BY <3>1, <3>2
  <2> QED
    BY <1>2, <2>7, <2>8, <2>9 DEF IInv, WatchdogInv, TrackedInv, Tracked, Fits
<1>9. CASE /\ EntriesOf(c) = {} /\ ~(free < DEFAULT_MAX_WS_CLIENTS)
           /\ UNCHANGED <<entries, free>>
  <2>1. ~Fits
    BY <1>1, <1>4, <1>9, RoomForOne
  <2> QED
    BY <1>2, <1>5, <1>9, <2>1
    DEF IInv, WatchdogInv, ScanInv, TrackedInv, Fits
<1>10. (IF free < 0 THEN 0 ELSE free) = free
  BY <1>1
<1> QED
  BY <1>1, <1>7, <1>8, <1>9, <1>10 DEF handleWatchdogResponse

\* A client that left: its entry is gone when the event ends.
LEMMA DisconnectStep ==
  ASSUME TableFits, IInv, NEW c \in Clients, scan.at = "none", onDisconnect(c)
  PROVE  IInv'
<1> DEFINE N == DEFAULT_MAX_WS_CLIENTS
           after == CHOOSE f : Walk(N, c, f)
<1>1. Walk(N, c, after)
  BY WalkExists
<1>2. entries' = after[N].t /\ free' = after[N].f
  BY DEF onDisconnect, Walk
<1> HIDE DEF after
<1>3. /\ status' = [status EXCEPT ![c] = "away"] /\ UNCHANGED scan
      /\ status \in [Clients -> {"away", "connected", "closing"}]
  BY DEF onDisconnect, IInv, WatchdogInv
<1>4. Entered(entries, free, status) /\ Used(entries, free)
  BY DEF IInv, WatchdogInv, ScanInv, Used
<1>5. Walked(after[N], N, c)
  BY <1>1, <1>4, EntryRemoved
<1>6. /\ \A i \in Slots : i < free' => entries'[i].clientId # c
      /\ Entered(entries', free', status) /\ Used(entries', free')
  <2>1. \A i \in Slots : i < N
    BY DEF Slots, TableFits
  <2> QED
    BY <1>2, <1>5, <2>1 DEF Walked
<1>7. Entered(entries', free', status')
  BY <1>3, <1>6 DEF Entered
<1>8. ScanInv'
  BY <1>3, <1>6 DEF ScanInv, Used, IInv, WatchdogInv
<1>9. ASSUME Fits, NEW d \in Clients, status'[d] = "connected"
      PROVE  HasEntry(entries', free', d)
  <2>1. d # c /\ status[d] = "connected"
    BY <1>3, <1>9
  <2>2. HasEntry(entries, free, d)
    BY <1>9, <2>1 DEF IInv, TrackedInv, Tracked
  <2> QED
    BY <1>2, <1>5, <2>1, <2>2 DEF Walked
<1> QED
  BY <1>3, <1>7, <1>8, <1>9
  DEF IInv, WatchdogInv, TrackedInv, Tracked, Fits

\* The scan looks at an entry, and closes its client or goes on.
LEMMA CleanupStep ==
  ASSUME TableFits, IInv, cleanupConnections
  PROVE  IInv'
<1>1. /\ UNCHANGED <<entries, free>> /\ scan.at = "scan"
      /\ Entered(entries, free, status)
      /\ status \in [Clients -> {"away", "connected", "closing"}]
      /\ scan \in [at : {"none", "scan", "remove", "shift"}, i : Nat]
      /\ \A i \in Slots : i < free => entries[i].active
  BY DEF cleanupConnections, IInv, WatchdogInv, ScanInv
<1>2. CASE /\ scan.i < free
           /\ status' = [status EXCEPT ![entries[scan.i].clientId] =
                           IF @ = "away" THEN @ ELSE "closing"]
           /\ scan' = [scan EXCEPT !.at = "remove"]
  <2>1. scan.i \in Slots
    BY <1>1, <1>2 DEF Slots, Entered, TableFits
  <2>2. entries[scan.i].clientId \in Clients
    BY <1>1, <1>2, <2>1 DEF Entered
  <2>3. /\ status' \in [Clients -> {"away", "connected", "closing"}]
        /\ \A d \in Clients : status[d] # "away" => status'[d] # "away"
        /\ \A d \in Clients :
             status'[d] = "connected" => status[d] = "connected"
        /\ status'[entries[scan.i].clientId] # "connected"
    BY <1>1, <1>2, <2>2
  <2>4. Entered(entries, free, status')
    BY <1>1, <2>3, OtherStatus
  <2>5. ScanInv'
    BY <1>1, <1>2, <2>3 DEF ScanInv
  <2> QED
    BY <1>1, <2>3, <2>4, <2>5
    DEF IInv, WatchdogInv, TrackedInv, Tracked, Fits
<1>3. CASE scan' = [scan EXCEPT !.i = @ + 1] /\ UNCHANGED status
  BY <1>1, <1>3 DEF IInv, WatchdogInv, ScanInv, TrackedInv, Fits
<1>4. CASE scan' = Rest /\ UNCHANGED status
  BY <1>1, <1>4 DEF IInv, WatchdogInv, ScanInv, TrackedInv, Fits, Rest
<1> QED
  BY <1>2, <1>3, <1>4 DEF cleanupConnections

\* The scan removes an entry: it is taken out of use ...
LEMMA RemoveStep ==
  ASSUME TableFits, IInv, watchdogRemoveEntryIdx
  PROVE  IInv'
<1>1. /\ UNCHANGED <<free, status>> /\ scan.at = "remove" /\ scan.i < free
      /\ Entered(entries, free, status) /\ entries \in [Slots -> Entry]
      /\ free \in Int
      /\ status[entries[scan.i].clientId] # "connected"
      /\ scan \in [at : {"none", "scan", "remove", "shift"}, i : Nat]
      /\ \A i \in Slots : i < free => entries[i].active
  BY DEF watchdogRemoveEntryIdx, IInv, WatchdogInv, ScanInv, Entered
<1>2. /\ scan' = [scan EXCEPT !.at = "shift"]
      /\ entries' = deactivated(entries, scan.i)
  <2>1. ~(scan.i >= free)
    BY <1>1
  <2> QED
    BY <2>1 DEF watchdogRemoveEntryIdx
<1>3. scan.i \in Slots
  BY <1>1 DEF Slots, Entered, TableFits
<1>4. /\ entries' \in [Slots -> Entry]
      /\ \A i \in Slots : entries'[i].clientId = entries[i].clientId
      /\ \A i \in Slots : i # scan.i => entries'[i] = entries[i]
  BY <1>1, <1>2, <1>3 DEF deactivated, Entry
<1>5. Entered(entries', free, status)
  BY <1>1, <1>4 DEF Entered
<1>6. ScanInv'
  BY <1>1, <1>2, <1>3, <1>4 DEF ScanInv
<1>7. TrackedInv'
  BY <1>1, <1>4 DEF IInv, TrackedInv, Tracked, HasEntry, Fits
<1> QED
  BY <1>1, <1>5, <1>6, <1>7 DEF IInv, WatchdogInv

\* ... and the ones after it move up.
LEMMA ShiftStep ==
  ASSUME TableFits, IInv, shiftEntries
  PROVE  IInv'
<1>1. /\ UNCHANGED status /\ scan.at = "shift" /\ scan.i < free
      /\ entries' = shifted(entries, free, scan.i) /\ free' = free - 1
      /\ scan' = [at |-> "scan", i |-> scan.i + 1]
      /\ Entered(entries, free, status)
      /\ status[entries[scan.i].clientId] # "connected"
      /\ scan.i \in Nat
      /\ \A i \in Slots : i < free => entries[i].active \/ i = scan.i
  BY DEF shiftEntries, IInv, WatchdogInv, ScanInv
<1>2. scan.i \in Slots
  BY <1>1 DEF Slots, Entered, TableFits
<1>3. /\ Entered(entries', free', status)
      /\ Used(entries', free')
      /\ \A d : HasEntry(entries, free, d) /\ d # entries[scan.i].clientId =>
                  HasEntry(entries', free', d)
  BY <1>1, <1>2, RemovedEntry
<1>4. ScanInv'
  BY <1>1, <1>3 DEF ScanInv, Used
<1>5. ASSUME Fits, NEW d \in Clients, status[d] = "connected"
      PROVE  HasEntry(entries', free', d)
  BY <1>1, <1>3, <1>5 DEF IInv, TrackedInv, Tracked
<1> QED
  BY <1>1, <1>3, <1>4, <1>5
  DEF IInv, WatchdogInv, TrackedInv, Tracked, Fits

LEMMA TickStep ==
  ASSUME TableFits, IInv, tick
  PROVE  IInv'
<1>1. /\ UNCHANGED <<free, scan, status>> /\ entries \in [Slots -> Entry]
      /\ entries' = [i \in Slots |->
           [entries[i] EXCEPT !.age = IF @ < AgeCap THEN @ + 1 ELSE @]]
  BY DEF tick, IInv, WatchdogInv, Entered
<1>2. /\ entries' \in [Slots -> Entry]
      /\ \A i \in Slots : /\ entries'[i].clientId = entries[i].clientId
                          /\ entries'[i].active = entries[i].active
  BY <1>1 DEF Entry
<1>3. Entered(entries', free', status')
  BY <1>1, <1>2 DEF IInv, WatchdogInv, Entered
<1>4. ScanInv'
  <2>1. scan.at = "none"
    BY DEF tick
  <2> QED
    BY <1>1, <1>2, <2>1 DEF IInv, WatchdogInv, ScanInv
<1>5. TrackedInv'
  BY <1>1, <1>2 DEF IInv, TrackedInv, Tracked, HasEntry, Fits
<1> QED
  BY <1>1, <1>3, <1>4, <1>5 DEF IInv, WatchdogInv

LEMMA WatchdogNext ==
  ASSUME TableFits, Serialized, IInv, [Next]_vars
  PROVE  IInv'
<1>1. CASE update
  BY <1>1 DEF update, IInv, WatchdogInv, ScanInv, TrackedInv, Fits
<1>2. CASE cleanupConnections
  BY <1>2, CleanupStep
<1>3. CASE watchdogRemoveEntryIdx
  BY <1>3, RemoveStep
<1>4. CASE shiftEntries
  BY <1>4, ShiftStep
<1>5. CASE tick
  BY <1>5, TickStep
<1>6. ASSUME NEW c \in Clients, onConnect(c) PROVE IInv'
  <2>1. /\ scan.at = "none" /\ UNCHANGED scan /\ status[c] = "away"
        /\ status' = [status EXCEPT ![c] = "connected"]
        /\ handleWatchdogResponse(c)
    BY <1>6 DEF onConnect, eventsMayRun
  <2> QED
    BY <2>1, ResponseStep
<1>7. ASSUME NEW c \in Clients, onDisconnect(c) PROVE IInv'
  <2>1. scan.at = "none"
    BY <1>7 DEF onDisconnect, eventsMayRun
  <2> QED
    BY <1>7, <2>1, DisconnectStep
<1>8. ASSUME NEW c \in Clients, onPong(c) PROVE IInv'
  <2>1. /\ scan.at = "none" /\ UNCHANGED <<scan, status>> /\ status[c] # "away"
        /\ handleWatchdogResponse(c)
    BY <1>8 DEF onPong, eventsMayRun
  <2> QED
    BY <2>1, ResponseStep
<1>9. CASE UNCHANGED <<entries, free, scan, status>>
  BY <1>9 DEF IInv, WatchdogInv, ScanInv, TrackedInv, Fits
<1>10. ASSUME NEW c \in Clients, clientDies(c) PROVE IInv'
  BY <1>9, <1>10 DEF clientDies
<1>11. CASE UNCHANGED vars
  BY <1>9, <1>11 DEF vars
<1> QED
  BY <1>1, <1>2, <1>3, <1>4, <1>5, <1>6, <1>7, <1>8, <1>10, <1>11
  DEF Next, loopStep

\* Between two operations the entries are those of clients of the server.
LEMMA EntriesOwned == IInv => EntriesAreClients
  BY DEF IInv, WatchdogInv, Entered, ScanInv, EntriesAreClients

\* With room for all clients every connected one has an entry.
LEMMA ConnectedTracked == IInv => EachClientTracked
<1> SUFFICES ASSUME IInv, scan.at = "none", Fits, NEW c \in Clients,
                    status[c] = "connected"
             PROVE  EntriesOf(c) # {}
  BY DEF EachClientTracked, Fits
<1>1. PICK i \in Slots : i < free /\ entries[i].clientId = c
  BY DEF IInv, TrackedInv, Tracked, HasEntry
<1>2. entries[i].active
  BY <1>1 DEF IInv, WatchdogInv, ScanInv
<1> QED
  BY <1>1, <1>2 DEF EntriesOf, holds
=============================================================================
