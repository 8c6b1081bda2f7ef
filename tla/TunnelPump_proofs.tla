------------------------- MODULE TunnelPump_proofs -------------------------
(***************************************************************************)
(* Proofs about TunnelPump: the order of the bytes, for rings of any       *)
(* capacity, any back-pressure marks and any way libssh2 and the sockets   *)
(* cut what they are given.                                                *)
(***************************************************************************)
EXTENDS TunnelPump, SequenceTheorems, TLAPS

\* "Capacity must be >= TransportPump::bufSize_" (ring_buffer.h:33): what was
\* not sent of one buffer fits in front of the ring.
BuffersFit ==
  /\ Capacity \in Nat /\ BufSize \in Nat /\ PREPEND_CAP \in Nat
  /\ BufSize <= PREPEND_CAP

RingType == [front : Seq(Nat), ring : Seq(Nat)]

\* A ring holds no more than it can, and no more than one buffer was put back.
WithinRing(r) ==
  r \in RingType /\ Len(r.ring) <= Capacity /\ Len(r.front) <= BufSize

PeerType == [sent : Nat, read : Nat, eof : BOOLEAN, got : Seq(Nat)]
FlagNames == {"localEof", "remoteEof", "localShutdownSent", "eofSent",
              "localReadPaused", "sshReadPaused", "failing", "closeComplete"}

PumpTypes ==
  /\ WithinRing(toLocal) /\ WithinRing(toRemote)
  /\ DOMAIN flag = FlagNames
  /\ remote \in PeerType /\ remote.read <= remote.sent
  /\ local \in PeerType /\ local.read <= local.sent

\* The bytes 1 .. n, and a sequence that rises up to n at most.
UpTo(n) == [i \in 1 .. n |-> i]
Rises(s, n) ==
  /\ \A i \in 1 .. Len(s) : s[i] <= n
  /\ \A i, j \in 1 .. Len(s) : i < j => s[i] < s[j]

\* What was read from the local program is at the SSH peer or in the ring.
ResponseInv == remote.got \o Content(toRemote) = UpTo(local.read)

\* What the local program got, and what it will get, was read in that order.
RequestInv == Rises(local.got \o Content(toLocal), remote.read)

PumpInv == PumpTypes /\ ResponseInv /\ EofAfterResponse /\ RequestInv

-----------------------------------------------------------------------------
(* Sequences of bytes *)

LEMMA Elements ==
  ASSUME NEW s \in Seq(Nat)
  PROVE  Len(s) \in Nat /\ \A i \in 1 .. Len(s) : s[i] \in Nat
OBVIOUS

LEMMA Concat ==
  ASSUME NEW s \in Seq(Nat), NEW t \in Seq(Nat)
  PROVE  /\ s \o t \in Seq(Nat)
         /\ Len(s \o t) = Len(s) + Len(t)
         /\ \A i \in 1 .. Len(s) + Len(t) :
              (s \o t)[i] = IF i <= Len(s) THEN s[i] ELSE t[i - Len(s)]
BY ConcatProperties

LEMMA Associates ==
  ASSUME NEW s \in Seq(Nat), NEW t \in Seq(Nat), NEW u \in Seq(Nat)
  PROVE  (s \o t) \o u = s \o (t \o u)
BY ConcatAssociative

LEMMA WithEmpty ==
  ASSUME NEW s \in Seq(Nat)
  PROVE  <<>> \in Seq(Nat) /\ Len(<<>>) = 0 /\ s \o <<>> = s /\ <<>> \o s = s
BY ConcatEmptySeq

LEMMA Part ==
  ASSUME NEW s \in Seq(Nat), NEW m \in Nat, NEW n \in Nat, 1 <= m, n <= Len(s)
  PROVE  /\ SubSeq(s, m, n) \in Seq(Nat)
         /\ Len(SubSeq(s, m, n)) = IF m <= n THEN n - m + 1 ELSE 0
         /\ \A i \in 1 .. n - m + 1 : SubSeq(s, m, n)[i] = s[m + i - 1]
<1>1. SubSeq(s, m, n) \in Seq(Nat)
  <2>1. \A i \in m .. n : s[i] \in Nat
    BY Elements
  <2> QED
    BY <2>1
<1>2. Len(SubSeq(s, m, n)) = IF m <= n THEN n - m + 1 ELSE 0
  OBVIOUS
<1>3. \A i \in 1 .. n - m + 1 : SubSeq(s, m, n)[i] = s[m + i - 1]
  OBVIOUS
<1> QED
  BY <1>1, <1>2, <1>3

LEMMA Cut ==
  ASSUME NEW s \in Seq(Nat), NEW k \in 0 .. Len(s), NEW n \in k .. Len(s)
  PROVE  SubSeq(s, 1, k) \o SubSeq(s, k + 1, n) = SubSeq(s, 1, n)
BY Elements, ConcatAdjacentSubSeq

LEMMA SecondPart ==
  ASSUME NEW s \in Seq(Nat), NEW t \in Seq(Nat),
         NEW k \in Len(s) .. Len(s) + Len(t) - 1
  PROVE  SubSeq(s \o t, k + 1, Len(s) + Len(t))
           = SubSeq(t, k + 1 - Len(s), Len(t))
<1>1. Len(s) \in Nat /\ Len(t) \in Nat
  BY Elements
<1> DEFINE m == k + 1
           n == Len(s) + Len(t)
<1>2. m \in Len(s) + 1 .. Len(s) + Len(t) /\ n \in Len(s) + 1 .. Len(s) + Len(t)
  BY <1>1
<1>3. m - Len(s) = k + 1 - Len(s) /\ n - Len(s) = Len(t)
  BY <1>1
<1> HIDE DEF m, n
<1>4. SubSeq(s \o t, m, n) = SubSeq(t, m - Len(s), n - Len(s))
  BY <1>2, SubSeqOfConcat2
<1> QED
  BY <1>3, <1>4 DEF m, n

LEMMA Smaller ==
  ASSUME NEW m \in Int, NEW n \in Int
  PROVE  /\ AtMost(m, n) \in Int /\ AtMost(m, n) <= m /\ AtMost(m, n) <= n
         /\ m <= n => AtMost(m, n) = m
         /\ m >= 0 /\ n >= 0 => AtMost(m, n) >= 0
BY DEF AtMost

-----------------------------------------------------------------------------
(* The rings *)

LEMMA ContentOfRing ==
  ASSUME NEW r \in RingType
  PROVE  Content(r) \in Seq(Nat) /\ Len(Content(r)) = Len(r.front) + Len(r.ring)
<1>1. r.front \in Seq(Nat) /\ r.ring \in Seq(Nat)
  BY DEF RingType
<1> QED
  BY <1>1, Concat DEF Content

\* write() appends what fits.
LEMMA WriteRing ==
  ASSUME Capacity \in Nat, NEW r, WithinRing(r), NEW s \in Seq(Nat)
  PROVE  /\ WithinRing(write(r, s))
         /\ \E m \in 0 .. Len(s) :
              /\ Content(write(r, s)) = Content(r) \o SubSeq(s, 1, m)
              /\ Len(s) <= available(r) => m = Len(s)
<1> DEFINE m == AtMost(Len(s), available(r))
           part == SubSeq(s, 1, m)
<1>1. /\ r.front \in Seq(Nat) /\ r.ring \in Seq(Nat)
      /\ Len(r.front) \in Nat /\ Len(r.ring) \in Nat /\ Len(s) \in Nat
      /\ Len(r.ring) <= Capacity
  BY DEF WithinRing, RingType
<1>a. available(r) \in Int /\ available(r) >= 0
  BY <1>1 DEF available
<1>2. m \in 0 .. Len(s) /\ m <= available(r)
  BY <1>1, <1>a, Smaller
<1>3. Len(s) <= available(r) => m = Len(s)
  BY <1>1, <1>a, Smaller
<1> HIDE DEF m
<1>4. part \in Seq(Nat) /\ Len(part) = m
  BY <1>1, <1>2, Part
<1>5. /\ write(r, s) \in RingType
      /\ write(r, s).front = r.front /\ write(r, s).ring = r.ring \o part
  BY <1>1, <1>4, Concat DEF write, WithinRing, RingType, m
<1>6. Len(r.ring \o part) <= Capacity
  <2>1. Len(r.ring \o part) = Len(r.ring) + m
    BY <1>1, <1>4, Concat
  <2>2. m \in Nat /\ m <= Capacity - Len(r.ring)
    BY <1>1, <1>2 DEF available
  <2> HIDE DEF part
  <2> QED
    BY <1>1, <2>1, <2>2
<1>7. Content(write(r, s)) = Content(r) \o part
  <2>1. Content(write(r, s)) = r.front \o (r.ring \o part)
    BY <1>5 DEF Content
  <2> HIDE DEF part
  <2>2. (r.front \o r.ring) \o part = r.front \o (r.ring \o part)
    BY <1>1, <1>4, Associates
  <2> QED
    BY <2>1, <2>2 DEF Content
<1> QED
  BY <1>2, <1>3, <1>5, <1>6, <1>7 DEF WithinRing

\* read(): the bytes put back are all among those it gives.
LEMMA ReadRing ==
  ASSUME BuffersFit, NEW r, WithinRing(r), NEW got \in Gets(r, BufSize)
  PROVE  /\ got \in Nat /\ got <= BufSize
         /\ taken(r, got) \in Seq(Nat) /\ Len(taken(r, got)) = got
         /\ WithinRing(left(r, got)) /\ left(r, got).front = <<>>
         /\ Content(r) = taken(r, got) \o Content(left(r, got))
<1>1. PICK F \in Nat, R \in Nat :
        /\ r \in RingType /\ r.front \in Seq(Nat) /\ r.ring \in Seq(Nat)
        /\ F = Len(r.front) /\ R = Len(r.ring) /\ R <= Capacity /\ F <= BufSize
  <2>1. r.front \in Seq(Nat) /\ r.ring \in Seq(Nat)
    BY DEF WithinRing, RingType
  <2> QED
    BY <2>1, Elements DEF WithinRing
<1> DEFINE C == Content(r)
           rest == SubSeq(r.ring, got + 1 - F, R)
<1>2. C \in Seq(Nat) /\ Len(C) = F + R
  BY <1>1, ContentOfRing
<1>3. got \in Nat /\ F <= got /\ got <= F + R /\ got <= BufSize
  <2>1. got \in AtMost(BufSize, F) .. AtMost(BufSize, F + R)
    BY <1>1, <1>2 DEF Gets, size
  <2>2. AtMost(BufSize, F) = F
    BY <1>1 DEF BuffersFit, AtMost
  <2>3. AtMost(BufSize, F + R) \in Int /\ AtMost(BufSize, F + R) <= F + R
        /\ AtMost(BufSize, F + R) <= BufSize
    BY Smaller DEF BuffersFit
  <2>4. got \in Int /\ F <= got /\ got <= AtMost(BufSize, F + R)
    BY <2>1, <2>2, <2>3
  <2> QED
    BY <2>3, <2>4 DEF BuffersFit
<1>4. taken(r, got) \in Seq(Nat) /\ Len(taken(r, got)) = got
  <2>1. SubSeq(C, 1, got) \in Seq(Nat)
    BY <1>2, <1>3, Part
  <2>2. Len(SubSeq(C, 1, got)) = IF 1 <= got THEN got - 1 + 1 ELSE 0
    BY <1>2, <1>3, Part
  <2> QED
    BY <1>3, <2>1, <2>2 DEF taken
<1>5. left(r, got).front = <<>> /\ left(r, got).ring = rest
  <2>1. AtMost(got, F) = F
    BY <1>3 DEF AtMost
  <2>2. SubSeq(r.front, got + 1, F) = <<>>
    BY <1>3, SubSeqEmpty
  <2> QED
    BY <1>1, <2>1, <2>2 DEF left
<1>6. rest \in Seq(Nat) /\ Len(rest) <= R
  <2>1. got + 1 - F \in Nat /\ 1 <= got + 1 - F
    BY <1>3
  <2>2. /\ rest \in Seq(Nat)
        /\ Len(rest) = IF got + 1 - F <= R THEN R - (got + 1 - F) + 1 ELSE 0
    BY <1>1, <2>1, Part
  <2> QED
    BY <1>3, <2>1, <2>2
<1>7. WithinRing(left(r, got))
  <2>1. left(r, got) = [front |-> <<>>, ring |-> rest]
    BY <1>5 DEF left
  <2>2. Len(rest) \in Nat /\ Len(rest) <= Capacity /\ Len(<<>>) <= BufSize
    BY <1>1, <1>6, Elements DEF BuffersFit
  <2> QED
    BY <1>6, <2>1, <2>2 DEF WithinRing, RingType
<1>8. Content(left(r, got)) = rest
  BY <1>5, <1>6, WithEmpty DEF Content
<1>9. SubSeq(C, got + 1, F + R) = rest
  <2>1. CASE got < F + R
    <3>1. got \in Len(r.front) .. Len(r.front) + Len(r.ring) - 1
      <4>1. got \in F .. F + R - 1
        BY <1>3, <2>1
      <4>2. F .. F + R - 1 = Len(r.front) .. Len(r.front) + Len(r.ring) - 1
        BY <1>1
      <4> QED
        BY <4>1, <4>2
    <3>2. SubSeq(r.front \o r.ring, got + 1, Len(r.front) + Len(r.ring))
            = SubSeq(r.ring, got + 1 - Len(r.front), Len(r.ring))
      BY <1>1, <3>1, SecondPart
    <3> QED
      BY <1>1, <3>2 DEF Content
  <2>2. CASE got = F + R
    <3>1. /\ F + R < got + 1 /\ R < got + 1 - F
          /\ got + 1 \in Int /\ F + R \in Int /\ got + 1 - F \in Int /\ R \in Int
      BY <1>3, <2>2
    <3> QED
      BY <3>1, SubSeqEmpty
  <2> QED
    BY <1>3, <2>1, <2>2
<1>10. C = taken(r, got) \o rest
  <2>1. SubSeq(C, 1, F + R) = C
    BY <1>2, SubSeqFull
  <2>2. got \in 0 .. Len(C) /\ F + R \in got .. Len(C)
    BY <1>2, <1>3
  <2>3. SubSeq(C, 1, got) \o SubSeq(C, got + 1, F + R) = SubSeq(C, 1, F + R)
    BY <1>2, <2>2, Cut
  <2> QED
    BY <1>9, <2>1, <2>3 DEF taken
<1> QED
  BY <1>3, <1>4, <1>5, <1>7, <1>8, <1>10

\* What is put back comes before all the rest.
LEMMA PutBackRing ==
  ASSUME BuffersFit, NEW r, WithinRing(r), r.front = <<>>,
         NEW s \in Seq(Nat), Len(s) <= BufSize
  PROVE  WithinRing(putBack(r, s)) /\ Content(putBack(r, s)) = s \o Content(r)
<1>1. /\ r \in RingType /\ r.ring \in Seq(Nat) /\ Len(s) \in Nat
      /\ Len(r.ring) <= Capacity
  BY DEF WithinRing, RingType
<1>2. Content(r) = r.ring
  BY <1>1, WithEmpty DEF Content
<1>3. CASE s = <<>>
  BY <1>1, <1>2, <1>3, WithEmpty DEF putBack
<1>4. CASE s # <<>>
  <2>1. Len(s) <= PREPEND_CAP
    BY <1>1 DEF BuffersFit
  <2>2. putBack(r, s) = toFront(r, s)
    BY <1>4, <2>1 DEF putBack
  <2>3. /\ toFront(r, s) \in RingType
        /\ toFront(r, s).front = s /\ toFront(r, s).ring = r.ring
    BY <1>1 DEF toFront, RingType
  <2> QED
    BY <1>1, <1>2, <2>2, <2>3 DEF WithinRing, Content
<1> QED
  BY <1>3, <1>4

\* drainSshToLocal() and drainLocalToSsh(): however much of a buffer is sent,
\* what was received and what is in the ring make the same stream as before.
LEMMA DrainRing ==
  ASSUME BuffersFit, NEW r, WithinRing(r), NEW got \in Gets(r, BufSize),
         NEW sent \in 0 .. got, NEW before \in Seq(Nat)
  PROVE  LET s    == taken(r, got)
             next == putBack(left(r, got), SubSeq(s, sent + 1, got))
             after == before \o SubSeq(s, 1, sent)
         IN  /\ WithinRing(next) /\ after \in Seq(Nat)
             /\ after \o Content(next) = before \o Content(r)
<1> DEFINE s    == taken(r, got)
           gone == SubSeq(s, 1, sent)
           kept == SubSeq(s, sent + 1, got)
           rest == left(r, got)
           next == putBack(rest, kept)
<1>1. /\ got \in Nat /\ got <= BufSize /\ sent \in Nat /\ sent <= got
      /\ s \in Seq(Nat) /\ Len(s) = got
      /\ WithinRing(rest) /\ rest.front = <<>>
      /\ Content(r) = s \o Content(rest)
  BY ReadRing
<1> HIDE DEF s, rest
<1>2. gone \in Seq(Nat)
  BY <1>1, Part
<1>3. kept \in Seq(Nat) /\ Len(kept) <= BufSize
  <2>1. /\ kept \in Seq(Nat)
        /\ Len(kept) = IF sent + 1 <= got THEN got - (sent + 1) + 1 ELSE 0
    BY <1>1, Part
  <2> QED
    BY <1>1, <2>1 DEF BuffersFit
<1>4. gone \o kept = s
  <2>1. sent \in 0 .. Len(s) /\ got \in sent .. Len(s)
    BY <1>1
  <2>2. gone \o kept = SubSeq(s, 1, got)
    BY <1>1, <2>1, Cut
  <2> QED
    BY <1>1, <2>2, SubSeqFull
<1>5. WithinRing(next) /\ Content(next) = kept \o Content(rest)
  BY <1>1, <1>3, PutBackRing
<1> HIDE DEF gone, kept, next
<1>6. Content(rest) \in Seq(Nat)
  BY <1>1, ContentOfRing DEF WithinRing
<1>7. /\ before \o gone \in Seq(Nat)
      /\ (before \o gone) \o (kept \o Content(rest))
           = before \o (gone \o (kept \o Content(rest)))
  <2>1. kept \o Content(rest) \in Seq(Nat)
    BY <1>3, <1>6, Concat
  <2> QED
    BY <1>2, <2>1, Concat, Associates
<1>8. gone \o (kept \o Content(rest)) = s \o Content(rest)
  BY <1>2, <1>3, <1>4, <1>6, Associates
<1>9. (before \o gone) \o Content(next) = before \o Content(r)
  BY <1>1, <1>5, <1>7, <1>8
<1> QED
  BY <1>5, <1>7, <1>9 DEF next, gone, kept, rest, s
-----------------------------------------------------------------------------
(* The streams *)

\* recv() appends the bytes that follow those read before.
LEMMA NextBytes ==
  ASSUME NEW p \in PeerType, NEW n \in Nat
  PROVE  /\ Bytes(p, n) \in Seq(Nat) /\ Len(Bytes(p, n)) = n
         /\ \A i \in 1 .. n : Bytes(p, n)[i] = p.read + i
<1>1. p.read \in Nat
  BY DEF PeerType
<1>2. \A i \in 1 .. n : p.read + i \in Nat
  BY <1>1
<1> QED
  BY <1>2 DEF Bytes

LEMMA LongerUpTo ==
  ASSUME NEW p \in PeerType, NEW n \in Nat
  PROVE  UpTo(p.read) \o Bytes(p, n) = UpTo(p.read + n)
<1> DEFINE k == p.read
           b == Bytes(p, n)
<1>1. /\ k \in Nat /\ b \in Seq(Nat) /\ Len(b) = n
      /\ \A i \in 1 .. n : b[i] = k + i
  BY NextBytes DEF PeerType
<1> HIDE DEF k, b
<1>2. /\ UpTo(k) \in Seq(Nat) /\ Len(UpTo(k)) = k
      /\ UpTo(k + n) \in Seq(Nat) /\ Len(UpTo(k + n)) = k + n
  BY <1>1 DEF UpTo
<1>3. /\ UpTo(k) \o b \in Seq(Nat) /\ Len(UpTo(k) \o b) = k + n
      /\ \A i \in 1 .. k + n :
           (UpTo(k) \o b)[i] = IF i <= k THEN UpTo(k)[i] ELSE b[i - k]
  <2>1. /\ UpTo(k) \o b \in Seq(Nat) /\ Len(UpTo(k) \o b) = Len(UpTo(k)) + Len(b)
        /\ \A i \in 1 .. Len(UpTo(k)) + Len(b) :
             (UpTo(k) \o b)[i] =
               IF i <= Len(UpTo(k)) THEN UpTo(k)[i] ELSE b[i - Len(UpTo(k))]
    BY <1>1, <1>2, Concat
  <2> QED
    BY <1>1, <1>2, <2>1
<1>4. ASSUME NEW i \in 1 .. k + n
      PROVE  (UpTo(k) \o b)[i] = UpTo(k + n)[i]
  <2>1. UpTo(k + n)[i] = i
    BY DEF UpTo
  <2>2. CASE i <= k
    <3>1. UpTo(k)[i] = i
      BY <1>1, <2>2 DEF UpTo
    <3> QED
      BY <1>1, <1>3, <2>1, <2>2, <3>1
  <2>3. CASE ~(i <= k)
    <3>1. i - k \in 1 .. n /\ k + (i - k) = i
      BY <1>1, <2>3
    <3>2. b[i - k] = i
      BY <1>1, <3>1
    <3> QED
      BY <1>3, <2>1, <2>3, <3>2
  <2> QED
    BY <2>2, <2>3
<1>5. UpTo(k) \o b = UpTo(k + n)
  BY <1>2, <1>3, <1>4, SeqEqual
<1> QED
  BY <1>5 DEF k, b

\* A rising stream rises on with the bytes read next, or the first of them.
LEMMA RisesOn ==
  ASSUME NEW s \in Seq(Nat), NEW p \in PeerType, Rises(s, p.read),
         NEW n \in Nat, NEW m \in 0 .. n
  PROVE  Rises(s \o SubSeq(Bytes(p, n), 1, m), p.read + n)
<1> DEFINE k == p.read
           b == SubSeq(Bytes(p, n), 1, m)
           t == s \o b
           L == Len(s)
<1>1. k \in Nat /\ L \in Nat /\ \A i \in 1 .. L : s[i] \in Nat
  BY Elements DEF PeerType
<1>2. b \in Seq(Nat) /\ Len(b) = m /\ \A i \in 1 .. m : b[i] = k + i
  <2>1. /\ Bytes(p, n) \in Seq(Nat) /\ Len(Bytes(p, n)) = n
        /\ \A i \in 1 .. n : Bytes(p, n)[i] = k + i
    BY NextBytes
  <2>2. /\ b \in Seq(Nat)
        /\ Len(b) = IF 1 <= m THEN m - 1 + 1 ELSE 0
        /\ \A i \in 1 .. m - 1 + 1 : b[i] = Bytes(p, n)[1 + i - 1]
    BY <2>1, Part
  <2>3. \A i \in 1 .. m : 1 + i - 1 = i /\ i \in 1 .. n /\ i \in 1 .. m - 1 + 1
    OBVIOUS
  <2> HIDE DEF b
  <2> QED
    BY <2>1, <2>2, <2>3
<1> HIDE DEF b
<1>3. /\ Len(t) = L + m
      /\ \A i \in 1 .. L + m : t[i] = IF i <= L THEN s[i] ELSE b[i - L]
  BY <1>2, Concat
<1> HIDE DEF t, k
<1>4. \A i \in 1 .. L : t[i] = s[i] /\ s[i] <= k
  BY <1>1, <1>3 DEF Rises, k
<1>5. \A i \in L + 1 .. L + m : t[i] = k + (i - L)
  <2> TAKE i \in L + 1 .. L + m
  <2>1. i - L \in 1 .. m /\ i \in 1 .. L + m /\ ~(i <= L)
    BY <1>1
  <2> QED
    BY <1>2, <1>3, <2>1
<1>6. \A i, j \in 1 .. L : i < j => s[i] < s[j]
  BY DEF Rises
<1> HIDE DEF L
<1>7. \A i \in 1 .. L + m : t[i] <= k + n
  <2> TAKE i \in 1 .. L + m
  <2>1. CASE i \in 1 .. L
    BY <1>1, <1>4, <2>1
  <2>2. CASE i \in L + 1 .. L + m
    BY <1>1, <1>5, <2>2
  <2> QED
    BY <1>1, <2>1, <2>2
<1>8. \A i, j \in 1 .. L + m : i < j => t[i] < t[j]
  <2> SUFFICES ASSUME NEW i \in 1 .. L + m, NEW j \in 1 .. L + m, i < j
               PROVE  t[i] < t[j]
    OBVIOUS
  <2>1. CASE j \in 1 .. L
    <3>1. i \in 1 .. L
      BY <1>1, <2>1
    <3> QED
      BY <1>4, <1>6, <2>1, <3>1
  <2>2. CASE i \in 1 .. L /\ j \in L + 1 .. L + m
    <3>1. t[i] <= k /\ t[i] \in Nat
      BY <1>1, <1>4, <2>2
    <3>2. t[j] = k + (j - L) /\ j - L >= 1
      BY <1>1, <1>5, <2>2
    <3> QED
      BY <1>1, <3>1, <3>2
  <2>3. CASE i \in L + 1 .. L + m /\ j \in L + 1 .. L + m
    BY <1>1, <1>5, <2>3
  <2> QED
    BY <1>1, <2>1, <2>2, <2>3
<1> QED
  BY <1>3, <1>7, <1>8 DEF Rises, t, k, b

\* ... and without a piece in the middle.
LEMMA RisesWithout ==
  ASSUME NEW a \in Seq(Nat), NEW b \in Seq(Nat), NEW c \in Seq(Nat),
         NEW n \in Nat, Rises(a \o (b \o c), n)
  PROVE  Rises(a \o c, n)
<1> DEFINE A == Len(a)
           B == Len(b)
           N == Len(c)
           s == a \o (b \o c)
           t == a \o c
<1>1. A \in Nat /\ B \in Nat /\ N \in Nat
  BY Elements
<1>2. /\ b \o c \in Seq(Nat) /\ Len(b \o c) = B + N
      /\ \A i \in 1 .. B + N : (b \o c)[i] = IF i <= B THEN b[i] ELSE c[i - B]
  BY Concat
<1>3. /\ Len(s) = A + (B + N)
      /\ \A i \in 1 .. A + (B + N) : s[i] = IF i <= A THEN a[i] ELSE (b \o c)[i - A]
  BY <1>2, Concat
<1>4. /\ Len(t) = A + N
      /\ \A i \in 1 .. A + N : t[i] = IF i <= A THEN a[i] ELSE c[i - A]
  BY Concat
<1> HIDE DEF A, B, N, s, t
<1> DEFINE f(i) == IF i <= A THEN i ELSE i + B
<1>5. ASSUME NEW i \in 1 .. A + N
      PROVE  f(i) \in 1 .. Len(s) /\ t[i] = s[f(i)]
  <2>1. CASE i <= A
    BY <1>1, <1>3, <1>4, <2>1
  <2>2. CASE ~(i <= A)
    <3>1. /\ i + B \in 1 .. A + (B + N) /\ ~(i + B <= A)
          /\ (i + B) - A \in 1 .. B + N /\ ~((i + B) - A <= B)
          /\ ((i + B) - A) - B = i - A
      BY <1>1, <2>2
    <3>2. s[i + B] = (b \o c)[(i + B) - A]
      BY <1>3, <3>1
    <3>3. (b \o c)[(i + B) - A] = c[i - A]
      BY <1>2, <3>1
    <3>4. t[i] = c[i - A]
      BY <1>4, <2>2
    <3> QED
      BY <1>3, <2>2, <3>1, <3>2, <3>3, <3>4
  <2> QED
    BY <2>1, <2>2
<1>6. \A i, j \in 1 .. A + N : i < j => f(i) < f(j)
  BY <1>1
<1> HIDE DEF f
<1>7. /\ \A i \in 1 .. Len(s) : s[i] <= n
      /\ \A i, j \in 1 .. Len(s) : i < j => s[i] < s[j]
  BY DEF Rises, s
<1>8. \A i \in 1 .. A + N : t[i] <= n
  BY <1>5, <1>7
<1>9. \A i, j \in 1 .. A + N : i < j => t[i] < t[j]
  BY <1>5, <1>6, <1>7
<1> QED
  BY <1>4, <1>8, <1>9 DEF Rises, t

-----------------------------------------------------------------------------
(* The steps *)

LEMMA PumpInit == BuffersFit /\ Init => PumpInv
<1> SUFFICES ASSUME BuffersFit, Init PROVE PumpInv
  OBVIOUS
<1>1. /\ toLocal = Empty /\ toRemote = Empty /\ flag = NoFlags
      /\ remote = Peer /\ local = Peer
  BY DEF Init
<1>2. <<>> \in Seq(Nat) /\ Len(<<>>) = 0 /\ <<>> \o <<>> = <<>>
  BY WithEmpty
<1>3. WithinRing(Empty) /\ Content(Empty) = <<>>
  BY <1>2 DEF WithinRing, RingType, Empty, BuffersFit, Content
<1>4. Peer \in PeerType /\ Peer.got = <<>> /\ Peer.read = 0 /\ Peer.sent = 0
  BY <1>2 DEF Peer, PeerType
<1>5. DOMAIN NoFlags = FlagNames /\ ~NoFlags.eofSent
  BY DEF NoFlags, FlagNames
<1>6. UpTo(0) = <<>>
  <2>1. UpTo(0) \in Seq(Nat) /\ Len(UpTo(0)) = 0
    BY DEF UpTo
  <2> QED
    BY <2>1
<1>7. Rises(<<>>, 0)
  BY <1>2 DEF Rises
<1> QED
  BY <1>1, <1>2, <1>3, <1>4, <1>5, <1>6, <1>7
  DEF PumpInv, PumpTypes, ResponseInv, EofAfterResponse, RequestInv

\* A step that moves no byte and does not send EOF.
Quiet ==
  /\ UNCHANGED <<toLocal, toRemote>>
  /\ DOMAIN flag' = FlagNames /\ flag'.eofSent = flag.eofSent
  /\ remote' \in PeerType /\ remote'.read <= remote'.sent
  /\ remote'.got = remote.got /\ remote'.read = remote.read
  /\ local' \in PeerType /\ local'.read <= local'.sent
  /\ local'.got = local.got /\ local'.read = local.read

LEMMA QuietInv ==
  ASSUME PumpInv, Quiet
  PROVE  PumpInv'
BY DEF PumpInv, PumpTypes, Quiet, ResponseInv, EofAfterResponse, RequestInv,
       WithinRing, Content, Rises, UpTo

LEMMA PeerSet ==
  ASSUME NEW p \in PeerType, p.read <= p.sent,
         NEW q, \/ q = [p EXCEPT !.sent = @ + 1]
                \/ q = [p EXCEPT !.eof = TRUE]
                \/ q = [p EXCEPT !.eof = TRUE, !.sent = p.read]
  PROVE  q \in PeerType /\ q.read <= q.sent /\ q.got = p.got /\ q.read = p.read
<1>1. CASE q = [p EXCEPT !.sent = @ + 1]
  BY <1>1 DEF PeerType
<1>2. CASE q = [p EXCEPT !.eof = TRUE]
  BY <1>2 DEF PeerType
<1>3. CASE q = [p EXCEPT !.eof = TRUE, !.sent = p.read]
  <2>1. q = [sent |-> p.read, read |-> p.read, eof |-> TRUE, got |-> p.got]
    BY <1>3 DEF PeerType
  <2> QED
    BY <2>1 DEF PeerType
<1> QED
  BY <1>1, <1>2, <1>3

\* The programs at the ends.
LEMMA PeersAreQuiet ==
  ASSUME PumpInv, Peers
  PROVE  Quiet
<1>1. /\ remote \in PeerType /\ remote.read <= remote.sent
      /\ local \in PeerType /\ local.read <= local.sent
      /\ DOMAIN flag = FlagNames
  BY DEF PumpInv, PumpTypes
<1>2. CASE remoteSends \/ remoteCloses
  <2>1. UNCHANGED <<toLocal, toRemote, flag, local>>
    BY <1>2 DEF remoteSends, remoteCloses
  <2>2. \/ remote' = [remote EXCEPT !.sent = @ + 1]
        \/ remote' = [remote EXCEPT !.eof = TRUE]
    BY <1>2 DEF remoteSends, remoteCloses
  <2>3. remote' \in PeerType /\ remote'.read <= remote'.sent
        /\ remote'.got = remote.got /\ remote'.read = remote.read
    BY <1>1, <2>2, PeerSet
  <2> QED
    BY <1>1, <2>1, <2>3 DEF Quiet
<1>3. CASE localSends \/ localCloses
  <2>1. UNCHANGED <<toLocal, toRemote, flag, remote>>
    BY <1>3 DEF localSends, localCloses
  <2>2. \/ local' = [local EXCEPT !.sent = @ + 1]
        \/ local' = [local EXCEPT !.eof = TRUE]
    BY <1>3 DEF localSends, localCloses
  <2>3. local' \in PeerType /\ local'.read <= local'.sent
        /\ local'.got = local.got /\ local'.read = local.read
    BY <1>1, <2>2, PeerSet
  <2> QED
    BY <1>1, <2>1, <2>3 DEF Quiet
<1> QED
  BY <1>2, <1>3 DEF Peers

\* The pump: phases that end, errors, pauses, and the close.
Phases == \/ readPauses \/ readEof \/ readFails \/ sshPhaseEnds
          \/ localStalls \/ localPhaseEnds \/ writeFails \/ sshWritten
          \/ recvEnds \/ recvPhaseEnds
          \/ checkOpen \/ toDrain \/ finalizeClose \/ abandonSlot \/ drainWaits

LEMMA PhasesAreQuiet ==
  ASSUME PumpInv, Phases
  PROVE  Quiet
<1>1. /\ remote \in PeerType /\ remote.read <= remote.sent
      /\ local \in PeerType /\ local.read <= local.sent
      /\ DOMAIN flag = FlagNames
  BY DEF PumpInv, PumpTypes
<1>2. UNCHANGED <<toLocal, toRemote, remote>>
  BY DEF Phases, readPauses, readEof, readFails, sshPhaseEnds, localStalls,
         localPhaseEnds, writeFails, sshWritten, recvEnds, recvPhaseEnds,
         checkOpen, toDrain, finalizeClose, abandonSlot, drainWaits
<1>3. /\ local' \in PeerType /\ local'.read <= local'.sent
      /\ local'.got = local.got /\ local'.read = local.read
  <2>1. local' = local \/ local' = [local EXCEPT !.eof = TRUE, !.sent = local.read]
    BY DEF Phases, readPauses, readEof, readFails, sshPhaseEnds, localStalls,
           localPhaseEnds, writeFails, sshWritten, recvEnds, recvPhaseEnds,
           checkOpen, toDrain, finalizeClose, abandonSlot, drainWaits
  <2> QED
    BY <1>1, <2>1, PeerSet
<1>4. DOMAIN flag' = FlagNames /\ flag'.eofSent = flag.eofSent
  <2>1. CASE readPauses \/ readEof \/ readFails \/ sshPhaseEnds
    BY <1>1, <2>1 DEF readPauses, readEof, readFails, sshPhaseEnds, FlagNames
  <2>2. CASE localStalls \/ localPhaseEnds \/ sshWritten \/ toDrain
             \/ abandonSlot \/ drainWaits
    BY <1>1, <2>2 DEF localStalls, localPhaseEnds, sshWritten, toDrain,
                      abandonSlot, drainWaits
  <2>3. CASE writeFails
    BY <1>1, <2>3 DEF writeFails, FlagNames
  <2>4. CASE recvEnds \/ recvPhaseEnds
    BY <1>1, <2>4 DEF recvEnds, recvPhaseEnds, FlagNames
  <2>5. CASE checkOpen \/ finalizeClose
    BY <1>1, <2>5 DEF checkOpen, openCheck, finalizeClose, FlagNames
  <2> QED
    BY <2>1, <2>2, <2>3, <2>4, <2>5 DEF Phases
<1> QED
  BY <1>1, <1>2, <1>3, <1>4 DEF Quiet

LEMMA PeerReads ==
  ASSUME NEW p \in PeerType, NEW n \in Nat, n <= Unread(p)
  PROVE  LET q == [p EXCEPT !.read = @ + n]
         IN  q \in PeerType /\ q.read <= q.sent /\ q.got = p.got /\ q.read = p.read + n
<1> DEFINE q == [p EXCEPT !.read = @ + n]
<1>1. p.read \in Nat /\ p.sent \in Nat /\ p.got \in Seq(Nat) /\ p.eof \in BOOLEAN
  BY DEF PeerType
<1>2. q = [sent |-> p.sent, read |-> p.read + n, eof |-> p.eof, got |-> p.got]
  BY DEF PeerType
<1>3. p.read + n \in Nat /\ p.read + n <= p.sent
  BY <1>1 DEF Unread
<1> QED
  BY <1>1, <1>2, <1>3 DEF PeerType

\* A read of the channel: libssh2 gives some of what the SSH peer sent.
LEMMA ReadInv ==
  ASSUME BuffersFit, PumpInv, NEW n \in Nat, n <= Unread(remote),
         toLocal' = write(toLocal, Bytes(remote, n)),
         remote' = [remote EXCEPT !.read = @ + n], local' = local
  PROVE  /\ WithinRing(toLocal')
         /\ remote' \in PeerType /\ remote'.read <= remote'.sent
         /\ remote'.got = remote.got
         /\ RequestInv'
<1>1. /\ Capacity \in Nat /\ WithinRing(toLocal) /\ toLocal \in RingType
      /\ remote \in PeerType /\ remote.read <= remote.sent
      /\ local \in PeerType
      /\ RequestInv
  BY DEF BuffersFit, PumpInv, PumpTypes, WithinRing
<1>2. /\ remote' \in PeerType /\ remote'.read <= remote'.sent
      /\ remote'.got = remote.got /\ remote'.read = remote.read + n
  BY <1>1, PeerReads
<1>4. Bytes(remote, n) \in Seq(Nat) /\ Len(Bytes(remote, n)) = n
  BY <1>1, NextBytes
<1>5. PICK m \in 0 .. n :
        Content(toLocal') = Content(toLocal) \o SubSeq(Bytes(remote, n), 1, m)
  BY <1>1, <1>4, WriteRing
<1>6. WithinRing(toLocal')
  BY <1>1, <1>4, WriteRing
<1>7. RequestInv'
  <2> DEFINE before == local.got \o Content(toLocal)
             new    == SubSeq(Bytes(remote, n), 1, m)
  <2>1. /\ local.got \in Seq(Nat) /\ Content(toLocal) \in Seq(Nat)
        /\ before \in Seq(Nat)
    BY <1>1, ContentOfRing, Concat DEF PeerType
  <2>2. new \in Seq(Nat)
    BY <1>4, Part
  <2>3. Rises(before \o new, remote.read + n)
    BY <1>1, <2>1, RisesOn DEF RequestInv
  <2>4. before \o new = local.got \o (Content(toLocal) \o new)
    BY <2>1, <2>2, Associates
  <2> QED
    BY <1>2, <1>5, <2>3, <2>4 DEF RequestInv, Content
<1> QED
  BY <1>2, <1>6, <1>7

LEMMA SshPhaseInv ==
  ASSUME BuffersFit, PumpInv, readStores \/ fallback
  PROVE  PumpInv'
<1>1. /\ DOMAIN flag = FlagNames /\ WithinRing(toLocal) /\ WithinRing(toRemote)
      /\ remote \in PeerType /\ remote.read <= remote.sent
      /\ local \in PeerType /\ local.read <= local.sent
      /\ ResponseInv /\ EofAfterResponse /\ RequestInv
  BY DEF PumpInv, PumpTypes
<1>2. UNCHANGED <<toRemote, local>>
  BY DEF readStores, fallback
<1>3. CASE readStores
  <2>1. DOMAIN flag' = FlagNames /\ flag'.eofSent = flag.eofSent
    BY <1>1, <1>3 DEF readStores, FlagNames
  <2>2. PICK n \in 1 .. AtMost(AtMost(available(toLocal), BufSize), Unread(remote)) :
          /\ toLocal' = write(toLocal, Bytes(remote, n))
          /\ remote' = [remote EXCEPT !.read = @ + n]
    BY <1>3 DEF readStores
  <2>3. n \in Nat /\ n <= Unread(remote)
    <3>1. /\ available(toLocal) \in Int /\ Unread(remote) \in Int /\ BufSize \in Int
      BY <1>1, Elements DEF available, Unread, PeerType, WithinRing, RingType, BuffersFit
    <3>2. AtMost(available(toLocal), BufSize) \in Int
      BY <3>1, Smaller
    <3>3. /\ AtMost(AtMost(available(toLocal), BufSize), Unread(remote)) \in Int
          /\ AtMost(AtMost(available(toLocal), BufSize), Unread(remote)) <= Unread(remote)
      BY <3>1, <3>2, Smaller
    <3> QED
      BY <3>1, <3>3
  <2>4. /\ WithinRing(toLocal')
        /\ remote' \in PeerType /\ remote'.read <= remote'.sent
        /\ remote'.got = remote.got
        /\ RequestInv'
    BY <1>2, <2>2, <2>3, ReadInv
  <2> QED
    BY <1>1, <1>2, <2>1, <2>4
    DEF PumpInv, PumpTypes, ResponseInv, EofAfterResponse, Content
<1>4. CASE fallback
  <2>1. UNCHANGED <<toLocal, flag>> /\ remote' = [remote EXCEPT !.read = @ + 1]
        /\ Unread(remote) > 0
    BY <1>4 DEF fallback
  <2>2. remote.read \in Nat /\ 1 <= Unread(remote)
    BY <1>1, <2>1 DEF PeerType, Unread
  <2>3. /\ remote' \in PeerType /\ remote'.read <= remote'.sent
        /\ remote'.got = remote.got /\ remote'.read = remote.read + 1
    BY <1>1, <2>1, <2>2, PeerReads
  <2>4. RequestInv'
    <3> DEFINE s == local.got \o Content(toLocal)
    <3>1. s \in Seq(Nat)
      BY <1>1, ContentOfRing, Concat DEF PeerType, WithinRing
    <3>2. Rises(s, remote.read)
      BY <1>1 DEF RequestInv
    <3> HIDE DEF s
    <3>3. \A i \in 1 .. Len(s) : s[i] \in Nat
      BY <3>1, Elements
    <3>4. Rises(s, remote.read + 1)
      BY <2>2, <3>2, <3>3 DEF Rises
    <3> QED
      BY <1>2, <2>1, <2>3, <3>4 DEF s, RequestInv, Content
  <2> QED
    BY <1>1, <1>2, <2>1, <2>2, <2>3, <2>4
    DEF PumpInv, PumpTypes, ResponseInv, EofAfterResponse, Content
<1> QED
  BY <1>3, <1>4

\* drainSshToLocal(): the stream stays, or loses a piece with the socket.
LEMMA LocalPhaseInv ==
  ASSUME BuffersFit, PumpInv, sendLocal \/ sendFails
  PROVE  PumpInv'
<1>1. /\ DOMAIN flag = FlagNames /\ WithinRing(toLocal) /\ WithinRing(toRemote)
      /\ remote \in PeerType /\ remote.read <= remote.sent
      /\ local \in PeerType /\ local.read <= local.sent /\ local.got \in Seq(Nat)
      /\ ResponseInv /\ EofAfterResponse /\ RequestInv
  BY DEF PumpInv, PumpTypes, PeerType
<1>2. UNCHANGED <<toRemote, remote>>
  BY DEF sendLocal, sendFails
<1>3. CASE sendLocal
  <2>1. flag' = flag
    BY <1>3 DEF sendLocal
  <2>2. PICK got \in Gets(toLocal, BufSize) : \E sent \in 0 .. got :
          LET s == taken(toLocal, got)
          IN  /\ local' = [local EXCEPT !.got = @ \o SubSeq(s, 1, sent)]
              /\ toLocal' = putBack(left(toLocal, got), SubSeq(s, sent + 1, got))
    BY <1>3 DEF sendLocal
  <2>3. PICK sent \in 0 .. got :
          /\ local' = [local EXCEPT !.got = @ \o SubSeq(taken(toLocal, got), 1, sent)]
          /\ toLocal' = putBack(left(toLocal, got),
                                SubSeq(taken(toLocal, got), sent + 1, got))
    BY <2>2
  <2> DEFINE after == local.got \o SubSeq(taken(toLocal, got), 1, sent)
  <2>4. /\ WithinRing(toLocal') /\ after \in Seq(Nat)
        /\ after \o Content(toLocal') = local.got \o Content(toLocal)
    BY <1>1, <2>3, DrainRing
  <2>5. /\ local' \in PeerType /\ local'.got = after
        /\ local'.read = local.read /\ local'.sent = local.sent
    <3> HIDE DEF after
    <3>1. local' = [local EXCEPT !.got = after]
      BY <2>3 DEF after
    <3> QED
      BY <1>1, <2>4, <3>1 DEF PeerType
  <2> HIDE DEF after
  <2>6. RequestInv'
    BY <1>1, <1>2, <2>4, <2>5 DEF RequestInv, Content
  <2> QED
    BY <1>1, <1>2, <2>1, <2>4, <2>5, <2>6
    DEF PumpInv, PumpTypes, ResponseInv, EofAfterResponse, Content
<1>4. CASE sendFails
  <2>1. /\ local' = local
        /\ DOMAIN flag' = FlagNames /\ flag'.eofSent = flag.eofSent
    BY <1>1, <1>4 DEF sendFails, FlagNames
  <2>2. PICK got \in Gets(toLocal, BufSize) : toLocal' = left(toLocal, got)
    BY <1>4 DEF sendFails
  <2> DEFINE lost == taken(toLocal, got)
  <2>3. /\ lost \in Seq(Nat) /\ WithinRing(toLocal')
        /\ Content(toLocal) = lost \o Content(toLocal')
    BY <1>1, <2>2, ReadRing
  <2> HIDE DEF lost
  <2>4. RequestInv'
    <3> DEFINE c == Content(toLocal')
    <3>1. c \in Seq(Nat)
      BY <2>3, ContentOfRing DEF WithinRing
    <3>2. remote.read \in Nat /\ Rises(local.got \o (lost \o c), remote.read)
      BY <1>1, <2>3 DEF RequestInv, PeerType
    <3> HIDE DEF c
    <3>3. Rises(local.got \o c, remote.read)
      BY <1>1, <2>3, <3>1, <3>2, RisesWithout
    <3> QED
      BY <1>2, <2>1, <3>3 DEF c, RequestInv, Content
  <2> QED
    BY <1>1, <1>2, <2>1, <2>3, <2>4
    DEF PumpInv, PumpTypes, ResponseInv, EofAfterResponse, Content
<1> QED
  BY <1>3, <1>4

\* drainLocalToSsh(): the response keeps its bytes, in the ring or at the peer.
LEMMA ToSshPhaseInv ==
  ASSUME BuffersFit, PumpInv, writeSsh
  PROVE  PumpInv'
<1>1. /\ DOMAIN flag = FlagNames /\ WithinRing(toLocal) /\ WithinRing(toRemote)
      /\ remote \in PeerType /\ remote.read <= remote.sent /\ remote.got \in Seq(Nat)
      /\ local \in PeerType /\ local.read <= local.sent
      /\ ResponseInv /\ RequestInv
  BY DEF PumpInv, PumpTypes, PeerType
<1>2. UNCHANGED <<toLocal, local>> /\ ~flag.eofSent
  BY DEF writeSsh
<1>3. DOMAIN flag' = FlagNames /\ flag'.eofSent = flag.eofSent
  BY <1>1 DEF writeSsh, FlagNames
<1>4. PICK got \in Gets(toRemote, BufSize) : \E sent \in 0 .. got :
        LET s == taken(toRemote, got)
        IN  /\ remote' = [remote EXCEPT !.got = @ \o SubSeq(s, 1, sent)]
            /\ toRemote' = putBack(left(toRemote, got), SubSeq(s, sent + 1, got))
  BY DEF writeSsh
<1>5. PICK sent \in 0 .. got :
        /\ remote' = [remote EXCEPT !.got = @ \o SubSeq(taken(toRemote, got), 1, sent)]
        /\ toRemote' = putBack(left(toRemote, got),
                               SubSeq(taken(toRemote, got), sent + 1, got))
  BY <1>4
<1> DEFINE after == remote.got \o SubSeq(taken(toRemote, got), 1, sent)
<1>6. /\ WithinRing(toRemote') /\ after \in Seq(Nat)
      /\ after \o Content(toRemote') = remote.got \o Content(toRemote)
  BY <1>1, <1>5, DrainRing
<1>7. /\ remote' \in PeerType /\ remote'.got = after
      /\ remote'.read = remote.read /\ remote'.sent = remote.sent
  <2>1. remote' = [remote EXCEPT !.got = after]
    BY <1>5
  <2> HIDE DEF after
  <2> QED
    BY <1>1, <1>6, <2>1 DEF PeerType
<1> HIDE DEF after
<1>8. ResponseInv'
  BY <1>1, <1>2, <1>6, <1>7 DEF ResponseInv, Content, UpTo
<1>9. RequestInv'
  BY <1>1, <1>2, <1>7 DEF RequestInv, Content
<1> QED
  BY <1>1, <1>2, <1>3, <1>6, <1>7, <1>8, <1>9 DEF PumpInv, PumpTypes, EofAfterResponse

\* ... and gains what the local program sent next.
LEMMA RecvInv ==
  ASSUME BuffersFit, PumpInv, recv
  PROVE  PumpInv'
<1>1. /\ DOMAIN flag = FlagNames /\ WithinRing(toLocal)
      /\ WithinRing(toRemote) /\ toRemote \in RingType
      /\ remote \in PeerType /\ remote.read <= remote.sent /\ remote.got \in Seq(Nat)
      /\ local \in PeerType /\ local.read <= local.sent
      /\ ResponseInv /\ RequestInv /\ Capacity \in Nat
  BY DEF PumpInv, PumpTypes, PeerType, WithinRing, BuffersFit
<1>2. UNCHANGED <<toLocal, remote>> /\ ~flag.eofSent
  BY DEF recv, MayRecv
<1>3. DOMAIN flag' = FlagNames /\ flag'.eofSent = flag.eofSent
  BY <1>1 DEF recv, FlagNames
<1>4. PICK n \in 1 .. AtMost(AtMost(available(toRemote), BufSize), Unread(local)) :
        /\ toRemote' = write(toRemote, Bytes(local, n))
        /\ local' = [local EXCEPT !.read = @ + n]
  BY DEF recv
<1>5. n \in Nat /\ n <= Unread(local) /\ n <= available(toRemote)
  <2>1. /\ available(toRemote) \in Int /\ Unread(local) \in Int /\ BufSize \in Int
    BY <1>1, Elements DEF available, Unread, PeerType, RingType, BuffersFit
  <2>2. /\ AtMost(available(toRemote), BufSize) \in Int
        /\ AtMost(available(toRemote), BufSize) <= available(toRemote)
    BY <2>1, Smaller
  <2> DEFINE most == AtMost(AtMost(available(toRemote), BufSize), Unread(local))
  <2>3. /\ most \in Int /\ most <= Unread(local)
        /\ most <= AtMost(available(toRemote), BufSize)
    BY <2>1, <2>2, Smaller
  <2>4. n \in 1 .. most
    OBVIOUS
  <2> HIDE DEF most
  <2> QED
    BY <2>1, <2>2, <2>3, <2>4
<1>6. /\ local' \in PeerType /\ local'.read <= local'.sent
      /\ local'.got = local.got /\ local'.read = local.read + n
  BY <1>1, <1>4, <1>5, PeerReads
<1> DEFINE new == Bytes(local, n)
<1>7. new \in Seq(Nat) /\ Len(new) = n
  BY <1>1, <1>5, NextBytes
<1>8. UpTo(local.read) \o new = UpTo(local.read + n)
  BY <1>1, <1>5, LongerUpTo
<1>9. toRemote' = write(toRemote, new)
  BY <1>4
<1> HIDE DEF new
<1>10. WithinRing(toRemote') /\ Content(toRemote') = Content(toRemote) \o new
  <2>1. PICK m \in 0 .. Len(new) :
          /\ Content(toRemote') = Content(toRemote) \o SubSeq(new, 1, m)
          /\ Len(new) <= available(toRemote) => m = Len(new)
    BY <1>1, <1>7, <1>9, WriteRing
  <2>2. SubSeq(new, 1, Len(new)) = new
    BY <1>7, SubSeqFull
  <2>3. WithinRing(toRemote')
    BY <1>1, <1>7, <1>9, WriteRing
  <2> QED
    BY <1>5, <1>7, <2>1, <2>2, <2>3
<1>11. ResponseInv'
  <2>1. Content(toRemote) \in Seq(Nat)
    BY <1>1, ContentOfRing
  <2>2. remote.got \o (Content(toRemote) \o new) = (remote.got \o Content(toRemote)) \o new
    BY <1>1, <1>7, <2>1, Associates
  <2>3. remote.got \o Content(toRemote') = UpTo(local.read + n)
    BY <1>1, <1>8, <1>10, <2>2 DEF ResponseInv
  <2> QED
    BY <1>2, <1>6, <2>3 DEF ResponseInv, Content, UpTo
<1>12. RequestInv'
  BY <1>1, <1>2, <1>6 DEF RequestInv, Content
<1> QED
  BY <1>1, <1>2, <1>3, <1>6, <1>10, <1>11, <1>12
  DEF PumpInv, PumpTypes, EofAfterResponse

\* checkCloses(): EOF goes out when the ring is empty, so all was read and sent.
LEMMA SendEofInv ==
  ASSUME BuffersFit, PumpInv, sendEof
  PROVE  PumpInv'
<1>1. /\ DOMAIN flag = FlagNames /\ WithinRing(toRemote) /\ toRemote \in RingType
      /\ remote \in PeerType /\ remote.got \in Seq(Nat)
      /\ local \in PeerType /\ local.read <= local.sent /\ local.read \in Nat
      /\ ResponseInv
  BY DEF PumpInv, PumpTypes, PeerType, WithinRing
<1>2. UNCHANGED <<toRemote, local>> /\ size(toRemote) = 0
  BY DEF sendEof, drained, empty
<1>3. DOMAIN flag' = FlagNames
  BY <1>1 DEF sendEof
<1>4. PICK n \in 0 .. Unread(remote) :
        /\ toLocal' = write(toLocal, Bytes(remote, n))
        /\ remote' = [remote EXCEPT !.read = @ + n]
  BY DEF sendEof
<1>5. n \in Nat /\ n <= Unread(remote)
  BY <1>1 DEF Unread, PeerType
<1>6. /\ WithinRing(toLocal')
      /\ remote' \in PeerType /\ remote'.read <= remote'.sent
      /\ remote'.got = remote.got
      /\ RequestInv'
  BY <1>2, <1>4, <1>5, ReadInv
<1>7. ResponseInv'
  BY <1>1, <1>2, <1>6 DEF ResponseInv, Content, UpTo
<1>8. Len(remote.got) = local.read
  <2>1. Content(toRemote) \in Seq(Nat) /\ Len(Content(toRemote)) = 0
    BY <1>1, <1>2, ContentOfRing DEF size
  <2>2. Len(remote.got \o Content(toRemote)) = Len(remote.got)
    BY <1>1, <2>1, Concat
  <2>3. Len(UpTo(local.read)) = local.read
    BY <1>1 DEF UpTo
  <2> QED
    BY <1>1, <2>2, <2>3 DEF ResponseInv
<1> QED
  BY <1>1, <1>2, <1>3, <1>6, <1>7, <1>8 DEF PumpInv, PumpTypes, EofAfterResponse

LEMMA PumpStep == BuffersFit /\ PumpInv /\ [Next]_vars => PumpInv'
<1> SUFFICES ASSUME BuffersFit, PumpInv, [Next]_vars PROVE PumpInv'
  OBVIOUS
<1>1. CASE UNCHANGED vars
  BY <1>1, QuietInv DEF vars, Quiet, PumpInv, PumpTypes
<1>2. CASE Peers \/ Phases
  BY <1>2, PeersAreQuiet, PhasesAreQuiet, QuietInv
<1> QED
  BY <1>1, <1>2, SshPhaseInv, LocalPhaseInv, ToSshPhaseInv, RecvInv, SendEofInv
  DEF Next, Pump, Phases

LEMMA PumpInductive ==
  ASSUME BuffersFit
  PROVE  Spec => []PumpInv
<1>1. Init => PumpInv
  BY PumpInit
<1>2. PumpInv /\ [Next]_vars => PumpInv'
  BY PumpStep
<1> QED
  BY <1>1, <1>2, PTL DEF Spec

-----------------------------------------------------------------------------
(* What the invariant says *)

LEMMA PumpResponse == PumpInv => ResponseInOrder
<1> SUFFICES ASSUME PumpInv PROVE ResponseInOrder
  OBVIOUS
<1>1. local.read \in Nat /\ remote.got \o Content(toRemote) = UpTo(local.read)
  BY DEF PumpInv, PumpTypes, PeerType, ResponseInv
<1>2. local.read \in 0 .. local.read
  BY <1>1
<1> QED
  BY <1>1, <1>2 DEF ResponseInOrder, Prefix, UpTo

LEMMA PumpRequest == PumpInv => RequestInOrder
<1> SUFFICES ASSUME PumpInv PROVE RequestInOrder
  OBVIOUS
<1> DEFINE s == local.got \o Content(toLocal)
<1>1. s \in Seq(Nat)
  BY ContentOfRing, Concat DEF PumpInv, PumpTypes, PeerType, WithinRing
<1>2. \A i, j \in 1 .. Len(s) : i < j => s[i] < s[j]
  BY DEF PumpInv, RequestInv, Rises
<1> HIDE DEF s
<1>3. \A i \in 1 .. Len(s) - 1 : i \in 1 .. Len(s) /\ i + 1 \in 1 .. Len(s)
  BY <1>1, Elements
<1>4. \A i \in 1 .. Len(s) - 1 : s[i] < s[i + 1]
  BY <1>1, <1>2, <1>3
<1> QED
  BY <1>4 DEF RequestInOrder, s

LEMMA PumpEof == PumpInv => EofAfterResponse
  BY DEF PumpInv

-----------------------------------------------------------------------------
(* The theorems *)

\* drainLocalToSsh(): the SSH peer gets what the local program sent, from its
\* first byte on, without a gap, a repetition or an exchange, for rings of any
\* capacity and however libssh2 cuts the writes.
THEOREM ResponseArrivesInOrder ==
  ASSUME BuffersFit
  PROVE  Spec => []ResponseInOrder
  BY PumpResponse, PumpInductive, PTL

\* drainSshToLocal(): the local program gets the bytes of the SSH peer in their
\* order and none twice, whichever pieces a failing socket loses.
THEOREM RequestArrivesInOrder ==
  ASSUME BuffersFit
  PROVE  Spec => []RequestInOrder
  BY PumpRequest, PumpInductive, PTL

\* checkCloses(): the EOF that ends the response comes after all of what was
\* read from the local program.
THEOREM EofEndsResponse ==
  ASSUME BuffersFit
  PROVE  Spec => []EofAfterResponse
  BY PumpEof, PumpInductive, PTL
=============================================================================
