---------------------------- MODULE Parts_proofs ----------------------------
(***************************************************************************)
(* Proofs about the modules of Parts, under the names they have there: the *)
(* inductive invariant of each, and what it says.  PartsMC_proofs draws    *)
(* from them the theorems about the parts.                                 *)
(***************************************************************************)
EXTENDS Parts, FiniteSetTheorems, SequenceTheorems, WellFoundedInduction,
        TLAPS

-----------------------------------------------------------------------------
(* Numbers *)

\* A set of natural numbers has a least element, and a bounded one a greatest.
LEMMA LeastNumber ==
  ASSUME NEW T, T \subseteq Nat, T # {}
  PROVE  \E x \in T : \A y \in T : x <= y
<1> DEFINE R == {r \in Nat \X Nat : r[1] < r[2]}
<1>1. IsWellFoundedOn(R, Nat)
  <2>1. OpToRel(<, Nat) = R
    BY DEF OpToRel
  <2> QED
    BY <2>1, NatLessThanWellFounded
<1>2. \A x, y \in Nat : y < x => <<y, x>> \in R
  OBVIOUS
<1>3. PICK x \in T : \A y \in T : ~(<<y, x>> \in R)
  <2> HIDE DEF R
  <2> QED
    BY <1>1, WFMin
<1> HIDE DEF R
<1>4. \A y \in T : x \in Nat /\ y \in Nat /\ ~(y < x)
  BY <1>2, <1>3
<1> QED
  BY <1>4

LEMMA GreatestNumber ==
  ASSUME NEW n \in Nat, NEW T, T \subseteq 0 .. n, T # {}
  PROVE  \E x \in T : \A y \in T : x >= y
<1> DEFINE D == {n - x : x \in T}
<1>1. D \subseteq Nat /\ D # {}
  <2>1. PICK x \in T : TRUE
    OBVIOUS
  <2>2. n - x \in D
    BY <2>1
  <2>3. \A y \in T : n - y \in Nat
    OBVIOUS
  <2> QED
    BY <2>2, <2>3
<1>2. PICK d \in D : \A e \in D : d <= e
  <2> HIDE DEF D
  <2> QED
    BY <1>1, LeastNumber
<1>3. PICK x \in T : d = n - x
  OBVIOUS
<1>4. ASSUME NEW y \in T PROVE x >= y
  <2>1. n - y \in D
    OBVIOUS
  <2>2. x \in Int /\ y \in Int /\ d <= n - y
    BY <1>2, <2>1
  <2> QED
    BY <1>3, <2>2
<1> QED
  BY <1>4

\* The operator of the library theorems is the one an instance brings along.
LEMMA SameCardinality == \A S : CredsPart!Cardinality(S) = Cardinality(S)
  BY DEF CredsPart!Cardinality, Cardinality

-----------------------------------------------------------------------------
(* TunnelSession *)
(* In this part s1 is pc; s2 is wanted; s3 is ssh; s4 is mappings; s5 is   *)
(* limit; s6 is sock; s7 is sess; s8 is blocking; s9 is listeners; s10 is  *)
(* tries; s11 is peer.                                                     *)

LEMMA SessionInit == SessionPart!Init => SessionPart!SessionInv
<1> SUFFICES ASSUME SessionPart!Init PROVE SessionPart!SessionInv
  OBVIOUS
<1>1. /\ s4 = <<1>> /\ 1 \in SessionPart!Mapping
      /\ s4 \in Seq(SessionPart!Mapping) /\ Len(s4) = 1
  BY DEF SessionPart!Init, SessionPart!Mapping
<1>2. SessionPart!Desired = 1 /\ s9 \in 0 .. SessionPart!Desired
  BY <1>1 DEF SessionPart!Init, SessionPart!Desired
<1> QED
  BY <1>1, <1>2
  DEF SessionPart!Init, SessionPart!SessionInv, SessionPart!AppliedInv,
      SessionPart!ProgressInv, SessionPart!NothingLeft, SessionPart!DefaultSsh,
      SessionPart!SSHServerConfig

LEMMA SomeMappings ==
  ASSUME SessionPart!AppliedInv
  PROVE  SessionPart!Desired = 1 /\ Len(s4) \in Nat
<1>1. Len(s4) \in Nat /\ Len(s4) # 0
  BY DEF SessionPart!AppliedInv
<1> QED
  BY <1>1 DEF SessionPart!AppliedInv, SessionPart!Desired

\* The setters between two connections: what an earlier configuration left
\* in ssh is overwritten where the new one says anything.
LEMMA SettersInv ==
  ASSUME SessionPart!SessionInv,
         \/ \E v \in SessionPart!VPNConfig : SessionPart!applyConfig(v)
         \/ \E m \in 1 .. MaxMappings : SessionPart!addTunnelMapping(m)
  PROVE  SessionPart!SessionInv'
<1>1. s1 = "idle" /\ s1' = "idle" /\ UNCHANGED SessionPart!conn /\ s9 = 0
  BY DEF SessionPart!applyConfig, SessionPart!addTunnelMapping,
         SessionPart!SessionInv, SessionPart!ProgressInv
<1>2. SessionPart!AppliedInv'
  <2>1. CASE \E v \in SessionPart!VPNConfig : SessionPart!applyConfig(v)
    <3> PICK v \in SessionPart!VPNConfig : SessionPart!applyConfig(v)
      BY <2>1
    <3>1. /\ v.key \in BOOLEAN /\ v.verify \in BOOLEAN
          /\ v.fingerprint \in HostKey \cup {NoText}
          /\ v.type \in KeyType \cup {NoText}
          /\ v.tunnel \in SessionPart!Mapping
      BY DEF SessionPart!VPNConfig, SessionPart!Mapping
    <3>2. s4' = <<v.tunnel>> /\ s5' = 1 /\ s2' = v
      BY DEF SessionPart!applyConfig, SessionPart!setTunnelConfig,
             SessionPart!setMaxReverseListeners
    <3>3. s4' \in Seq(SessionPart!Mapping) /\ s4' # <<>>
          /\ s4'[1] = v.tunnel
      BY <3>1, <3>2
    <3> DEFINE s == IF v.key THEN SessionPart!setSSHKeyAuthFromMemory(s3)
                             ELSE SessionPart!setSSHServer(s3)
    <3>4. /\ s \in SessionPart!SSHServerConfig
          /\ s.useSSHKey = v.key
      BY <3>1
      DEF SessionPart!SessionInv, SessionPart!AppliedInv,
          SessionPart!SSHServerConfig, SessionPart!setSSHKeyAuthFromMemory,
          SessionPart!setSSHServer
    <3>5. s3' = SessionPart!setHostKeyVerification(s, v.verify, v.fingerprint,
                                                   v.type)
      BY DEF SessionPart!applyConfig
    <3> HIDE DEF s
    <3>6. /\ s3' \in SessionPart!SSHServerConfig
          /\ s3'.useSSHKey = v.key /\ s3'.verify = v.verify
          /\ v.verify => s3'.fingerprint = v.fingerprint /\ s3'.type = v.type
      BY <3>1, <3>4, <3>5
      DEF SessionPart!SSHServerConfig, SessionPart!setHostKeyVerification
    <3> QED
      BY <3>2, <3>3, <3>6 DEF SessionPart!AppliedInv
  <2>2. CASE \E m \in 1 .. MaxMappings : SessionPart!addTunnelMapping(m)
    <3> PICK m \in 1 .. MaxMappings : SessionPart!addTunnelMapping(m)
      BY <2>2
    <3>1. s4' = Append(s4, m) /\ UNCHANGED <<s2, s3, s5>>
      BY DEF SessionPart!addTunnelMapping
    <3>2. /\ s4 \in Seq(SessionPart!Mapping) /\ s4 # <<>>
          /\ m \in SessionPart!Mapping
      BY DEF SessionPart!SessionInv, SessionPart!AppliedInv,
             SessionPart!Mapping
    <3>3. /\ s4' \in Seq(SessionPart!Mapping) /\ s4' # <<>>
          /\ s4'[1] = s4[1]
      BY <3>1, <3>2
    <3> QED
      BY <3>1, <3>3 DEF SessionPart!SessionInv, SessionPart!AppliedInv
  <2> QED
    BY <2>1, <2>2
<1>3. SessionPart!Desired' = 1
  <2>1. Len(s4') \in Nat /\ Len(s4') # 0 /\ s5' = 1
    BY <1>2 DEF SessionPart!AppliedInv
  <2> QED
    BY <2>1 DEF SessionPart!Desired
<1> QED
  BY <1>1, <1>2, <1>3
  DEF SessionPart!conn, SessionPart!SessionInv, SessionPart!ProgressInv,
      SessionPart!NothingLeft

LEMMA SameConfiguration ==
  ASSUME SessionPart!SessionInv, UNCHANGED SessionPart!config
  PROVE  SessionPart!AppliedInv' /\ SessionPart!Desired' = SessionPart!Desired
         /\ SessionPart!Desired = 1
<1>1. SessionPart!AppliedInv'
  BY DEF SessionPart!SessionInv, SessionPart!AppliedInv, SessionPart!config
<1>2. SessionPart!Desired' = SessionPart!Desired
  BY DEF SessionPart!Desired, SessionPart!config
<1> QED
  BY <1>1, <1>2, SomeMappings DEF SessionPart!SessionInv

\* An error path of connect(), and disconnect().
LEMMA FailInv ==
  ASSUME SessionPart!SessionInv, NEW from, SessionPart!Fail(from)
  PROVE  SessionPart!SessionInv'
<1>1. /\ UNCHANGED SessionPart!config /\ s1' = "idle"
      /\ s9' = 0 /\ s7' = "none" /\ s6' = FALSE /\ s8' = TRUE
  BY DEF SessionPart!Fail, SessionPart!GoOn, SessionPart!cleanupSession,
         SessionPart!cancelAllListeners
<1> QED
  BY <1>1, SameConfiguration
  DEF SessionPart!SessionInv, SessionPart!ProgressInv, SessionPart!NothingLeft

\* The steps of connect() that succeed.
LEMMA ConnectInv ==
  ASSUME SessionPart!SessionInv,
         \/ SessionPart!tcpConnect \/ SessionPart!tcpFails
            \/ SessionPart!handshake
         \/ SessionPart!configureKeepalive \/ SessionPart!verifyHostKey
         \/ SessionPart!userauthList \/ SessionPart!authPassword
            \/ SessionPart!authPublicKey
         \/ SessionPart!createListenerForMapping \/ SessionPart!listenFails
         \/ SessionPart!connected \/ SessionPart!disconnect
  PROVE  SessionPart!SessionInv'
<1>0. CASE \/ SessionPart!Fail("handshake") \/ SessionPart!Fail("hostkey")
              \/ SessionPart!Fail("list")
           \/ SessionPart!Fail("password") \/ SessionPart!Fail("publickey")
              \/ SessionPart!Fail("listen")
           \/ SessionPart!Fail("connected")
  BY <1>0, FailInv
<1>1. UNCHANGED SessionPart!config
  BY DEF SessionPart!tcpConnect, SessionPart!tcpFails, SessionPart!handshake,
         SessionPart!configureKeepalive, SessionPart!verifyHostKey,
         SessionPart!userauthList, SessionPart!authPassword,
         SessionPart!authPublicKey, SessionPart!createListenerForMapping,
         SessionPart!listenFails, SessionPart!connected,
         SessionPart!disconnect, SessionPart!GoOn, SessionPart!Fail
<1>2. /\ SessionPart!AppliedInv' /\ SessionPart!Desired' = SessionPart!Desired
      /\ SessionPart!Desired = 1
      /\ s3' = s3
  BY <1>1, SameConfiguration DEF SessionPart!config
<1> USE DEF SessionPart!SessionInv, SessionPart!ProgressInv,
            SessionPart!NothingLeft, SessionPart!GoOn, SessionPart!conn
<1>3. CASE SessionPart!tcpConnect \/ SessionPart!tcpFails
  BY <1>2, <1>3 DEF SessionPart!tcpConnect, SessionPart!tcpFails
<1>4. CASE SessionPart!handshake /\ ~SessionPart!Fail("handshake")
  BY <1>2, <1>4 DEF SessionPart!handshake
<1>5. CASE SessionPart!configureKeepalive
  BY <1>2, <1>5 DEF SessionPart!configureKeepalive
<1>6. CASE SessionPart!verifyHostKey /\ ~SessionPart!Fail("hostkey")
  BY <1>2, <1>6
  DEF SessionPart!verifyHostKey, SessionPart!hostKeyAccepted,
      SessionPart!typeAccepted, SessionPart!fingerprintsMatch
<1>7. CASE SessionPart!userauthList /\ ~SessionPart!Fail("list")
  BY <1>2, <1>7
  DEF SessionPart!userauthList, SessionPart!hostKeyAccepted,
      SessionPart!typeAccepted, SessionPart!fingerprintsMatch
<1>8. CASE SessionPart!authPassword /\ ~SessionPart!Fail("password")
  BY <1>2, <1>8
  DEF SessionPart!authPassword, SessionPart!hostKeyAccepted,
      SessionPart!typeAccepted, SessionPart!fingerprintsMatch
<1>9. CASE SessionPart!authPublicKey /\ ~SessionPart!Fail("publickey")
  BY <1>2, <1>9
  DEF SessionPart!authPublicKey, SessionPart!hostKeyAccepted,
      SessionPart!typeAccepted, SessionPart!fingerprintsMatch
<1>10. CASE SessionPart!createListenerForMapping
  BY <1>2, <1>10
  DEF SessionPart!createListenerForMapping, SessionPart!hostKeyAccepted,
      SessionPart!typeAccepted, SessionPart!fingerprintsMatch
<1>11. CASE SessionPart!connected
  BY <1>2, <1>11
  DEF SessionPart!connected, SessionPart!hostKeyAccepted,
      SessionPart!typeAccepted, SessionPart!fingerprintsMatch
<1> HIDE DEF SessionPart!SessionInv, SessionPart!ProgressInv,
             SessionPart!NothingLeft, SessionPart!GoOn, SessionPart!conn
<1> QED
  BY <1>0, <1>3, <1>4, <1>5, <1>6, <1>7, <1>8, <1>9, <1>10, <1>11
  DEF SessionPart!handshake, SessionPart!verifyHostKey,
      SessionPart!userauthList, SessionPart!authPassword,
      SessionPart!authPublicKey, SessionPart!listenFails,
      SessionPart!disconnect

LEMMA SessionStep == SessionPart!SessionInv
                     /\ [SessionPart!Next]_(SessionPart!vars)
                        => SessionPart!SessionInv'
<1> SUFFICES ASSUME SessionPart!SessionInv,
                    [SessionPart!Next]_(SessionPart!vars)
                    PROVE SessionPart!SessionInv'
  OBVIOUS
<1>1. CASE UNCHANGED SessionPart!vars
  <2>1. SessionPart!Desired' = SessionPart!Desired
        /\ SessionPart!hostKeyAccepted' = SessionPart!hostKeyAccepted
    BY <1>1
    DEF SessionPart!vars, SessionPart!Desired, SessionPart!hostKeyAccepted,
        SessionPart!typeAccepted, SessionPart!fingerprintsMatch
  <2> QED
    BY <1>1, <2>1
    DEF SessionPart!vars, SessionPart!SessionInv, SessionPart!AppliedInv,
        SessionPart!ProgressInv, SessionPart!NothingLeft
<1> QED
  BY <1>1, SettersInv, ConnectInv DEF SessionPart!Next

LEMMA SessionPromises ==
  SessionPart!SessionInv => SessionPart!SecretToTrustedHost
  /\ SessionPart!NothingLeft /\ SessionPart!ConnectedServes
<1> SUFFICES ASSUME SessionPart!SessionInv
             PROVE  SessionPart!SecretToTrustedHost /\ SessionPart!NothingLeft
                    /\ SessionPart!ConnectedServes
  OBVIOUS
<1>1. ASSUME s2 # SessionPart!NoPeer,
             s1 \in {"list", "password", "publickey", "listen", "connected"}
      PROVE  SessionPart!Trusted
  BY <1>1
  DEF SessionPart!SessionInv, SessionPart!AppliedInv, SessionPart!ProgressInv,
      SessionPart!VPNConfig, SessionPart!Trusted, SessionPart!hostKeyAccepted,
      SessionPart!typeAccepted, SessionPart!fingerprintsMatch
<1>2. SessionPart!SecretToTrustedHost
  BY <1>1
  DEF SessionPart!SecretToTrustedHost, SessionPart!SessionInv,
      SessionPart!AppliedInv, SessionPart!ProgressInv
<1>3. SessionPart!ConnectedServes
  BY <1>1, SomeMappings
  DEF SessionPart!ConnectedServes, SessionPart!SessionInv,
      SessionPart!AppliedInv, SessionPart!ProgressInv
<1> QED
  BY <1>2, <1>3 DEF SessionPart!SessionInv

-----------------------------------------------------------------------------
(* DirectClient *)
(* In this part s1 is pc; s2 is caller; s3 is connected; s4 is held; s5 is *)
(* channel; s6 is opened; s7 is freed; s8 is late; s9 is abandoned; s10 is *)
(* misuse; s11 is written; s12 is wire; s13 is eof.                        *)

DirectFits == Length \in Nat

LEMMA DirectInit == DirectFits /\ DirectPart!Init => DirectPart!DirectInv
<1> SUFFICES ASSUME DirectFits, DirectPart!Init PROVE DirectPart!DirectInv
  OBVIOUS
<1>1. s11 = 0 /\ s12 = <<>> /\ 0 \in 0 .. Length
  BY DEF DirectPart!Init, DirectFits
<1>2. DirectPart!WrittenIsSent
  BY <1>1 DEF DirectPart!WrittenIsSent
<1> QED
  BY <1>1, <1>2
  DEF DirectPart!Init, DirectPart!DirectInv, DirectPart!NotLost,
      DirectPart!FreedOnce

\* A call with the client's channel is no call with one it has freed, and what
\* was recorded before stays recorded.
LEMMA CallIsOwn ==
  ASSUME DirectPart!DirectInv, s5 # 0, DirectPart!Call
  PROVE  /\ DirectPart!FreedOnce'
         /\ s10' = {} => s10 = {} /\ s5 \in s4
  BY DEF DirectPart!DirectInv, DirectPart!Call, DirectPart!FreedOnce

\* One piece of write(): the bytes after those that were written before.
LEMMA WritePiece ==
  ASSUME DirectFits, DirectPart!DirectInv, s10 = {},
         NEW n \in 0 .. Length - s11
  PROVE  s12 \o SubSeq(DirectPart!offered, 1, n) = [i \in 1 .. s11 + n |-> i]
<1> DEFINE bytes == [i \in 1 .. Length |-> i]
           sent == [i \in 1 .. s11 |-> i]
           piece == SubSeq(DirectPart!offered, 1, n)
<1>1. /\ Length \in Nat /\ s11 \in Nat /\ n \in Nat
      /\ s11 + n <= Length /\ s12 = sent
  BY DEF DirectFits, DirectPart!DirectInv, DirectPart!WrittenIsSent
<1>2. bytes \in Seq(Nat) /\ Len(bytes) = Length
  BY <1>1
<1>3. sent \in Seq(Nat) /\ Len(sent) = s11
  BY <1>1
<1>4. /\ DirectPart!offered \in Seq(Nat)
      /\ Len(DirectPart!offered) = Length - s11
      /\ \A i \in 1 .. Length - s11 : DirectPart!offered[i] = s11 + i
  <2>1. DirectPart!offered = SubSeq(bytes, s11 + 1, Length)
    BY DEF DirectPart!offered
  <2>2. /\ DirectPart!offered \in Seq(Nat)
        /\ Len(DirectPart!offered) = Length - s11
        /\ \A i \in 1 .. Length - s11 : DirectPart!offered[i] = bytes[s11 + i]
    BY <1>1, <1>2, <2>1, SubSeqProperties
  <2>3. \A i \in 1 .. Length - s11 : bytes[s11 + i] = s11 + i
    BY <1>1
  <2> QED
    BY <2>2, <2>3
<1>5. /\ piece \in Seq(Nat) /\ Len(piece) = n
      /\ \A i \in 1 .. n : piece[i] = s11 + i
  <2>1. /\ piece \in Seq(Nat) /\ Len(piece) = n
        /\ \A i \in 1 .. n : piece[i] = DirectPart!offered[i]
    BY <1>1, <1>4, SubSeqProperties
  <2> QED
    BY <1>1, <1>4, <2>1
<1> HIDE DEF piece, sent
<1>6. /\ sent \o piece \in Seq(Nat) /\ Len(sent \o piece) = s11 + n
      /\ \A i \in 1 .. s11 + n :
           (sent \o piece)[i] = IF i <= s11 THEN sent[i] ELSE piece[i - s11]
  <2>1. /\ sent \o piece \in Seq(Nat)
        /\ Len(sent \o piece) = Len(sent) + Len(piece)
        /\ \A i \in 1 .. Len(sent) + Len(piece) :
             (sent \o piece)[i] = IF i <= Len(sent) THEN sent[i]
                                  ELSE piece[i - Len(sent)]
    BY <1>3, <1>5, ConcatProperties
  <2>2. Len(sent) = s11 /\ Len(piece) = n
    BY <1>3, <1>5
  <2> QED
    BY <2>1, <2>2
<1>7. \A i \in 1 .. s11 + n : (sent \o piece)[i] = i
  BY <1>1, <1>5, <1>6 DEF sent
<1>8. sent \o piece = [i \in 1 .. s11 + n |-> i]
  <2>1. /\ [i \in 1 .. s11 + n |-> i] \in Seq(Nat)
        /\ Len([i \in 1 .. s11 + n |-> i]) = s11 + n
    BY <1>1
  <2> QED
    BY <1>6, <1>7, <2>1, SeqEqual
<1> QED
  BY <1>1, <1>8 DEF piece, sent

\* What a step does to write() and to the record of calls when it sends nothing.
LEMMA SentStays ==
  ASSUME DirectPart!DirectInv, UNCHANGED DirectPart!data, s10 \subseteq s10'
  PROVE  DirectPart!WrittenIsSent' /\ (s11 \in 0 .. Length)'
  BY DEF DirectPart!DirectInv, DirectPart!WrittenIsSent, DirectPart!data

\* The tunnel's task, between any two steps of the client.
LEMMA TunnelTaskInv ==
  ASSUME DirectPart!DirectInv, DirectPart!teardown \/ DirectPart!reconnect
  PROVE  DirectPart!DirectInv'
<1>1. /\ s3' \in BOOLEAN
      /\ s4' = {} /\ s10' = s10 /\ UNCHANGED DirectPart!data
      /\ UNCHANGED <<s1, s2, s8, s5, s6, s7>>
  BY DEF DirectPart!teardown, DirectPart!reconnect, DirectPart!stopping,
         DirectPart!libssh2, DirectPart!known, DirectPart!data,
         DirectPart!DirectInv
<1>2. DirectPart!WrittenIsSent' /\ (s11 \in 0 .. Length)'
  BY <1>1, SentStays
<1> QED
  BY <1>1, <1>2
  DEF DirectPart!DirectInv, DirectPart!NotLost, DirectPart!FreedOnce

\* write() on the way.
LEMMA WriteInv ==
  ASSUME DirectFits, DirectPart!DirectInv, DirectPart!writeStep
  PROVE  DirectPart!DirectInv'
<1>1. s5 # 0 /\ DirectPart!Call
  BY DEF DirectPart!writeStep, DirectPart!DirectInv
<1>2. DirectPart!FreedOnce' /\ (s10' = {} => s10 = {} /\ s5 \in s4)
  BY <1>1, CallIsOwn
<1>3. PICK n \in 0 .. Length - s11 :
        /\ s11' = s11 + n
        /\ s12' = IF s5 \in s4 THEN s12 \o SubSeq(DirectPart!offered, 1, n)
                   ELSE s12
  BY DEF DirectPart!writeStep
<1>4. DirectPart!WrittenIsSent'
  BY <1>2, <1>3, WritePiece DEF DirectPart!WrittenIsSent
<1>5. s11' \in 0 .. Length
  BY <1>3 DEF DirectFits, DirectPart!DirectInv
<1> QED
  BY <1>2, <1>4, <1>5
  DEF DirectPart!writeStep, DirectPart!stopping, DirectPart!known,
      DirectPart!DirectInv, DirectPart!NotLost

\* The calls of libssh2 that send nothing.
LEMMA CallInv ==
  ASSUME DirectPart!DirectInv, DirectPart!connectedEof \/ DirectPart!read
         \/ DirectPart!stopCloses \/ DirectPart!freeAgain
  PROVE  DirectPart!DirectInv'
<1>1. s5 # 0 /\ (DirectPart!Call \/ UNCHANGED s10)
  BY DEF DirectPart!connectedEof, DirectPart!read, DirectPart!stopCloses,
         DirectPart!freeAgain, DirectPart!DirectInv
<1>2. DirectPart!FreedOnce' /\ s10 \subseteq s10'
  BY <1>1, CallIsOwn
  DEF DirectPart!DirectInv, DirectPart!FreedOnce, DirectPart!Call
<1>3. /\ UNCHANGED <<s2, s8, s3, s4, s7, DirectPart!known, DirectPart!data>>
      /\ \/ s1' = s1
         \/ s1' = "idle" /\ s1 = "eof?"
         \/ s1' = "freeing" /\ s1 = "closing"
  BY DEF DirectPart!connectedEof, DirectPart!read, DirectPart!stopCloses,
         DirectPart!freeAgain, DirectPart!stopping
<1>4. DirectPart!WrittenIsSent' /\ (s11 \in 0 .. Length)'
  BY <1>2, <1>3, SentStays
<1> QED
  BY <1>2, <1>3, <1>4
  DEF DirectPart!known, DirectPart!DirectInv, DirectPart!NotLost

\* The channel is freed, once.
LEMMA FreesInv ==
  ASSUME DirectPart!DirectInv, DirectPart!stopFrees
  PROVE  DirectPart!DirectInv'
<1>1. s5 # 0 /\ DirectPart!Call
  BY DEF DirectPart!stopFrees, DirectPart!DirectInv
<1>2. DirectPart!FreedOnce' /\ s10 \subseteq s10'
  BY <1>1, CallIsOwn DEF DirectPart!Call
<1>3. DirectPart!WrittenIsSent' /\ (s11 \in 0 .. Length)'
  BY <1>2, SentStays DEF DirectPart!stopFrees
<1> QED
  BY <1>1, <1>2, <1>3
  DEF DirectPart!stopFrees, DirectPart!Forgotten, DirectPart!DirectInv,
      DirectPart!NotLost

\* The steps of stop() and of its callers that do not call libssh2.
LEMMA StopInv ==
  ASSUME DirectPart!DirectInv,
         \/ DirectPart!stop \/ DirectPart!stopForgets \/ DirectPart!stopBegins
            \/ DirectPart!stopTimesOut
         \/ DirectPart!stopReturns \/ DirectPart!attach \/ DirectPart!release
            \/ DirectPart!destroyed
  PROVE  DirectPart!DirectInv'
<1>1. UNCHANGED <<s3, s4, s7, s10, DirectPart!data>>
  BY DEF DirectPart!stop, DirectPart!stopForgets, DirectPart!stopBegins,
         DirectPart!stopTimesOut, DirectPart!stopReturns, DirectPart!attach,
         DirectPart!release, DirectPart!destroyed, DirectPart!libssh2
<1>2. DirectPart!WrittenIsSent' /\ (s11 \in 0 .. Length)'
      /\ DirectPart!FreedOnce'
  BY <1>1, SentStays DEF DirectPart!DirectInv, DirectPart!FreedOnce
<1>3. CASE DirectPart!stopForgets
  <2>1. DirectPart!NotLost'
    <3>1. CASE s5 = 0
      BY <1>1, <1>3, <3>1
      DEF DirectPart!stopForgets, DirectPart!Forgotten, DirectPart!DirectInv,
          DirectPart!NotLost
    <3>2. CASE ~s3
      BY <1>1, <3>2 DEF DirectPart!DirectInv, DirectPart!NotLost
    <3> QED
      BY <1>3, <3>1, <3>2 DEF DirectPart!stopForgets
  <2>2. /\ s5' = 0 /\ s8' = FALSE /\ s1' = "stopped"
        /\ s2' = s2 /\ s6' = s6
        /\ s3' = s3 /\ s4' = s4 /\ s7' = s7
    BY <1>1, <1>3 DEF DirectPart!stopForgets, DirectPart!Forgotten
  <2> QED
    BY <1>2, <2>1, <2>2 DEF DirectPart!DirectInv
<1>4. CASE DirectPart!attach \/ DirectPart!destroyed
  BY <1>1, <1>2, <1>4
  DEF DirectPart!attach, DirectPart!destroyed, DirectPart!Dropped,
      DirectPart!Forgotten, DirectPart!DirectInv, DirectPart!NotLost
<1>5. CASE DirectPart!stop \/ DirectPart!stopBegins \/ DirectPart!stopTimesOut
           \/ DirectPart!stopReturns \/ DirectPart!release
  BY <1>1, <1>2, <1>5
  DEF DirectPart!stop, DirectPart!stopBegins, DirectPart!stopTimesOut,
      DirectPart!stopReturns, DirectPart!release, DirectPart!stopping,
      DirectPart!known, DirectPart!DirectInv, DirectPart!NotLost
<1> QED
  BY <1>3, <1>4, <1>5

\* A channel is opened for the client, whether it has one or not.
LEMMA OpenInv ==
  ASSUME DirectPart!DirectInv, DirectPart!openDirectTcpip
         \/ DirectPart!channelOpened \/ DirectPart!openFails
  PROVE  DirectPart!DirectInv'
<1>1. DirectPart!FreedOnce' /\ s10 \subseteq s10' /\ UNCHANGED DirectPart!data
  BY DEF DirectPart!openDirectTcpip, DirectPart!channelOpened,
         DirectPart!openFails, DirectPart!libssh2, DirectPart!DirectInv,
         DirectPart!FreedOnce
<1>2. DirectPart!WrittenIsSent' /\ (s11 \in 0 .. Length)'
  BY <1>1, SentStays
<1>3. CASE DirectPart!channelOpened
  <2>1. PICK c \in 1 .. MaxChannels \ (s4 \cup {s5, s7}) :
          s6' = c /\ s4' = s4 \cup {c}
    BY <1>3 DEF DirectPart!channelOpened
  <2>2. c \in Nat /\ c # 0 /\ c # s5 /\ c # s7
    BY <2>1
  <2>3. s6 = 0 /\ UNCHANGED <<s5, s7, s9, s3, s8>>
    BY <1>3 DEF DirectPart!channelOpened, DirectPart!DirectInv
  <2>4. DirectPart!NotLost'
    BY <2>1, <2>3 DEF DirectPart!DirectInv, DirectPart!NotLost
  <2> QED
    BY <1>1, <1>2, <1>3, <2>1, <2>2, <2>3, <2>4
    DEF DirectPart!channelOpened, DirectPart!DirectInv
<1>4. CASE DirectPart!openDirectTcpip \/ DirectPart!openFails
  BY <1>1, <1>2, <1>4
  DEF DirectPart!openDirectTcpip, DirectPart!openFails, DirectPart!stopping,
      DirectPart!libssh2, DirectPart!known, DirectPart!DirectInv,
      DirectPart!NotLost
<1> QED
  BY <1>3, <1>4

LEMMA ClientInv ==
  ASSUME DirectFits, DirectPart!DirectInv, DirectPart!Client
  PROVE  DirectPart!DirectInv'
<1>1. CASE DirectPart!connectedCheck \/ DirectPart!writeEnds
  <2>1. UNCHANGED <<DirectPart!data, s10>>
    BY <1>1
    DEF DirectPart!connectedCheck, DirectPart!writeEnds, DirectPart!libssh2
  <2>2. DirectPart!WrittenIsSent' /\ (s11 \in 0 .. Length)'
    BY <2>1, SentStays
  <2> QED
    BY <1>1, <2>1, <2>2
    DEF DirectPart!connectedCheck, DirectPart!writeEnds, DirectPart!stopping,
        DirectPart!libssh2, DirectPart!known, DirectPart!DirectInv,
        DirectPart!NotLost, DirectPart!FreedOnce
<1>2. CASE DirectPart!writeBegins
  <2>1. s11' = 0 /\ s12' = <<>> /\ 0 \in 0 .. Length
    BY <1>2 DEF DirectPart!writeBegins, DirectFits
  <2>2. DirectPart!WrittenIsSent'
    BY <2>1 DEF DirectPart!WrittenIsSent
  <2> QED
    BY <1>2, <2>1, <2>2
    DEF DirectPart!writeBegins, DirectPart!stopping, DirectPart!libssh2,
        DirectPart!known, DirectPart!DirectInv, DirectPart!NotLost,
        DirectPart!FreedOnce
<1> QED
  BY <1>1, <1>2, WriteInv, CallInv, FreesInv, StopInv, OpenInv
  DEF DirectPart!Client

LEMMA DirectStep == DirectFits /\ DirectPart!DirectInv
                    /\ [DirectPart!Next]_(DirectPart!vars)
                       => DirectPart!DirectInv'
<1> SUFFICES ASSUME DirectFits, DirectPart!DirectInv,
                    [DirectPart!Next]_(DirectPart!vars)
                    PROVE DirectPart!DirectInv'
  OBVIOUS
<1>1. CASE UNCHANGED DirectPart!vars
  BY <1>1
  DEF DirectPart!vars, DirectPart!DirectInv, DirectPart!WrittenIsSent,
      DirectPart!NotLost, DirectPart!FreedOnce
<1> QED
  BY <1>1, TunnelTaskInv, ClientInv DEF DirectPart!Next

LEMMA DirectPromises == DirectPart!DirectInv => DirectPart!WrittenIsSent
                        /\ DirectPart!NotLost /\ DirectPart!FreedOnce
  BY DEF DirectPart!DirectInv

-----------------------------------------------------------------------------
(* LoopTimers *)
(* In this part s1 is millis; s2 is timers; s3 is gap; s4 is fired; s5 is  *)
(* lock; s6 is pin; s7 is contact.                                         *)

\* The counter does not come around within an interval and a gap, nor within
\* the debounce time.
TimersFit ==
  /\ TimersWrap \in Nat \ {0} /\ DOOR_DELAY \in Nat \ {0}
  /\ Period \in Nat \ {0}
  /\ DOOR_CONTACT_DEBOUNCE_MS \in Nat /\ MaxGap \in Nat
  /\ DOOR_DELAY + MaxGap < TimersWrap /\ Period + MaxGap < TimersWrap
  /\ DOOR_CONTACT_DEBOUNCE_MS <= TimersWrap

\* A remainder of the counter is one subtraction at most.
LEMMA CounterMod ==
  ASSUME TimersFit, NEW a \in 0 .. 2 * TimersWrap - 1
  PROVE  a % TimersWrap = (IF a < TimersWrap THEN a ELSE a - TimersWrap)
<1>1. TimersWrap \in Nat \ {0}
  BY DEF TimersFit
<1>2. CASE a < TimersWrap
  BY <1>1, <1>2
<1>3. CASE a >= TimersWrap
  BY <1>1, <1>3
<1> QED
  BY <1>1, <1>2, <1>3

LEMMA TimersInit == TimersFit /\ TimersPart!Init => TimersPart!TimersInv
<1> SUFFICES ASSUME TimersFit, TimersPart!Init PROVE TimersPart!TimersInv
  OBVIOUS
<1>1. TimersWrap \in Nat \ {0} /\ MaxGap \in Nat
      /\ DOOR_CONTACT_DEBOUNCE_MS \in Nat
  BY DEF TimersFit
<1>2. TimersPart!Off \in TimersPart!Timer /\ ~TimersPart!Off.active
  BY DEF TimersPart!Off, TimersPart!Timer, TimersPart!Actions
<1>3. /\ s1 \in 0 .. TimersWrap - 1 /\ s3 \in 0 .. MaxGap
      /\ s6 \in BOOLEAN
  <2>1. s3 = 0 /\ s1 \in 0 .. TimersWrap - 1 /\ s6 \in BOOLEAN
    BY DEF TimersPart!Init
  <2> QED
    BY <1>1, <2>1
<1>4. s2 \in [TimersPart!Slots -> TimersPart!Timer]
      /\ \A i \in TimersPart!Slots : ~s2[i].active
  BY <1>2 DEF TimersPart!Init
<1>5. TimersPart!FiresOnTime
  BY DEF TimersPart!Init, TimersPart!FiresOnTime
<1>6. /\ s7 \in [sampled : BOOLEAN, startedAt : 0 .. TimersWrap - 1,
                 last : BOOLEAN,
                      same : 0 .. DOOR_CONTACT_DEBOUNCE_MS]
      /\ s7.same = 0 /\ s7.startedAt = s1
  BY <1>1, <1>3 DEF TimersPart!Init
<1>7. TimersPart!since(s1) = 0
  BY <1>1, <1>3, CounterMod DEF TimersPart!since
<1> QED
  BY <1>3, <1>4, <1>5, <1>6, <1>7
  DEF TimersPart!TimersInv, TimersPart!ContactCounted

\* What was started just now has lasted no time.
LEMMA JustNow ==
  ASSUME TimersFit, TimersPart!TimersInv
  PROVE  TimersPart!since(s1) = 0
BY CounterMod DEF TimersFit, TimersPart!TimersInv, TimersPart!since

\* A tick makes the time since a start longer by one, until the counter has
\* come around.
LEMMA OneLater ==
  ASSUME TimersFit, TimersPart!TimersInv, TimersPart!tick,
         NEW x \in 0 .. TimersWrap - 1, TimersPart!since(x) + 1 < TimersWrap
  PROVE  TimersPart!since(x)' = TimersPart!since(x) + 1
<1> DEFINE m == s1
           n == s1'
<1>1. TimersWrap \in Nat \ {0} /\ m \in 0 .. TimersWrap - 1
  BY DEF TimersFit, TimersPart!TimersInv
<1>2. n = IF m + 1 < TimersWrap THEN m + 1 ELSE 0
  <2>1. m + 1 \in 0 .. 2 * TimersWrap - 1
    BY <1>1
  <2>2. n = (m + 1) % TimersWrap
    BY DEF TimersPart!tick
  <2> QED
    BY <1>1, <2>1, <2>2, CounterMod
<1> HIDE DEF m, n
<1>3. (m + TimersWrap - x) % TimersWrap
          = IF m >= x THEN m - x ELSE m + TimersWrap - x
  <2>1. m + TimersWrap - x \in 0 .. 2 * TimersWrap - 1
    BY <1>1
  <2> QED
    BY <1>1, <2>1, CounterMod
<1>4. (n + TimersWrap - x) % TimersWrap
          = IF n >= x THEN n - x ELSE n + TimersWrap - x
  <2>1. n + TimersWrap - x \in 0 .. 2 * TimersWrap - 1
    BY <1>1, <1>2
  <2> QED
    BY <1>1, <1>2, <2>1, CounterMod
<1>5. TimersPart!since(x) = (m + TimersWrap - x) % TimersWrap
      /\ TimersPart!since(x)' = (n + TimersWrap - x) % TimersWrap
  BY DEF TimersPart!since, m, n
<1> QED
  BY <1>1, <1>2, <1>3, <1>4, <1>5

\* A timer that is started: none of its interval has passed.
LEMMA StartedCounted ==
  ASSUME TimersFit, TimersPart!TimersInv, NEW t \in {DOOR_DELAY, Period},
         NEW repeats \in BOOLEAN,
         NEW act \in TimersPart!Actions
  PROVE  TimersPart!started(t, repeats, act) \in TimersPart!Timer
         /\ TimersPart!Counted(TimersPart!started(t, repeats, act))
<1> DEFINE new == TimersPart!started(t, repeats, act)
<1>1. /\ new.startedAt = s1 /\ new.interval = t /\ new.passed = 0
      /\ t \in Nat \ {0} /\ s3 \in Nat /\ s1 \in 0 .. TimersWrap - 1
      /\ s1 \in Nat
  BY DEF TimersPart!started, TimersFit, TimersPart!TimersInv
<1>2. new \in TimersPart!Timer
  BY <1>1 DEF TimersPart!started, TimersPart!Timer
<1> HIDE DEF new
<1>3. TimersPart!Counted(new)
  BY <1>1, JustNow DEF TimersPart!Counted
<1> QED
  BY <1>2, <1>3 DEF new

\* A start or a cancellation changes one slot.
LEMMA SlotInv ==
  ASSUME TimersFit, TimersPart!TimersInv, NEW k, NEW t \in TimersPart!Timer,
         t.active => TimersPart!Counted(t),
         s2' = [s2 EXCEPT ![k] = t],
         UNCHANGED <<s1, s3, s4, s6, s7>>
  PROVE  TimersPart!TimersInv'
<1>1. s2' \in [TimersPart!Slots -> TimersPart!Timer]
  BY DEF TimersPart!TimersInv
<1>2. \A i \in TimersPart!Slots : s2'[i] = s2[i] \/ s2'[i] = t
  BY DEF TimersPart!TimersInv
<1>3. \A i \in TimersPart!Slots : s2'[i].active => TimersPart!Counted(s2'[i])
  BY <1>2 DEF TimersPart!TimersInv
<1>5. \A i \in TimersPart!Slots : (s2[i].active => TimersPart!Counted(s2[i]))'
  BY <1>3 DEF TimersPart!Counted, TimersPart!since
<1> QED
  BY <1>1, <1>5
  DEF TimersPart!TimersInv, TimersPart!FiresOnTime, TimersPart!ContactCounted,
      TimersPart!since

LEMMA SlotActionInv ==
  ASSUME TimersFit, TimersPart!TimersInv, TimersPart!scheduleRepeat
         \/ TimersPart!cancel \/ TimersPart!openDoor
  PROVE  TimersPart!TimersInv'
<1>1. CASE TimersPart!scheduleRepeat
  <2>1. TimersPart!started(Period, TRUE, "PERIODIC") \in TimersPart!Timer
        /\ TimersPart!Counted(TimersPart!started(Period, TRUE, "PERIODIC"))
    BY StartedCounted DEF TimersPart!Actions
  <2> QED
    BY <1>1, <2>1, SlotInv DEF TimersPart!scheduleRepeat
<1>2. CASE TimersPart!cancel
  <2>1. TimersPart!Off \in TimersPart!Timer /\ ~TimersPart!Off.active
    BY DEF TimersPart!Off, TimersPart!Timer, TimersPart!Actions
  <2> QED
    BY <1>2, <2>1, SlotInv DEF TimersPart!cancel
<1>3. CASE TimersPart!openDoor /\ TimersPart!free # {}
  <2>1. /\ TimersPart!started(DOOR_DELAY, FALSE, "LOCK_DEACTIVATE")
               \in TimersPart!Timer
        /\ TimersPart!Counted(TimersPart!started(DOOR_DELAY, FALSE,
                                                 "LOCK_DEACTIVATE"))
    BY StartedCounted DEF TimersPart!Actions
  <2> QED
    BY <1>3, <2>1, SlotInv DEF TimersPart!openDoor
<1>4. CASE TimersPart!openDoor /\ TimersPart!free = {}
  BY <1>4
  DEF TimersPart!openDoor, TimersPart!TimersInv, TimersPart!Counted,
      TimersPart!FiresOnTime, TimersPart!ContactCounted, TimersPart!since
<1> QED
  BY <1>1, <1>2, <1>3, <1>4

\* A round of loop(): what is due fires, and what goes on is not due.
LEMMA LoopTimersInv ==
  ASSUME TimersFit, TimersPart!TimersInv, TimersPart!loop
  PROVE  /\ s2' \in [TimersPart!Slots -> TimersPart!Timer]
         /\ \A i \in TimersPart!Slots : (s2[i].active
                                           => TimersPart!Counted(s2[i]))'
         /\ TimersPart!FiresOnTime'
<1>0. s3 \in 0 .. MaxGap /\ MaxGap \in Nat /\ s3' = 0 /\ s1' = s1
      /\ s1 \in 0 .. TimersWrap - 1
  BY DEF TimersFit, TimersPart!TimersInv, TimersPart!loop
<1>1. \A i \in TimersPart!Slots : s2'[i] = TimersPart!afterUpdate(i)
  BY DEF TimersPart!loop
<1>2. ASSUME NEW i \in TimersPart!Slots
      PROVE  s2'[i] \in TimersPart!Timer
             /\ (s2[i].active => TimersPart!Counted(s2[i]))'
  <2>1. s2[i] \in TimersPart!Timer
        /\ (s2[i].active => TimersPart!Counted(s2[i]))
    BY DEF TimersPart!TimersInv
  <2>2. CASE i \notin TimersPart!expired
    <3>1. s2'[i] = s2[i]
      BY <1>1, <2>2 DEF TimersPart!afterUpdate
    <3>2. ASSUME s2[i].active PROVE s2[i].passed < s2[i].interval
      <4>1. ~TimersPart!timeoutElapsed(s2[i].startedAt, s2[i].interval, s1)
        BY <2>2, <3>2 DEF TimersPart!expired
      <4>2. TimersPart!since(s2[i].startedAt) = s2[i].passed
        BY <2>1, <3>2 DEF TimersPart!Counted
      <4> QED
        BY <2>1, <4>1, <4>2
        DEF TimersPart!timeoutElapsed, TimersPart!since, TimersPart!Timer
    <3> QED
      BY <1>0, <2>1, <3>1, <3>2
      DEF TimersPart!Counted, TimersPart!since, TimersPart!Timer
  <2>3. CASE i \in TimersPart!expired /\ s2[i].repeat
    <3>0. s1 \in Nat /\ 0 \in Nat
      BY DEF TimersFit, TimersPart!TimersInv
    <3>1. s2'[i] = [s2[i] EXCEPT !.startedAt = s1, !.passed = 0]
      BY <1>1, <2>3 DEF TimersPart!afterUpdate
    <3>2. /\ s2'[i] \in TimersPart!Timer
          /\ s2'[i].startedAt = s1 /\ s2'[i].passed = 0
          /\ s2'[i].interval = s2[i].interval
      BY <2>1, <3>0, <3>1 DEF TimersPart!Timer
    <3>3. s2[i].interval \in {DOOR_DELAY, Period}
      BY <2>1, <2>3 DEF TimersPart!expired, TimersPart!Counted
    <3> QED
      BY <1>0, <3>2, <3>3, JustNow
      DEF TimersPart!Counted, TimersPart!since, TimersFit
  <2>4. CASE i \in TimersPart!expired /\ ~s2[i].repeat
    <3>1. s2'[i] = TimersPart!Off
      BY <1>1, <2>4 DEF TimersPart!afterUpdate
    <3> QED
      BY <3>1 DEF TimersPart!Off, TimersPart!Timer, TimersPart!Actions
  <2> QED
    BY <2>2, <2>3, <2>4
<1>4. s2' \in [TimersPart!Slots -> TimersPart!Timer]
  BY <1>2 DEF TimersPart!loop
<1>3. TimersPart!FiresOnTime'
  <2>1. SUFFICES ASSUME NEW i \in TimersPart!expired
                 PROVE  s2[i].interval <= s2[i].passed
                            /\ s2[i].passed <= s2[i].interval + MaxGap
    BY DEF TimersPart!FiresOnTime, TimersPart!loop
  <2>2. i \in TimersPart!Slots /\ s2[i].active /\ s2[i] \in TimersPart!Timer
        /\ TimersPart!Counted(s2[i])
        /\ TimersPart!timeoutElapsed(s2[i].startedAt, s2[i].interval, s1)
    BY DEF TimersPart!expired, TimersPart!TimersInv
  <2> QED
    BY <1>0, <2>2
    DEF TimersPart!Counted, TimersPart!since, TimersPart!timeoutElapsed,
        TimersPart!Timer
<1> QED
  BY <1>2, <1>3, <1>4

\* The contact: it is settled, or was sampled when it began to look the same.
LEMMA DebouncedInv ==
  ASSUME TimersFit, TimersPart!TimersInv, TimersPart!loop
  PROVE  /\ s7' \in [sampled : BOOLEAN, startedAt : 0 .. TimersWrap - 1,
                     last : BOOLEAN,
                          same : 0 .. DOOR_CONTACT_DEBOUNCE_MS]
         /\ TimersPart!ContactCounted'
         /\ TimersPart!SettledStep
<1> DEFINE C == [sampled : BOOLEAN, startedAt : 0 .. TimersWrap - 1,
                 last : BOOLEAN,
                 same : 0 .. DOOR_CONTACT_DEBOUNCE_MS]
           c == IF s6 = s7.sampled THEN s7
                ELSE [s7 EXCEPT !.sampled = s6, !.startedAt = s1, !.same = 0]
<1>1. /\ s7 \in C /\ s6 \in BOOLEAN /\ s1 \in 0 .. TimersWrap - 1
      /\ DOOR_CONTACT_DEBOUNCE_MS \in Nat /\ s1' = s1
  BY DEF TimersPart!TimersInv, TimersFit, TimersPart!loop
<1>2. /\ c \in C /\ c.last = s7.last
      /\ c.same < DOOR_CONTACT_DEBOUNCE_MS
             => TimersPart!since(c.startedAt) = c.same
  <2>1. CASE s6 = s7.sampled
    BY <1>1, <2>1 DEF TimersPart!TimersInv, TimersPart!ContactCounted
  <2>2. CASE s6 # s7.sampled
    <3>0. c = [s7 EXCEPT !.sampled = s6, !.startedAt = s1, !.same = 0]
      BY <2>2
    <3>1. 0 \in 0 .. DOOR_CONTACT_DEBOUNCE_MS
      BY <1>1
    <3> HIDE DEF c
    <3>2. c \in C /\ c.last = s7.last /\ c.startedAt = s1 /\ c.same = 0
      BY <1>1, <3>0, <3>1
    <3> QED
      BY <3>2, JustNow
  <2> QED
    BY <2>1, <2>2
<1>3. s7' = IF s6 # c.last
      /\ TimersPart!timeoutElapsed(c.startedAt, DOOR_CONTACT_DEBOUNCE_MS, s1)
                   THEN [c EXCEPT !.last = s6]
                   ELSE c
  BY DEF TimersPart!loop, TimersPart!debounced
<1> HIDE DEF c
<1>4. /\ s7' \in C /\ s7'.startedAt = c.startedAt /\ s7'.same = c.same
      /\ s7'.last # c.last =>
           s6 = s7'.last
           /\ TimersPart!timeoutElapsed(c.startedAt, DOOR_CONTACT_DEBOUNCE_MS,
                                        s1)
  BY <1>1, <1>2, <1>3
<1>5. TimersPart!ContactCounted'
  BY <1>1, <1>2, <1>4 DEF TimersPart!ContactCounted, TimersPart!since
<1>6. TimersPart!SettledStep
  BY <1>1, <1>2, <1>4
  DEF TimersPart!SettledStep, TimersPart!since, TimersPart!timeoutElapsed
<1> QED
  BY <1>4, <1>5, <1>6

LEMMA TickInv ==
  ASSUME TimersFit, TimersPart!TimersInv, TimersPart!tick
  PROVE  TimersPart!TimersInv'
<1>0. /\ TimersWrap \in Nat \ {0} /\ MaxGap \in Nat /\ s3 \in 0 .. MaxGap
      /\ s3' = s3 + 1
      /\ s3' \in 0 .. MaxGap /\ DOOR_DELAY \in Nat /\ Period \in Nat
      /\ DOOR_CONTACT_DEBOUNCE_MS \in Nat
      /\ s1' \in 0 .. TimersWrap - 1
  BY DEF TimersFit, TimersPart!TimersInv, TimersPart!tick
<1>1. ASSUME NEW i \in TimersPart!Slots
      PROVE  /\ s2'[i] \in TimersPart!Timer
             /\ s2'[i].active => TimersPart!Counted(s2[i])'
  <2>1. s2[i] \in TimersPart!Timer
        /\ (s2[i].active => TimersPart!Counted(s2[i]))
    BY DEF TimersPart!TimersInv
  <2>2. CASE ~s2[i].active
    BY <2>1, <2>2 DEF TimersPart!tick
  <2>3. CASE s2[i].active
    <3>1. s2'[i] = [s2[i] EXCEPT !.passed
                      = TimersPart!Later(@, TimersPart!Cap)]
      BY <2>3 DEF TimersPart!tick
    <3>2. /\ s2[i].passed \in Nat
          /\ s2[i].passed + 1 < s2[i].interval + s3'
          /\ s2[i].passed + 1 < TimersWrap /\ s2[i].passed < TimersPart!Cap
      BY <1>0, <2>1, <2>3
      DEF TimersPart!Counted, TimersPart!Timer, TimersFit, TimersPart!Cap
    <3>3. /\ s2'[i] \in TimersPart!Timer /\ s2'[i].passed = s2[i].passed + 1
          /\ s2'[i].startedAt = s2[i].startedAt
          /\ s2'[i].interval = s2[i].interval
      BY <2>1, <3>1, <3>2 DEF TimersPart!Timer, TimersPart!Later
    <3>4. TimersPart!since(s2[i].startedAt)' = s2'[i].passed
      <4>1. s2[i].startedAt \in 0 .. TimersWrap - 1
            /\ TimersPart!since(s2[i].startedAt) = s2[i].passed
        BY <2>1, <2>3 DEF TimersPart!Counted
      <4>2. (s1' + TimersWrap - s2[i].startedAt) % TimersWrap
                = s2[i].passed + 1
        BY <3>2, <4>1, OneLater DEF TimersPart!since
      <4> QED
        BY <3>3, <4>2 DEF TimersPart!since
    <3> QED
      BY <2>1, <2>3, <3>2, <3>3, <3>4 DEF TimersPart!Counted
  <2> QED
    BY <2>2, <2>3
<1>2. s2' \in [TimersPart!Slots -> TimersPart!Timer]
  BY <1>1 DEF TimersPart!tick
<1>3. s7' = [s7 EXCEPT !.same
               = TimersPart!Later(s7.same, DOOR_CONTACT_DEBOUNCE_MS)]
  BY DEF TimersPart!tick
<1>4. /\ s7' \in [sampled : BOOLEAN, startedAt : 0 .. TimersWrap - 1,
                  last : BOOLEAN,
                       same : 0 .. DOOR_CONTACT_DEBOUNCE_MS]
      /\ s7'.startedAt = s7.startedAt
      /\ s7'.same = TimersPart!Later(s7.same, DOOR_CONTACT_DEBOUNCE_MS)
  BY <1>0, <1>3 DEF TimersPart!TimersInv, TimersPart!Later
<1>5. TimersPart!ContactCounted'
  <2>1. SUFFICES ASSUME s7'.same < DOOR_CONTACT_DEBOUNCE_MS
                 PROVE  (s1' + TimersWrap - s7.startedAt) % TimersWrap
                            = s7'.same
    BY <1>4 DEF TimersPart!ContactCounted, TimersPart!since
  <2>2. s7.startedAt \in 0 .. TimersWrap - 1 /\ s7.same \in Nat
    BY <1>0 DEF TimersPart!TimersInv
  <2>3. s7'.same = s7.same + 1 /\ s7.same < DOOR_CONTACT_DEBOUNCE_MS
    BY <1>0, <1>4, <2>1, <2>2 DEF TimersPart!Later
  <2>4. TimersPart!since(s7.startedAt) = s7.same /\ s7.same + 1 < TimersWrap
    BY <1>0, <2>1, <2>2, <2>3
    DEF TimersPart!TimersInv, TimersPart!ContactCounted, TimersFit
  <2> QED
    BY <2>2, <2>3, <2>4, OneLater DEF TimersPart!since
<1>6. TimersPart!FiresOnTime' /\ s6' = s6
  BY DEF TimersPart!FiresOnTime, TimersPart!tick
<1> QED
  BY <1>0, <1>1, <1>2, <1>4, <1>5, <1>6 DEF TimersPart!TimersInv

LEMMA TimersStep == TimersFit /\ TimersPart!TimersInv
                    /\ [TimersPart!Next]_(TimersPart!vars)
                       => TimersPart!TimersInv'
<1> SUFFICES ASSUME TimersFit, TimersPart!TimersInv,
                    [TimersPart!Next]_(TimersPart!vars)
                    PROVE TimersPart!TimersInv'
  OBVIOUS
<1>1. CASE TimersPart!loop
  <2>1. s1' = s1 /\ s3' = 0 /\ s6' = s6 /\ MaxGap \in Nat
    BY <1>1 DEF TimersPart!loop, TimersFit
  <2> QED
    BY <1>1, <2>1, LoopTimersInv, DebouncedInv DEF TimersPart!TimersInv
<1>2. CASE TimersPart!contactMoves
  <2>1. UNCHANGED <<s1, s2, s3, s4, s7>> /\ s6' \in BOOLEAN
    BY <1>2 DEF TimersPart!contactMoves
  <2> QED
    BY <2>1
    DEF TimersPart!TimersInv, TimersPart!Counted, TimersPart!FiresOnTime,
        TimersPart!ContactCounted, TimersPart!since
<1>3. CASE UNCHANGED TimersPart!vars
  BY <1>3
  DEF TimersPart!vars, TimersPart!TimersInv, TimersPart!Counted,
      TimersPart!FiresOnTime, TimersPart!ContactCounted, TimersPart!since
<1> QED
  BY <1>1, <1>2, <1>3, SlotActionInv, TickInv DEF TimersPart!Next

\* What the code takes for the time left is what is left.
LEMMA TimersPromise == TimersFit /\ TimersPart!TimersInv
                       => TimersPart!FiresOnTime /\ TimersPart!NothingOverdue
<1> SUFFICES ASSUME TimersFit, TimersPart!TimersInv, s3 = 0,
                    NEW i \in TimersPart!Slots, s2[i].active
             PROVE  /\ s2[i].passed < s2[i].interval
                    /\ TimersPart!timeoutRemaining(s2[i].startedAt,
                                                   s2[i].interval, s1)
                         = s2[i].interval - s2[i].passed
  BY DEF TimersPart!TimersInv, TimersPart!NothingOverdue
<1>1. /\ s2[i].passed \in Nat /\ s2[i].interval \in Nat
      /\ s2[i].passed < s2[i].interval
      /\ TimersPart!since(s2[i].startedAt) = s2[i].passed
  BY DEF TimersPart!TimersInv, TimersPart!Counted, TimersPart!Timer
<1> QED
  BY <1>1 DEF TimersPart!timeoutRemaining, TimersPart!since

\* The state of a contact that is passed on is one it has kept.
LEMMA SettledNext == TimersFit /\ TimersPart!TimersInv
                     /\ [TimersPart!Next]_(TimersPart!vars)
                        => (TimersPart!SettledStep
                        \/ UNCHANGED TimersPart!vars)
<1> SUFFICES ASSUME TimersFit, TimersPart!TimersInv, TimersPart!Next
             PROVE TimersPart!SettledStep
  OBVIOUS
<1>1. CASE TimersPart!loop
  BY <1>1, DebouncedInv
<1>2. CASE TimersPart!tick
  <2>1. s7'.last = s7.last
    BY <1>2 DEF TimersPart!tick, TimersPart!TimersInv
  <2> QED
    BY <2>1 DEF TimersPart!SettledStep
<1>3. CASE TimersPart!scheduleRepeat \/ TimersPart!cancel
           \/ TimersPart!openDoor \/ TimersPart!contactMoves
  BY <1>3
  DEF TimersPart!scheduleRepeat, TimersPart!cancel, TimersPart!openDoor,
      TimersPart!contactMoves, TimersPart!SettledStep
<1> QED
  BY <1>1, <1>2, <1>3 DEF TimersPart!Next

-----------------------------------------------------------------------------
(* CircuitBreaker *)
(* In this part s1 is now; s2 is health; s3 is age.                        *)

\* A delay is at most half a turn of the clock.
BreakerFits ==
  /\ BreakerWrap \in Nat \ {0} /\ FAIL_THRESHOLD \in Nat \ {0}
  /\ MaxFails \in Nat
  /\ \A fails \in FAIL_THRESHOLD .. MaxFails : BreakerPart!Delay(fails)
         \in 0 .. BreakerWrap \div 2

LEMMA ClockMod ==
  ASSUME BreakerFits, NEW a \in 0 .. 2 * BreakerWrap - 1
  PROVE  a % BreakerWrap = (IF a < BreakerWrap THEN a ELSE a - BreakerWrap)
<1>1. BreakerWrap \in Nat \ {0}
  BY DEF BreakerFits
<1>2. CASE a < BreakerWrap
  BY <1>1, <1>2
<1>3. CASE a >= BreakerWrap
  BY <1>1, <1>3
<1> QED
  BY <1>1, <1>2, <1>3

LEMMA HalfTurn ==
  ASSUME BreakerFits
  PROVE  BreakerWrap \div 2 \in Nat
         /\ 2 * (BreakerWrap \div 2) <= BreakerWrap
                /\ BreakerWrap <= 2 * (BreakerWrap \div 2) + 1
BY DEF BreakerFits

LEMMA BreakerInit == BreakerFits /\ BreakerPart!Init => BreakerPart!BreakerInv
<1> SUFFICES ASSUME BreakerFits, BreakerPart!Init PROVE BreakerPart!BreakerInv
  OBVIOUS
<1>1. DOMAIN s2 = {} /\ s1 \in 0 .. BreakerWrap - 1
  BY DEF BreakerPart!Init
<1>2. s3 \in [Port -> 0 .. BreakerWrap]
  BY DEF BreakerPart!Init, BreakerFits
<1> QED
  BY <1>1, <1>2 DEF BreakerPart!BreakerInv

\* One tick: the time of the last failure is the same until the clock has come
\* around.
LEMMA FailedStays ==
  ASSUME BreakerFits, NEW m \in 0 .. BreakerWrap - 1, NEW a \in Nat,
         a + 1 < BreakerWrap
  PROVE  (((m + 1) % BreakerWrap) + BreakerWrap - (a + 1)) % BreakerWrap
             = (m + BreakerWrap - a) % BreakerWrap
<1> DEFINE n == (m + 1) % BreakerWrap
<1>1. BreakerWrap \in Nat \ {0}
  BY DEF BreakerFits
<1>2. n = IF m + 1 < BreakerWrap THEN m + 1 ELSE 0
  <2>1. m + 1 \in 0 .. 2 * BreakerWrap - 1
    BY <1>1
  <2> QED
    BY <1>1, <2>1, ClockMod
<1> HIDE DEF n
<1>3. n + BreakerWrap - (a + 1) \in 0 .. 2 * BreakerWrap - 1
      /\ m + BreakerWrap - a \in 0 .. 2 * BreakerWrap - 1
  BY <1>1, <1>2
<1>4. (n + BreakerWrap - (a + 1)) % BreakerWrap
        = IF n + BreakerWrap - (a + 1) < BreakerWrap
            THEN n + BreakerWrap - (a + 1) ELSE n - (a + 1)
  BY <1>1, <1>2, <1>3, ClockMod
<1>5. (m + BreakerWrap - a) % BreakerWrap
          = IF m + BreakerWrap - a < BreakerWrap
              THEN m + BreakerWrap - a ELSE m - a
  BY <1>1, <1>3, ClockMod
<1>6. (n + BreakerWrap - (a + 1)) % BreakerWrap
          = (m + BreakerWrap - a) % BreakerWrap
  BY <1>1, <1>2, <1>4, <1>5
<1> QED
  BY <1>6 DEF n

LEMMA BreakerTick ==
  ASSUME BreakerFits, BreakerPart!BreakerInv, BreakerPart!tick
  PROVE  BreakerPart!BreakerInv'
<1>1. BreakerWrap \in Nat \ {0} /\ s1 \in 0 .. BreakerWrap - 1
      /\ s1' = (s1 + 1) % BreakerWrap /\ s2' = s2
  BY DEF BreakerFits, BreakerPart!BreakerInv, BreakerPart!tick
<1>2. s1' \in 0 .. BreakerWrap - 1
  BY <1>1
<1>3. /\ s3' \in [Port -> 0 .. BreakerWrap]
      /\ \A p \in Port : s3'[p] = BreakerPart!AtMost(s3[p] + 1, BreakerWrap)
  <2>1. \A p \in Port : s3[p] \in 0 .. BreakerWrap
    BY DEF BreakerPart!BreakerInv
  <2>2. \A p \in Port : BreakerPart!AtMost(s3[p] + 1, BreakerWrap)
            \in 0 .. BreakerWrap
    BY <1>1, <2>1 DEF BreakerPart!AtMost
  <2> QED
    BY <2>2 DEF BreakerPart!tick
<1>4. ASSUME NEW p \in DOMAIN s2, s3'[p] < BreakerWrap
      PROVE  BreakerPart!FailedAt(p)' = BreakerPart!FailedAt(p)
             /\ s3[p] < BreakerWrap
  <2>1. p \in Port /\ s3[p] \in 0 .. BreakerWrap
        /\ s3'[p] = BreakerPart!AtMost(s3[p] + 1, BreakerWrap)
    BY <1>3 DEF BreakerPart!BreakerInv
  <2>2. s3'[p] = s3[p] + 1 /\ s3[p] + 1 < BreakerWrap
    BY <1>1, <1>4, <2>1 DEF BreakerPart!AtMost
  <2>3. s3[p] \in Nat
    BY <1>1, <2>1
  <2>4. (((s1 + 1) % BreakerWrap) + BreakerWrap - (s3[p] + 1)) % BreakerWrap
            = (s1 + BreakerWrap - s3[p]) % BreakerWrap
    BY <1>1, <2>2, <2>3, FailedStays
  <2> QED
    BY <1>1, <2>1, <2>2, <2>4 DEF BreakerPart!FailedAt
<1> QED
  BY <1>1, <1>2, <1>3, <1>4 DEF BreakerPart!BreakerInv, BreakerPart!Delay

\* An entry of the table is written, the others stay as they are.
LEMMA EntryInv ==
  ASSUME BreakerFits, BreakerPart!BreakerInv, NEW q \in Port, NEW h, s1' = s1,
         s2' = BreakerPart!With(q, h),
         s3' = s3 \/ s3' = [s3 EXCEPT ![q] = 0],
         h.fails \in 0 .. MaxFails, h.until \in 0 .. BreakerWrap - 1,
         h.fails >= FAIL_THRESHOLD =>
           s3' = [s3 EXCEPT ![q] = 0]
           /\ h.until = (s1 + BreakerPart!Delay(h.fails)) % BreakerWrap
  PROVE  BreakerPart!BreakerInv'
<1>1. /\ BreakerWrap \in Nat \ {0} /\ s1 \in 0 .. BreakerWrap - 1
      /\ s1' \in 0 .. BreakerWrap - 1
      /\ s3 \in [Port -> 0 .. BreakerWrap] /\ DOMAIN s2 \subseteq Port
  BY DEF BreakerFits, BreakerPart!BreakerInv
<1>2. s3' \in [Port -> 0 .. BreakerWrap]
  BY <1>1
<1>3. /\ DOMAIN s2' = DOMAIN s2 \cup {q}
      /\ \A p \in DOMAIN s2' : s2'[p] = IF p = q THEN h ELSE s2[p]
  BY DEF BreakerPart!With
<1>4. (s1 + BreakerWrap - 0) % BreakerWrap = s1
  <2>1. s1 + BreakerWrap \in 0 .. 2 * BreakerWrap - 1
        /\ s1 + BreakerWrap - 0 = s1 + BreakerWrap
    BY <1>1
  <2> QED
    BY <1>1, <2>1, ClockMod
<1>5. ASSUME NEW p \in DOMAIN s2'
      PROVE  /\ s2'[p].fails \in 0 .. MaxFails
             /\ s2'[p].until \in 0 .. BreakerWrap - 1
             /\ s2'[p].fails >= FAIL_THRESHOLD /\ s3'[p] < BreakerWrap =>
                  s2'[p].until
                      = (BreakerPart!FailedAt(p)' + BreakerPart!Delay(s2'[p].fails)) % BreakerWrap
  <2>1. CASE p = q
    <3>1. s2'[p] = h
      BY <1>3, <2>1
    <3>2. ASSUME h.fails >= FAIL_THRESHOLD
          PROVE  BreakerPart!FailedAt(p)' = s1
                 /\ h.until = (s1 + BreakerPart!Delay(h.fails)) % BreakerWrap
      <4>1. s3'[p] = 0
        BY <1>1, <2>1, <3>2
      <4> QED
        BY <1>4, <3>2, <4>1 DEF BreakerPart!FailedAt
    <3> QED
      BY <3>1, <3>2
  <2>2. CASE p # q
    <3>1. p \in DOMAIN s2 /\ s2'[p] = s2[p] /\ s3'[p] = s3[p]
      BY <1>1, <1>3, <2>2
    <3>2. BreakerPart!FailedAt(p)' = BreakerPart!FailedAt(p)
      BY <3>1 DEF BreakerPart!FailedAt
    <3> QED
      BY <3>1, <3>2 DEF BreakerPart!BreakerInv
  <2> QED
    BY <2>1, <2>2
<1>6. DOMAIN s2' \subseteq Port
  BY <1>1, <1>3
<1> QED
  BY <1>1, <1>2, <1>5, <1>6 DEF BreakerPart!BreakerInv, BreakerPart!Delay

LEMMA FailureInv ==
  ASSUME BreakerFits, BreakerPart!BreakerInv, NEW q \in Port,
         BreakerPart!recordFailure(q)
  PROVE  BreakerPart!BreakerInv'
<1> DEFINE e == BreakerPart!Entry(q)
           h == BreakerPart!failed(e)
<1>1. /\ BreakerWrap \in Nat \ {0} /\ FAIL_THRESHOLD \in Nat \ {0}
      /\ MaxFails \in Nat
      /\ s1 \in 0 .. BreakerWrap - 1 /\ s1' = s1 /\ s3' = [s3 EXCEPT ![q] = 0]
  BY DEF BreakerFits, BreakerPart!BreakerInv, BreakerPart!recordFailure
<1>2. e.fails \in 0 .. MaxFails /\ e.until \in 0 .. BreakerWrap - 1
  BY <1>1 DEF BreakerPart!Entry, BreakerPart!find, BreakerPart!BreakerInv
<1>3. CASE BreakerPart!findOrAlloc(q)
  <2>1. s2' = BreakerPart!With(q, h)
    BY <1>3 DEF BreakerPart!recordFailure
  <2>2. /\ h.fails = BreakerPart!AtMost(e.fails + 1, MaxFails)
        /\ h.until = IF h.fails >= FAIL_THRESHOLD
               THEN (s1 + BreakerPart!Delay(h.fails)) % BreakerWrap
                     ELSE e.until
    BY DEF BreakerPart!failed
  <2>3. h.fails \in 0 .. MaxFails
    BY <1>1, <1>2, <2>2 DEF BreakerPart!AtMost
  <2> HIDE DEF h, e
  <2>4. CASE h.fails >= FAIL_THRESHOLD
    <3>1. h.until = (s1 + BreakerPart!Delay(h.fails)) % BreakerWrap
      BY <2>2, <2>4
    <3>2. BreakerPart!Delay(h.fails) \in Nat
      <4>1. h.fails \in FAIL_THRESHOLD .. MaxFails
        BY <1>1, <2>3, <2>4
      <4>2. BreakerPart!Delay(h.fails) \in 0 .. BreakerWrap \div 2
        BY <4>1 DEF BreakerFits
      <4> QED
        BY <4>2, HalfTurn
    <3>3. h.until \in 0 .. BreakerWrap - 1
      BY <1>1, <3>1, <3>2
    <3> QED
      BY <1>1, <2>1, <2>3, <3>1, <3>3, EntryInv
  <2>5. CASE ~(h.fails >= FAIL_THRESHOLD)
    BY <1>1, <1>2, <2>1, <2>2, <2>3, <2>5, EntryInv
  <2> QED
    BY <2>4, <2>5
<1>4. CASE ~BreakerPart!findOrAlloc(q)
  <2>1. s2' = s2 /\ q \notin DOMAIN s2
    BY <1>4
    DEF BreakerPart!recordFailure, BreakerPart!findOrAlloc, BreakerPart!find
  <2>2. s3' \in [Port -> 0 .. BreakerWrap]
        /\ \A p \in DOMAIN s2 : s3'[p] = s3[p]
    BY <1>1, <2>1 DEF BreakerPart!BreakerInv
  <2>3. \A p \in DOMAIN s2 : BreakerPart!FailedAt(p)' = BreakerPart!FailedAt(p)
    BY <1>1, <2>2 DEF BreakerPart!FailedAt
  <2> QED
    BY <1>1, <2>1, <2>2, <2>3 DEF BreakerPart!BreakerInv, BreakerPart!Delay
<1> QED
  BY <1>3, <1>4

LEMMA SuccessInv ==
  ASSUME BreakerFits, BreakerPart!BreakerInv, NEW q \in Port,
         BreakerPart!recordSuccess(q)
  PROVE  BreakerPart!BreakerInv'
<1> DEFINE h == [fails |-> 0, until |-> 0]
<1>1. /\ BreakerWrap \in Nat \ {0} /\ FAIL_THRESHOLD \in Nat \ {0}
      /\ MaxFails \in Nat
      /\ s1' = s1 /\ s3' = s3
  BY DEF BreakerFits, BreakerPart!recordSuccess
<1>2. h.fails \in 0 .. MaxFails /\ h.until \in 0 .. BreakerWrap - 1
      /\ ~(h.fails >= FAIL_THRESHOLD)
  BY <1>1
<1>3. s2' = s2 \/ s2' = BreakerPart!With(q, h)
  BY DEF BreakerPart!recordSuccess
<1>4. CASE s2' = s2
  BY <1>1, <1>4
  DEF BreakerPart!BreakerInv, BreakerPart!FailedAt, BreakerPart!Delay
<1> HIDE DEF h
<1>5. CASE s2' = BreakerPart!With(q, h)
  BY <1>1, <1>2, <1>5, EntryInv
<1> QED
  BY <1>3, <1>4, <1>5

LEMMA BreakerStep == BreakerFits /\ BreakerPart!BreakerInv
                     /\ [BreakerPart!Next]_(BreakerPart!vars)
                        => BreakerPart!BreakerInv'
<1> SUFFICES ASSUME BreakerFits, BreakerPart!BreakerInv,
                    [BreakerPart!Next]_(BreakerPart!vars)
                    PROVE BreakerPart!BreakerInv'
  OBVIOUS
<1>1. CASE UNCHANGED BreakerPart!vars
  BY <1>1
  DEF BreakerPart!vars, BreakerPart!BreakerInv, BreakerPart!FailedAt,
      BreakerPart!Delay
<1> QED
  BY <1>1, BreakerTick, FailureInv, SuccessInv DEF BreakerPart!Next

\* What the code makes of the time it kept: since the failure less than the
\* delay has passed.
LEMMA BreakerPromise == BreakerFits /\ BreakerPart!BreakerInv
                        => BreakerPart!BacksOffForDelay
<1> SUFFICES ASSUME BreakerFits, BreakerPart!BreakerInv, NEW p \in DOMAIN s2,
                    s2[p].fails >= FAIL_THRESHOLD, s2[p].until # 0,
                    s3[p] < BreakerWrap \div 2
             PROVE  BreakerPart!isBackedOff(p)
                    <=> s3[p] < BreakerPart!Delay(s2[p].fails)
  BY DEF BreakerPart!BacksOffForDelay
<1> DEFINE d == BreakerPart!Delay(s2[p].fails)
           a == s3[p]
           u == s2[p].until
           half == BreakerWrap \div 2
           t == BreakerPart!FailedAt(p)
<1>1. /\ BreakerWrap \in Nat \ {0} /\ s1 \in 0 .. BreakerWrap - 1
      /\ a \in 0 .. BreakerWrap
      /\ half \in Nat /\ 2 * half <= BreakerWrap /\ BreakerWrap <= 2 * half + 1
  BY HalfTurn DEF BreakerFits, BreakerPart!BreakerInv
<1>2. d \in 0 .. half
  <2>1. s2[p].fails \in FAIL_THRESHOLD .. MaxFails
    BY DEF BreakerFits, BreakerPart!BreakerInv
  <2> QED
    BY <2>1 DEF BreakerFits
<1>3. u = (t + d) % BreakerWrap
  BY <1>1 DEF BreakerPart!BreakerInv
<1>0. t = (s1 + BreakerWrap - a) % BreakerWrap
  BY DEF BreakerPart!FailedAt
<1>4. BreakerPart!isBackedOff(p)
      <=> (s1 + BreakerWrap - u) % BreakerWrap >= half
  BY DEF BreakerPart!isBackedOff, BreakerPart!find, BreakerPart!Before
<1> HIDE DEF d, a, u, half, t
<1>5. a < half
  BY DEF a, half
<1>6. t = IF s1 >= a THEN s1 - a ELSE s1 + BreakerWrap - a
  <2>1. s1 + BreakerWrap - a \in 0 .. 2 * BreakerWrap - 1
    BY <1>1, <1>5
  <2> QED
    BY <1>0, <1>1, <1>5, <2>1, ClockMod
<1>7. u = IF t + d < BreakerWrap THEN t + d ELSE t + d - BreakerWrap
  <2>1. t \in Nat /\ d \in Nat /\ t + d \in 0 .. 2 * BreakerWrap - 1
    BY <1>1, <1>2, <1>5, <1>6
  <2> QED
    BY <1>1, <1>3, <2>1, ClockMod
<1>8. (s1 + BreakerWrap - u) % BreakerWrap
          = IF s1 >= u THEN s1 - u ELSE s1 + BreakerWrap - u
  <2>1. u \in 0 .. BreakerWrap - 1
    BY <1>1, <1>2, <1>5, <1>6, <1>7
  <2>2. s1 + BreakerWrap - u \in 0 .. 2 * BreakerWrap - 1
    BY <1>1, <2>1
  <2> QED
    BY <1>1, <2>1, <2>2, ClockMod
<1>9. (s1 + BreakerWrap - u) % BreakerWrap >= half <=> a < d
  BY <1>1, <1>2, <1>5, <1>6, <1>7, <1>8
<1> QED
  BY <1>4, <1>9 DEF d, a

-----------------------------------------------------------------------------
(* CredProtocol *)
(* In this part s1 is now; s2 is store; s3 is cache; s4 is verified; s5 is *)
(* last.                                                                   *)

\* The requests carry the days 1 and 2, and there is a door.
CredsFit ==
  /\ CredsLastDay \in Nat /\ CredsLastDay >= 2 /\ MaxId \in Nat \ {0}
  /\ Doors \subseteq Nat /\ Doors # {}

LEMMA NoneIsNoRecord == CredsPart!None \notin CredsPart!Records
  BY DEF CredsPart!None, CredsPart!Records, CredsPart!Ids

\* The cache is a sequence of records.
LEMMA CacheSays ==
  ASSUME CredsPart!CredsInv
  PROVE  /\ Len(s3) \in Nat /\ s3 \in Seq(CredsPart!Records)
         /\ \A k \in 1 .. Len(s3) : s3[k] \in CredsPart!Records
            /\ s3[k].id \in CredsPart!Ids
<1>1. s3 \in Seq(CredsPart!Records)
  BY DEF CredsPart!CredsInv
<1>2. Len(s3) \in Nat
  BY <1>1, LenProperties
<1>3. \A k \in 1 .. Len(s3) : s3[k] \in CredsPart!Records
  BY <1>1, ElementOfSeq
<1>4. \A p \in CredsPart!Records : p.id \in CredsPart!Ids
  BY DEF CredsPart!Records
<1> QED
  BY <1>1, <1>2, <1>3, <1>4

\* The position of a credential in the cache, where each is once.
LEMMA AtSays ==
  ASSUME CredsPart!CredsInv, NEW id
  PROVE  /\ CredsPart!At(id) \in 0 .. Len(s3)
         /\ CredsPart!At(id) # 0 => s3[CredsPart!At(id)].id = id
         /\ CredsPart!At(id) = 0 => \A k \in 1 .. Len(s3) : s3[k].id # id
<1> DEFINE I == {i \in 1 .. Len(s3) : s3[i].id = id}
<1>0. Len(s3) \in Nat
  BY LenProperties DEF CredsPart!CredsInv
<1>1. CredsPart!At(id) = IF I # {} THEN CredsPart!Min(I) ELSE 0
  BY DEF CredsPart!At, CredsPart!SelectInSeq
<1>2. CASE I = {}
  BY <1>0, <1>1, <1>2
<1>3. CASE I # {}
  <2>1. PICK i \in 1 .. Len(s3) : s3[i].id = id
    BY <1>3
  <2>2. I = {i}
    BY <2>1 DEF CredsPart!CredsInv
  <2>3. CredsPart!Min(I) = i
    BY <1>0, <2>1, <2>2 DEF CredsPart!Min
  <2> QED
    BY <1>0, <1>1, <1>3, <2>1, <2>3
<1> QED
  BY <1>2, <1>3

\* updateCred(): what was cached is replaced, or the record is appended.
LEMMA CachedInv ==
  ASSUME CredsFit, CredsPart!CredsInv, NEW rec \in CredsPart!Records,
         s2' = [s2 EXCEPT ![rec.id] = rec], s3' = CredsPart!cached(rec)
  PROVE  CredsPart!CredsInv'
<1> DEFINE id == rec.id
           n == Len(s3)
           at == CredsPart!At(id)
<1>1. id \in CredsPart!Ids /\ rec # CredsPart!None
  BY NoneIsNoRecord DEF CredsPart!Records
<1>2. /\ s2' \in [CredsPart!Ids -> CredsPart!Records \cup {CredsPart!None}]
      /\ \A i \in CredsPart!Ids : s2'[i] = IF i = id THEN rec ELSE s2[i]
      /\ \A i \in CredsPart!Ids : s2'[i] # CredsPart!None => s2'[i].id = i
  BY <1>1 DEF CredsPart!CredsInv
<1>3. /\ n \in Nat /\ s3 \in Seq(CredsPart!Records)
      /\ \A k \in 1 .. n : s3[k] \in CredsPart!Records
         /\ s3[k].id \in CredsPart!Ids
  BY CacheSays
<1>4. /\ at \in 0 .. n
      /\ at # 0 => s3[at].id = id
      /\ at = 0 => \A k \in 1 .. n : s3[k].id # id
  BY AtSays
<1>5. s3' = IF at # 0 THEN [s3 EXCEPT ![at] = rec] ELSE Append(s3, rec)
  BY DEF CredsPart!cached
<1> HIDE DEF at, id, n
<1>6. CASE at # 0
  <2>1. at \in 1 .. Len(s3) /\ n = Len(s3)
    BY <1>3, <1>4, <1>6 DEF n
  <2>2. s3' = [s3 EXCEPT ![at] = rec]
    BY <1>5, <1>6
  <2>3. /\ s3' \in Seq(CredsPart!Records) /\ Len(s3') = n
        /\ \A k \in 1 .. n : s3'[k] = IF k = at THEN rec ELSE s3[k]
    BY <1>3, <2>1, <2>2, ExceptSeq
  <2>4. ASSUME NEW k \in 1 .. n
        PROVE  /\ s3'[k].id = s3[k].id
               /\ s3'[k] = s2'[s3'[k].id]
    <3>1. CASE k = at
      BY <1>1, <1>2, <1>4, <1>6, <2>3, <3>1 DEF id
    <3>2. CASE k # at
      <4>1. s3[k].id # id /\ s3[k].id \in CredsPart!Ids /\ s3'[k] = s3[k]
        BY <1>3, <1>4, <1>6, <2>1, <2>3, <3>2 DEF CredsPart!CredsInv, n
      <4> QED
        BY <1>2, <4>1 DEF CredsPart!CredsInv, n
    <3> QED
      BY <3>1, <3>2
  <2> QED
    BY <1>2, <2>3, <2>4 DEF CredsPart!CredsInv, n
<1>7. CASE at = 0
  <2>2. s3' = Append(s3, rec)
    BY <1>5, <1>7
  <2>3. /\ s3' \in Seq(CredsPart!Records) /\ Len(s3') = n + 1
        /\ \A k \in 1 .. n + 1 : s3'[k] = IF k = n + 1 THEN rec ELSE s3[k]
    BY <1>3, <2>2 DEF n
  <2>4. \A k \in 1 .. n : s3'[k] = s3[k] /\ s3[k].id # id
    BY <1>3, <1>4, <1>7, <2>3
  <2>5. s3'[n + 1] = rec
    BY <1>3, <2>3
  <2>6. ASSUME NEW k \in 1 .. n + 1
        PROVE  s3'[k] = s2'[s3'[k].id]
    <3>1. CASE k = n + 1
      BY <1>1, <1>2, <2>5, <3>1 DEF id
    <3>2. CASE k \in 1 .. n
      BY <1>2, <1>3, <2>4, <3>2 DEF CredsPart!CredsInv, n
    <3> QED
      BY <1>3, <3>1, <3>2
  <2>7. ASSUME NEW k \in 1 .. n + 1, NEW l \in 1 .. n + 1,
               s3'[k].id = s3'[l].id
        PROVE  k = l
    <3>1. CASE k \in 1 .. n /\ l \in 1 .. n
      BY <2>4, <2>7, <3>1 DEF CredsPart!CredsInv, n
    <3>2. CASE (k = n + 1 /\ l \in 1 .. n) \/ (l = n + 1 /\ k \in 1 .. n)
      BY <2>4, <2>5, <2>7, <3>2 DEF id
    <3> QED
      BY <1>3, <3>1, <3>2
  <2> QED
    BY <1>2, <2>3, <2>6, <2>7 DEF CredsPart!CredsInv
<1> QED
  BY <1>6, <1>7

\* removeCred(): the record, and its entry in the cache.
LEMMA WithoutInv ==
  ASSUME CredsFit, CredsPart!CredsInv, NEW id \in CredsPart!Ids,
         s2' = [s2 EXCEPT ![id] = CredsPart!None], s3' = CredsPart!without(id)
  PROVE  CredsPart!CredsInv'
<1> DEFINE n == Len(s3)
           at == CredsPart!At(id)
           front == SubSeq(s3, 1, at - 1)
           back == SubSeq(s3, at + 1, n)
<1>1. /\ s2' \in [CredsPart!Ids -> CredsPart!Records \cup {CredsPart!None}]
      /\ \A i \in CredsPart!Ids : s2'[i]
             = IF i = id THEN CredsPart!None ELSE s2[i]
      /\ \A i \in CredsPart!Ids : s2'[i] # CredsPart!None => s2'[i].id = i
  BY DEF CredsPart!CredsInv
<1>2. /\ n \in Nat /\ s3 \in Seq(CredsPart!Records)
      /\ \A k \in 1 .. n : s3[k] \in CredsPart!Records
         /\ s3[k].id \in CredsPart!Ids
  BY CacheSays
<1>3. /\ at \in 0 .. n
      /\ at # 0 => s3[at].id = id
      /\ at = 0 => \A k \in 1 .. n : s3[k].id # id
  BY AtSays
<1>4. s3' = IF at # 0 THEN front \o back ELSE s3
  BY DEF CredsPart!without, CredsPart!RemoveAt
<1>5. /\ \A k \in 1 .. n : s3[k] = s2[s3[k].id]
      /\ \A k, l \in 1 .. n : s3[k].id = s3[l].id => k = l
  BY DEF CredsPart!CredsInv
<1>6. CASE at = 0
  <2>1. s3' = s3
    BY <1>4, <1>6
  <2>2. \A k \in 1 .. n : s3[k] = s2'[s3[k].id]
    BY <1>1, <1>2, <1>3, <1>5, <1>6
  <2> QED
    BY <1>1, <1>2, <1>5, <2>1, <2>2 DEF CredsPart!CredsInv
<1>7. CASE at # 0
  <2>1. at \in 1 .. n
    BY <1>2, <1>3, <1>7
  <2>2. /\ front \in Seq(CredsPart!Records) /\ Len(front) = at - 1
        /\ \A k \in 1 .. at - 1 : front[k] = s3[k]
    <3> HIDE DEF at, n
    <3>1. \A k \in 1 .. at - 1 : s3[k] \in CredsPart!Records
      BY <1>2, <2>1
    <3>2. at - 1 \in Int
      BY <1>2, <2>1
    <3>3. /\ front \in Seq(CredsPart!Records)
             /\ Len(front) = IF 1 <= at - 1 THEN at - 1 - 1 + 1 ELSE 0
          /\ \A k \in 1 .. at - 1 - 1 + 1 : front[k] = s3[1 + k - 1]
      BY <3>1, <3>2, SubSeqProperties
    <3> HIDE DEF front
    <3>4. Len(front) = at - 1
      BY <1>2, <2>1, <3>3
    <3>5. \A k \in 1 .. at - 1 : k \in 1 .. at - 1 - 1 + 1 /\ 1 + k - 1 = k
      BY <1>2, <2>1
    <3> QED
      BY <3>3, <3>4, <3>5
  <2>3. /\ back \in Seq(CredsPart!Records) /\ Len(back) = n - at
        /\ \A k \in 1 .. n - at : back[k] = s3[at + k]
    <3> HIDE DEF at, n
    <3>1. \A k \in at + 1 .. n : s3[k] \in CredsPart!Records
      BY <1>2, <2>1
    <3>2. at + 1 \in Int /\ n \in Int
      BY <1>2, <2>1
    <3>3. /\ back \in Seq(CredsPart!Records)
             /\ Len(back) = IF at + 1 <= n THEN n - (at + 1) + 1 ELSE 0
          /\ \A k \in 1 .. n - (at + 1) + 1 : back[k] = s3[at + 1 + k - 1]
      BY <3>1, <3>2, SubSeqProperties
    <3> HIDE DEF back
    <3>4. Len(back) = n - at
      BY <1>2, <2>1, <3>3
    <3>5. \A k \in 1 .. n - at : k \in 1 .. n - (at + 1) + 1
          /\ at + 1 + k - 1 = at + k
      BY <1>2, <2>1
    <3> QED
      BY <3>3, <3>4, <3>5
  <2> HIDE DEF front, back, at, n
  <2>4. /\ s3' \in Seq(CredsPart!Records) /\ Len(s3') = n - 1
        /\ \A k \in 1 .. n - 1 : s3'[k]
               = IF k <= at - 1 THEN front[k] ELSE back[k - (at - 1)]
    <3>1. s3' = front \o back
      BY <1>4, <1>7
    <3>2. Len(front) + Len(back) = n - 1
      BY <1>2, <2>1, <2>2, <2>3
    <3>3. /\ front \o back \in Seq(CredsPart!Records)
          /\ Len(front \o back) = Len(front) + Len(back)
          /\ \A k \in 1 .. Len(front) + Len(back) :
               (front \o back)[k]
                   = IF k <= Len(front) THEN front[k] ELSE back[k - Len(front)]
      BY <2>2, <2>3, ConcatProperties
    <3>4. Len(front) = at - 1
      BY <2>2
    <3> QED
      BY <3>1, <3>2, <3>3, <3>4
  <2>5. \A k \in 1 .. n - 1 :
          s3'[k] = (IF k <= at - 1 THEN s3[k] ELSE s3[k + 1])
    <3>1. SUFFICES ASSUME NEW k \in 1 .. n - 1
                   PROVE  s3'[k] = (IF k <= at - 1 THEN s3[k] ELSE s3[k + 1])
      OBVIOUS
    <3>2. CASE k <= at - 1
      <4>1. k \in 1 .. at - 1
        BY <1>2, <2>1, <3>2
      <4> QED
        BY <2>2, <2>4, <3>2, <4>1
    <3>3. CASE ~(k <= at - 1)
      <4>1. k - (at - 1) \in 1 .. n - at /\ at + (k - (at - 1)) = k + 1
        BY <1>2, <2>1, <3>3
      <4> QED
        BY <2>3, <2>4, <3>3, <4>1
    <3> QED
      BY <3>2, <3>3
  <2>6. \A k \in 1 .. n - 1 : \E j \in 1 .. n : j # at /\ s3'[k] = s3[j]
        /\ j = (IF k <= at - 1 THEN k ELSE k + 1)
    <3>1. SUFFICES ASSUME NEW k \in 1 .. n - 1
                   PROVE  \E j \in 1 .. n : j # at /\ s3'[k] = s3[j]
                          /\ j = (IF k <= at - 1 THEN k ELSE k + 1)
      OBVIOUS
    <3>2. CASE k <= at - 1
      BY <1>2, <2>1, <2>5, <3>2
    <3>3. CASE ~(k <= at - 1)
      <4>1. k + 1 \in 1 .. n /\ k + 1 # at
        BY <1>2, <2>1, <3>3
      <4> QED
        BY <2>5, <3>3, <4>1
    <3> QED
      BY <3>2, <3>3
  <2>7. \A k \in 1 .. n - 1 : s3'[k] = s2'[s3'[k].id]
    <3>1. SUFFICES ASSUME NEW k \in 1 .. n - 1 PROVE s3'[k] = s2'[s3'[k].id]
      OBVIOUS
    <3>2. PICK j \in 1 .. n : j # at /\ s3'[k] = s3[j]
      BY <2>6
    <3>3. s3[j].id # id /\ s3[j].id \in CredsPart!Ids
      BY <1>2, <1>3, <1>5, <1>7, <2>1, <3>2
    <3> QED
      BY <1>1, <1>5, <3>2, <3>3
  <2>8. ASSUME NEW k \in 1 .. n - 1, NEW l \in 1 .. n - 1,
               s3'[k].id = s3'[l].id
        PROVE  k = l
    <3>1. PICK i \in 1 .. n : s3'[k] = s3[i]
          /\ i = (IF k <= at - 1 THEN k ELSE k + 1)
      BY <2>6
    <3>2. PICK j \in 1 .. n : s3'[l] = s3[j]
          /\ j = (IF l <= at - 1 THEN l ELSE l + 1)
      BY <2>6
    <3>3. i = j
      BY <1>5, <2>8, <3>1, <3>2
    <3> QED
      BY <1>2, <2>1, <3>1, <3>2, <3>3
  <2> QED
    BY <1>1, <2>4, <2>7, <2>8 DEF CredsPart!CredsInv
<1> QED
  BY <1>6, <1>7

\* addCred(): an identifier that no record has.
LEMMA AddInv ==
  ASSUME CredsFit, CredsPart!CredsInv, NEW rec \in CredsPart!Records,
         CredsPart!addCred(rec)
  PROVE  CredsPart!CredsInv'
<1> DEFINE Used == {i \in CredsPart!Ids : s2[i] # CredsPart!None}
           id == IF \E i
               \in CredsPart!Ids : s2[i] # CredsPart!None
                   THEN CredsPart!Max(Used) + 1 ELSE 1
           new == [rec EXCEPT !.id = id]
<1>1. CASE UNCHANGED <<s2, s3>>
  BY <1>1 DEF CredsPart!CredsInv
<1>2. CASE ~UNCHANGED <<s2, s3>>
  <2>1. id \in CredsPart!Ids /\ s2' = [s2 EXCEPT ![id] = new]
        /\ s3' = Append(s3, new)
    BY <1>2 DEF CredsPart!addCred
  <2>2. s2[id] = CredsPart!None
    <3>1. CASE Used = {}
      BY <2>1, <3>1
    <3>2. CASE Used # {}
      <4>1. Used \subseteq 0 .. MaxId /\ MaxId \in Nat
        BY DEF CredsPart!Ids, CredsFit
      <4>2. \E x \in Used : \A y \in Used : x >= y
        <5> HIDE DEF Used
        <5> QED
          BY <3>2, <4>1, GreatestNumber
      <4>3. CredsPart!Max(Used) \in Used
            /\ \A y \in Used : CredsPart!Max(Used) >= y
        <5> HIDE DEF Used
        <5> QED
          BY <4>2 DEF CredsPart!Max
      <4>4. id = CredsPart!Max(Used) + 1
        BY <3>2
      <4>5. id \notin Used
        <5> DEFINE m == CredsPart!Max(Used)
        <5> HIDE DEF Used, id, m
        <5>1. id = m + 1 /\ m \in Used /\ \A y \in Used : m >= y
          BY <4>3, <4>4 DEF m
        <5>2. Used \subseteq Nat /\ m \in Nat
          BY <4>1, <5>1
        <5> QED
          BY <5>1, <5>2
      <4> QED
        BY <2>1, <4>5
    <3> QED
      BY <3>1, <3>2
  <2> HIDE DEF Used, id
  <2>3. new \in CredsPart!Records /\ new.id = id
    BY <2>1 DEF CredsPart!Records
  <2> HIDE DEF new
  <2>4. CredsPart!At(id) = 0
    <3>1. Len(s3) \in Nat
          /\ \A k \in 1 .. Len(s3) : s3[k] \in CredsPart!Records
      BY CacheSays
    <3>2. \A k \in 1 .. Len(s3) : s3[k].id # id
      BY <2>2, <3>1, NoneIsNoRecord DEF CredsPart!CredsInv
    <3> QED
      BY <3>1, <3>2, AtSays
  <2>5. s3' = CredsPart!cached(new)
    BY <2>1, <2>3, <2>4 DEF CredsPart!cached
  <2> QED
    BY <2>1, <2>3, <2>5, CachedInv
<1> QED
  BY <1>1, <1>2

\* rebuildCache(): the active credentials by their rank.
LEMMA RankSays ==
  ASSUME CredsFit, NEW k \in 1 .. Cardinality(CredsPart!Active)
  PROVE  CredsPart!nth(k) \in CredsPart!Active
         /\ Cardinality({j \in CredsPart!Active : j <= CredsPart!nth(k)}) = k
<1> DEFINE n == Cardinality(CredsPart!Active)
           Below(i) == {j \in CredsPart!Active : j <= i}
           rank == [i \in CredsPart!Active |-> Cardinality(Below(i))]
<1>1. IsFiniteSet(CredsPart!Active) /\ n \in Nat
      /\ CredsPart!Active \subseteq Nat
  <2>1. IsFiniteSet(CredsPart!Ids) /\ CredsPart!Ids \subseteq Nat
    BY FS_Interval DEF CredsPart!Ids, CredsFit
  <2>2. CredsPart!Active \in SUBSET CredsPart!Ids
    BY DEF CredsPart!Active
  <2> QED
    BY <2>1, <2>2, FS_Subset, FS_CardinalityType
<1>2. ASSUME NEW i \in CredsPart!Active
      PROVE  IsFiniteSet(Below(i)) /\ Cardinality(Below(i)) \in 1 .. n
  <2>1. Below(i) \in SUBSET CredsPart!Active /\ i \in Below(i)
    BY <1>1
  <2> HIDE DEF Below
  <2>2. IsFiniteSet(Below(i)) /\ Cardinality(Below(i)) <= n
    BY <1>1, <2>1, FS_Subset
  <2>3. Cardinality(Below(i)) \in Nat /\ Cardinality(Below(i)) # 0
    BY <2>1, <2>2, FS_CardinalityType, FS_EmptySet
  <2> QED
    BY <1>1, <2>2, <2>3
<1>3. ASSUME NEW i \in CredsPart!Active, NEW j \in CredsPart!Active, i < j
      PROVE  Cardinality(Below(i)) # Cardinality(Below(j))
  <2>1. Below(i) \in SUBSET Below(j) /\ j \in Below(j) /\ j \notin Below(i)
    <3>1. i \in Nat /\ j \in Nat /\ \A l \in CredsPart!Active : l \in Nat
      BY <1>1
    <3>2. \A l \in CredsPart!Active : l <= i => l <= j
      BY <1>3, <3>1
    <3>3. j <= j /\ ~(j <= i)
      BY <1>3, <3>1
    <3> QED
      BY <3>2, <3>3
  <2> HIDE DEF Below
  <2>2. Below(i) # Below(j) /\ IsFiniteSet(Below(j))
    BY <1>2, <2>1
  <2> QED
    BY <2>1, <2>2, FS_Subset
<1> HIDE DEF Below
<1>4. rank \in Injection(CredsPart!Active, 1 .. n)
  <2>1. rank \in [CredsPart!Active -> 1 .. n]
    BY <1>2
  <2>2. \A i, j \in CredsPart!Active : rank[i] = rank[j] => i = j
    BY <1>1, <1>3
  <2> QED
    BY <2>1, <2>2 DEF Injection, IsInjective
<1>5. IsFiniteSet(1 .. n) /\ Cardinality(1 .. n) = n
  BY <1>1, FS_Interval
<1> HIDE DEF rank
<1>6. rank \in Surjection(CredsPart!Active, 1 .. n)
  <2> HIDE DEF n
  <2>1. Cardinality(CredsPart!Active) = Cardinality(1 .. n)
    BY <1>5 DEF n
  <2> QED
    BY <1>4, <1>5, <2>1, FS_Injection
<1>7. \E i \in CredsPart!Active : rank[i] = k
  BY <1>6 DEF Surjection
<1>8. \E i \in CredsPart!Active :
        Cardinality({j \in CredsPart!Active : j <= i}) = k
  BY <1>7 DEF rank, Below
<1>9. \E i \in CredsPart!Active :
        CredsPart!Cardinality({j \in CredsPart!Active : j <= i}) = k
  BY <1>8, SameCardinality
<1>10. /\ CredsPart!nth(k) \in CredsPart!Active
       /\ k = CredsPart!Cardinality(
                {j \in CredsPart!Active : j <= CredsPart!nth(k)})
  BY <1>9 DEF CredsPart!nth
<1> QED
  BY <1>10, SameCardinality

LEMMA RebuiltInv ==
  ASSUME CredsFit, CredsPart!CredsInv, s3' = CredsPart!rebuilt, s2' = s2
  PROVE  CredsPart!CredsInv'
<1> DEFINE n == Cardinality(CredsPart!Active)
<1>1. n \in Nat
  <2>1. IsFiniteSet(CredsPart!Ids) /\ CredsPart!Active \in SUBSET CredsPart!Ids
    BY FS_Interval DEF CredsPart!Ids, CredsFit, CredsPart!Active
  <2> QED
    BY <2>1, FS_Subset, FS_CardinalityType
<1>2. \A k \in 1 .. n :
        /\ CredsPart!nth(k) \in CredsPart!Active
        /\ Cardinality({j \in CredsPart!Active : j <= CredsPart!nth(k)}) = k
  BY RankSays
<1>3. s3' = [k \in 1 .. n |-> s2[CredsPart!nth(k)]]
  <2>1. s3' = [k \in 1 .. CredsPart!Cardinality(CredsPart!Active)
                 |-> s2[CredsPart!nth(k)]]
    BY DEF CredsPart!rebuilt
  <2>2. CredsPart!Cardinality(CredsPart!Active) = n
    BY SameCardinality
  <2> QED
    BY <2>1, <2>2
<1> HIDE DEF n
<1>4. \A k \in 1 .. n : s2[CredsPart!nth(k)] \in CredsPart!Records
      /\ s2[CredsPart!nth(k)].id = CredsPart!nth(k)
  BY <1>2 DEF CredsPart!Active, CredsPart!CredsInv
<1>5. s3' \in Seq(CredsPart!Records) /\ Len(s3') = n
  BY <1>1, <1>3, <1>4
<1>6. \A k \in 1 .. n : s3'[k] = s2[CredsPart!nth(k)]
  BY <1>3
<1>7. \A k \in 1 .. n : s3'[k] = s2[s3'[k].id]
  BY <1>4, <1>6
<1>8. ASSUME NEW k \in 1 .. n, NEW l \in 1 .. n, s3'[k].id = s3'[l].id
      PROVE  k = l
  <2>1. CredsPart!nth(k) = CredsPart!nth(l)
    BY <1>4, <1>6, <1>8
  <2> QED
    BY <1>2, <2>1
<1> QED
  BY <1>5, <1>7, <1>8 DEF CredsPart!CredsInv

\* A request that saves says which record it starts from, and what it makes of
\* it.
LEMMA StartFromSays ==
  ASSUME CredsFit, CredsPart!CredsInv, NEW r \in CredsPart!Savings,
         CredsPart!startFrom(r) # CredsPart!None
  PROVE  /\ CredsPart!startFrom(r) \in CredsPart!Records
         /\ CredsPart!startFrom(r).type = r.type
         /\ r.id # 0 => r.id \in CredsPart!Ids
            /\ CredsPart!startFrom(r) = s2[r.id]
            /\ CredsPart!startFrom(r).id = r.id
<1>1. r.id \in 0 .. MaxId /\ r.type \in CredsPart!Types
  BY DEF CredsPart!Savings, CredsPart!Saving, CredsPart!Types
<1>2. CASE r.id = 0
  <2>1. CredsPart!Min(Doors) \in Doors
    <3>1. \E x \in Doors : \A y \in Doors : x <= y
      BY LeastNumber DEF CredsFit
    <3> QED
      BY <3>1 DEF CredsPart!Min
  <2>2. 0 \in 0 .. CredsLastDay /\ 1 \in CredsPart!Ids /\ 1 \in -1 .. 2
        /\ -1 \in -1 .. 2
    BY DEF CredsFit, CredsPart!Ids
  <2>3. CredsPart!startFrom(r)
            = [id |-> 1, type |-> r.type, from |-> 0, to |-> 0,
               door |-> CredsPart!Min(Doors),
                        remaining |-> IF r.type = "ctCode" THEN 1 ELSE -1]
    BY <1>2 DEF CredsPart!startFrom
  <2> QED
    BY <1>1, <1>2, <2>1, <2>2, <2>3 DEF CredsPart!Records
<1>3. CASE r.id # 0
  <2>1. r.id \in CredsPart!Ids
    BY <1>1, <1>3 DEF CredsFit, CredsPart!Ids
  <2>2. CredsPart!startFrom(r) = s2[r.id] /\ s2[r.id] # CredsPart!None
        /\ s2[r.id].type = r.type
    BY <1>3 DEF CredsPart!startFrom, CredsPart!getCred
  <2> QED
    BY <1>3, <2>1, <2>2 DEF CredsPart!CredsInv
<1> QED
  BY <1>2, <1>3

LEMMA ChangedSays ==
  ASSUME CredsFit, NEW r \in CredsPart!Savings, NEW old \in CredsPart!Records
  PROVE  /\ CredsPart!changed(r, old) \in CredsPart!Records
         /\ CredsPart!changed(r, old).id = old.id
         /\ CredsPart!changed(r, old).type = old.type
         /\ r.from = CredsPart!Absent
            => CredsPart!changed(r, old).from = old.from
         /\ r.to = CredsPart!Absent => CredsPart!changed(r, old).to = old.to
         /\ r.door = CredsPart!Absent
            => CredsPart!changed(r, old).door = old.door
<1>1. /\ r.from \in {CredsPart!Absent, 2} /\ r.to \in {CredsPart!Absent, 1}
      /\ r.remaining \in {CredsPart!Absent, 2}
      /\ r.door \in {CredsPart!Absent} \cup Doors
  BY DEF CredsPart!Savings, CredsPart!Saving
<1>2. /\ old.from \in 0 .. CredsLastDay /\ old.to \in 0 .. CredsLastDay
      /\ old.door \in Doors
      /\ old.remaining \in -1 .. 2 /\ old.id \in CredsPart!Ids
      /\ old.type \in CredsPart!Types
  BY DEF CredsPart!Records
<1>3. CredsPart!given(r.from, old.from) \in 0 .. CredsLastDay
      /\ CredsPart!given(r.to, old.to) \in 0 .. CredsLastDay
      /\ CredsPart!given(r.door, old.door) \in Doors
  BY <1>1, <1>2 DEF CredsPart!given, CredsFit
<1>4. CredsPart!amount(r, old.remaining) \in -1 .. 2
  <2>1. CASE r.type = "ctCode"
    BY <1>2, <2>1 DEF CredsPart!amount
  <2>2. CASE r.type # "ctCode" /\ r.unlimited = "yes"
    BY <2>2 DEF CredsPart!amount
  <2>3. CASE r.type # "ctCode" /\ r.unlimited # "yes"
             /\ r.remaining # CredsPart!Absent
    BY <1>1, <2>3 DEF CredsPart!amount
  <2>4. CASE r.type # "ctCode" /\ r.unlimited # "yes"
             /\ r.remaining = CredsPart!Absent
    BY <1>2, <2>4 DEF CredsPart!amount
  <2> QED
    BY <2>1, <2>2, <2>3, <2>4
<1>5. CredsPart!changed(r, old)
          = [old EXCEPT !.from = CredsPart!given(r.from, old.from),
             !.to = CredsPart!given(r.to, old.to),
                           !.door = CredsPart!given(r.door, old.door),
                           !.remaining = CredsPart!amount(r, old.remaining)]
  BY DEF CredsPart!changed, CredsPart!Records
<1>6. /\ CredsPart!changed(r, old).from = CredsPart!given(r.from, old.from)
      /\ CredsPart!changed(r, old).to = CredsPart!given(r.to, old.to)
      /\ CredsPart!changed(r, old).door = CredsPart!given(r.door, old.door)
      /\ CredsPart!changed(r, old).id = old.id
      /\ CredsPart!changed(r, old).type = old.type
      /\ CredsPart!changed(r, old) \in CredsPart!Records
  BY <1>2, <1>3, <1>4, <1>5 DEF CredsPart!Records
<1> QED
  BY <1>6 DEF CredsPart!given

\* updateCred() and removeCred() keep the invariant, done or refused.
LEMMA UpdateInv ==
  ASSUME CredsFit, CredsPart!CredsInv, NEW rec \in CredsPart!Records,
         CredsPart!updateCred(rec)
  PROVE  CredsPart!CredsInv'
<1>1. CASE UNCHANGED <<s2, s3>>
  BY <1>1 DEF CredsPart!CredsInv
<1>2. CASE s2' = [s2 EXCEPT ![rec.id] = rec] /\ s3' = CredsPart!cached(rec)
  BY <1>2, CachedInv
<1> QED
  BY <1>1, <1>2 DEF CredsPart!updateCred

LEMMA RemoveInv ==
  ASSUME CredsFit, CredsPart!CredsInv, NEW id \in CredsPart!Ids,
         CredsPart!removeCred(id)
  PROVE  CredsPart!CredsInv'
<1>1. CASE UNCHANGED <<s2, s3>>
  BY <1>1 DEF CredsPart!CredsInv
<1>2. CASE s2' = [s2 EXCEPT ![id] = CredsPart!None]
           /\ s3' = CredsPart!without(id)
  BY <1>2, WithoutInv
<1> QED
  BY <1>1, <1>2 DEF CredsPart!removeCred

\* What a request does, and what it leaves alone.
LEMMA RequestStep ==
  ASSUME CredsFit, CredsPart!CredsInv,
         NEW r \in CredsPart!Savings \cup CredsPart!Deletions,
         CredsPart!applyCredChange(r)
  PROVE  CredsPart!CredsInv' /\ s5'.op \in {"none", "update"}
         /\ CredsPart!NamedOnlyStep
<1> DEFINE old == CredsPart!startFrom(r)
           new == CredsPart!changed(r, CredsPart!startFrom(r))
           kept == {f
                      \in {"from", "to", "door"} : r[f]
                          = CredsPart!Absent} \cup {"type"}
<1>1. CASE CredsPart!refused(r)
  <2>1. UNCHANGED <<s2, s3>> /\ s5'.op = "none"
    BY <1>1 DEF CredsPart!applyCredChange
  <2> QED
    BY <2>1 DEF CredsPart!CredsInv, CredsPart!NamedOnlyStep
<1>2. CASE ~CredsPart!refused(r) /\ r.deleting
  <2>1. s5'.op = "none" /\ CredsPart!removeCred(r.id) /\ r.id # 0
    BY <1>2 DEF CredsPart!applyCredChange, CredsPart!refused
  <2>2. r.id \in CredsPart!Ids
    <3>1. r.id \in 0 .. MaxId
      BY DEF CredsPart!Savings, CredsPart!Saving, CredsPart!Deletions
    <3> QED
      BY <2>1, <3>1 DEF CredsPart!Ids, CredsFit
  <2> QED
    BY <2>1, <2>2, RemoveInv DEF CredsPart!NamedOnlyStep
<1>3. CASE ~CredsPart!refused(r) /\ ~r.deleting
  <2>1. r \in CredsPart!Savings
    BY <1>3 DEF CredsPart!Deletions
  <2>2. old \in CredsPart!Records /\ old.type = r.type
        /\ (r.id # 0 => r.id \in CredsPart!Ids /\ old = s2[r.id]
           /\ old.id = r.id)
    BY <1>3, <2>1, StartFromSays DEF CredsPart!refused
  <2>3. /\ new \in CredsPart!Records /\ new.id = old.id /\ new.type = old.type
        /\ r.from = CredsPart!Absent => new.from = old.from
        /\ r.to = CredsPart!Absent => new.to = old.to
        /\ r.door = CredsPart!Absent => new.door = old.door
    BY <2>1, <2>2, ChangedSays
  <2>4. \/ /\ r.id # 0 /\ CredsPart!updateCred(new)
           /\ s5' = [op |-> "update", id |-> r.id, kept |-> kept]
        \/ r.id = 0 /\ CredsPart!addCred(new) /\ s5' = [op |-> "none"]
    BY <1>3 DEF CredsPart!applyCredChange
  <2> HIDE DEF old, new
  <2>5. CASE r.id = 0 /\ CredsPart!addCred(new) /\ s5' = [op |-> "none"]
    BY <2>3, <2>5, AddInv DEF CredsPart!NamedOnlyStep
  <2>6. CASE /\ r.id # 0 /\ CredsPart!updateCred(new)
             /\ s5' = [op |-> "update", id |-> r.id, kept |-> kept]
    <3>1. CredsPart!CredsInv'
      BY <2>3, <2>6, UpdateInv
    <3>2. \A f \in s5'.kept : new[f] = old[f]
      <4>1. \A f \in s5'.kept :
              \/ f = "from" /\ r.from = CredsPart!Absent
              \/ f = "to" /\ r.to = CredsPart!Absent
              \/ f = "door" /\ r.door = CredsPart!Absent
              \/ f = "type"
        BY <2>6
      <4> QED
        BY <2>3, <4>1
    <3>3. \/ s2' = s2
          \/ s2' = [s2 EXCEPT ![r.id] = new]
      BY <2>2, <2>3, <2>6 DEF CredsPart!updateCred
    <3>4. CredsPart!NamedOnlyStep
      <4>1. SUFFICES ASSUME NEW i \in CredsPart!Ids
                     PROVE  IF i # r.id THEN s2'[i] = s2[i]
                            ELSE \A f \in s5'.kept : s2'[i][f] = s2[i][f]
        BY <2>6 DEF CredsPart!NamedOnlyStep
      <4>2. CASE i = r.id
        BY <2>2, <2>6, <3>2, <3>3, <4>2 DEF CredsPart!CredsInv
      <4>3. CASE i # r.id
        BY <3>3, <4>3 DEF CredsPart!CredsInv
      <4> QED
        BY <4>2, <4>3
    <3> QED
      BY <2>6, <3>1, <3>4
  <2> QED
    BY <2>4, <2>5, <2>6
<1> QED
  BY <1>1, <1>2, <1>3

\* usedCred() charges the credential that was verified, or nothing.
LEMMA UseStep ==
  ASSUME CredsFit, CredsPart!CredsInv, NEW door \in Doors,
         CredsPart!usedCred(door)
  PROVE  CredsPart!CredsInv' /\ s5'.op = "used" /\ CredsPart!ChargedStep
<1> DEFINE at == CredsPart!At(s4)
           p == s3[at]
<1>1. CASE ~(at # 0 /\ p.door = door /\ CredsPart!isActive(p))
  <2>1. UNCHANGED <<s2, s3>>
        /\ s5' = [op |-> "used", ok |-> FALSE, cred |-> CredsPart!None]
    BY <1>1 DEF CredsPart!usedCred
  <2> QED
    BY <2>1 DEF CredsPart!CredsInv, CredsPart!ChargedStep
<1>2. CASE at # 0 /\ p.door = door /\ CredsPart!isActive(p)
  <2>1. CredsPart!spent(p) /\ s5' = [op |-> "used", ok |-> p.remaining = -1
        \/ s2' # s2, cred |-> p]
    BY <1>2 DEF CredsPart!usedCred
  <2>2. p \in CredsPart!Records /\ p.id \in CredsPart!Ids /\ p = s2[p.id]
    <3>1. at \in 1 .. Len(s3)
      BY <1>2, AtSays, CacheSays
    <3> QED
      BY <3>1, CacheSays DEF CredsPart!CredsInv
  <2> HIDE DEF p, at
  <2>3. /\ p.remaining \in -1 .. 2
        /\ p.remaining > 1
           => [p EXCEPT !.remaining = p.remaining - 1] \in CredsPart!Records
    BY <2>2 DEF CredsPart!Records
  <2>4. ASSUME p.remaining = -1 \/ s2' # s2 =>
                 \A i \in CredsPart!Ids :
                   s2'[i] = IF i # p.id \/ p.remaining = -1 THEN s2[i]
                               ELSE IF p.remaining = 1 THEN CredsPart!None
                               ELSE [s2[i] EXCEPT !.remaining = @ - 1]
        PROVE  CredsPart!ChargedStep /\ s5'.op = "used"
    BY <2>1, <2>4 DEF CredsPart!ChargedStep
  <2>5. CASE p.remaining > 1
    <3>1. CredsPart!updateCred([p EXCEPT !.remaining = p.remaining - 1])
      BY <2>1, <2>2, <2>5 DEF CredsPart!spent, CredsPart!Records
    <3>2. CredsPart!CredsInv'
      BY <2>3, <2>5, <3>1, UpdateInv
    <3>3. [p EXCEPT !.remaining = p.remaining - 1].id = p.id
      BY <2>2 DEF CredsPart!Records
    <3>4. \/ s2' = s2
          \/ s2' = [s2 EXCEPT ![p.id]
                      = [p EXCEPT !.remaining = p.remaining - 1]]
      BY <3>1, <3>3 DEF CredsPart!updateCred
    <3>5. [p EXCEPT !.remaining = @ - 1]
              = [p EXCEPT !.remaining = p.remaining - 1]
      BY <2>2 DEF CredsPart!Records
    <3> QED
      BY <2>2, <2>3, <2>5, <2>4, <3>2, <3>4, <3>5 DEF CredsPart!CredsInv
  <2>6. CASE p.remaining = 1
    <3>1. CredsPart!removeCred(p.id)
      BY <2>1, <2>6 DEF CredsPart!spent
    <3>2. CredsPart!CredsInv'
      BY <2>2, <3>1, RemoveInv
    <3>3. s2' = s2 \/ s2' = [s2 EXCEPT ![p.id] = CredsPart!None]
      BY <3>1 DEF CredsPart!removeCred
    <3> QED
      BY <2>1, <2>2, <2>6, <2>4, <3>2, <3>3 DEF CredsPart!CredsInv
  <2>7. CASE p.remaining \in {-1, 0}
    <3>1. UNCHANGED <<s2, s3>>
      BY <2>1, <2>7 DEF CredsPart!spent
    <3> QED
      BY <2>2, <2>7, <2>4, <3>1 DEF CredsPart!CredsInv
  <2> QED
    BY <2>3, <2>5, <2>6, <2>7
<1> QED
  BY <1>1, <1>2

LEMMA CredsInit == CredsFit /\ CredsPart!Init => CredsPart!CredsInv
<1> SUFFICES ASSUME CredsFit, CredsPart!Init PROVE CredsPart!CredsInv
  OBVIOUS
<1>1. s3 \in Seq(CredsPart!Records) /\ Len(s3) = 0
  BY DEF CredsPart!Init
<1> QED
  BY <1>1 DEF CredsPart!Init, CredsPart!CredsInv

LEMMA CredsStep == CredsFit /\ CredsPart!CredsInv /\ CredsPart!Next
                   => CredsPart!CredsInv' /\ CredsPart!ChargedStep
                   /\ CredsPart!NamedOnlyStep
<1> SUFFICES ASSUME CredsFit, CredsPart!CredsInv, CredsPart!Next
             PROVE  CredsPart!CredsInv' /\ CredsPart!ChargedStep
                    /\ CredsPart!NamedOnlyStep
  OBVIOUS
<1>1. CASE CredsPart!setCred
  <2>1. PICK r \in CredsPart!Savings \cup CredsPart!Deletions : CredsPart!applyCredChange(r)
    BY <1>1 DEF CredsPart!setCred
  <2>2. CredsPart!CredsInv' /\ s5'.op \in {"none", "update"}
        /\ CredsPart!NamedOnlyStep
    BY <2>1, RequestStep
  <2> QED
    BY <2>2 DEF CredsPart!ChargedStep
<1>2. CASE \E door \in Doors : CredsPart!usedCred(door)
  <2>1. CredsPart!CredsInv' /\ s5'.op = "used" /\ CredsPart!ChargedStep
    BY <1>2, UseStep
  <2> QED
    BY <2>1 DEF CredsPart!NamedOnlyStep
<1>3. CASE CredsPart!refreshCache
  <2>1. CredsPart!CredsInv' /\ s5'.op = "none"
    BY <1>3, RebuiltInv DEF CredsPart!refreshCache
  <2> QED
    BY <2>1 DEF CredsPart!ChargedStep, CredsPart!NamedOnlyStep
<1>4. CASE CredsPart!buildCredResponse \/ CredsPart!nextDay
           \/ \E type \in CredsPart!Types : CredsPart!verifyCred(type)
  <2>1. UNCHANGED <<s2, s3>> /\ s5'.op \in {"list", "none", "verify"}
    <3>1. CASE CredsPart!buildCredResponse \/ CredsPart!nextDay
      BY <3>1 DEF CredsPart!buildCredResponse, CredsPart!nextDay
    <3>2. ASSUME NEW type \in CredsPart!Types, CredsPart!verifyCred(type)
          PROVE  UNCHANGED <<s2, s3>> /\ s5'.op = "verify"
      <4> DEFINE i == CredsPart!SelectInSeq(s3, LAMBDA p : p.type = type)
                 found == IF i # 0
                 /\ CredsPart!isActive(s3[i]) THEN s3[i] ELSE CredsPart!None
      <4>1. UNCHANGED <<s2, s3>> /\ s5' = [op |-> "verify", found |-> found]
        BY <3>2 DEF CredsPart!verifyCred
      <4> HIDE DEF found
      <4> QED
        BY <4>1
    <3> QED
      BY <1>4, <3>1, <3>2
  <2> QED
    BY <2>1
    DEF CredsPart!CredsInv, CredsPart!ChargedStep, CredsPart!NamedOnlyStep
<1> QED
  BY <1>1, <1>2, <1>3, <1>4 DEF CredsPart!Next

\* A step leaves a credential alone, deletes it or writes one whose validity
\* does not end before it begins.
WrittenInOrder ==
  \A i \in CredsPart!Ids : s2'[i] = s2[i] \/ s2'[i] = CredsPart!None
  \/ CredsPart!orderedLimits(s2'[i])

LEMMA UpdateInOrder ==
  ASSUME CredsPart!CredsInv, NEW rec \in CredsPart!Records,
         CredsPart!updateCred(rec)
  PROVE  WrittenInOrder
<1>1. s2' = s2 \/ (s2'
                     = [s2 EXCEPT ![rec.id] = rec]
                     /\ CredsPart!orderedLimits(rec))
  BY DEF CredsPart!updateCred, CredsPart!validateCred
<1>2. s2 \in [CredsPart!Ids -> CredsPart!Records \cup {CredsPart!None}]
  BY DEF CredsPart!CredsInv
<1> QED
  BY <1>1, <1>2 DEF WrittenInOrder

LEMMA RemoveInOrder ==
  ASSUME CredsPart!CredsInv, NEW id, CredsPart!removeCred(id)
  PROVE  WrittenInOrder
<1>1. s2' = s2 \/ s2' = [s2 EXCEPT ![id] = CredsPart!None]
  BY DEF CredsPart!removeCred
<1>2. s2 \in [CredsPart!Ids -> CredsPart!Records \cup {CredsPart!None}]
  BY DEF CredsPart!CredsInv
<1> QED
  BY <1>1, <1>2 DEF WrittenInOrder

LEMMA AddInOrder ==
  ASSUME CredsPart!CredsInv, NEW rec \in CredsPart!Records,
         CredsPart!addCred(rec)
  PROVE  WrittenInOrder
<1>1. \E id : \/ s2' = s2
              \/ /\ s2' = [s2 EXCEPT ![id] = [rec EXCEPT !.id = id]]
                 /\ CredsPart!orderedLimits(rec)
  BY DEF CredsPart!addCred, CredsPart!validateCred
<1>2. PICK id : \/ s2' = s2
                \/ /\ s2' = [s2 EXCEPT ![id] = [rec EXCEPT !.id = id]]
                   /\ CredsPart!orderedLimits(rec)
  BY <1>1
<1> DEFINE new == [rec EXCEPT !.id = id]
<1>3. s2 \in [CredsPart!Ids -> CredsPart!Records \cup {CredsPart!None}]
  BY DEF CredsPart!CredsInv
<1>4. new.from = rec.from /\ new.to = rec.to
  BY DEF CredsPart!Records
<1>5. s2' = s2 \/ (s2'
                     = [s2 EXCEPT ![id] = new] /\ CredsPart!orderedLimits(rec))
  BY <1>2
<1> HIDE DEF new
<1>6. CredsPart!orderedLimits(rec) => CredsPart!orderedLimits(new)
  BY <1>4 DEF CredsPart!orderedLimits
<1> QED
  BY <1>3, <1>5, <1>6 DEF WrittenInOrder

LEMMA StepInOrder ==
  ASSUME CredsFit, CredsPart!CredsInv, CredsPart!Next
  PROVE  WrittenInOrder
<1>1. ASSUME UNCHANGED s2 PROVE WrittenInOrder
  BY <1>1 DEF WrittenInOrder
<1>2. CASE CredsPart!setCred
  <2>1. PICK r \in CredsPart!Savings \cup CredsPart!Deletions :
               CredsPart!applyCredChange(r)
    BY <1>2 DEF CredsPart!setCred
  <2>2. CASE CredsPart!refused(r)
    BY <1>1, <2>1, <2>2 DEF CredsPart!applyCredChange
  <2>3. CASE ~CredsPart!refused(r) /\ r.deleting
    <3>1. CredsPart!removeCred(r.id)
      BY <2>1, <2>3 DEF CredsPart!applyCredChange
    <3> QED
      BY <3>1, RemoveInOrder
  <2>4. CASE ~CredsPart!refused(r) /\ ~r.deleting
    <3> DEFINE new == CredsPart!changed(r, CredsPart!startFrom(r))
    <3>1. r \in CredsPart!Savings
      BY <2>4 DEF CredsPart!Deletions
    <3>2. CredsPart!startFrom(r) \in CredsPart!Records
      BY <2>4, <3>1, StartFromSays DEF CredsPart!refused
    <3>3. new \in CredsPart!Records
      BY <3>1, <3>2, ChangedSays
    <3>4. CredsPart!updateCred(new) \/ CredsPart!addCred(new)
      BY <2>1, <2>4 DEF CredsPart!applyCredChange
    <3> HIDE DEF new
    <3> QED
      BY <3>3, <3>4, UpdateInOrder, AddInOrder
  <2> QED
    BY <2>2, <2>3, <2>4
<1>3. ASSUME NEW door \in Doors, CredsPart!usedCred(door) PROVE WrittenInOrder
  <2> DEFINE at == CredsPart!At(s4)
             p == s3[at]
  <2>1. UNCHANGED s2 \/ (at # 0 /\ CredsPart!spent(p))
    BY <1>3 DEF CredsPart!usedCred
  <2>2. at # 0 => p \in CredsPart!Records
    BY AtSays, CacheSays
  <2> HIDE DEF p, at
  <2>3. CASE at # 0 /\ CredsPart!spent(p) /\ p.remaining > 1
    <3>1. CredsPart!updateCred([p EXCEPT !.remaining = p.remaining - 1])
      BY <2>2, <2>3 DEF CredsPart!spent, CredsPart!Records
    <3>2. [p EXCEPT !.remaining = p.remaining - 1] \in CredsPart!Records
      BY <2>2, <2>3 DEF CredsPart!Records
    <3> QED
      BY <3>1, <3>2, UpdateInOrder
  <2>4. CASE at # 0 /\ CredsPart!spent(p) /\ ~(p.remaining > 1)
    <3>1. CredsPart!removeCred(p.id) \/ UNCHANGED s2
      BY <2>4 DEF CredsPart!spent
    <3> QED
      BY <1>1, <3>1, RemoveInOrder
  <2> QED
    BY <1>1, <2>1, <2>3, <2>4
<1>4. CASE CredsPart!buildCredResponse \/ CredsPart!refreshCache
           \/ CredsPart!nextDay
              \/ \E type \in CredsPart!Types : CredsPart!verifyCred(type)
  BY <1>1, <1>4
  DEF CredsPart!buildCredResponse, CredsPart!refreshCache, CredsPart!nextDay,
      CredsPart!verifyCred
<1> QED
  BY <1>2, <1>3, <1>4 DEF CredsPart!Next

\* What verifyCred() finds is a credential of the cache that is active now.
LEMMA StepAccepted ==
  ASSUME CredsFit, CredsPart!CredsInv, CredsPart!Next
  PROVE  CredsPart!AcceptedIsValid'
<1>1. CASE CredsPart!setCred
  <2>1. s5'.op \in {"none", "update"}
    BY <1>1, RequestStep DEF CredsPart!setCred
  <2> QED
    BY <2>1 DEF CredsPart!AcceptedIsValid
<1>2. CASE \E door \in Doors : CredsPart!usedCred(door)
  <2>1. s5'.op = "used"
    BY <1>2, UseStep
  <2> QED
    BY <2>1 DEF CredsPart!AcceptedIsValid
<1>3. CASE CredsPart!buildCredResponse \/ CredsPart!refreshCache
           \/ CredsPart!nextDay
  <2>1. s5'.op \in {"list", "none"}
    BY <1>3
    DEF CredsPart!buildCredResponse, CredsPart!refreshCache, CredsPart!nextDay
  <2> QED
    BY <2>1 DEF CredsPart!AcceptedIsValid
<1>4. ASSUME NEW type \in CredsPart!Types, CredsPart!verifyCred(type)
      PROVE CredsPart!AcceptedIsValid'
  <2> DEFINE I == {k \in 1 .. Len(s3) : s3[k].type = type}
             i == CredsPart!SelectInSeq(s3, LAMBDA p : p.type = type)
             found == IF i # 0
             /\ CredsPart!isActive(s3[i]) THEN s3[i] ELSE CredsPart!None
  <2>1. /\ s5' = [op |-> "verify", found |-> found]
        /\ UNCHANGED <<s1, s2, s3>>
    BY <1>4 DEF CredsPart!verifyCred
  <2>2. i = IF I # {} THEN CredsPart!Min(I) ELSE 0
    BY DEF CredsPart!SelectInSeq
  <2>3. I # {} => CredsPart!Min(I) \in I
    <3>1. I \subseteq Nat
      BY CacheSays
    <3> HIDE DEF I
    <3>2. I # {} => \E x \in I : \A y \in I : x <= y
      BY <3>1, LeastNumber
    <3> QED
      BY <3>2 DEF CredsPart!Min
  <2>4. i # 0 => i \in 1 .. Len(s3)
    BY <2>2, <2>3
  <2> HIDE DEF i, I
  <2>5. CASE i # 0 /\ CredsPart!isActive(s3[i])
    <3> DEFINE p == s3[i]
    <3>1. p = s2[p.id]
      BY <2>4, <2>5 DEF CredsPart!CredsInv
    <3>2. p \in CredsPart!Records
      BY <2>4, <2>5, CacheSays
    <3>3. /\ p.from = 0 \/ s1 >= p.from
          /\ p.to = 0 \/ s1 <= p.to
          /\ p.remaining # 0
      BY <2>5 DEF CredsPart!isActive, CredsPart!validNow
    <3>4. s5'.found = p /\ s1' = s1 /\ s2' = s2
      BY <2>1, <2>5
    <3> HIDE DEF p
    <3>5. p.from = 0 \/ p.from <= s1
      BY <3>3
    <3> QED
      BY <3>1, <3>3, <3>4, <3>5 DEF CredsPart!AcceptedIsValid
  <2>6. CASE ~(i # 0 /\ CredsPart!isActive(s3[i]))
    <3>1. s5'.found = CredsPart!None
      BY <2>1, <2>6
    <3> QED
      BY <3>1 DEF CredsPart!AcceptedIsValid
  <2> QED
    BY <2>5, <2>6
<1> QED
  BY <1>1, <1>2, <1>3, <1>4 DEF CredsPart!Next

\* The rows of a page after n credentials of the cache.
turned(rows, n, start, count, type) ==
  IF CredsPart!listed(s3[n], start, type)
  /\ Len(rows) < count THEN Append(rows, s3[n]) ELSE rows

PageWalk(n, start, count, type, f) ==
  f = [k \in 0 .. n
         |-> IF k = 0 THEN <<>> ELSE turned(f[k - 1], k, start, count, type)]

LEMMA PageWalkExists ==
  ASSUME NEW m \in Nat, NEW start, NEW count, NEW type
  PROVE  \E f : PageWalk(m, start, count, type, f)
<1> DEFINE Bad == {n \in Nat : ~\E f : PageWalk(n, start, count, type, f)}
<1>1. ASSUME Bad # {} PROVE FALSE
  <2>1. PICK n \in Bad : \A k \in Bad : n <= k
    <3>1. Bad \subseteq Nat
      OBVIOUS
    <3> HIDE DEF Bad
    <3> QED
      BY <1>1, <3>1, LeastNumber
  <2>2. n \in Nat /\ ~\E f : PageWalk(n, start, count, type, f)
    BY <2>1
  <2>3. CASE n = 0
    <3> DEFINE g == [k \in 0 .. 0 |-> <<>>]
    <3>1. PageWalk(0, start, count, type, g)
      <4>1. \A k \in 0 .. 0 : k = 0
        OBVIOUS
      <4> QED
        BY <4>1 DEF PageWalk
    <3> QED
      BY <2>2, <2>3, <3>1
  <2>4. CASE n # 0
    <3>1. n - 1 \in Nat /\ n - 1 \notin Bad
      <4>1. n - 1 \in Nat /\ ~(n <= n - 1)
        BY <2>2, <2>4
      <4> HIDE DEF Bad
      <4> QED
        BY <2>1, <4>1
    <3>2. PICK f : PageWalk(n - 1, start, count, type, f)
      BY <3>1
    <3> DEFINE g == [k \in 0 .. n
                       |-> IF k = n
                           THEN turned(f[n - 1], n, start, count, type)
                               ELSE f[k]]
    <3>3. ASSUME NEW k \in 0 .. n
          PROVE  g[k] = IF k
                     = 0 THEN <<>> ELSE turned(g[k - 1], k, start, count, type)
      <4>1. CASE k = n
        <5>1. n - 1 \in 0 .. n /\ n - 1 # n /\ n \in 0 .. n
          BY <2>2, <2>4
        <5>2. g[n - 1] = f[n - 1]
              /\ g[n] = turned(f[n - 1], n, start, count, type)
          BY <5>1
        <5> HIDE DEF g
        <5> QED
          BY <2>4, <4>1, <5>2
      <4>2. CASE k # n
        <5>1. k \in 0 .. n - 1
          BY <2>2, <4>2
        <5>2. f[k] = IF k
                  = 0 THEN <<>> ELSE turned(f[k - 1], k, start, count, type)
          BY <3>2, <5>1 DEF PageWalk
        <5>3. g[k] = f[k] /\ (k # 0 => g[k - 1] = f[k - 1])
          BY <2>2, <4>2
        <5> HIDE DEF g
        <5> QED
          BY <5>2, <5>3
      <4> QED
        BY <4>1, <4>2
    <3>4. PageWalk(n, start, count, type, g)
      <4>1. g = [k \in 0 .. n |-> g[k]]
        OBVIOUS
      <4> HIDE DEF g
      <4> QED
        BY <3>3, <4>1 DEF PageWalk
    <3> QED
      BY <2>2, <3>4
  <2> QED
    BY <2>3, <2>4
<1> QED
  BY <1>1

\* Rows that come from the first n credentials of the cache, each once.
RowsOf(n) ==
  {rows \in Seq(CredsPart!Records) :
     /\ \A i \in 1 .. Len(rows) : \E j \in 1 .. n : rows[i] = s3[j]
     /\ \A i, l \in 1 .. Len(rows) : i # l => rows[i].id # rows[l].id}

LEMMA RowTurned ==
  ASSUME CredsPart!CredsInv, NEW n \in 1 .. Len(s3),
         NEW rows \in RowsOf(n - 1),
         NEW start, NEW count, NEW type
  PROVE  turned(rows, n, start, count, type) \in RowsOf(n)
<1>0. /\ Len(s3) \in Nat /\ n \in Int /\ rows \in Seq(CredsPart!Records)
      /\ Len(rows) \in Nat
      /\ s3[n] \in CredsPart!Records
  BY CacheSays, LenProperties DEF RowsOf
<1>1. rows \in RowsOf(n)
  <2>1. \A j \in 1 .. n - 1 : j \in 1 .. n
    BY <1>0
  <2> QED
    BY <2>1 DEF RowsOf
<1>2. Append(rows, s3[n]) \in RowsOf(n)
  <2> DEFINE m == Len(rows)
             more == Append(rows, s3[n])
  <2>1. /\ more \in Seq(CredsPart!Records) /\ Len(more) = m + 1
        /\ \A i \in 1 .. m + 1 : more[i] = IF i = m + 1 THEN s3[n] ELSE rows[i]
    BY <1>0
  <2> HIDE DEF m, more
  <2>2. \A i \in 1 .. m : \E j \in 1 .. n - 1 : rows[i] = s3[j]
    BY DEF RowsOf, m
  <2>3. \A j \in 1 .. n - 1 : j \in 1 .. Len(s3) /\ j # n /\ j \in 1 .. n
    BY <1>0
  <2>4. \A i \in 1 .. m : rows[i].id # s3[n].id
    BY <2>2, <2>3 DEF CredsPart!CredsInv
  <2>5. m \in Nat
    BY <1>0 DEF m
  <2>6. ASSUME NEW i \in 1 .. m + 1 PROVE \E j \in 1 .. n : more[i] = s3[j]
    <3>1. CASE i = m + 1
      <4>1. more[i] = s3[n] /\ n \in 1 .. n
        BY <1>0, <2>1, <3>1
      <4> QED
        BY <4>1
    <3>2. CASE i # m + 1
      <4>1. i \in 1 .. m /\ more[i] = rows[i]
        BY <2>1, <2>5, <3>2
      <4>2. PICK j \in 1 .. n - 1 : rows[i] = s3[j]
        BY <2>2, <4>1
      <4> QED
        BY <2>3, <4>1, <4>2
    <3> QED
      BY <3>1, <3>2
  <2>7. \A i, l \in 1 .. m : i # l => rows[i].id # rows[l].id
    BY DEF RowsOf, m
  <2>8. ASSUME NEW i \in 1 .. m + 1, NEW l \in 1 .. m + 1, i # l
        PROVE  more[i].id # more[l].id
    <3>1. (i # m + 1 => i \in 1 .. m) /\ (l # m + 1 => l \in 1 .. m)
      BY <2>5
    <3> QED
      BY <2>1, <2>4, <2>7, <2>8, <3>1
  <2> QED
    BY <2>1, <2>6, <2>8 DEF RowsOf, more
<1> QED
  BY <1>1, <1>2 DEF turned

LEMMA PageShows ==
  ASSUME CredsPart!CredsInv, NEW start, NEW count, NEW type
  PROVE  CredsPart!getCreds(start, count, type) \in RowsOf(Len(s3))
<1> DEFINE N == Len(s3)
           page == CHOOSE f : PageWalk(N, start, count, type, f)
<1>1. N \in Nat
  BY CacheSays
<1>2. PageWalk(N, start, count, type, page)
  BY <1>1, PageWalkExists
<1>3. CredsPart!getCreds(start, count, type) = page[N]
  BY DEF CredsPart!getCreds, PageWalk, turned
<1> HIDE DEF page
<1>4. page[0] \in RowsOf(0)
  <2>1. page[0] = <<>>
    BY <1>1, <1>2 DEF PageWalk
  <2> QED
    BY <2>1 DEF RowsOf
<1>5. ASSUME NEW k \in 0 .. N, k # 0
      PROVE page[k] = turned(page[k - 1], k, start, count, type)
  BY <1>2, <1>5 DEF PageWalk
<1> DEFINE Bad == {k \in 0 .. N : page[k] \notin RowsOf(k)}
<1>6. ASSUME Bad # {} PROVE FALSE
  <2>1. PICK n \in Bad : \A k \in Bad : n <= k
    <3>1. Bad \subseteq Nat
      BY <1>1
    <3> HIDE DEF Bad
    <3> QED
      BY <1>6, <3>1, LeastNumber
  <2>2. n \in 0 .. N /\ n \in Int /\ page[n] \notin RowsOf(n) /\ n # 0
    BY <1>4, <2>1
  <2>3. n - 1 \in 0 .. N /\ ~(n <= n - 1) /\ n \in 1 .. N
    BY <1>1, <2>2
  <2>4. n - 1 \notin Bad
    <3> HIDE DEF Bad
    <3> QED
      BY <2>1, <2>3
  <2>5. page[n - 1] \in RowsOf(n - 1)
    BY <2>3, <2>4
  <2> QED
    BY <1>5, <2>2, <2>3, <2>5, RowTurned
<1>7. N \in 0 .. N /\ N \notin Bad
  BY <1>1, <1>6
<1> QED
  BY <1>3, <1>7

LEMMA CredsShown == CredsPart!CredsInv => CredsPart!ShownOnce
<1> SUFFICES ASSUME CredsPart!CredsInv, NEW type \in CredsPart!Types,
                    NEW start \in 0 .. MaxId,
                    NEW rows, rows = CredsPart!getCreds(start, MaxId, type)
             PROVE  /\ \A i, j \in DOMAIN rows :
                         i # j => rows[i].id # rows[j].id
                    /\ \A i \in DOMAIN rows : rows[i] = s2[rows[i].id]
  BY DEF CredsPart!ShownOnce
<1>1. rows \in RowsOf(Len(s3))
  BY PageShows
<1>2. DOMAIN rows = 1 .. Len(rows)
  BY <1>1 DEF RowsOf
<1>3. \A i \in 1 .. Len(rows) : rows[i] = s2[rows[i].id]
  BY <1>1 DEF RowsOf, CredsPart!CredsInv
<1>4. \A i, l \in 1 .. Len(rows) : i # l => rows[i].id # rows[l].id
  BY <1>1 DEF RowsOf
<1> QED
  BY <1>2, <1>3, <1>4

\* With CredsInv, what the requests, uses and verifications keep.
RequestsInv == CredsPart!CredsInv /\ CredsPart!NeverBackwards
/\ CredsPart!AcceptedIsValid

LEMMA RequestsInit == CredsFit /\ CredsPart!Init => RequestsInv
<1> SUFFICES ASSUME CredsFit, CredsPart!Init PROVE RequestsInv
  OBVIOUS
<1>1. CredsPart!CredsInv
  BY CredsInit
<1>2. CredsPart!NeverBackwards /\ CredsPart!AcceptedIsValid
  BY DEF CredsPart!Init, CredsPart!NeverBackwards, CredsPart!AcceptedIsValid
<1> QED
  BY <1>1, <1>2 DEF RequestsInv

LEMMA RequestsStep == CredsFit /\ RequestsInv /\ CredsPart!Next => RequestsInv'
<1> SUFFICES ASSUME CredsFit, RequestsInv, CredsPart!Next PROVE RequestsInv'
  OBVIOUS
<1>1. CredsPart!CredsInv' /\ CredsPart!AcceptedIsValid' /\ WrittenInOrder
  BY CredsStep, StepAccepted, StepInOrder DEF RequestsInv
<1>2. CredsPart!NeverBackwards'
  BY <1>1
  DEF RequestsInv, CredsPart!NeverBackwards, WrittenInOrder,
      CredsPart!orderedLimits
<1> QED
  BY <1>1, <1>2 DEF RequestsInv

LEMMA RequestsPromise == RequestsInv => CredsPart!NeverBackwards
                         /\ CredsPart!AcceptedIsValid /\ CredsPart!ShownOnce
  BY CredsShown DEF RequestsInv

-----------------------------------------------------------------------------
(* Provisioning *)
(* In this part s1 is partition; s2 is Path; s3 is PendingPath; s4 is      *)
(* defaults; s5 is config; s6 is mounted; s7 is pc; s8 is installed.       *)

DoorsExist == DOOR_COUNT \in Nat \ {0}

\* The configuration compiled into the firmware: one door, no host of its own.
Compiled == {[provisioned |-> p, host |-> "default", count |-> 1, rows |-> 1]
               : p \in BOOLEAN}

Stages == {"setup", "load", "password", "scan", "download", "receive",
           "commit", "discard", "restart", "running"}

\* What the flash holds, and what of it is mounted.
FlashInv ==
  /\ s1 \in {"blank", "littlefs", "foreign"}
  /\ s2 \in ProvisioningPart!Files /\ s3 \in ProvisioningPart!Files
  /\ s6 \in BOOLEAN /\ s8 \in BOOLEAN /\ s7 \in Stages
  /\ s6 => s1 = "littlefs"
  /\ s7 = "load" /\ s1 = "littlefs" => s6
  /\ s7 \in {"receive", "commit", "restart"} => s6

\* What the box runs with: nothing is loaded before load(), and afterwards it
\* is one of the two configurations, until the file is replaced.
ConfigInv ==
  /\ s4 \in Compiled
  /\ s5 \in ProvisioningPart!Configs /\ s5.count = s5.rows
  /\ s7 \in {"setup", "load"} => s5 = s4
  /\ s7 # "restart" => s5 \in {s4, ProvisioningPart!decode(s2, s4)}

\* A committed download stays where load() finds it, and stays acceptable.
InstalledInv ==
  s8 =>
    /\ s1 = "littlefs"
    /\ ProvisioningPart!decodes(s2, s4, TRUE)
    /\ s7 \in {"restart", "setup", "load", "running"}

PInv == FlashInv /\ ConfigInv /\ InstalledInv

LEMMA FileParts ==
  ASSUME NEW file \in ProvisioningPart!Files, file.kind = "json"
  PROVE  /\ file.doc \in ProvisioningPart!Documents
         /\ DOMAIN file.doc \subseteq ProvisioningPart!Fields
         /\ \A f \in DOMAIN file.doc :
              \E r \in ProvisioningPart!Full : file.doc[f] = r[f]
<1>1. file \in [kind : {"json"}, doc : ProvisioningPart!Documents]
  BY DEF ProvisioningPart!Files, ProvisioningPart!None, ProvisioningPart!Junk
<1>2. file.doc \in ProvisioningPart!Documents
  BY <1>1
<1>3. PICK S \in SUBSET ProvisioningPart!Fields : file.doc
          \in {[f \in S |-> r[f]] : r \in ProvisioningPart!Full}
  BY <1>2 DEF ProvisioningPart!Documents
<1>4. PICK r \in ProvisioningPart!Full : file.doc = [f \in S |-> r[f]]
  BY <1>3
<1> QED
  BY <1>2, <1>4

\* An accepted document makes a configuration a box can run with: every field
\* has a value of its type, and the rows of the mapping are those of the doors.
LEMMA DecodedIsConfig ==
  ASSUME NEW file \in ProvisioningPart!Files,
         NEW old \in ProvisioningPart!Configs, NEW complete \in BOOLEAN,
         old.count = old.rows, ProvisioningPart!decodes(file, old, complete)
  PROVE  /\ ProvisioningPart!Decoded(file.doc, old)
                \in ProvisioningPart!Configs
         /\ ProvisioningPart!Decoded(file.doc, old).count
                = ProvisioningPart!Decoded(file.doc, old).rows
<1> DEFINE doc == file.doc
           new == ProvisioningPart!Decoded(doc, old)
<1>1. file.kind = "json" /\ new.host # "bad"
      /\ ProvisioningPart!rowsFit(doc, old)
  BY DEF ProvisioningPart!decodes
<1>2. \A f \in DOMAIN doc : \E r \in ProvisioningPart!Full : doc[f] = r[f]
  BY <1>1, FileParts
<1>3. new = [f \in ProvisioningPart!Fields
               |-> IF f \in DOMAIN doc THEN doc[f] ELSE old[f]]
  BY DEF ProvisioningPart!Decoded
<1>4. new.provisioned \in BOOLEAN
  BY <1>2, <1>3
  DEF ProvisioningPart!Fields, ProvisioningPart!Full, ProvisioningPart!Configs
<1>5. new.host \in {"default", "given"}
  BY <1>1, <1>2, <1>3
  DEF ProvisioningPart!Fields, ProvisioningPart!Full, ProvisioningPart!Configs
<1>6. new.count \in 1 .. DOOR_COUNT /\ new.rows \in 1 .. DOOR_COUNT
  BY <1>2, <1>3
  DEF ProvisioningPart!Fields, ProvisioningPart!Full, ProvisioningPart!Configs
<1>7. new = [provisioned |-> new.provisioned, host |-> new.host,
             count |-> new.count, rows |-> new.rows]
  BY <1>3 DEF ProvisioningPart!Fields
<1>8. new \in ProvisioningPart!Configs
  BY <1>4, <1>5, <1>6, <1>7 DEF ProvisioningPart!Configs
<1>9. new.count = new.rows
  BY <1>1, <1>3 DEF ProvisioningPart!rowsFit, ProvisioningPart!Fields
<1> QED
  BY <1>8, <1>9

LEMMA CompiledIsConfig ==
  ASSUME DoorsExist, NEW c \in Compiled
  PROVE  c \in ProvisioningPart!Configs /\ c.count = c.rows
BY DEF DoorsExist, Compiled, ProvisioningPart!Configs

\* decode() assigns all of the next configuration or none of it.
LEMMA DecodeIsWhole ==
  ASSUME DoorsExist, NEW file \in ProvisioningPart!Files, NEW old \in Compiled
  PROVE  /\ ProvisioningPart!decode(file, old) \in ProvisioningPart!Configs
         /\ ProvisioningPart!decode(file, old).count
                = ProvisioningPart!decode(file, old).rows
<1>1. old \in ProvisioningPart!Configs /\ old.count = old.rows
  BY CompiledIsConfig
<1> QED
  BY <1>1, DecodedIsConfig DEF ProvisioningPart!decode

\* What commitDownloaded() accepts, load() accepts, and it is provisioned.
LEMMA CommittedIsProvisioned ==
  ASSUME NEW file, NEW old, ProvisioningPart!decodes(file, old, TRUE)
  PROVE  file # ProvisioningPart!None
         /\ ProvisioningPart!decodes(file, old, FALSE)
         /\ ProvisioningPart!decode(file, old).provisioned
<1>1. file.kind = "json" /\ ProvisioningPart!decodes(file, old, FALSE)
  BY DEF ProvisioningPart!decodes
<1>2. DOMAIN file.doc = ProvisioningPart!Fields /\ file.doc.provisioned
  BY DEF ProvisioningPart!decodes
<1>3. ProvisioningPart!Decoded(file.doc, old).provisioned
  BY <1>2 DEF ProvisioningPart!Decoded, ProvisioningPart!Fields
<1>4. file # ProvisioningPart!None
  BY <1>1 DEF ProvisioningPart!None
<1>5. ProvisioningPart!decode(file, old)
          = ProvisioningPart!Decoded(file.doc, old)
  BY <1>1 DEF ProvisioningPart!decode
<1> QED
  BY <1>1, <1>3, <1>4, <1>5

LEMMA ProvisioningInit == DoorsExist /\ ProvisioningPart!Init => PInv
<1> SUFFICES ASSUME DoorsExist, ProvisioningPart!Init PROVE PInv
  OBVIOUS
<1>1. ProvisioningPart!None \in ProvisioningPart!Files
      /\ s2 \in ProvisioningPart!Files
  BY DEF ProvisioningPart!Init, ProvisioningPart!Files
<1>2. s4 \in Compiled /\ s5 = s4
  BY DEF ProvisioningPart!Init, Compiled
<1>3. FlashInv
  BY <1>1 DEF ProvisioningPart!Init, FlashInv, Stages
<1>4. ConfigInv
  BY <1>2, CompiledIsConfig DEF ProvisioningPart!Init, ConfigInv
<1> QED
  BY <1>3, <1>4 DEF ProvisioningPart!Init, PInv, InstalledInv

\* A step of the part of setup() before load(), and of the scan: the files and
\* the configuration stay.
LEMMA StagesInv ==
  ASSUME PInv, ProvisioningPart!begin \/ ProvisioningPart!password
         \/ ProvisioningPart!parse \/ ProvisioningPart!downloadFails
  PROVE  PInv'
<1>1. UNCHANGED <<s2, s3, s4, s5, s8>>
  BY DEF ProvisioningPart!begin, ProvisioningPart!password,
         ProvisioningPart!parse, ProvisioningPart!downloadFails,
         ProvisioningPart!files
<1>2. CASE ProvisioningPart!begin
  <2>1. FlashInv'
    BY <1>1, <1>2
    DEF ProvisioningPart!begin, ProvisioningPart!partitionIsBlank, PInv,
        FlashInv, Stages
  <2>2. ConfigInv'
    BY <1>1, <1>2
    DEF ProvisioningPart!begin, PInv, ConfigInv, ProvisioningPart!decode,
        ProvisioningPart!decodes, ProvisioningPart!rowsFit,
        ProvisioningPart!Decoded
  <2>3. InstalledInv'
    BY <1>1, <1>2
    DEF ProvisioningPart!begin, PInv, InstalledInv, ProvisioningPart!decodes,
        ProvisioningPart!rowsFit, ProvisioningPart!Decoded
  <2> QED
    BY <2>1, <2>2, <2>3 DEF PInv
<1>3. CASE ProvisioningPart!password \/ ProvisioningPart!parse
           \/ ProvisioningPart!downloadFails
  <2>1. /\ UNCHANGED <<s1, s6>>
        /\ s7 \in {"password", "scan", "download"}
        /\ s7' \in {"password", "scan", "download"}
    BY <1>3
    DEF ProvisioningPart!password, ProvisioningPart!parse,
        ProvisioningPart!downloadFails, ProvisioningPart!files
  <2>2. FlashInv'
    BY <1>1, <2>1 DEF PInv, FlashInv, Stages
  <2>3. ConfigInv'
    BY <1>1, <2>1
    DEF PInv, ConfigInv, ProvisioningPart!decode, ProvisioningPart!decodes,
        ProvisioningPart!rowsFit, ProvisioningPart!Decoded
  <2>4. ~s8'
    BY <1>1, <2>1 DEF PInv, InstalledInv
  <2> QED
    BY <2>2, <2>3, <2>4 DEF PInv, InstalledInv
<1> QED
  BY <1>2, <1>3

\* load(): a committed download is found, accepted and run with.
LEMMA LoadInv ==
  ASSUME DoorsExist, PInv, ProvisioningPart!load
  PROVE  PInv'
<1>1. /\ UNCHANGED <<s1, s2, s3, s4, s8, s6>>
      /\ s7 = "load"
      /\ s5' = IF s6 /\ s2 # ProvisioningPart!None
                     THEN ProvisioningPart!decode(s2, s5) ELSE s5
      /\ s7' = IF s5'.provisioned THEN "running" ELSE "password"
  BY DEF ProvisioningPart!load, ProvisioningPart!files
<1>2. /\ s2 \in ProvisioningPart!Files /\ s4 \in Compiled /\ s5 = s4
      /\ s1 = "littlefs" => s6
  BY <1>1 DEF PInv, FlashInv, ConfigInv
<1>3. s5' = s4 \/ s5' = ProvisioningPart!decode(s2, s4)
  BY <1>1, <1>2
<1>4. s5' \in ProvisioningPart!Configs /\ s5'.count = s5'.rows
  BY <1>2, <1>3, CompiledIsConfig, DecodeIsWhole
<1>5. FlashInv'
  BY <1>1 DEF PInv, FlashInv, Stages
<1>6. ConfigInv'
  <2>1. ProvisioningPart!decode(s2, s4)' = ProvisioningPart!decode(s2, s4)
    BY <1>1
    DEF ProvisioningPart!decode, ProvisioningPart!decodes,
        ProvisioningPart!rowsFit, ProvisioningPart!Decoded
  <2> QED
    BY <1>1, <1>2, <1>3, <1>4, <2>1 DEF ConfigInv
<1>7. InstalledInv'
  <2> SUFFICES ASSUME s8
               PROVE  /\ s1' = "littlefs"
                      /\ ProvisioningPart!decodes(s2, s4, TRUE)'
                      /\ s7' \in {"restart", "setup", "load", "running"}
    BY <1>1 DEF InstalledInv
  <2>1. s1 = "littlefs" /\ ProvisioningPart!decodes(s2, s4, TRUE)
    BY DEF PInv, InstalledInv
  <2>2. s5' = ProvisioningPart!decode(s2, s4)
        /\ ProvisioningPart!decode(s2, s4).provisioned
    BY <1>1, <1>2, <2>1, CommittedIsProvisioned
  <2>3. ProvisioningPart!decodes(s2, s4, TRUE)'
    BY <1>1, <2>1
    DEF ProvisioningPart!decodes, ProvisioningPart!rowsFit,
        ProvisioningPart!Decoded
  <2> QED
    BY <1>1, <2>1, <2>2, <2>3
<1> QED
  BY <1>5, <1>6, <1>7 DEF PInv

\* download(): only the file of the download is written.
LEMMA DownloadInv ==
  ASSUME PInv, ProvisioningPart!openPending \/ ProvisioningPart!writeToStream
         \/ ProvisioningPart!discard
  PROVE  PInv'
<1>1. /\ UNCHANGED <<s1, s2, s4, s5, s8, s6>>
      /\ s3' \in ProvisioningPart!Files
      /\ s7 \in {"download", "receive", "discard"}
      /\ s7' \in {"receive", "commit", "discard", "scan"}
      /\ s7' \in {"receive", "commit"} => s6
  BY DEF ProvisioningPart!openPending, ProvisioningPart!writeToStream,
         ProvisioningPart!discard, ProvisioningPart!received,
         ProvisioningPart!Files, PInv, FlashInv
<1>2. FlashInv'
  BY <1>1 DEF PInv, FlashInv, Stages
<1>3. ConfigInv'
  BY <1>1
  DEF PInv, ConfigInv, ProvisioningPart!decode, ProvisioningPart!decodes,
      ProvisioningPart!rowsFit, ProvisioningPart!Decoded
<1>4. ~s8'
  BY <1>1 DEF PInv, InstalledInv
<1> QED
  BY <1>2, <1>3, <1>4 DEF PInv, InstalledInv

LEMMA CommitInv ==
  ASSUME PInv, ProvisioningPart!commitDownloaded
  PROVE  PInv'
<1>1. /\ s7 = "commit" /\ UNCHANGED <<s1, s4, s5, s6>>
      /\ s6 /\ s1 = "littlefs"
  BY DEF ProvisioningPart!commitDownloaded, PInv, FlashInv
<1>2. CASE /\ ProvisioningPart!committable(s3)
           /\ s2' = s3 /\ s3' = ProvisioningPart!None
           /\ s8' = TRUE /\ s7' = "restart"
  <2>1. FlashInv'
    BY <1>1, <1>2 DEF PInv, FlashInv, Stages, ProvisioningPart!Files
  <2>2. ConfigInv'
    BY <1>1, <1>2 DEF PInv, ConfigInv
  <2>3. ProvisioningPart!decodes(s2, s4, TRUE)'
    BY <1>1, <1>2
    DEF ProvisioningPart!committable, ProvisioningPart!decodes,
        ProvisioningPart!rowsFit, ProvisioningPart!Decoded
  <2> QED
    BY <1>1, <1>2, <2>1, <2>2, <2>3 DEF PInv, InstalledInv
<1>3. CASE /\ s7' = "discard"
           /\ UNCHANGED <<s2, s3, s8>>
  <2>1. FlashInv'
    BY <1>1, <1>3 DEF PInv, FlashInv, Stages
  <2>2. ConfigInv'
    BY <1>1, <1>3
    DEF PInv, ConfigInv, ProvisioningPart!decode, ProvisioningPart!decodes,
        ProvisioningPart!rowsFit, ProvisioningPart!Decoded
  <2>3. ~s8'
    BY <1>1, <1>3 DEF PInv, InstalledInv
  <2> QED
    BY <2>1, <2>2, <2>3 DEF PInv, InstalledInv
<1> QED
  BY <1>2, <1>3 DEF ProvisioningPart!commitDownloaded

\* Power fails, or the box restarts itself: the flash stays.
LEMMA RestartInv ==
  ASSUME DoorsExist, PInv, ProvisioningPart!restart
  PROVE  PInv'
<1>1. /\ UNCHANGED <<s1, s2, s3, s4, s8>>
      /\ s7' = "setup" /\ s5' = s4 /\ s6' = FALSE
  BY DEF ProvisioningPart!restart, ProvisioningPart!files
<1>2. s4 \in ProvisioningPart!Configs /\ s4.count = s4.rows
  BY CompiledIsConfig DEF PInv, ConfigInv
<1>3. FlashInv'
  BY <1>1 DEF PInv, FlashInv, Stages
<1>4. ConfigInv'
  BY <1>1, <1>2 DEF PInv, ConfigInv
<1>5. InstalledInv'
  BY <1>1
  DEF PInv, InstalledInv, ProvisioningPart!decodes, ProvisioningPart!rowsFit,
      ProvisioningPart!Decoded
<1> QED
  BY <1>3, <1>4, <1>5 DEF PInv

LEMMA ProvisioningStep ==
  DoorsExist /\ PInv /\ [ProvisioningPart!Next]_(ProvisioningPart!vars)
  => PInv'
<1> SUFFICES ASSUME DoorsExist, PInv,
                    [ProvisioningPart!Next]_(ProvisioningPart!vars) PROVE PInv'
  OBVIOUS
<1>1. CASE UNCHANGED ProvisioningPart!vars
  BY <1>1
  DEF ProvisioningPart!vars, PInv, FlashInv, ConfigInv, InstalledInv,
      ProvisioningPart!decode, ProvisioningPart!decodes,
      ProvisioningPart!rowsFit, ProvisioningPart!Decoded
<1> QED
  BY <1>1, StagesInv, LoadInv, DownloadInv, CommitInv, RestartInv
  DEF ProvisioningPart!Next, ProvisioningPart!Step

\* What a step does to the flash: begin() and commitDownloaded() write it.
LEMMA KeepsDataNext == ProvisioningPart!Next => ProvisioningPart!KeepsDataStep
<1> SUFFICES ASSUME ProvisioningPart!Next PROVE ProvisioningPart!KeepsDataStep
  OBVIOUS
<1>1. CASE ProvisioningPart!begin
  BY <1>1
  DEF ProvisioningPart!begin, ProvisioningPart!partitionIsBlank,
      ProvisioningPart!KeepsDataStep
<1>2. CASE ProvisioningPart!commitDownloaded
  <2>1. s1' = s1 /\ s4' = s4
    BY <1>2 DEF ProvisioningPart!commitDownloaded
  <2>2. \/ s2' = s3 /\ ProvisioningPart!committable(s3)
        \/ s2' = s2
    BY <1>2 DEF ProvisioningPart!commitDownloaded
  <2> QED
    BY <2>1, <2>2
    DEF ProvisioningPart!KeepsDataStep, ProvisioningPart!committable
<1>3. CASE ProvisioningPart!Step /\ ~ProvisioningPart!begin
           /\ ~ProvisioningPart!commitDownloaded
  BY <1>3
  DEF ProvisioningPart!Step, ProvisioningPart!load, ProvisioningPart!password,
      ProvisioningPart!parse, ProvisioningPart!downloadFails,
      ProvisioningPart!openPending, ProvisioningPart!writeToStream,
      ProvisioningPart!discard, ProvisioningPart!files,
      ProvisioningPart!KeepsDataStep
<1>4. CASE ProvisioningPart!restart
  BY <1>4
  DEF ProvisioningPart!restart, ProvisioningPart!files,
      ProvisioningPart!KeepsDataStep
<1> QED
  BY <1>1, <1>2, <1>3, <1>4 DEF ProvisioningPart!Next, ProvisioningPart!Step

-----------------------------------------------------------------------------
(* Keypad *)
(* In this part s1 is state; s2 is waiting; s3 is kb; s4 is intent; s5 is  *)
(* stale; s6 is done.                                                      *)

\* Keys are decimal digits, and the bounds are numbers.
KeypadFits == Digits \subseteq 0 .. 9 /\ PASS_MAX \in Nat /\ MaxKeys \in Nat

KeyboardStates ==
  [mode : {"COMMAND", "PASSWORD"}, private : {"NONE", "COMMAND", "PASSWORD"},
   len : 0 .. PASS_MAX, complete : BOOLEAN, cancel : BOOLEAN,
   pass : [KeypadPart!Cells -> Digits \cup {KeypadPart!Space, KeypadPart!NUL}],
   key : KeypadPart!Keys \cup {KeypadPart!Space, KeypadPart!NUL}]

Intents ==
  [digits : Seq(Digits), typed : SUBSET Digits, entered : BOOLEAN,
   late : BOOLEAN]

LEMMA KeysApart ==
  KeypadFits => /\ \A d \in Digits : d \in 0 .. 9
                /\ KeypadPart!NUL \notin Digits
                /\ KeypadPart!Space \notin Digits
                /\ KeypadPart!CANCEL \notin Digits
                /\ KeypadPart!ENTER \notin Digits
                /\ KeypadPart!CANCEL # KeypadPart!ENTER
                /\ KeypadPart!CANCEL # KeypadPart!Space
                /\ KeypadPart!CANCEL # KeypadPart!NUL
  BY DEF KeypadFits, KeypadPart!NUL, KeypadPart!Space, KeypadPart!CANCEL,
         KeypadPart!ENTER

\* The presses of a round, and what is left after some of them.
LEMMA WaitingKeys ==
  ASSUME KeypadPart!KeypadTypes
  PROVE  /\ Len(s2) \in Nat
            /\ \A i \in 1 .. Len(s2) : s2[i] \in KeypadPart!Keys
         /\ s2 # <<>> => KeypadPart!Last(s2) \in KeypadPart!Keys
         /\ Len(s2) = 0 => s2 = <<>>
<1>1. s2 \in Seq(KeypadPart!Keys) /\ Len(s2) \in Nat
  BY DEF KeypadPart!KeypadTypes
<1> QED
  BY <1>1 DEF KeypadPart!Last

KeyWalk(n, k, f) ==
  f = [i \in 0 .. n |->
         IF i = 0 THEN [made |-> k, meaning |-> s4]
         ELSE [made |-> KeypadPart!handleKey(f[i - 1].made, s2[i]),
               meaning |-> KeypadPart!means(f[i - 1].meaning, s2[i])]]

LEMMA KeyWalkExists ==
  ASSUME NEW m \in Nat, NEW k
  PROVE  \E f : KeyWalk(m, k, f)
<1> DEFINE w0 == [made |-> k, meaning |-> s4]
           next(w, i) == [made |-> KeypadPart!handleKey(w.made, s2[i]),
                          meaning |-> KeypadPart!means(w.meaning, s2[i])]
           Bad == {n \in Nat : ~\E f : KeyWalk(n, k, f)}
<1>0. \A n, f : KeyWalk(n, k, f) <=>
        f = [i \in 0 .. n |-> IF i = 0 THEN w0 ELSE next(f[i - 1], i)]
  BY DEF KeyWalk
<1> HIDE DEF w0, next
<1>1. ASSUME Bad # {} PROVE FALSE
  <2>1. PICK n \in Bad : \A j \in Bad : n <= j
    <3>1. Bad \subseteq Nat
      OBVIOUS
    <3> HIDE DEF Bad
    <3> QED
      BY <1>1, <3>1, LeastNumber
  <2>2. n \in Nat /\ ~\E f : KeyWalk(n, k, f)
    BY <2>1
  <2>3. CASE n = 0
    <3> DEFINE g == [i \in 0 .. 0 |-> w0]
    <3>1. KeyWalk(0, k, g)
      <4>1. \A i \in 0 .. 0 : i = 0
        OBVIOUS
      <4>2. g = [i \in 0 .. 0 |-> IF i = 0 THEN w0 ELSE next(g[i - 1], i)]
        BY <4>1
      <4> HIDE DEF g
      <4> QED
        BY <1>0, <4>2
    <3> QED
      BY <2>2, <2>3, <3>1
  <2>4. CASE n # 0
    <3>1. n - 1 \in Nat /\ n - 1 \notin Bad
      <4>1. n - 1 \in Nat /\ ~(n <= n - 1)
        BY <2>2, <2>4
      <4> HIDE DEF Bad
      <4> QED
        BY <2>1, <4>1
    <3>2. PICK f : f
              = [i \in 0 .. n - 1 |-> IF i = 0 THEN w0 ELSE next(f[i - 1], i)]
      BY <1>0, <3>1
    <3> DEFINE g == [i \in 0 .. n
                       |-> IF i = n THEN next(f[n - 1], n) ELSE f[i]]
    <3>3. ASSUME NEW i \in 0 .. n
          PROVE  g[i] = IF i = 0 THEN w0 ELSE next(g[i - 1], i)
      <4>1. CASE i = n
        <5>1. n - 1 \in 0 .. n /\ n - 1 # n /\ n \in 0 .. n
          BY <2>2, <2>4
        <5>2. g[n - 1] = f[n - 1] /\ g[n] = next(f[n - 1], n)
          BY <5>1
        <5> HIDE DEF g
        <5> QED
          BY <2>4, <4>1, <5>2
      <4>2. CASE i # n
        <5>1. i \in 0 .. n - 1
          BY <2>2, <4>2
        <5>2. f[i] = IF i = 0 THEN w0 ELSE next(f[i - 1], i)
          BY <3>2, <5>1
        <5>3. g[i] = f[i] /\ (i # 0 => g[i - 1] = f[i - 1])
          BY <2>2, <4>2
        <5> HIDE DEF g
        <5> QED
          BY <5>2, <5>3
      <4> QED
        BY <4>1, <4>2
    <3>4. g = [i \in 0 .. n |-> IF i = 0 THEN w0 ELSE next(g[i - 1], i)]
      <4>1. g = [i \in 0 .. n |-> g[i]]
        OBVIOUS
      <4> HIDE DEF g
      <4> QED
        BY <3>3, <4>1
    <3> HIDE DEF g
    <3>5. KeyWalk(n, k, g)
      BY <1>0, <3>4
    <3> QED
      BY <2>2, <3>5
  <2> QED
    BY <2>3, <2>4
<1> QED
  BY <1>1

\* What the array holds in front of the first NUL is what strncpy() copies.
LEMMA TextIsTyped ==
  ASSUME KeypadFits,
         NEW p \in [KeypadPart!Cells -> Digits \cup {KeypadPart!Space,
                                                     KeypadPart!NUL}],
         NEW d \in Seq(Digits), Len(d) <= PASS_MAX,
         p[Len(d) + 1] = KeypadPart!NUL,
         \A i \in 1 .. Len(d) : p[i] = d[i]
  PROVE  KeypadPart!text(p) = d
<1> DEFINE n == Len(d)
           end == CHOOSE i \in KeypadPart!Cells : p[i] = KeypadPart!NUL
           /\ \A j \in 1 .. i - 1 : p[j] # KeypadPart!NUL
<1>1. n \in Nat /\ n + 1 \in KeypadPart!Cells
  BY DEF KeypadPart!Cells, KeypadFits
<1>2. \A i \in 1 .. n : d[i] \in Digits /\ p[i] # KeypadPart!NUL
  BY KeysApart
<1>3. p[n + 1] = KeypadPart!NUL
      /\ \A j \in 1 .. (n + 1) - 1 : p[j] # KeypadPart!NUL
  BY <1>1, <1>2
<1>4. end \in KeypadPart!Cells /\ p[end] = KeypadPart!NUL
      /\ \A j \in 1 .. end - 1 : p[j] # KeypadPart!NUL
  <2> HIDE DEF n
  <2> QED
    BY <1>1, <1>3
<1>5. KeypadPart!text(p) = SubSeq(p, 1, end - 1)
  BY DEF KeypadPart!text
<1> HIDE DEF end, n
<1>6. end = n + 1
  <2>1. end \in Int /\ 1 <= end
    BY <1>4 DEF KeypadPart!Cells
  <2>2. CASE end < n + 1
    <3>1. end \in 1 .. n
      BY <1>1, <2>1, <2>2
    <3> QED
      BY <1>2, <1>4, <3>1
  <2>3. CASE n + 1 < end
    <3>1. n + 1 \in 1 .. end - 1
      BY <1>1, <2>1, <2>3
    <3> QED
      BY <1>3, <1>4, <3>1
  <2> QED
    BY <1>1, <2>1, <2>2, <2>3
<1>7. end - 1 = n
  BY <1>1, <1>6
<1>8. \A i \in 1 .. n : p[i] \in Digits
  BY <1>2 DEF n
<1>9. /\ SubSeq(p, 1, n) \in Seq(Digits)
      /\ Len(SubSeq(p, 1, n)) = IF 1 <= n THEN n - 1 + 1 ELSE 0
      /\ \A i \in 1 .. n - 1 + 1 : SubSeq(p, 1, n)[i] = p[1 + i - 1]
  <2>1. 1 \in Int /\ n \in Int
    BY <1>1
  <2> QED
    BY <1>8, <2>1, SubSeqProperties
<1>10. Len(SubSeq(p, 1, n)) = n /\ \A i \in 1 .. n : SubSeq(p, 1, n)[i] = d[i]
  BY <1>1, <1>9 DEF n
<1>11. SubSeq(p, 1, n) = d
  BY <1>9, <1>10 DEF n
<1> QED
  BY <1>5, <1>7, <1>11

\* Whatever is in the array, strncpy() copies cells that are no NUL.
LEMMA TextOfCells ==
  ASSUME KeypadFits,
         NEW p \in [KeypadPart!Cells -> Digits \cup {KeypadPart!Space,
                                                     KeypadPart!NUL}], NEW T,
         p[PASS_MAX + 1] = KeypadPart!NUL,
         \A i \in 1 .. PASS_MAX : p[i]
             \in T \cup {KeypadPart!Space, KeypadPart!NUL}
  PROVE  KeypadPart!Range(KeypadPart!text(p)) \subseteq T \cup {KeypadPart!Space}
<1> DEFINE Ends == {i \in KeypadPart!Cells : p[i] = KeypadPart!NUL}
           first(i) == p[i] = KeypadPart!NUL
           /\ \A j \in 1 .. i - 1 : p[j] # KeypadPart!NUL
           end == CHOOSE i \in KeypadPart!Cells : first(i)
<1>1. KeypadPart!Cells = 1 .. PASS_MAX + 1 /\ PASS_MAX + 1 \in KeypadPart!Cells
  BY DEF KeypadPart!Cells, KeypadFits
<1>2. PICK e \in Ends : \A i \in Ends : e <= i
  <2>1. Ends \subseteq Nat /\ Ends # {}
    BY <1>1
  <2> HIDE DEF Ends
  <2> QED
    BY <2>1, LeastNumber
<1>3. e \in KeypadPart!Cells /\ first(e)
  <2>1. \A j \in 1 .. e - 1 : j \in KeypadPart!Cells /\ ~(e <= j)
    BY <1>1, <1>2
  <2> QED
    BY <1>2, <2>1
<1>4. end \in KeypadPart!Cells /\ first(end)
  BY <1>3
<1>5. KeypadPart!text(p) = SubSeq(p, 1, end - 1)
  BY DEF KeypadPart!text
<1> HIDE DEF end
<1>6. end - 1 \in 0 .. PASS_MAX
  BY <1>1, <1>4 DEF KeypadFits
<1>7. \A i \in 1 .. end - 1 : p[i] \in T \cup {KeypadPart!Space}
  BY <1>4, <1>6 DEF KeypadFits
<1>8. KeypadPart!text(p) \in Seq(T \cup {KeypadPart!Space})
  <2> DEFINE n == end - 1
  <2>1. 1 \in Int /\ n \in Int
        /\ \A i \in 1 .. n : p[i] \in T \cup {KeypadPart!Space}
    BY <1>6, <1>7
  <2> HIDE DEF n
  <2>2. SubSeq(p, 1, n) \in Seq(T \cup {KeypadPart!Space})
    BY <2>1, SubSeqProperties
  <2> QED
    BY <1>5, <2>2 DEF n
<1> QED
  BY <1>8 DEF KeypadPart!Range

\* In Password a poll sets the modes, and forgets nothing that was typed.
LEMMA ModeInPassword ==
  ASSUME KeypadFits, KeypadPart!KeypadInv, s1 = "Password"
  PROVE  LET k == KeypadPart!modeSet(s3)
         IN  /\ k \in KeyboardStates /\ k.private = "PASSWORD"
             /\ ~k.complete /\ ~k.cancel /\ k.key = s3.key
             /\ k.len = s3.len /\ k.pass = s3.pass
<1>1. s3 \in KeyboardStates /\ ~s3.complete /\ ~s3.cancel
  BY DEF KeypadPart!KeypadInv, KeypadPart!KeypadTypes, KeyboardStates,
         KeypadPart!TypedInv, KeypadPart!CancelInv
<1>2. s3.private # "PASSWORD" => s3.len = 0
  BY DEF KeypadPart!KeypadInv, KeypadPart!TypedInv
<1> DEFINE k1 == [s3 EXCEPT !.mode = "PASSWORD", !.private = "PASSWORD"]
<1>3. KeypadPart!modeSet(s3) = IF s3.private # "PASSWORD"
                      THEN [k1 EXCEPT !.len = 0, !.complete = FALSE] ELSE k1
  BY DEF KeypadPart!modeSet
<1>4. 0 \in 0 .. PASS_MAX
  BY DEF KeypadFits
<1>5. CASE s3.private # "PASSWORD"
  <2>1. KeypadPart!modeSet(s3) = [k1 EXCEPT !.len = 0, !.complete = FALSE]
    BY <1>3, <1>5
  <2> QED
    BY <1>1, <1>2, <1>4, <1>5, <2>1 DEF KeyboardStates
<1>6. CASE s3.private = "PASSWORD"
  <2>1. KeypadPart!modeSet(s3) = k1
    BY <1>3, <1>6
  <2> QED
    BY <1>1, <1>6, <2>1 DEF KeyboardStates
<1> QED
  BY <1>5, <1>6

LEMMA ModeElsewhere ==
  ASSUME KeypadFits, KeypadPart!KeypadInv, s1 # "Password"
  PROVE  /\ KeypadPart!modeSet(s3)
                = [s3 EXCEPT !.mode = "COMMAND", !.private = "COMMAND"]
         /\ KeypadPart!modeSet(s3) \in KeyboardStates
         /\ KeypadPart!modeSet(s3).pass = s3.pass
  BY DEF KeypadPart!modeSet, KeyboardStates, KeypadPart!KeypadInv,
         KeypadPart!KeypadTypes

\* What a key does to the array: a digit or a NUL may get into a cell.
KeyInto(k, key, h) ==
  /\ h \in KeyboardStates /\ h.private = k.private /\ h.key = k.key
  /\ k.complete => h.complete
  /\ k.pass[PASS_MAX + 1] = KeypadPart!NUL
     => h.pass[PASS_MAX + 1] = KeypadPart!NUL
  /\ \A i \in 1 .. PASS_MAX : h.pass[i]
         \in {k.pass[i], KeypadPart!NUL} \cup ({key} \cap Digits)
  /\ ~h.complete =>
       \A i \in 1 .. PASS_MAX : h.pass[i]
           \in {k.pass[i]} \cup ({key} \cap Digits)

LEMMA KeyArray ==
  ASSUME KeypadFits, NEW k \in KeyboardStates, NEW key \in KeypadPart!Keys
  PROVE  KeyInto(k, key, KeypadPart!handleKey(k, key))
<1> DEFINE h == KeypadPart!handleKey(k, key)
<1>1. /\ PASS_MAX \in Nat /\ KeypadPart!Cells = 1 .. PASS_MAX + 1
      /\ k.len \in 0 .. PASS_MAX
      /\ k.pass \in [KeypadPart!Cells -> Digits \cup {KeypadPart!Space,
                                                      KeypadPart!NUL}]
      /\ k.len + 1 \in KeypadPart!Cells /\ PASS_MAX + 1 \in KeypadPart!Cells
      /\ \A i \in 1 .. PASS_MAX : i \in KeypadPart!Cells /\ i # PASS_MAX + 1
  BY DEF KeypadFits, KeyboardStates, KeypadPart!Cells
<1>2. CASE h = k
  BY <1>1, <1>2 DEF KeyInto
<1>3. CASE key \in Digits /\ k.len < PASS_MAX
  <2>1. h = [k EXCEPT !.pass[k.len + 1] = key, !.len = @ + 1]
    BY <1>3, KeysApart DEF KeypadPart!handleKey, KeypadPart!room
  <2>2. /\ h.pass = [k.pass EXCEPT ![k.len + 1] = key] /\ h.len = k.len + 1
        /\ h.complete = k.complete /\ h.private = k.private /\ h.key = k.key
    BY <2>1 DEF KeyboardStates
  <2>3. h.len \in 0 .. PASS_MAX /\ k.len + 1 # PASS_MAX + 1
    BY <1>1, <1>3, <2>2
  <2>4. h.pass \in [KeypadPart!Cells -> Digits \cup {KeypadPart!Space,
                                                     KeypadPart!NUL}]
    BY <1>1, <1>3, <2>2
  <2>5. h \in KeyboardStates
    BY <2>1, <2>3, <2>4, <2>2 DEF KeyboardStates
  <2>6. \A i \in KeypadPart!Cells : h.pass[i]
            = IF i = k.len + 1 THEN key ELSE k.pass[i]
    BY <1>1, <2>2
  <2> QED
    BY <1>1, <1>3, <2>2, <2>3, <2>5, <2>6 DEF KeyInto
<1>4. CASE key = KeypadPart!CANCEL
  <2>1. key \notin Digits
    BY <1>4, KeysApart
  <2>2. h = IF k.len > 0
            THEN [k EXCEPT !.len = @ - 1] ELSE [k EXCEPT !.cancel = TRUE]
    BY <1>4, <2>1, KeysApart DEF KeypadPart!handleKey
  <2>3. /\ h.pass = k.pass /\ h.complete = k.complete /\ h.private = k.private
        /\ h.key = k.key
    BY <2>2 DEF KeyboardStates
  <2>4. h \in KeyboardStates
    <3>1. CASE k.len > 0
      <4>1. h = [k EXCEPT !.len = @ - 1] /\ k.len - 1 \in 0 .. PASS_MAX
        BY <1>1, <2>2, <3>1
      <4> QED
        BY <4>1 DEF KeyboardStates
    <3>2. CASE ~(k.len > 0)
      <4>1. h = [k EXCEPT !.cancel = TRUE]
        BY <2>2, <3>2
      <4> QED
        BY <4>1 DEF KeyboardStates
    <3> QED
      BY <3>1, <3>2
  <2> QED
    BY <2>3, <2>4 DEF KeyInto
<1>5. CASE key = KeypadPart!ENTER /\ k.len > 0
  <2>1. key \notin Digits /\ key # KeypadPart!CANCEL
    BY <1>5, KeysApart
  <2>2. h = [k EXCEPT !.pass = KeypadPart!ended(k), !.complete = TRUE]
    BY <1>5, <2>1 DEF KeypadPart!handleKey
  <2>3. /\ h.pass = [k.pass EXCEPT ![k.len + 1] = KeypadPart!NUL]
        /\ h.len = k.len
        /\ h.complete /\ h.private = k.private /\ h.key = k.key
    BY <2>2 DEF KeyboardStates, KeypadPart!ended
  <2>4. h.pass \in [KeypadPart!Cells -> Digits \cup {KeypadPart!Space,
                                                     KeypadPart!NUL}]
    BY <1>1, <2>3
  <2>5. h \in KeyboardStates
    BY <2>2, <2>3, <2>4 DEF KeyboardStates
  <2>6. \A i \in KeypadPart!Cells : h.pass[i]
            = IF i = k.len + 1 THEN KeypadPart!NUL ELSE k.pass[i]
    BY <1>1, <2>3
  <2> QED
    BY <1>1, <2>3, <2>5, <2>6 DEF KeyInto
<1>6. h = k \/ (key \in Digits /\ k.len < PASS_MAX)
          \/ key = KeypadPart!CANCEL \/ (key = KeypadPart!ENTER /\ k.len > 0)
  <2>1. CASE key \in Digits
    BY <2>1 DEF KeypadPart!handleKey, KeypadPart!room
  <2>2. CASE key = KeypadPart!ENTER
    BY <2>2, KeysApart DEF KeypadPart!handleKey
  <2> QED
    BY <2>1, <2>2 DEF KeypadPart!Keys
<1> QED
  BY <1>2, <1>3, <1>4, <1>5, <1>6

\* Up to the '#' what is in the array is what was typed and not erased, and the
\* '#' has ended it with a NUL.
Edited(k, w) ==
  /\ k \in KeyboardStates /\ w \in Intents
  /\ k.len = Len(w.digits) /\ \A i \in 1 .. k.len : k.pass[i] = w.digits[i]
  /\ k.private = "PASSWORD"
  /\ k.complete = w.entered
  /\ k.complete => k.len > 0 /\ k.pass[k.len + 1] = KeypadPart!NUL

LEMMA EditHandled ==
  ASSUME KeypadFits, NEW k, NEW w, NEW key \in KeypadPart!Keys, Edited(k, w),
         ~k.complete
  PROVE  Edited(KeypadPart!handleKey(k, key), KeypadPart!editing(w, key))
<1> DEFINE d == w.digits
           n == Len(d)
<1>1. /\ k \in KeyboardStates /\ w \in Intents /\ ~w.entered
      /\ k.len = n /\ k.private = "PASSWORD"
      /\ \A i \in 1 .. n : k.pass[i] = d[i]
  BY DEF Edited
<1>2. d \in Seq(Digits) /\ n \in Nat /\ n <= PASS_MAX /\ PASS_MAX \in Nat
  <2>1. d \in Seq(Digits) /\ k.len \in 0 .. PASS_MAX
    BY <1>1 DEF Intents, KeyboardStates
  <2> QED
    BY <1>1, <2>1, LenProperties DEF KeypadFits
<1>3. k.pass \in [KeypadPart!Cells -> Digits \cup {KeypadPart!Space,
                                                   KeypadPart!NUL}]
                                                   /\ n + 1 \in KeypadPart!Cells
  BY <1>1, <1>2 DEF KeyboardStates, KeypadPart!Cells
<1>4. CASE key \in Digits
  <2>1. /\ KeypadPart!handleKey(k, key) =
             IF k.len < PASS_MAX
               THEN [k EXCEPT !.pass[k.len + 1] = key, !.len = @ + 1] ELSE k
        /\ KeypadPart!editing(w, key) =
             IF n < PASS_MAX THEN [w EXCEPT !.digits = Append(@, key)] ELSE w
    BY <1>1, <1>4, KeysApart
    DEF KeypadPart!handleKey, KeypadPart!editing, KeypadPart!room
  <2>2. CASE ~(n < PASS_MAX)
    BY <1>1, <2>1, <2>2
  <2>3. CASE n < PASS_MAX
    <3> DEFINE h == [k EXCEPT !.pass[k.len + 1] = key, !.len = @ + 1]
               v == [w EXCEPT !.digits = Append(@, key)]
    <3>1. KeypadPart!handleKey(k, key) = h /\ KeypadPart!editing(w, key) = v
      BY <1>1, <2>1, <2>3
    <3>2. /\ Append(d, key) \in Seq(Digits) /\ Len(Append(d, key)) = n + 1
          /\ \A i \in 1 .. n : Append(d, key)[i] = d[i]
          /\ Append(d, key)[n + 1] = key
      BY <1>2, <1>4
    <3>3. /\ v.digits = Append(d, key) /\ v.entered = w.entered
          /\ v \in Intents
      BY <1>1, <3>2 DEF Intents
    <3>4. /\ h.len = n + 1 /\ h.pass = [k.pass EXCEPT ![n + 1] = key]
          /\ h.complete = k.complete /\ h.private = k.private /\ h.key = k.key
      BY <1>1 DEF KeyboardStates
    <3>5. /\ h.pass \in [KeypadPart!Cells -> Digits \cup {KeypadPart!Space,
                                                          KeypadPart!NUL}]
          /\ h.len \in 0 .. PASS_MAX
      BY <1>2, <1>3, <1>4, <2>3, <3>4
    <3>6. h \in KeyboardStates
      BY <1>1, <3>4, <3>5 DEF KeyboardStates
    <3>7. \A i \in 1 .. n + 1 : h.pass[i] = Append(d, key)[i]
      <4>1. ASSUME NEW i \in 1 .. n + 1 PROVE h.pass[i] = Append(d, key)[i]
        <5>1. i \in KeypadPart!Cells
              /\ (i = n + 1 \/ (i \in 1 .. n /\ i # n + 1))
          BY <1>2 DEF KeypadPart!Cells
        <5> HIDE DEF h, n, d
        <5> QED
          BY <1>1, <1>3, <3>2, <3>4, <5>1
      <4> QED
        BY <4>1
    <3> HIDE DEF h, v, n, d
    <3> QED
      BY <1>1, <3>1, <3>2, <3>3, <3>4, <3>6, <3>7 DEF Edited
  <2> QED
    BY <2>2, <2>3
<1>5. CASE key = KeypadPart!CANCEL
  <2>1. CASE n > 0
    <3> DEFINE h == [k EXCEPT !.len = @ - 1]
               v == [w EXCEPT !.digits = KeypadPart!Front(@)]
    <3>1. KeypadPart!handleKey(k, key) = h /\ KeypadPart!editing(w, key) = v
      <4>1. key \notin Digits /\ k.len > 0 /\ d # <<>>
            /\ key # KeypadPart!ENTER
        BY <1>1, <1>2, <1>5, <2>1, KeysApart
      <4> QED
        BY <1>1, <1>5, <4>1 DEF KeypadPart!handleKey, KeypadPart!editing
    <3>2. /\ KeypadPart!Front(d) \in Seq(Digits)
          /\ Len(KeypadPart!Front(d)) = n - 1
          /\ \A i \in 1 .. n - 1 : KeypadPart!Front(d)[i] = d[i]
      <4>1. \A i \in 1 .. n - 1 : d[i] \in Digits
        BY <1>2
      <4>2. 1 \in Int /\ n - 1 \in Int
            /\ KeypadPart!Front(d) = SubSeq(d, 1, n - 1)
        BY <1>2 DEF KeypadPart!Front
      <4>3. /\ SubSeq(d, 1, n - 1) \in Seq(Digits)
            /\ Len(SubSeq(d, 1, n - 1))
                   = IF 1 <= n - 1 THEN n - 1 - 1 + 1 ELSE 0
            /\ \A i \in 1 .. n - 1 - 1 + 1 : SubSeq(d, 1, n - 1)[i]
                   = d[1 + i - 1]
        <5> HIDE DEF n, d
        <5> QED
          BY <4>1, <4>2, SubSeqProperties
      <4> QED
        BY <1>2, <2>1, <4>2, <4>3
    <3>3. h \in KeyboardStates
      BY <1>1, <1>2, <2>1 DEF KeyboardStates
    <3>4. /\ h.len = n - 1 /\ h.pass = k.pass /\ h.complete = k.complete
          /\ h.private = k.private /\ h.key = k.key
          /\ v.digits = KeypadPart!Front(d) /\ v.entered = w.entered
          /\ v \in Intents
      BY <1>1, <3>2 DEF KeyboardStates, Intents
    <3> HIDE DEF h, v, n, d
    <3> QED
      BY <1>1, <1>2, <3>1, <3>2, <3>3, <3>4 DEF Edited
  <2>2. CASE n = 0
    <3>1. key \notin Digits /\ ~(k.len > 0) /\ d = <<>>
          /\ key # KeypadPart!ENTER
      BY <1>1, <1>2, <1>5, <2>2, KeysApart
    <3>2. KeypadPart!handleKey(k, key) = [k EXCEPT !.cancel = TRUE]
      BY <1>5, <3>1 DEF KeypadPart!handleKey
    <3>3. KeypadPart!editing(w, key) = [w EXCEPT !.digits = @]
      BY <1>1, <1>5, <3>1 DEF KeypadPart!editing
    <3>4. KeypadPart!editing(w, key) = w
      BY <1>1, <3>3 DEF Intents
    <3> QED
      BY <3>2, <3>4 DEF Edited, KeyboardStates
  <2> QED
    BY <1>2, <2>1, <2>2
<1>6. CASE key = KeypadPart!ENTER
  <2>1. key \notin Digits /\ key # KeypadPart!CANCEL
    BY <1>6, KeysApart
  <2>2. CASE n > 0
    <3> DEFINE h == [k EXCEPT !.pass = KeypadPart!ended(k), !.complete = TRUE]
    <3>1. KeypadPart!handleKey(k, key) = h
      BY <1>1, <1>6, <2>1, <2>2 DEF KeypadPart!handleKey
    <3>2. KeypadPart!editing(w, key) = [w EXCEPT !.entered = TRUE]
      <4>1. (w.digits # <<>>) = TRUE
        BY <1>2, <2>2
      <4>2. KeypadPart!editing(w, key)
                = [w EXCEPT !.entered = (w.digits # <<>>)]
        BY <1>1, <1>6, <2>1 DEF KeypadPart!editing
      <4> QED
        BY <4>1, <4>2
    <3>3. /\ KeypadPart!ended(k) = [k.pass EXCEPT ![n + 1] = KeypadPart!NUL]
          /\ KeypadPart!ended(k)
                 \in [KeypadPart!Cells -> Digits \cup {KeypadPart!Space,
                                                       KeypadPart!NUL}]
      BY <1>1, <1>3 DEF KeypadPart!ended
    <3>4. /\ h \in KeyboardStates /\ h.len = n /\ h.pass = KeypadPart!ended(k)
          /\ h.complete
          /\ h.private = k.private /\ h.key = k.key
      BY <1>1, <3>3 DEF KeyboardStates
    <3>5. KeypadPart!ended(k)[n + 1] = KeypadPart!NUL
          /\ \A i \in 1 .. n : KeypadPart!ended(k)[i] = d[i]
      <4>1. \A i \in 1 .. n : i \in KeypadPart!Cells /\ i # n + 1
        BY <1>2 DEF KeypadPart!Cells
      <4> QED
        BY <1>1, <1>3, <3>3, <4>1
    <3>6. [w EXCEPT !.entered = TRUE] \in Intents
      BY <1>1 DEF Intents
    <3>7. [w EXCEPT !.entered = TRUE].digits = d
          /\ [w EXCEPT !.entered = TRUE].entered
      BY <1>1 DEF Intents
    <3> HIDE DEF h, n, d
    <3> QED
      BY <1>1, <2>2, <3>1, <3>2, <3>4, <3>5, <3>6, <3>7 DEF Edited, n, d
  <2>3. CASE n = 0
    <3>1. ~(k.len > 0) /\ d = <<>>
      BY <1>1, <1>2, <2>3
    <3>2. KeypadPart!handleKey(k, key) = k
      BY <1>6, <2>1, <3>1 DEF KeypadPart!handleKey
    <3>3. KeypadPart!editing(w, key) = [w EXCEPT !.entered = FALSE]
      BY <1>1, <1>6, <2>1, <3>1 DEF KeypadPart!editing
    <3>4. KeypadPart!editing(w, key) = w
      BY <1>1, <3>3 DEF Intents
    <3> QED
      BY <3>2, <3>4
  <2> QED
    BY <1>2, <2>2, <2>3
<1> QED
  BY <1>4, <1>5, <1>6 DEF KeypadPart!Keys

LEMMA EditingKeeps ==
  ASSUME NEW w \in Intents, NEW key \in KeypadPart!Keys
  PROVE  KeypadPart!editing(w, key).typed = w.typed
         /\ KeypadPart!editing(w, key).late = w.late
<1>1. CASE key \in Digits
  BY <1>1 DEF KeypadPart!editing, Intents
<1>2. CASE key \notin Digits /\ key = KeypadPart!CANCEL
  BY <1>2 DEF KeypadPart!editing, Intents
<1>3. CASE key \notin Digits /\ key # KeypadPart!CANCEL
           /\ key = KeypadPart!ENTER
  BY <1>3 DEF KeypadPart!editing, Intents
<1> QED
  BY <1>1, <1>2, <1>3 DEF KeypadPart!Keys

\* And whatever was pressed, there are only digits typed since and blanks in
\* the array, with a NUL at its end and, before the '#', none in front of it.
Typed(k, w) ==
  /\ k \in KeyboardStates /\ w \in Intents /\ k.private = "PASSWORD"
  /\ k.complete = w.entered /\ k.pass[PASS_MAX + 1] = KeypadPart!NUL
  /\ \A i \in 1 .. PASS_MAX : k.pass[i]
         \in w.typed \cup {KeypadPart!Space, KeypadPart!NUL}
  /\ ~w.entered => ~w.late
     /\ \A i \in 1 .. PASS_MAX : k.pass[i] \in w.typed \cup {KeypadPart!Space}
  /\ ~w.late => Edited(k, w)

LEMMA KeyHandled ==
  ASSUME KeypadFits, NEW k, NEW w, NEW key \in KeypadPart!Keys, Typed(k, w)
  PROVE  Typed(KeypadPart!handleKey(k, key), KeypadPart!means(w, key))
         /\ KeypadPart!handleKey(k, key).key = k.key
<1> DEFINE h == KeypadPart!handleKey(k, key)
           v == KeypadPart!means(w, key)
           T == w.typed \cup ({key} \cap Digits)
<1>1. k \in KeyboardStates /\ w \in Intents /\ k.private = "PASSWORD"
  BY DEF Typed
<1>2. /\ h \in KeyboardStates /\ h.private = k.private /\ h.key = k.key
      /\ k.complete => h.complete
      /\ k.pass[PASS_MAX + 1] = KeypadPart!NUL
         => h.pass[PASS_MAX + 1] = KeypadPart!NUL
      /\ \A i \in 1 .. PASS_MAX : h.pass[i]
             \in {k.pass[i], KeypadPart!NUL} \cup ({key} \cap Digits)
      /\ ~h.complete => \A i \in 1 .. PASS_MAX :
                          h.pass[i] \in {k.pass[i]} \cup ({key} \cap Digits)
  BY <1>1, KeyArray DEF KeyInto
<1>3. T \in SUBSET Digits
  BY <1>1 DEF Intents
<1>4. \A i \in 1 .. PASS_MAX : h.pass[i]
          \in T \cup {KeypadPart!Space, KeypadPart!NUL}
  <2> HIDE DEF h
  <2> QED
    BY <1>2 DEF Typed
<1> HIDE DEF h
<1>5. CASE ~w.entered
  <2> DEFINE e == KeypadPart!editing(w, key)
  <2>1. ~k.complete /\ ~w.late /\ Edited(k, w)
    BY <1>5 DEF Typed
  <2>2. Edited(h, e)
    BY <2>1, EditHandled DEF h
  <2>3. e \in Intents /\ e.late = w.late
    BY <1>1, <2>2, EditingKeeps DEF Edited
  <2>4. v = [e EXCEPT !.typed = T]
    BY <1>5 DEF KeypadPart!means
  <2> HIDE DEF e, v, T
  <2>5. /\ v \in Intents /\ v.digits = e.digits /\ v.entered = e.entered
        /\ v.late = w.late /\ v.typed = T
    BY <1>3, <2>3, <2>4 DEF Intents
  <2>6. Edited(h, v)
    BY <2>2, <2>5 DEF Edited
  <2>7. h.complete = v.entered
    BY <2>6 DEF Edited
  <2>8. ~v.entered
        => \A i \in 1 .. PASS_MAX : h.pass[i] \in T \cup {KeypadPart!Space}
    BY <1>2, <1>5, <2>7 DEF Typed, T
  <2>9. Typed(h, v)
    BY <1>1, <1>2, <1>4, <2>1, <2>5, <2>6, <2>7, <2>8 DEF Typed
  <2> QED
    BY <1>2, <2>9 DEF h, v
<1>6. CASE w.entered
  <2>1. k.complete /\ w.late \in BOOLEAN
    BY <1>1, <1>6 DEF Typed, Intents
  <2>2. v = [[w EXCEPT !.late
                = w.late \/ key # KeypadPart!ENTER] EXCEPT !.typed = T]
    BY <1>6 DEF KeypadPart!means
  <2> HIDE DEF v, T
  <2>3. /\ v \in Intents /\ v.digits = w.digits /\ v.entered = w.entered
        /\ v.late = (w.late \/ key # KeypadPart!ENTER) /\ v.typed = T
    BY <1>1, <1>3, <2>1, <2>2 DEF Intents
  <2>4. h.complete = v.entered
    <3>1. h.complete \in BOOLEAN /\ h.complete
      BY <1>2, <2>1 DEF KeyboardStates
    <3>2. v.entered = TRUE
      BY <1>1, <1>6, <2>3 DEF Intents
    <3> QED
      BY <3>1, <3>2
  <2>5. ASSUME ~v.late PROVE Edited(h, v)
    <3>1. key = KeypadPart!ENTER /\ ~w.late
      BY <2>3, <2>5
    <3>2. Edited(k, w)
      BY <3>1 DEF Typed
    <3>3. k.len > 0 /\ k.pass[k.len + 1] = KeypadPart!NUL
      BY <2>1, <3>2 DEF Edited
    <3>4. h = [k EXCEPT !.pass = KeypadPart!ended(k), !.complete = TRUE]
      BY <3>1, <3>3, KeysApart DEF KeypadPart!handleKey, h
    <3>5. KeypadPart!ended(k) = k.pass /\ k.complete = TRUE
      BY <1>1, <2>1, <3>3 DEF KeypadPart!ended, KeyboardStates
    <3>6. h = k
      BY <1>1, <3>4, <3>5 DEF KeyboardStates
    <3> QED
      BY <2>3, <3>2, <3>6 DEF Edited
  <2>6. Typed(h, v)
    BY <1>1, <1>2, <1>4, <1>6, <2>3, <2>4, <2>5 DEF Typed
  <2> QED
    BY <1>2, <2>6 DEF h, v
<1> QED
  BY <1>5, <1>6

\* So all the presses of a round are handled one after the other.
LEMMA AllHandled ==
  ASSUME KeypadFits, KeypadPart!KeypadTypes, NEW k, Typed(k, s4)
  PROVE  LET r == KeypadPart!handled(k)
         IN  /\ Typed(r.made, r.meaning) /\ r.made.key = k.key
             /\ s2 = <<>> => r.made = k
<1> DEFINE N == Len(s2)
           after == CHOOSE f : KeyWalk(N, k, f)
<1>1. N \in Nat /\ \A i \in 1 .. N : s2[i] \in KeypadPart!Keys
  BY WaitingKeys
<1>2. KeyWalk(N, k, after)
  BY <1>1, KeyWalkExists
<1>3. KeypadPart!handled(k) = after[N]
  BY DEF KeypadPart!handled, KeyWalk
<1> HIDE DEF after
<1>4. after[0] = [made |-> k, meaning |-> s4]
  BY <1>1, <1>2 DEF KeyWalk
<1>5. ASSUME NEW i \in 0 .. N, i # 0
      PROVE  after[i] = [made
                           |-> KeypadPart!handleKey(after[i - 1].made, s2[i]),
                         meaning |-> KeypadPart!means(after[i - 1].meaning,
                                                      s2[i])]
  BY <1>2, <1>5 DEF KeyWalk
<1> DEFINE Good(r) == Typed(r.made, r.meaning) /\ r.made.key = k.key
           Bad == {i \in 0 .. N : ~Good(after[i])}
<1>6. Good(after[0])
  BY <1>4
<1>7. ASSUME Bad # {} PROVE FALSE
  <2>1. PICK n \in Bad : \A i \in Bad : n <= i
    <3>1. Bad \subseteq Nat
      BY <1>1
    <3> HIDE DEF Bad
    <3> QED
      BY <1>7, <3>1, LeastNumber
  <2>2. n \in 0 .. N /\ n \in Int /\ ~Good(after[n]) /\ n # 0
    <3> HIDE DEF Good
    <3> QED
      BY <1>1, <1>6, <2>1
  <2>3. n - 1 \in 0 .. N /\ ~(n <= n - 1) /\ n \in 1 .. N
    BY <1>1, <2>2
  <2>4. n - 1 \notin Bad
    <3> HIDE DEF Bad
    <3> QED
      BY <2>1, <2>3
  <2> DEFINE r == after[n - 1]
  <2>5. Good(r)
    BY <2>3, <2>4
  <2>6. after[n] = [made |-> KeypadPart!handleKey(r.made, s2[n]),
                    meaning |-> KeypadPart!means(r.meaning, s2[n])]
    BY <1>5, <2>2
  <2>7. s2[n] \in KeypadPart!Keys
    BY <1>1, <2>3
  <2> HIDE DEF r, Bad, N
  <2>8. /\ Typed(KeypadPart!handleKey(r.made, s2[n]),
                 KeypadPart!means(r.meaning, s2[n]))
        /\ KeypadPart!handleKey(r.made, s2[n]).key = r.made.key
    BY <2>5, <2>7, KeyHandled
  <2> QED
    BY <2>2, <2>5, <2>6, <2>8
<1>8. N \in 0 .. N
  BY <1>1
<1>9. Good(after[N])
  BY <1>7, <1>8
<1>10. s2 = <<>> => after[N].made = k
  BY <1>4
<1> QED
  BY <1>3, <1>9, <1>10

-----------------------------------------------------------------------------
\* A poll of pollKeypad().
LEMMA PollInPassword ==
  ASSUME KeypadFits, KeypadPart!KeypadInv, s1 = "Password"
  PROVE  LET k == KeypadPart!polled(KeypadPart!modeSet(s3))
         IN  /\ Typed(k, KeypadPart!understood) /\ k.key = s3.key
             /\ k.cancel => s2 # <<>>
<1> DEFINE k0 == KeypadPart!modeSet(s3)
<1>1. /\ k0 \in KeyboardStates /\ k0.private = "PASSWORD" /\ ~k0.complete
      /\ ~k0.cancel /\ k0.key = s3.key /\ k0.len = s3.len /\ k0.pass = s3.pass
  BY ModeInPassword
<1>2. KeypadPart!KeypadTypes /\ s4 \in Intents
      /\ s3.pass[PASS_MAX + 1] = KeypadPart!NUL /\ KeypadPart!TypedInv
  BY DEF KeypadPart!KeypadInv, KeypadPart!KeypadTypes, Intents
<1>3. KeypadPart!understood = KeypadPart!handled(k0).meaning
  BY DEF KeypadPart!understood
<1> HIDE DEF k0
<1>4. /\ ~s4.entered /\ ~s4.late /\ s4.entered \in BOOLEAN
      /\ k0.complete \in BOOLEAN
      /\ k0.len = Len(s4.digits)
         /\ \A i \in 1 .. k0.len : k0.pass[i] = s4.digits[i]
      /\ \A i \in 1 .. PASS_MAX : k0.pass[i]
             \in s4.typed \cup {KeypadPart!Space}
  BY <1>1, <1>2 DEF KeypadPart!TypedInv, KeyboardStates, Intents
<1>5. Edited(k0, s4)
  BY <1>1, <1>2, <1>4 DEF Edited
<1>6. Typed(k0, s4)
  BY <1>1, <1>2, <1>4, <1>5 DEF Typed
<1>7. KeypadPart!polled(k0) = KeypadPart!handled(k0).made
  BY <1>1 DEF KeypadPart!polled
<1>8. /\ Typed(KeypadPart!handled(k0).made, KeypadPart!handled(k0).meaning)
      /\ KeypadPart!handled(k0).made.key = k0.key
      /\ s2 = <<>> => KeypadPart!handled(k0).made = k0
  BY <1>2, <1>6, AllHandled
<1> QED
  BY <1>1, <1>3, <1>7, <1>8 DEF k0

LEMMA PollElsewhere ==
  ASSUME KeypadFits, KeypadPart!KeypadInv, s1 # "Password"
  PROVE  LET k == KeypadPart!polled(KeypadPart!modeSet(s3))
         IN  /\ k \in KeyboardStates /\ ~k.cancel /\ k.pass = s3.pass
             /\ s2 = <<>> => k.key = s3.key
<1> DEFINE k0 == KeypadPart!modeSet(s3)
<1>1. /\ k0 \in KeyboardStates
      /\ k0 = [s3 EXCEPT !.mode = "COMMAND", !.private = "COMMAND"]
  BY ModeElsewhere
<1>2. s3 \in KeyboardStates /\ ~s3.cancel
  BY DEF KeypadPart!KeypadInv, KeypadPart!KeypadTypes, KeypadPart!CancelInv,
         KeyboardStates
<1>3. k0.private = "COMMAND" /\ ~k0.cancel /\ k0.key = s3.key
      /\ k0.pass = s3.pass
  BY <1>1, <1>2 DEF KeyboardStates
<1> HIDE DEF k0
<1>4. KeypadPart!polled(k0)
          = IF s2 = <<>> THEN k0 ELSE [k0 EXCEPT !.key = KeypadPart!Last(s2)]
  BY <1>3 DEF KeypadPart!polled
<1>5. CASE s2 = <<>>
  BY <1>1, <1>3, <1>4, <1>5 DEF k0
<1>6. CASE s2 # <<>>
  <2>1. KeypadPart!Last(s2) \in KeypadPart!Keys
    BY <1>6, WaitingKeys DEF KeypadPart!KeypadInv
  <2>2. KeypadPart!polled(k0) = [k0 EXCEPT !.key = KeypadPart!Last(s2)]
    BY <1>4, <1>6
  <2> QED
    BY <1>1, <1>3, <1>6, <2>1, <2>2 DEF k0, KeyboardStates
<1> QED
  BY <1>5, <1>6

\* onStateChanged() begins a password with nothing typed.
LEMMA StateEntered ==
  ASSUME KeypadFits, NEW k \in KeyboardStates, NEW new
  PROVE  /\ KeypadPart!inState(k, new) \in KeyboardStates
         /\ KeypadPart!inState(k, new).key = k.key
         /\ new # "Password" => KeypadPart!inState(k, new).cancel = k.cancel
         /\ new = "Password" =>
              /\ KeypadPart!inState(k, new).len = 0
              /\ ~KeypadPart!inState(k, new).complete
              /\ ~KeypadPart!inState(k, new).cancel
              /\ \A i \in 1 .. PASS_MAX : KeypadPart!inState(k, new).pass[i]
                     = KeypadPart!Space
         /\ KeypadPart!inState(k, new).pass[PASS_MAX + 1]
                = k.pass[PASS_MAX + 1]
<1>1. 0 \in 0 .. PASS_MAX
  BY DEF KeypadFits
<1>2. /\ KeypadPart!cleared(k.pass)
             \in [KeypadPart!Cells -> Digits \cup {KeypadPart!Space,
                                                   KeypadPart!NUL}]
      /\ \A i \in 1 .. PASS_MAX : KeypadPart!cleared(k.pass)[i]
             = KeypadPart!Space
      /\ KeypadPart!cleared(k.pass)[PASS_MAX + 1] = k.pass[PASS_MAX + 1]
  <2>1. /\ PASS_MAX + 1 \in KeypadPart!Cells /\ ~(PASS_MAX + 1 <= PASS_MAX)
        /\ \A i \in 1 .. PASS_MAX : i \in KeypadPart!Cells /\ i <= PASS_MAX
    BY DEF KeypadPart!Cells, KeypadFits
  <2> QED
    BY <2>1 DEF KeypadPart!cleared, KeyboardStates
<1>3. CASE new # "Password"
  <2>1. KeypadPart!inState(k, new) = [k EXCEPT !.mode = "COMMAND"]
    BY <1>3 DEF KeypadPart!inState
  <2> QED
    BY <1>3, <2>1 DEF KeyboardStates
<1>4. CASE new = "Password"
  <2>1. KeypadPart!inState(k, new) =
          [k EXCEPT !.mode = "PASSWORD", !.len = 0, !.complete = FALSE,
                    !.cancel = FALSE, !.pass = KeypadPart!cleared(@)]
    BY <1>4 DEF KeypadPart!inState
  <2> QED
    BY <1>1, <1>2, <1>4, <2>1 DEF KeyboardStates
<1> QED
  BY <1>3, <1>4

\* Whatever takes the box to another state leaves nothing typed there.
LEMMA NothingTyped ==
  ASSUME KeypadFits, s1' \in KeypadPart!States, s3' \in KeyboardStates,
         ~s3'.cancel,
         s3'.pass[PASS_MAX + 1] = KeypadPart!NUL,
         s1' = "Password" => /\ s3'.len = 0 /\ ~s3'.complete
                                /\ \A i \in 1 .. PASS_MAX : s3'.pass[i]
                                       = KeypadPart!Space,
         s1' \in {"Password", "BadPass", "Presence", "Scan"}
         => s3'.key # KeypadPart!CANCEL,
         s2' \in Seq(KeypadPart!Keys), Len(s2') <= MaxKeys,
         s4' = KeypadPart!NoIntent, s5' \in BOOLEAN
  PROVE  KeypadPart!KeypadInv'
<1>1. KeypadPart!KeypadTypes'
  <2>1. s4' \in Intents
    BY DEF Intents, KeypadPart!NoIntent
  <2> QED
    BY <2>1 DEF KeypadPart!KeypadTypes, KeyboardStates, Intents
<1>2. KeypadPart!TypedInv'
  BY DEF KeypadPart!TypedInv, KeypadPart!NoIntent
<1>3. KeypadPart!CancelInv'
  BY DEF KeypadPart!CancelInv
<1> QED
  BY <1>1, <1>2, <1>3 DEF KeypadPart!KeypadInv

LEMMA MachineMovesInv ==
  ASSUME KeypadFits, KeypadPart!KeypadInv, KeypadPart!machineMoves
  PROVE  KeypadPart!KeypadInv' /\ s6' = KeypadPart!None
<1>1. /\ s3 \in KeyboardStates /\ ~s3.cancel /\ s1 \in KeypadPart!States
      /\ s1 \in {"Password", "BadPass", "Presence", "Scan"}
         => s3.key # KeypadPart!CANCEL
      /\ s2 \in Seq(KeypadPart!Keys) /\ Len(s2) <= MaxKeys
      /\ s3.pass[PASS_MAX + 1] = KeypadPart!NUL
  BY DEF KeypadPart!KeypadInv, KeypadPart!KeypadTypes, KeypadPart!CancelInv,
         KeyboardStates
<1>2. PICK new \in KeypadPart!afterwards(s1) :
        /\ s1' = new /\ s3' = KeypadPart!inState(s3, new) /\ s5' = TRUE
        /\ s4' = KeypadPart!NoIntent
        /\ s6' = KeypadPart!None /\ UNCHANGED s2
  BY DEF KeypadPart!machineMoves
<1>3. /\ new \in KeypadPart!States
      /\ new \in {"Password", "BadPass", "Presence", "Scan"}
           => s1 \in {"Password", "BadPass", "Presence", "Scan"}
  BY <1>1 DEF KeypadPart!afterwards, KeypadPart!States
<1>4. /\ s3' \in KeyboardStates /\ ~s3'.cancel /\ s3'.key = s3.key
      /\ s3'.pass[PASS_MAX + 1] = KeypadPart!NUL
      /\ new = "Password" => /\ s3'.len = 0 /\ ~s3'.complete
                             /\ \A i \in 1 .. PASS_MAX : s3'.pass[i]
                                    = KeypadPart!Space
  BY <1>1, <1>2, StateEntered
<1> QED
  BY <1>1, <1>2, <1>3, <1>4, NothingTyped

LEMMA PressInv ==
  ASSUME KeypadFits, KeypadPart!KeypadInv, KeypadPart!press
  PROVE  KeypadPart!KeypadInv' /\ UNCHANGED s6
<1>1. PICK key \in KeypadPart!Keys : s2' = Append(s2, key)
  BY DEF KeypadPart!press
<1>2. s2 \in Seq(KeypadPart!Keys) /\ Len(s2) < MaxKeys /\ MaxKeys \in Nat
  BY DEF KeypadPart!press, KeypadPart!KeypadInv, KeypadPart!KeypadTypes,
         KeypadFits
<1>3. s2' \in Seq(KeypadPart!Keys) /\ Len(s2') <= MaxKeys
  <2>1. Len(s2) \in Nat /\ Len(s2') = Len(s2) + 1
    BY <1>1, <1>2
  <2> QED
    BY <1>1, <1>2, <2>1
<1>4. UNCHANGED <<s1, s3, s4, s5, s6>>
  BY DEF KeypadPart!press
<1> QED
  BY <1>3, <1>4
  DEF KeypadPart!KeypadInv, KeypadPart!KeypadTypes, KeypadPart!TypedInv,
      KeypadPart!CancelInv

LEMMA NoAnswerInv ==
  ASSUME KeypadFits, KeypadPart!KeypadInv, KeypadPart!noAnswer
  PROVE  KeypadPart!KeypadInv' /\ UNCHANGED s6
<1>1. s3' = KeypadPart!modeSet(s3) /\ UNCHANGED <<s1, s2, s4, s5, s6>>
  BY DEF KeypadPart!noAnswer
<1>2. CASE s1 = "Password"
  <2>1. /\ s3' \in KeyboardStates /\ s3'.private = "PASSWORD" /\ ~s3'.complete
        /\ ~s3'.cancel /\ s3'.key = s3.key /\ s3'.len = s3.len
        /\ s3'.pass = s3.pass
    BY <1>1, <1>2, ModeInPassword
  <2> QED
    BY <1>1, <1>2, <2>1
    DEF KeypadPart!KeypadInv, KeypadPart!KeypadTypes, KeypadPart!TypedInv,
        KeypadPart!CancelInv, KeyboardStates
<1>3. CASE s1 # "Password"
  <2>1. /\ s3' = [s3 EXCEPT !.mode = "COMMAND", !.private = "COMMAND"]
        /\ s3' \in KeyboardStates
    BY <1>1, <1>3, ModeElsewhere
  <2>2. s3'.cancel = s3.cancel /\ s3'.key = s3.key /\ s3'.pass = s3.pass
    BY <2>1 DEF KeypadPart!KeypadInv, KeypadPart!KeypadTypes
  <2> QED
    BY <1>1, <1>3, <2>1, <2>2
    DEF KeypadPart!KeypadInv, KeypadPart!KeypadTypes, KeypadPart!TypedInv,
        KeypadPart!CancelInv, KeyboardStates
<1> QED
  BY <1>2, <1>3

\* The password and the '*' that a round obeys are those of the state.
ObeyedOfThisState == KeypadPart!SubmittedIsTyped
/\ KeypadPart!CancelOfThisState

LEMMA HandleKeyboardInv ==
  ASSUME KeypadFits, KeypadPart!KeypadInv, KeypadPart!handleKeyboard
  PROVE  KeypadPart!KeypadInv' /\ ObeyedOfThisState'
<1> DEFINE k == KeypadPart!polled(KeypadPart!modeSet(s3))
<1>1. s1 = "Password" =>
        /\ Typed(k, KeypadPart!understood) /\ k.key = s3.key
        /\ k.cancel => s2 # <<>>
  BY PollInPassword
<1>2. s1 # "Password" => ~k.cancel /\ (s2 = <<>> => k.key = s3.key)
  BY PollElsewhere
<1>3. k \in KeyboardStates /\ k.pass[PASS_MAX + 1] = KeypadPart!NUL
  <2>1. s3.pass[PASS_MAX + 1] = KeypadPart!NUL
    BY DEF KeypadPart!KeypadInv, KeypadPart!KeypadTypes
  <2>2. s1 # "Password" => k \in KeyboardStates /\ k.pass = s3.pass
    BY PollElsewhere
  <2> HIDE DEF k
  <2> QED
    BY <1>1, <2>1, <2>2 DEF Typed
<1>4. /\ KeypadPart!obeyKey(k) \/ KeypadPart!enter(k) \/ KeypadPart!cancel(k)
         \/ KeypadPart!nothing(k)
      /\ s4' = IF s1' = "Password"
         /\ s1 = "Password" THEN KeypadPart!understood
                   ELSE KeypadPart!NoIntent
      /\ s5' = IF s1' # s1 THEN TRUE
                  ELSE s5 /\ (s2 = <<>> \/ s1 = "Password")
      /\ s2' = <<>>
  BY DEF KeypadPart!handleKeyboard
<1>5. s5' \in BOOLEAN /\ s2' \in Seq(KeypadPart!Keys) /\ Len(s2') <= MaxKeys
  <2>1. s5 \in BOOLEAN
    BY DEF KeypadPart!KeypadInv, KeypadPart!KeypadTypes
  <2>2. s5' \in BOOLEAN
    BY <1>4, <2>1
  <2>3. <<>> \in Seq(KeypadPart!Keys) /\ Len(<<>>) = 0 /\ 0 <= MaxKeys
    BY DEF KeypadFits
  <2> QED
    BY <1>4, <2>2, <2>3
<1>6. /\ s1 \in KeypadPart!States
      /\ s1 \in {"Password", "BadPass", "Presence", "Scan"}
         => s3.key # KeypadPart!CANCEL
  BY DEF KeypadPart!KeypadInv, KeypadPart!KeypadTypes, KeypadPart!CancelInv
<1> HIDE DEF k
<1>7. CASE KeypadPart!obeyKey(k)
  <2>1. PICK new \in KeypadPart!keyed(k.key) :
          s1' = new
          /\ s3' = [KeypadPart!inState(k, new) EXCEPT !.key = KeypadPart!Space]
    BY <1>7 DEF KeypadPart!obeyKey
  <2>2. new \in {"Presence", "BadPass", "Password", "Scan"}
    BY DEF KeypadPart!keyed
  <2>3. s1 = "Home" /\ s6'.type = "Key"
    BY <1>7 DEF KeypadPart!obeyKey
  <2> DEFINE q == KeypadPart!inState(k, new)
  <2>4. /\ q \in KeyboardStates /\ ~q.cancel
        /\ q.pass[PASS_MAX + 1] = KeypadPart!NUL
        /\ new = "Password" => /\ q.len = 0 /\ ~q.complete
                               /\ \A i \in 1 .. PASS_MAX : q.pass[i]
                                      = KeypadPart!Space
    BY <1>2, <1>3, <2>3, StateEntered
  <2> HIDE DEF q
  <2>5. /\ s3' \in KeyboardStates /\ ~s3'.cancel /\ s3'.key = KeypadPart!Space
        /\ s3'.len = q.len /\ s3'.complete = q.complete /\ s3'.pass = q.pass
    BY <2>1, <2>4 DEF KeyboardStates, q
  <2>6. KeypadPart!KeypadInv'
    BY <1>4, <1>5, <2>1, <2>2, <2>3, <2>4, <2>5, NothingTyped, KeysApart
    DEF KeypadPart!States
  <2> QED
    BY <2>3, <2>6
    DEF ObeyedOfThisState, KeypadPart!SubmittedIsTyped,
        KeypadPart!CancelOfThisState
<1>8. CASE KeypadPart!enter(k)
  <2>1. /\ s1 = "Password" /\ k.complete
        /\ s6' = [type |-> "Enter", sent |-> KeypadPart!text(k.pass),
                    meant |-> KeypadPart!understood.digits,
                    typed |-> KeypadPart!understood.typed,
                    late |-> KeypadPart!understood.late]
    BY <1>8 DEF KeypadPart!enter
  <2>2. PICK new \in {"Opening", "BadPass"} :
          /\ s1' = new
          /\ s3' = [KeypadPart!inState(k, new) EXCEPT
                      !.complete = FALSE, !.len = 0, !.cancel = FALSE,
                      !.pass = KeypadPart!cleared(@)]
    BY <1>8 DEF KeypadPart!enter
  <2> DEFINE q == KeypadPart!inState(k, new)
  <2>3. q \in KeyboardStates /\ q.key = s3.key
        /\ q.pass[PASS_MAX + 1] = KeypadPart!NUL
    BY <1>1, <1>3, <2>1, StateEntered
  <2> HIDE DEF q
  <2>4. /\ KeypadPart!cleared(q.pass)
               \in [KeypadPart!Cells -> Digits \cup {KeypadPart!Space,
                                                     KeypadPart!NUL}]
                                                     /\ 0 \in 0 .. PASS_MAX
        /\ KeypadPart!cleared(q.pass)[PASS_MAX + 1] = KeypadPart!NUL
    <3>1. PASS_MAX + 1 \in KeypadPart!Cells /\ ~(PASS_MAX + 1 <= PASS_MAX)
      BY DEF KeypadPart!Cells, KeypadFits
    <3> QED
      BY <2>3, <3>1 DEF KeypadPart!cleared, KeyboardStates, KeypadFits
  <2>5. /\ s3' \in KeyboardStates /\ ~s3'.cancel /\ s3'.key = s3.key
        /\ s3'.pass[PASS_MAX + 1] = KeypadPart!NUL
    BY <2>2, <2>3, <2>4 DEF KeyboardStates, q
  <2>6. KeypadPart!KeypadInv'
    BY <1>4, <1>5, <1>6, <2>1, <2>2, <2>5, NothingTyped DEF KeypadPart!States
  <2>7. ASSUME ~KeypadPart!understood.late
        PROVE  KeypadPart!text(k.pass) = KeypadPart!understood.digits
               /\ KeypadPart!understood.digits # <<>>
    <3> DEFINE d == KeypadPart!understood.digits
    <3>1. /\ k.len = Len(d) /\ k.len > 0 /\ k.pass[k.len + 1] = KeypadPart!NUL
          /\ \A i \in 1 .. k.len : k.pass[i] = d[i]
          /\ d \in Seq(Digits)
      BY <1>1, <2>1, <2>7 DEF Typed, Edited, Intents
    <3>2. /\ k.pass \in [KeypadPart!Cells -> Digits \cup {KeypadPart!Space,
                                                          KeypadPart!NUL}]
          /\ k.len \in 0 .. PASS_MAX
      BY <1>3 DEF KeyboardStates
    <3> HIDE DEF d
    <3>3. Len(d) <= PASS_MAX
      BY <3>1, <3>2 DEF KeypadFits
    <3>4. KeypadPart!text(k.pass) = d
      BY <3>1, <3>2, <3>3, TextIsTyped
    <3>5. d # <<>>
      BY <3>1
    <3> QED
      BY <3>4, <3>5 DEF d
  <2>8. KeypadPart!Range(KeypadPart!text(k.pass)) \subseteq KeypadPart!understood.typed \cup {KeypadPart!Space}
    <3>1. /\ k.pass \in [KeypadPart!Cells -> Digits \cup {KeypadPart!Space,
                                                          KeypadPart!NUL}]
          /\ \A i \in 1 .. PASS_MAX : k.pass[i]
                 \in KeypadPart!understood.typed \cup {KeypadPart!Space,
                                                       KeypadPart!NUL}
      BY <1>1, <1>3, <2>1 DEF KeyboardStates, Typed
    <3> QED
      BY <1>3, <3>1, TextOfCells
  <2>9. KeypadPart!SubmittedIsTyped'
    <3>1. /\ s6'.sent = KeypadPart!text(k.pass)
          /\ s6'.meant = KeypadPart!understood.digits
          /\ s6'.typed = KeypadPart!understood.typed
          /\ s6'.late = KeypadPart!understood.late
      BY <2>1
    <3>2. ~s6'.late => s6'.sent = s6'.meant /\ s6'.sent # <<>>
      BY <2>7, <3>1
    <3>3. KeypadPart!Range(s6'.sent) \subseteq s6'.typed \cup {KeypadPart!Space}
      BY <2>8, <3>1
    <3> QED
      BY <3>2, <3>3 DEF KeypadPart!SubmittedIsTyped
  <2>10. s6'.type = "Enter"
    BY <2>1
  <2> QED
    BY <2>6, <2>9, <2>10 DEF ObeyedOfThisState, KeypadPart!CancelOfThisState
<1>9. CASE KeypadPart!cancel(k)
  <2>1. /\ KeypadPart!cancels(k) /\ s1' = "Home"
        /\ s6' = [type |-> "Cancel", fresh |-> s2 # <<>> \/ ~s5]
        /\ s3' = [KeypadPart!inState(k, "Home") EXCEPT
                    !.cancel = FALSE,
                    !.key = IF s1 = "Password" THEN @ ELSE KeypadPart!Space]
    BY <1>9 DEF KeypadPart!cancel
  <2>2. s2 # <<>>
    <3>1. CASE s1 = "Password"
      BY <1>1, <2>1, <3>1 DEF KeypadPart!cancels
    <3>2. CASE s1 # "Password"
      BY <1>2, <1>6, <2>1, <3>2 DEF KeypadPart!cancels
    <3> QED
      BY <3>1, <3>2
  <2> DEFINE q == KeypadPart!inState(k, "Home")
  <2>3. q \in KeyboardStates /\ q.pass[PASS_MAX + 1] = KeypadPart!NUL
    BY <1>3, StateEntered
  <2> HIDE DEF q
  <2>4. s3' \in KeyboardStates /\ ~s3'.cancel
        /\ s3'.pass[PASS_MAX + 1] = KeypadPart!NUL
    BY <2>1, <2>3 DEF KeyboardStates, q
  <2>5. KeypadPart!KeypadInv'
    BY <1>4, <1>5, <2>1, <2>4, NothingTyped DEF KeypadPart!States
  <2> QED
    BY <2>1, <2>2, <2>5
    DEF ObeyedOfThisState, KeypadPart!SubmittedIsTyped,
        KeypadPart!CancelOfThisState
<1>10. CASE KeypadPart!nothing(k)
  <2>1. /\ s3' = k /\ s6' = KeypadPart!None /\ UNCHANGED s1
        /\ ~KeypadPart!cancels(k)
        /\ s1 = "Password" => ~k.complete
    BY <1>10 DEF KeypadPart!nothing
  <2>2. KeypadPart!CancelInv'
    <3>1. s1 = "Password" => ~k.cancel /\ k.key # KeypadPart!CANCEL
      BY <1>1, <1>6, <2>1 DEF KeypadPart!cancels
    <3>2. s1 \in {"BadPass", "Presence", "Scan"} => k.key # KeypadPart!CANCEL
      BY <2>1 DEF KeypadPart!cancels
    <3> QED
      BY <1>2, <2>1, <3>1, <3>2 DEF KeypadPart!CancelInv
  <2>3. s4' \in Intents
    <3>1. CASE s1 = "Password"
      BY <1>1, <1>4, <2>1, <3>1 DEF Typed
    <3>2. CASE s1 # "Password"
      BY <1>4, <3>2 DEF Intents, KeypadPart!NoIntent
    <3> QED
      BY <3>1, <3>2
  <2>4. KeypadPart!KeypadTypes'
    BY <1>3, <1>5, <1>6, <2>1, <2>3
    DEF KeypadPart!KeypadTypes, KeyboardStates, Intents
  <2>5. KeypadPart!TypedInv'
    <3> SUFFICES ASSUME s1' = "Password" PROVE KeypadPart!TypedInv'
      BY DEF KeypadPart!TypedInv
    <3>1. s3' = k /\ s4' = KeypadPart!understood
          /\ Typed(k, KeypadPart!understood) /\ ~k.complete
      BY <1>1, <1>4, <2>1
    <3>2. ~KeypadPart!understood.entered /\ ~KeypadPart!understood.late
      BY <3>1 DEF Typed
    <3>3. Edited(k, KeypadPart!understood)
      BY <3>1, <3>2 DEF Typed
    <3> QED
      BY <3>1, <3>2, <3>3 DEF KeypadPart!TypedInv, Typed, Edited
  <2> QED
    BY <2>1, <2>2, <2>4, <2>5
    DEF KeypadPart!KeypadInv, ObeyedOfThisState, KeypadPart!SubmittedIsTyped,
        KeypadPart!CancelOfThisState, KeypadPart!None
<1> QED
  BY <1>4, <1>7, <1>8, <1>9, <1>10

LEMMA KeypadInit == KeypadFits /\ KeypadPart!Init => KeypadPart!KeypadInv
                    /\ ObeyedOfThisState
<1> SUFFICES ASSUME KeypadFits, KeypadPart!Init PROVE KeypadPart!KeypadInv
                    /\ ObeyedOfThisState
  OBVIOUS
<1>1. s1 = "Home" /\ s6 = KeypadPart!None /\ s2 = <<>> /\ s3.cancel = FALSE
  BY DEF KeypadPart!Init
<1>2. s3 \in KeyboardStates /\ s4 \in Intents
      /\ s3.pass[PASS_MAX + 1] = KeypadPart!NUL
  <2>1. PASS_MAX + 1 \in KeypadPart!Cells
    BY DEF KeypadPart!Cells, KeypadFits
  <2> QED
    BY <2>1
    DEF KeypadPart!Init, KeyboardStates, Intents, KeypadFits,
        KeypadPart!NoIntent
<1>3. KeypadPart!KeypadTypes
  <2>1. <<>> \in Seq(KeypadPart!Keys) /\ Len(<<>>) = 0 /\ 0 <= MaxKeys
    BY DEF KeypadFits
  <2>2. s5 \in BOOLEAN
    BY DEF KeypadPart!Init
  <2> QED
    BY <1>1, <1>2, <2>1, <2>2
    DEF KeypadPart!KeypadTypes, KeyboardStates, Intents, KeypadPart!States
<1> QED
  BY <1>1, <1>3
  DEF KeypadPart!KeypadInv, KeypadPart!TypedInv, KeypadPart!CancelInv,
      ObeyedOfThisState, KeypadPart!SubmittedIsTyped,
      KeypadPart!CancelOfThisState, KeypadPart!None

LEMMA KeypadStep ==
  KeypadFits /\ KeypadPart!KeypadInv /\ ObeyedOfThisState
  /\ [KeypadPart!Next]_(KeypadPart!vars)
    => KeypadPart!KeypadInv' /\ ObeyedOfThisState'
<1> SUFFICES ASSUME KeypadFits, KeypadPart!KeypadInv, ObeyedOfThisState,
                    [KeypadPart!Next]_(KeypadPart!vars)
             PROVE  KeypadPart!KeypadInv' /\ ObeyedOfThisState'
  OBVIOUS
<1>1. CASE KeypadPart!machineMoves
  BY <1>1, MachineMovesInv
  DEF ObeyedOfThisState, KeypadPart!SubmittedIsTyped,
      KeypadPart!CancelOfThisState, KeypadPart!None
<1>2. CASE KeypadPart!press
  BY <1>2, PressInv
  DEF ObeyedOfThisState, KeypadPart!SubmittedIsTyped,
      KeypadPart!CancelOfThisState
<1>3. CASE KeypadPart!noAnswer
  BY <1>3, NoAnswerInv
  DEF ObeyedOfThisState, KeypadPart!SubmittedIsTyped,
      KeypadPart!CancelOfThisState
<1>4. CASE KeypadPart!handleKeyboard
  BY <1>4, HandleKeyboardInv
<1>5. CASE UNCHANGED KeypadPart!vars
  BY <1>5
  DEF KeypadPart!vars, KeypadPart!KeypadInv, KeypadPart!KeypadTypes,
      KeypadPart!TypedInv, KeypadPart!CancelInv, ObeyedOfThisState,
      KeypadPart!SubmittedIsTyped, KeypadPart!CancelOfThisState
<1> QED
  BY <1>1, <1>2, <1>3, <1>4, <1>5 DEF KeypadPart!Next

-----------------------------------------------------------------------------
(* Keypad and QrScanner *)
(* In this part s1 is state; s2 is ready; s3 is scanner; s4 is line; s5 is *)
(* rx; s6 is lamp; s7 is verdict.                                          *)

\* What an update() carries, and the scanner it makes of it.
ScannerStates ==
  [state : {"Idle", "WaitingActivationResponse", "WaitingCode"},
   active : BOOLEAN, pending : {"None", "Activated", "Deactivated"}]

ScannerEvents ==
  {ScannerPart!None} \cup [type : {"RxOverflow", "ScanTimeout"}]
    \cup [type : {"ActivationResponse", "CodeReceived", "UnexpectedFrame"},
          data : Seq(ScannerPart!Held)]

Works == [line : Seq(ScannerPart!Held), rx : Seq(ScannerPart!Held),
          s : ScannerStates,
          event : ScannerEvents]

\* What is left of a frame are bytes of the frame.
LEMMA TrimmedIsHeld ==
  ASSUME NEW f \in Seq(ScannerPart!Held)
  PROVE  ScannerPart!trimFrame(f) \in Seq(ScannerPart!Held)
<1> DEFINE solid == {i \in DOMAIN f : f[i].kind # "blank"}
<1>1. Len(f) \in Nat /\ DOMAIN f = 1 .. Len(f)
  OBVIOUS
<1>2. CASE solid = {}
  BY <1>2 DEF ScannerPart!trimFrame
<1>3. CASE solid # {}
  <2>1. solid \subseteq Nat /\ solid \subseteq 0 .. Len(f)
    BY <1>1
  <2>2. \E x \in solid : \A y \in solid : x <= y
    <3> HIDE DEF solid
    <3> QED
      BY <1>3, <2>1, LeastNumber
  <2>3. \E x \in solid : \A y \in solid : x >= y
    <3> HIDE DEF solid
    <3> QED
      BY <1>1, <1>3, <2>1, GreatestNumber
  <2>4. ScannerPart!Min(solid) \in solid /\ ScannerPart!Max(solid) \in solid
    <3> HIDE DEF solid
    <3> QED
      BY <2>2, <2>3 DEF ScannerPart!Min, ScannerPart!Max
  <2>5. ScannerPart!trimFrame(f)
            = SubSeq(f, ScannerPart!Min(solid), ScannerPart!Max(solid))
    BY <1>3 DEF ScannerPart!trimFrame
  <2> DEFINE lo == ScannerPart!Min(solid)
             hi == ScannerPart!Max(solid)
  <2>6. lo \in 1 .. Len(f) /\ hi \in 1 .. Len(f)
    BY <1>1, <2>4
  <2> HIDE DEF lo, hi, solid
  <2>7. \A i \in lo .. hi : f[i] \in ScannerPart!Held
    BY <1>1, <2>6
  <2>8. SubSeq(f, lo, hi) \in Seq(ScannerPart!Held)
    BY <2>6, <2>7, SubSeqProperties
  <2> QED
    BY <2>5, <2>8 DEF lo, hi
<1> QED
  BY <1>2, <1>3

LEMMA FrameMakesEvent ==
  ASSUME NEW s \in ScannerStates, NEW f \in Seq(ScannerPart!Held)
  PROVE  ScannerPart!finalizeFrame(s, f)
             \in [event : ScannerEvents, s : ScannerStates]
<1> DEFINE data == ScannerPart!trimFrame(f)
<1>1. data \in Seq(ScannerPart!Held)
  BY TrimmedIsHeld
<1> HIDE DEF data
<1>2. ScannerPart!finalizeFrame(s, f) =
        CASE data = <<>> -> [event |-> ScannerPart!None, s |-> s]
          [] data # <<>> /\ s.state = "WaitingActivationResponse" ->
               [event |-> [type |-> "ActivationResponse", data |-> data],
                s |-> s]
          [] data # <<>> /\ s.state = "WaitingCode" ->
               [event |-> [type |-> "CodeReceived", data |-> data],
                s |-> ScannerPart!deactivateAfterTerminalEvent(s)]
          [] data # <<>> /\ s.state = "Idle" ->
               [event |-> [type |-> "UnexpectedFrame", data |-> data], s |-> s]
  BY DEF ScannerPart!finalizeFrame, data
<1>3. ScannerPart!deactivateAfterTerminalEvent(s) \in ScannerStates
  BY DEF ScannerPart!deactivateAfterTerminalEvent, ScannerPart!Off,
         ScannerStates
<1>4. s.state \in {"Idle", "WaitingActivationResponse", "WaitingCode"}
  BY DEF ScannerStates
<1>5. /\ ScannerPart!None \in ScannerEvents
      /\ \A t \in {"ActivationResponse", "CodeReceived", "UnexpectedFrame"} :
           [type |-> t, data |-> data] \in ScannerEvents
  BY <1>1 DEF ScannerEvents
<1>6. CASE data = <<>>
  BY <1>2, <1>5, <1>6
<1>7. CASE data # <<>>
  BY <1>2, <1>3, <1>4, <1>5, <1>7
<1> QED
  BY <1>6, <1>7

\* A byte goes from the line into the frame, or ends it.
LEMMA ByteProcessed ==
  ASSUME NEW w \in Works, w.line # <<>>
  PROVE  /\ ScannerPart!processByte(w) \in Works
         /\ Len(ScannerPart!processByte(w).line) = Len(w.line) - 1
<1> DEFINE b == Head(w.line)
           rest == [w EXCEPT !.line = Tail(@)]
           f == ScannerPart!finalizeFrame(w.s, w.rx)
<1>1. w.line \in Seq(ScannerPart!Held) /\ w.rx \in Seq(ScannerPart!Held)
      /\ w.s \in ScannerStates
  BY DEF Works
<1>2. /\ b \in ScannerPart!Held /\ Tail(w.line) \in Seq(ScannerPart!Held)
      /\ Len(Tail(w.line)) = Len(w.line) - 1
  BY <1>1, HeadTailProperties
<1>3. rest \in Works /\ rest.line = Tail(w.line)
  BY <1>2 DEF Works
<1>4. f \in [event : ScannerEvents, s : ScannerStates]
  BY <1>1, FrameMakesEvent
<1>5. <<>> \in Seq(ScannerPart!Held)
      /\ [type |-> "RxOverflow"] \in ScannerEvents
  BY DEF ScannerEvents
<1>6. Append(w.rx, b) \in Seq(ScannerPart!Held)
  BY <1>1, <1>2
<1>7. \/ ScannerPart!processByte(w) = rest
      \/ ScannerPart!processByte(w)
             = [rest EXCEPT !.rx = <<>>, !.s = f.s, !.event = f.event]
      \/ ScannerPart!processByte(w)
             = [rest EXCEPT !.rx = <<>>, !.event = [type |-> "RxOverflow"]]
      \/ ScannerPart!processByte(w) = [rest EXCEPT !.rx = Append(@, b)]
  BY DEF ScannerPart!processByte
<1>8. rest.rx = w.rx
  BY DEF Works
<1> HIDE DEF b, rest, f
<1> QED
  BY <1>2, <1>3, <1>4, <1>5, <1>6, <1>7, <1>8 DEF Works

\* The work after n bytes.
ReadWalk(n, f) ==
  f = [k \in 0 .. n |->
         IF k = 0 THEN [line |-> s4, rx |-> s5, s |-> s3,
                        event |-> ScannerPart!None]
         ELSE ScannerPart!moreRead(f[k - 1])]

LEMMA ReadWalkExists ==
  ASSUME NEW m \in Nat
  PROVE  \E f : ReadWalk(m, f)
<1> DEFINE w0 == [line |-> s4, rx |-> s5, s |-> s3, event |-> ScannerPart!None]
           Bad == {n \in Nat : ~\E f : ReadWalk(n, f)}
<1>1. ASSUME Bad # {} PROVE FALSE
  <2>1. PICK n \in Bad : \A k \in Bad : n <= k
    <3>1. Bad \subseteq Nat
      OBVIOUS
    <3> HIDE DEF Bad
    <3> QED
      BY <1>1, <3>1, LeastNumber
  <2>2. n \in Nat /\ ~\E f : ReadWalk(n, f)
    BY <2>1
  <2>3. CASE n = 0
    <3> DEFINE g == [k \in 0 .. 0 |-> w0]
    <3>1. ReadWalk(0, g)
      <4>1. \A k \in 0 .. 0 : k = 0
        OBVIOUS
      <4> QED
        BY <4>1 DEF ReadWalk
    <3> QED
      BY <2>2, <2>3, <3>1
  <2>4. CASE n # 0
    <3>1. n - 1 \in Nat /\ n - 1 \notin Bad
      <4>1. n - 1 \in Nat /\ ~(n <= n - 1)
        BY <2>2, <2>4
      <4> HIDE DEF Bad
      <4> QED
        BY <2>1, <4>1
    <3>2. PICK f : ReadWalk(n - 1, f)
      BY <3>1
    <3> DEFINE g == [k \in 0 .. n
                       |-> IF k = n
                           THEN ScannerPart!moreRead(f[n - 1]) ELSE f[k]]
    <3>3. ASSUME NEW k \in 0 .. n
          PROVE  g[k] = IF k = 0 THEN w0 ELSE ScannerPart!moreRead(g[k - 1])
      <4>1. CASE k = n
        <5>1. n - 1 \in 0 .. n /\ n - 1 # n /\ n \in 0 .. n
          BY <2>2, <2>4
        <5>2. g[n - 1] = f[n - 1] /\ g[n] = ScannerPart!moreRead(f[n - 1])
          BY <5>1
        <5> HIDE DEF g
        <5> QED
          BY <2>4, <4>1, <5>2
      <4>2. CASE k # n
        <5>1. k \in 0 .. n - 1
          BY <2>2, <4>2
        <5>2. f[k] = IF k = 0 THEN w0 ELSE ScannerPart!moreRead(f[k - 1])
          BY <3>2, <5>1 DEF ReadWalk
        <5>3. g[k] = f[k] /\ (k # 0 => g[k - 1] = f[k - 1])
          BY <2>2, <4>2
        <5> HIDE DEF g
        <5> QED
          BY <5>2, <5>3
      <4> QED
        BY <4>1, <4>2
    <3>4. ReadWalk(n, g)
      <4>1. g = [k \in 0 .. n |-> g[k]]
        OBVIOUS
      <4> HIDE DEF g
      <4> QED
        BY <3>3, <4>1 DEF ReadWalk
    <3> QED
      BY <2>2, <3>4
  <2> QED
    BY <2>3, <2>4
<1> QED
  BY <1>1

\* Without an event n bytes have been read after n of them; so the loop of
\* update() never reads from an empty line.
ReadSoFar(n) == {w
                   \in Works : w.event = ScannerPart!None
                   => Len(w.line) = Len(s4) - n}

LEMMA ReadLineHeld == ScannerPart!ScannerInv => ScannerPart!readLine \in Works
<1> SUFFICES ASSUME ScannerPart!ScannerInv PROVE ScannerPart!readLine \in Works
  OBVIOUS
<1> DEFINE N == Len(s4)
           w0 == [line |-> s4, rx |-> s5, s |-> s3, event |-> ScannerPart!None]
           after == CHOOSE f : ReadWalk(N, f)
<1>1. s4 \in Seq(ScannerPart!Held) /\ N \in Nat
  BY DEF ScannerPart!ScannerInv
<1>2. ReadWalk(N, after)
  BY <1>1, ReadWalkExists
<1>3. ScannerPart!readLine = after[N]
  BY DEF ScannerPart!readLine, ReadWalk
<1> HIDE DEF after
<1>4. after[0] = w0
  BY <1>1, <1>2 DEF ReadWalk
<1>5. ASSUME NEW k \in 0 .. N, k # 0
      PROVE after[k] = ScannerPart!moreRead(after[k - 1])
  BY <1>2, <1>5 DEF ReadWalk
<1>6. after[0] \in ReadSoFar(0)
  <2>1. w0 \in Works
    BY DEF Works, ScannerPart!ScannerInv, ScannerStates, ScannerEvents
  <2> QED
    BY <1>1, <1>4, <2>1 DEF ReadSoFar
<1> DEFINE Bad == {k \in 0 .. N : after[k] \notin ReadSoFar(k)}
<1>7. ASSUME Bad # {} PROVE FALSE
  <2>1. PICK n \in Bad : \A k \in Bad : n <= k
    <3>1. Bad \subseteq Nat
      BY <1>1
    <3> HIDE DEF Bad
    <3> QED
      BY <1>7, <3>1, LeastNumber
  <2>2. n \in 0 .. N /\ n \in Int /\ after[n] \notin ReadSoFar(n) /\ n # 0
    BY <1>6, <2>1
  <2>3. n - 1 \in 0 .. N /\ ~(n <= n - 1)
    BY <1>1, <2>2
  <2>4. n - 1 \notin Bad
    <3> HIDE DEF Bad
    <3> QED
      BY <2>1, <2>3
  <2> DEFINE w == after[n - 1]
  <2>5. w \in Works
        /\ (w.event = ScannerPart!None => Len(w.line) = N - (n - 1))
    BY <2>3, <2>4 DEF ReadSoFar
  <2>6. after[n] = ScannerPart!moreRead(w)
    BY <1>5, <2>2
  <2> HIDE DEF w, Bad, N
  <2>7. CASE w.event # ScannerPart!None
    <3>1. ScannerPart!moreRead(w) = w
      BY <2>7 DEF ScannerPart!moreRead
    <3>2. after[n] \in Works /\ after[n].event # ScannerPart!None
      BY <2>5, <2>6, <2>7, <3>1
    <3> QED
      BY <2>2, <3>2 DEF ReadSoFar
  <2>8. CASE w.event = ScannerPart!None
    <3>1. ScannerPart!moreRead(w) = ScannerPart!processByte(w)
      BY <2>8 DEF ScannerPart!moreRead
    <3>2. w.line \in Seq(ScannerPart!Held) /\ Len(w.line) = N - (n - 1)
      BY <2>5, <2>8 DEF Works
    <3>3. w.line # <<>>
      BY <1>1, <2>2, <3>2
    <3>4. after[n] \in Works /\ Len(after[n].line) = Len(w.line) - 1
      BY <2>5, <2>6, <3>1, <3>3, ByteProcessed
    <3>5. Len(after[n].line) = N - n
      BY <1>1, <2>2, <3>2, <3>4
    <3> QED
      BY <2>2, <3>4, <3>5 DEF ReadSoFar, N
  <2> QED
    BY <2>7, <2>8
<1>8. N \in 0 .. N
  BY <1>1
<1> QED
  BY <1>3, <1>7, <1>8 DEF ReadSoFar

LEMMA UpdateHeld ==
  ASSUME ScannerPart!ScannerInv, NEW idle \in BOOLEAN, NEW window \in BOOLEAN,
         NEW scan \in BOOLEAN
  PROVE  ScannerPart!scannerUpdate(idle, window, scan) \in Works
<1> DEFINE w == ScannerPart!scannerUpdate(idle, window, scan)
           pause == idle /\ s4 = <<>>
<1>1. /\ s3 \in ScannerStates /\ s4 \in Seq(ScannerPart!Held)
      /\ s5 \in Seq(ScannerPart!Held)
      /\ ScannerPart!None \in ScannerEvents
  BY DEF ScannerPart!ScannerInv, ScannerStates, ScannerEvents
<1>2. CASE s3.pending # "None"
  <2>1. w = [line |-> s4, rx |-> s5,
             s |-> [s3 EXCEPT !.pending = "None"], event |-> ScannerPart!None]
    BY <1>2 DEF ScannerPart!scannerUpdate
  <2>2. [s3 EXCEPT !.pending = "None"] \in ScannerStates
    BY <1>1 DEF ScannerStates
  <2> QED
    BY <1>1, <2>1, <2>2 DEF Works
<1>3. ScannerPart!readLine \in Works
  BY ReadLineHeld
<1>4. CASE s3.pending = "None" /\ ScannerPart!readLine.event = ScannerPart!None
  <2> DEFINE r == ScannerPart!readLine
             waited == IF r.s.state = "WaitingActivationResponse" /\ window
                     THEN [r.s EXCEPT !.state = "WaitingCode"] ELSE r.s
             f == ScannerPart!finalizeFrame(r.s, r.rx)
  <2>1. r \in Works /\ r.s \in ScannerStates /\ r.rx \in Seq(ScannerPart!Held)
    BY <1>3 DEF Works
  <2>2. waited \in ScannerStates
    BY <2>1 DEF ScannerStates
  <2>3. f \in [event : ScannerEvents, s : ScannerStates]
    BY <2>1, FrameMakesEvent
  <2>4. ScannerPart!deactivateAfterTerminalEvent(waited) \in ScannerStates
    BY <2>2
    DEF ScannerPart!deactivateAfterTerminalEvent, ScannerPart!Off,
        ScannerStates
  <2>5. /\ <<>> \in Seq(ScannerPart!Held)
        /\ [type |-> "ScanTimeout"] \in ScannerEvents
    BY DEF ScannerEvents
  <2>6. \/ w = [r EXCEPT !.rx = <<>>, !.s = f.s, !.event = f.event]
        \/ w = [r EXCEPT !.s
                  = ScannerPart!deactivateAfterTerminalEvent(waited),
                         !.event = [type |-> "ScanTimeout"]]
        \/ w = [r EXCEPT !.s = waited]
    BY <1>4 DEF ScannerPart!timeouts, ScannerPart!scannerUpdate
  <2> HIDE DEF r, waited, f, w
  <2> QED
    BY <2>1, <2>2, <2>3, <2>4, <2>5, <2>6 DEF Works, w
<1>5. CASE s3.pending = "None" /\ ScannerPart!readLine.event # ScannerPart!None
  BY <1>3, <1>5 DEF ScannerPart!scannerUpdate
<1> QED
  BY <1>2, <1>4, <1>5

\* The bytes that are left when the state of the box changes count no more.
LEMMA AgedBytes ==
  ASSUME NEW b \in Seq(ScannerPart!Bytes)
  PROVE  ScannerPart!aged(b) \in Seq(ScannerPart!Bytes)
<1>1. Len(b) \in Nat /\ DOMAIN b = 1 .. Len(b)
  OBVIOUS
<1>2. \A i \in 1 .. Len(b) : [b[i] EXCEPT !.fresh = FALSE]
          \in ScannerPart!Bytes
  <2>1. \A i \in 1 .. Len(b) : b[i] \in ScannerPart!Bytes
    OBVIOUS
  <2> QED
    BY <2>1 DEF ScannerPart!Bytes
<1> QED
  BY <1>1, <1>2 DEF ScannerPart!aged

LEMMA HeldBytes == Seq(ScannerPart!Held) \subseteq Seq(ScannerPart!Bytes)
  BY DEF ScannerPart!Held

LEMMA StateChangedInv ==
  ASSUME ScannerPart!ScannerInv,
         NEW new \in {"Home", "Scan", "BadPass", "Opening"},
         NEW s \in ScannerStates, NEW r \in Seq(ScannerPart!Held),
         NEW l \in Seq(ScannerPart!Held),
         ScannerPart!onStateChanged(s1, new, s, r, l),
         new # s1, UNCHANGED s2
  PROVE  ScannerPart!ScannerInv'
<1>1. ScannerPart!aged(r) \in Seq(ScannerPart!Bytes)
      /\ ScannerPart!aged(l) \in Seq(ScannerPart!Bytes)
  BY AgedBytes, HeldBytes
<1>2. CASE new = "Scan" /\ s2
  <2>1. /\ s1' = "Scan" /\ s3' = ScannerPart!startScan /\ s6' = TRUE
        /\ s5' = <<>> /\ s4' = <<>>
    BY <1>2 DEF ScannerPart!onStateChanged, ScannerPart!receiver
  <2>2. ScannerPart!startScan \in ScannerStates /\ ScannerPart!startScan.active
    BY DEF ScannerPart!startScan, ScannerStates
  <2>3. s4' \in Seq(ScannerPart!Held') /\ s5' \in Seq(ScannerPart!Held')
    BY <2>1
  <2> QED
    BY <1>2, <2>1, <2>2, <2>3 DEF ScannerPart!ScannerInv, ScannerStates
<1>3. CASE ~(new = "Scan" /\ s2)
  <2>1. /\ s1' \in {"Home", "BadPass", "Opening"}
        /\ s5' = ScannerPart!aged(r) /\ s4' = ScannerPart!aged(l)
    BY <1>3 DEF ScannerPart!onStateChanged, ScannerPart!receiver
  <2>2. s3' \in ScannerStates
    <3>1. ScannerPart!Off("Deactivated") \in ScannerStates
      BY DEF ScannerPart!Off, ScannerStates
    <3> QED
      BY <1>3, <3>1 DEF ScannerPart!onStateChanged
  <2>3. s6' = IF s1 = "Scan" /\ s2 /\ s.active THEN FALSE
                ELSE s6 /\ s.active
    BY <1>3 DEF ScannerPart!onStateChanged, ScannerPart!switchedOff
  <2>4. s6' = FALSE
    BY <2>3 DEF ScannerPart!ScannerInv, ScannerStates
  <2>5. ScannerPart!Held' = ScannerPart!Bytes
    BY <2>1 DEF ScannerPart!Held
  <2> QED
    BY <1>1, <2>1, <2>2, <2>4, <2>5 DEF ScannerPart!ScannerInv, ScannerStates
<1> QED
  BY <1>2, <1>3

\* Only a frame makes a code, and its bytes are those of the frame.
LEMMA JudgedHeld ==
  ASSUME NEW event \in ScannerEvents, ScannerPart!judged(event).type = "Code"
  PROVE  ScannerPart!judged(event).data \in Seq(ScannerPart!Held)
<1>1. event.type \in {"None", "RxOverflow", "ScanTimeout"}
        \/ event.data \in Seq(ScannerPart!Held)
  BY DEF ScannerEvents, ScannerPart!None
<1>2. CASE event.type
               \in {"None", "RxOverflow", "ScanTimeout", "UnexpectedFrame"}
  BY <1>2 DEF ScannerPart!judged, ScannerPart!None
<1>3. CASE ~(event.type \in {"None", "RxOverflow", "ScanTimeout"})
  <2>1. \/ ScannerPart!judged(event) = [type |-> "Code", data |-> event.data]
        \/ ScannerPart!judged(event) = [type |-> "Invalid"]
        \/ ScannerPart!judged(event) = ScannerPart!None
    BY <1>3 DEF ScannerPart!judged
  <2> QED
    BY <1>1, <1>3, <2>1 DEF ScannerPart!None
<1> QED
  BY <1>2, <1>3

LEMMA ScanUpdateInv ==
  ASSUME ScannerPart!ScannerInv, ScannerPart!update
  PROVE  ScannerPart!ScannerInv' /\ ScannerPart!NoLeftover'
<1>1. UNCHANGED s2 /\ s3 \in ScannerStates
      /\ s5 \in Seq(ScannerPart!Held) /\ s4 \in Seq(ScannerPart!Held)
  BY DEF ScannerPart!update, ScannerPart!ScannerInv, ScannerStates
<1>2. ASSUME NEW w \in Works,
             NEW new \in {"Home", "Scan", "BadPass", "Opening"},
             LET v == IF s1
                 = "Scan" THEN ScannerPart!judged(w.event)
                     ELSE ScannerPart!None
             IN  /\ s7' = v
                 /\ IF new # s1
                        THEN ScannerPart!onStateChanged(s1, new, w.s, w.rx,
                                                        w.line)
                    ELSE /\ s3' = w.s /\ s5' = w.rx /\ s4' = w.line
                         /\ s6' = (s6 /\ w.s.active) /\ UNCHANGED s1
      PROVE  ScannerPart!ScannerInv' /\ ScannerPart!NoLeftover'
  <2>1. /\ w.s \in ScannerStates /\ w.rx \in Seq(ScannerPart!Held)
        /\ w.line \in Seq(ScannerPart!Held)
        /\ w.event \in ScannerEvents
    BY DEF Works
  <2>2. ScannerPart!ScannerInv'
    <3>1. CASE new # s1
      BY <1>1, <1>2, <2>1, <3>1, StateChangedInv
    <3>2. CASE new = s1
      <4>1. /\ s3' = w.s /\ s5' = w.rx /\ s4' = w.line
            /\ s6' = (s6 /\ w.s.active) /\ s1' = s1
        BY <1>2, <3>2
      <4>2. ScannerPart!Held' = ScannerPart!Held
        BY <4>1 DEF ScannerPart!Held
      <4>3. s6' \in BOOLEAN /\ (s6' => s6 /\ w.s.active)
        BY <4>1
      <4> QED
        BY <1>1, <2>1, <4>1, <4>2, <4>3
        DEF ScannerPart!ScannerInv, ScannerStates
    <3> QED
      BY <3>1, <3>2
  <2>3. ScannerPart!NoLeftover'
    <3> SUFFICES ASSUME s7'.type = "Code", NEW i \in DOMAIN s7'.data
                 PROVE  s7'.data[i].fresh
      BY DEF ScannerPart!NoLeftover
    <3>1. s1 = "Scan" /\ s7' = ScannerPart!judged(w.event)
      BY <1>2 DEF ScannerPart!None
    <3>2. s7'.data \in Seq(ScannerPart!Held)
      BY <2>1, <3>1, JudgedHeld
    <3>3. s7'.data[i] \in ScannerPart!Held
      BY <3>2
    <3> QED
      BY <3>1, <3>3 DEF ScannerPart!Held
  <2> QED
    BY <2>2, <2>3
<1>3. ASSUME s1 = "Scan", s7' = [type |-> "Timeout"],
             ScannerPart!onStateChanged("Scan", "Home", s3, s5, s4)
      PROVE  ScannerPart!ScannerInv' /\ ScannerPart!NoLeftover'
  <2>1. ScannerPart!ScannerInv'
    BY <1>1, <1>3, StateChangedInv
  <2>2. ScannerPart!NoLeftover'
    BY <1>3 DEF ScannerPart!NoLeftover
  <2> QED
    BY <2>1, <2>2
<1>4. CASE \E idle, window, scan \in BOOLEAN :
             LET w == ScannerPart!scannerUpdate(idle, window, scan)
                 v == IF s1
                     = "Scan" THEN ScannerPart!judged(w.event)
                         ELSE ScannerPart!None
             IN  \E new \in ScannerPart!decided(v) :
                   /\ s7' = v
                   /\ IF new # s1
                          THEN ScannerPart!onStateChanged(s1, new, w.s, w.rx,
                                                          w.line)
                      ELSE /\ s3' = w.s /\ s5' = w.rx /\ s4' = w.line
                           /\ s6' = (s6 /\ w.s.active) /\ UNCHANGED s1
  <2>1. PICK idle \in BOOLEAN, window \in BOOLEAN, scan \in BOOLEAN :
             LET w == ScannerPart!scannerUpdate(idle, window, scan)
                 v == IF s1
                     = "Scan" THEN ScannerPart!judged(w.event)
                         ELSE ScannerPart!None
             IN  \E new \in ScannerPart!decided(v) :
                   /\ s7' = v
                   /\ IF new # s1
                          THEN ScannerPart!onStateChanged(s1, new, w.s, w.rx,
                                                          w.line)
                      ELSE /\ s3' = w.s /\ s5' = w.rx /\ s4' = w.line
                           /\ s6' = (s6 /\ w.s.active) /\ UNCHANGED s1
    BY <1>4
  <2> DEFINE w == ScannerPart!scannerUpdate(idle, window, scan)
             v == IF s1
                 = "Scan" THEN ScannerPart!judged(w.event)
                     ELSE ScannerPart!None
  <2>2. w \in Works
    BY UpdateHeld
  <2>3. ScannerPart!decided(v) \subseteq {"Home", "Scan", "BadPass", "Opening"}
    <3> HIDE DEF v
    <3> QED
      BY DEF ScannerPart!decided, ScannerPart!ScannerInv
  <2> QED
    BY <1>2, <2>1, <2>2, <2>3
<1> QED
  BY <1>3, <1>4 DEF ScannerPart!update

LEMMA BoxMovesInv ==
  ASSUME ScannerPart!ScannerInv, ScannerPart!boxMoves
  PROVE  ScannerPart!ScannerInv' /\ ScannerPart!NoLeftover'
<1>1. PICK new \in {"Home", "Scan", "Opening"} :
        new # s1 /\ ScannerPart!onStateChanged(s1, new, s3, s5, s4)
  BY DEF ScannerPart!boxMoves, ScannerPart!ScannerInv
<1>2. /\ s3 \in ScannerStates /\ s5 \in Seq(ScannerPart!Held)
      /\ s4 \in Seq(ScannerPart!Held)
      /\ UNCHANGED s2 /\ s7' = ScannerPart!None
  BY DEF ScannerPart!boxMoves, ScannerPart!ScannerInv, ScannerStates
<1>3. ScannerPart!ScannerInv'
  BY <1>1, <1>2, StateChangedInv
<1> QED
  BY <1>2, <1>3 DEF ScannerPart!NoLeftover, ScannerPart!None

LEMMA ReceiveInv ==
  ASSUME ScannerPart!ScannerInv, ScannerPart!receive
  PROVE  ScannerPart!ScannerInv' /\ (ScannerPart!NoLeftover')
<1>1. PICK k \in ScannerPart!Kinds : s4'
          = Append(s4, [kind |-> k, fresh |-> s1 = "Scan"])
  BY DEF ScannerPart!receive
<1>2. [kind |-> k, fresh |-> s1 = "Scan"] \in ScannerPart!Held
  BY DEF ScannerPart!Held, ScannerPart!Bytes
<1>3. s4' \in Seq(ScannerPart!Held)
  BY <1>1, <1>2 DEF ScannerPart!ScannerInv
<1>4. /\ UNCHANGED <<s1, s2, s3, s5, s6>> /\ s7' = ScannerPart!None
      /\ ScannerPart!Held' = ScannerPart!Held
  BY DEF ScannerPart!receive, ScannerPart!Held
<1> QED
  BY <1>3, <1>4
  DEF ScannerPart!ScannerInv, ScannerPart!NoLeftover, ScannerPart!None

LEMMA ScannerInit == ScannerPart!Init => ScannerPart!ScannerInv
                     /\ ScannerPart!NoLeftover
<1> SUFFICES ASSUME ScannerPart!Init PROVE ScannerPart!ScannerInv
                    /\ ScannerPart!NoLeftover
  OBVIOUS
<1>1. <<>> \in Seq(ScannerPart!Held)
  OBVIOUS
<1> QED
  BY <1>1
  DEF ScannerPart!Init, ScannerPart!ScannerInv, ScannerPart!NoLeftover,
      ScannerPart!None

LEMMA ScannerStep ==
  ScannerPart!ScannerInv /\ ScannerPart!NoLeftover
  /\ [ScannerPart!Next]_(ScannerPart!vars) => ScannerPart!ScannerInv'
     /\ ScannerPart!NoLeftover'
<1> SUFFICES ASSUME ScannerPart!ScannerInv, ScannerPart!NoLeftover,
                    [ScannerPart!Next]_(ScannerPart!vars)
             PROVE  ScannerPart!ScannerInv' /\ ScannerPart!NoLeftover'
  OBVIOUS
<1>1. CASE ScannerPart!Next
  BY <1>1, ScanUpdateInv, BoxMovesInv, ReceiveInv DEF ScannerPart!Next
<1>2. CASE UNCHANGED ScannerPart!vars
  <2>1. ScannerPart!Held' = ScannerPart!Held
    BY <1>2 DEF ScannerPart!vars, ScannerPart!Held
  <2> QED
    BY <1>2, <2>1
    DEF ScannerPart!vars, ScannerPart!ScannerInv, ScannerPart!NoLeftover
<1> QED
  BY <1>1, <1>2

LEMMA ScannerPromise == ScannerPart!ScannerInv => ScannerPart!LampOnlyInScan
  BY DEF ScannerPart!ScannerInv, ScannerPart!LampOnlyInScan

-----------------------------------------------------------------------------
(* CalendarDates *)
(* In this part s1 is first; s2 is date; s3 is days.                       *)

\* A walk begins in a year that has four digits and a timestamp.
CalendarFits == StartYears \subseteq CalendarPart!Years

LEMMA YearSays ==
  ASSUME NEW y \in CalendarPart!Years
  PROVE  y \in Nat /\ 1970 <= y /\ y <= 9999
  BY DEF CalendarPart!Years

LEMMA IsYear ==
  ASSUME NEW y \in Int, 1970 <= y, y <= 9999
  PROVE  y \in CalendarPart!Years
  BY DEF CalendarPart!Years

LEMMA SameLeapYears == \A y \in Int : CalendarPart!leap(y) \in BOOLEAN
                       /\ (CalendarPart!leap(y) <=> CalendarPart!LongYear(y))
  BY DEF CalendarPart!leap, CalendarPart!LongYear

LEMMA SameMonths ==
  ASSUME NEW y \in Int, NEW m \in 1 .. 12
  PROVE  CalendarPart!monthDays(y, m) = CalendarPart!LastDay(y, m)
         /\ CalendarPart!monthDays(y, m) \in 28 .. 31
<1>1. /\ CalendarPart!lengths[1] = 31 /\ CalendarPart!lengths[2] = 28
      /\ CalendarPart!lengths[3] = 31 /\ CalendarPart!lengths[4] = 30
      /\ CalendarPart!lengths[5] = 31 /\ CalendarPart!lengths[6] = 30
      /\ CalendarPart!lengths[7] = 31 /\ CalendarPart!lengths[8] = 31
      /\ CalendarPart!lengths[9] = 30 /\ CalendarPart!lengths[10] = 31
      /\ CalendarPart!lengths[11] = 30 /\ CalendarPart!lengths[12] = 31
  BY DEF CalendarPart!lengths
<1>2. m \in {1, 2, 3, 4, 5, 6, 7, 8, 9, 10, 11, 12}
  OBVIOUS
<1>3. CalendarPart!monthDays(y, m)
          = CalendarPart!lengths[m] + (IF m
                                         = 2 /\ CalendarPart!LongYear(y)
                                             THEN 1 ELSE 0)
  BY SameLeapYears DEF CalendarPart!monthDays
<1> QED
  BY <1>1, <1>2, <1>3 DEF CalendarPart!LastDay

\* The days before each month, as a table.
Table == <<0, 31, 59, 90, 120, 151, 181, 212, 243, 273, 304, 334>>
tabled(y, m) == Table[m] + (IF m > 2 /\ CalendarPart!LongYear(y) THEN 1 ELSE 0)

LEMMA TableAdds ==
  ASSUME NEW y \in Int
  PROVE  /\ tabled(y, 1) = 0
         /\ \A m \in 1 .. 12 : tabled(y, m) \in Nat
         /\ \A m \in 1 .. 11 : tabled(y, m + 1)
                = tabled(y, m) + CalendarPart!monthDays(y, m)
<1>1. /\ Table[1] = 0 /\ Table[2] = 31 /\ Table[3] = 59 /\ Table[4] = 90
      /\ Table[5] = 120 /\ Table[6] = 151 /\ Table[7] = 181 /\ Table[8] = 212
      /\ Table[9] = 243 /\ Table[10] = 273 /\ Table[11] = 304
      /\ Table[12] = 334
  BY DEF Table
<1>2. \A m \in 1 .. 12 : m \in {1, 2, 3, 4, 5, 6, 7, 8, 9, 10, 11, 12}
  OBVIOUS
<1>3. \A m \in 1 .. 11 : m \in {1, 2, 3, 4, 5, 6, 7, 8, 9, 10, 11}
  OBVIOUS
<1>4. tabled(y, 1) = 0
  BY <1>1 DEF tabled
<1>5. ASSUME NEW m \in 1 .. 12 PROVE tabled(y, m) \in Nat
  BY <1>1, <1>2 DEF tabled
<1>6. ASSUME NEW m \in 1 .. 11
      PROVE tabled(y, m + 1) = tabled(y, m) + CalendarPart!monthDays(y, m)
  <2>1. CalendarPart!monthDays(y, m) = CalendarPart!LastDay(y, m)
    BY SameMonths
  <2> QED
    BY <1>1, <1>3, <2>1 DEF tabled, CalendarPart!LastDay
<1> QED
  BY <1>4, <1>5, <1>6

LEMMA MonthsAdd ==
  ASSUME NEW y \in Int, NEW m \in 1 .. 12
  PROVE  CalendarPart!monthStart(y)[m] = tabled(y, m)
<1> DEFINE Sum(f) == f
        = [k \in 1 .. 12
             |-> IF k = 1
                 THEN 0 ELSE f[k - 1] + CalendarPart!monthDays(y, k - 1)]
           g == [k \in 1 .. 12 |-> tabled(y, k)]
           before == CHOOSE f : Sum(f)
<1>1. Sum(g)
  <2>1. ASSUME NEW k \in 1 .. 12
        PROVE  tabled(y, k)
                   = IF k = 1
                       THEN 0 ELSE g[k - 1] + CalendarPart!monthDays(y, k - 1)
    <3>1. CASE k = 1
      BY <3>1, TableAdds
    <3>2. CASE k # 1
      <4>1. k - 1 \in 1 .. 11 /\ k - 1 \in 1 .. 12 /\ k - 1 + 1 = k
        BY <3>2
      <4>2. tabled(y, k) = tabled(y, k - 1) + CalendarPart!monthDays(y, k - 1)
        BY <4>1, TableAdds
      <4> QED
        BY <3>2, <4>1, <4>2
    <3> QED
      BY <3>1, <3>2
  <2> QED
    BY <2>1
<1> HIDE DEF g
<1>2. Sum(before)
  BY <1>1
<1>3. CalendarPart!monthStart(y) = before
  BY DEF CalendarPart!monthStart
<1> HIDE DEF before
<1>4. before[1] = tabled(y, 1)
  BY <1>2, TableAdds
<1>5. ASSUME NEW k \in 1 .. 11, before[k] = tabled(y, k)
      PROVE  before[k + 1] = tabled(y, k + 1)
  <2>1. k + 1 \in 1 .. 12 /\ k + 1 # 1 /\ k + 1 - 1 = k
    OBVIOUS
  <2>2. before[k + 1] = before[k] + CalendarPart!monthDays(y, k)
    BY <1>2, <2>1
  <2> QED
    BY <1>5, <2>2, TableAdds
<1> HIDE DEF Sum
<1>6. /\ before[2] = tabled(y, 2) /\ before[3] = tabled(y, 3)
      /\ before[4] = tabled(y, 4)
      /\ before[5] = tabled(y, 5) /\ before[6] = tabled(y, 6)
      /\ before[7] = tabled(y, 7)
      /\ before[8] = tabled(y, 8) /\ before[9] = tabled(y, 9)
      /\ before[10] = tabled(y, 10)
      /\ before[11] = tabled(y, 11) /\ before[12] = tabled(y, 12)
  BY <1>4, <1>5
<1>7. m \in {1, 2, 3, 4, 5, 6, 7, 8, 9, 10, 11, 12}
  OBVIOUS
<1> QED
  BY <1>3, <1>4, <1>6, <1>7

\* The days before a month, in steps of a month.
LEMMA MonthStarts ==
  ASSUME NEW y \in Int, NEW m \in 1 .. 12
  PROVE  CalendarPart!monthStart(y)[m] \in Nat
<1>1. tabled(y, m) \in Nat
  BY TableAdds
<1> QED
  BY <1>1, MonthsAdd

LEMMA YearStarts ==
  ASSUME NEW y \in Int
  PROVE  CalendarPart!monthStart(y)[1] = 0
<1>1. tabled(y, 1) = 0
  BY TableAdds
<1>2. 1 \in 1 .. 12
  OBVIOUS
<1>3. CalendarPart!monthStart(y)[1] = tabled(y, 1)
  BY <1>2, MonthsAdd
<1> QED
  BY <1>1, <1>3

LEMMA MonthAfter ==
  ASSUME NEW y \in Int, NEW m \in 1 .. 11
  PROVE  CalendarPart!monthStart(y)[m + 1]
             = CalendarPart!monthStart(y)[m] + CalendarPart!monthDays(y, m)
<1>1. m \in 1 .. 12 /\ m + 1 \in 1 .. 12
  OBVIOUS
<1>2. CalendarPart!monthStart(y)[m + 1] = tabled(y, m + 1)
      /\ CalendarPart!monthStart(y)[m] = tabled(y, m)
  BY <1>1, MonthsAdd
<1>3. tabled(y, m + 1) = tabled(y, m) + CalendarPart!monthDays(y, m)
  BY TableAdds
<1> QED
  BY <1>2, <1>3

\* The first of a month comes after all days of the months before.
LEMMA MonthsInOrder ==
  ASSUME NEW y \in Int, NEW m \in 1 .. 12, NEW k \in 1 .. 12, k < m
  PROVE  CalendarPart!monthStart(y)[k] + CalendarPart!monthDays(y, k)
           <= CalendarPart!monthStart(y)[m]
<1>1. /\ Table[1] = 0 /\ Table[2] = 31 /\ Table[3] = 59 /\ Table[4] = 90
      /\ Table[5] = 120 /\ Table[6] = 151 /\ Table[7] = 181 /\ Table[8] = 212
      /\ Table[9] = 243 /\ Table[10] = 273 /\ Table[11] = 304
      /\ Table[12] = 334
  BY DEF Table
<1>2. m \in {1, 2, 3, 4, 5, 6, 7, 8, 9, 10, 11, 12}
      /\ k + 1 \in {2, 3, 4, 5, 6, 7, 8, 9, 10, 11, 12}
  OBVIOUS
<1>3. k + 1 <= m /\ k \in 1 .. 11
  OBVIOUS
<1>4. tabled(y, k + 1) <= tabled(y, m)
  BY <1>1, <1>2, <1>3 DEF tabled
<1>5. tabled(y, k + 1) = tabled(y, k) + CalendarPart!monthDays(y, k)
  BY <1>3, TableAdds
<1>6. CalendarPart!monthStart(y)[k] = tabled(y, k)
      /\ CalendarPart!monthStart(y)[m] = tabled(y, m)
  BY MonthsAdd
<1> QED
  BY <1>4, <1>5, <1>6

\* A year has 365 days or 366.
LEMMA YearAdds ==
  ASSUME NEW y \in Nat, y >= 1
  PROVE  /\ CalendarPart!yearDays(y) \in Int
         /\ CalendarPart!since1970(y) \in Int
         /\ CalendarPart!since1970(y + 1)
                = CalendarPart!since1970(y) + (IF CalendarPart!LongYear(y)
                                                 THEN 366 ELSE 365)
<1>1. /\ CalendarPart!yearDays(y) \in Int /\ CalendarPart!since1970(y) \in Int
      /\ CalendarPart!since1970(y + 1) - CalendarPart!since1970(y)
             = CalendarPart!yearDays(y + 1) - CalendarPart!yearDays(y)
  BY DEF CalendarPart!since1970, CalendarPart!yearDays
<1>2. /\ y \div 4 - (y - 1) \div 4 = IF y % 4 = 0 THEN 1 ELSE 0
      /\ y \div 100 - (y - 1) \div 100 = IF y % 100 = 0 THEN 1 ELSE 0
      /\ y \div 400 - (y - 1) \div 400 = IF y % 400 = 0 THEN 1 ELSE 0
  OBVIOUS
<1>3. (y % 400 = 0 => y % 100 = 0) /\ (y % 100 = 0 => y % 4 = 0)
  OBVIOUS
<1>4. CalendarPart!yearDays(y + 1) - CalendarPart!yearDays(y)
        = 365 + (y \div 4 - (y - 1) \div 4) - (y \div 100 - (y - 1) \div 100)
              + (y \div 400 - (y - 1) \div 400)
  BY DEF CalendarPart!yearDays
<1>5. CalendarPart!yearDays(y + 1) - CalendarPart!yearDays(y)
          = IF CalendarPart!LongYear(y) THEN 366 ELSE 365
  BY <1>2, <1>3, <1>4 DEF CalendarPart!LongYear
<1>6. CalendarPart!since1970(y + 1) \in Int
  BY DEF CalendarPart!since1970, CalendarPart!yearDays
<1> QED
  BY <1>1, <1>5, <1>6

LEMMA YearsInOrder ==
  ASSUME NEW y \in Int, NEW z \in Int, 1970 <= y, y <= z, z <= 10000
  PROVE  CalendarPart!since1970(y) <= CalendarPart!since1970(z)
             /\ CalendarPart!since1970(y) \in Nat
  BY DEF CalendarPart!since1970, CalendarPart!yearDays

LEMMA YearsAreLong ==
  ASSUME NEW y \in Int, 1970 <= y, y <= 9999
  PROVE  CalendarPart!since1970(y + 1) <= 366 * (y - 1969)
  BY DEF CalendarPart!since1970, CalendarPart!yearDays

\* A year and the days of its twelve months.
LEMMA YearIsItsMonths ==
  ASSUME NEW y \in Nat, y >= 1
  PROVE  CalendarPart!since1970(y + 1) = CalendarPart!since1970(y)
       + CalendarPart!monthStart(y)[12] + 31
<1>1. Table[12] = 334
  BY DEF Table
<1>2. CalendarPart!monthStart(y)[12]
          = 334 + (IF CalendarPart!LongYear(y) THEN 1 ELSE 0)
  BY <1>1, MonthsAdd DEF tabled
<1> QED
  BY <1>2, YearAdds

\* The count of a set is the same operator there as here.
LEMMA SameCount == \A S : CalendarPart!Cardinality(S) = Cardinality(S)
  BY DEF CalendarPart!Cardinality, Cardinality

\* What the calendar counts when it is opened at a year.
Counted(y) == {l \in 1970 .. y - 1 : CalendarPart!LongYear(l)}

LEMMA YearsCounted ==
  ASSUME NEW m \in Nat
  PROVE  CalendarPart!DaysBefore(1970 + m) = CalendarPart!since1970(1970 + m)
<1> DEFINE Right(y) == /\ IsFiniteSet(Counted(y))
    /\ Cardinality(Counted(y)) \in Nat
                       /\ CalendarPart!since1970(y)
                              = 365 * (y - 1970) + Cardinality(Counted(y))
           Wrong == {k \in Nat : ~Right(1970 + k)}
<1>1. ASSUME Wrong # {} PROVE FALSE
  <2>1. PICK k \in Wrong : \A l \in Wrong : k <= l
    <3>1. Wrong \subseteq Nat
      OBVIOUS
    <3> HIDE DEF Wrong
    <3> QED
      BY <1>1, <3>1, LeastNumber
  <2>2. k \in Nat /\ ~Right(1970 + k)
    BY <2>1
  <2>3. CASE k = 0
    <3>1. Counted(1970) = {}
      BY DEF Counted
    <3>2. CalendarPart!since1970(1970) = 0
      BY DEF CalendarPart!since1970, CalendarPart!yearDays
    <3>3. Right(1970)
      BY <3>1, <3>2, FS_EmptySet
    <3> QED
      BY <2>2, <2>3, <3>3
  <2>4. CASE k # 0
    <3> DEFINE y == 1970 + (k - 1)
    <3>1. k - 1 \in Nat /\ ~(k <= k - 1)
      BY <2>2, <2>4
    <3>2. k - 1 \notin Wrong
      <4> HIDE DEF Wrong
      <4> QED
        BY <2>1, <3>1
    <3>3. Right(y)
      BY <3>1, <3>2
    <3>4. y \in Nat /\ y >= 1970 /\ y + 1 = 1970 + k
      BY <3>1
    <3> HIDE DEF y
    <3>5. Counted(y + 1)
              = IF CalendarPart!LongYear(y)
                  THEN Counted(y) \cup {y} ELSE Counted(y)
      <4>1. \A l : l \in 1970 .. y <=> l \in 1970 .. y - 1 \/ l = y
        BY <3>4
      <4>2. y + 1 - 1 = y
        BY <3>4
      <4> QED
        BY <4>1, <4>2 DEF Counted
    <3>6. y \notin Counted(y)
      BY <3>4 DEF Counted
    <3>7. CalendarPart!since1970(y + 1)
              = CalendarPart!since1970(y) + (IF CalendarPart!LongYear(y)
                                               THEN 366 ELSE 365)
      BY <3>4, YearAdds
    <3>8. Right(y + 1)
      <4>1. CASE CalendarPart!LongYear(y)
        <5>1. Counted(y + 1) = Counted(y) \cup {y}
          BY <3>5, <4>1
        <5>2. /\ IsFiniteSet(Counted(y + 1))
              /\ Cardinality(Counted(y + 1)) = Cardinality(Counted(y)) + 1
          BY <3>3, <3>6, <5>1, FS_AddElement
        <5> QED
          BY <3>3, <3>4, <3>7, <4>1, <5>2
      <4>2. CASE ~CalendarPart!LongYear(y)
        BY <3>3, <3>4, <3>5, <3>7, <4>2
      <4> QED
        BY <4>1, <4>2
    <3> QED
      BY <2>2, <3>4, <3>8
  <2> QED
    BY <2>3, <2>4
<1>2. m \notin Wrong
  <2> HIDE DEF Wrong
  <2> QED
    BY <1>1
<1>3. Right(1970 + m)
  BY <1>2
<1>4. CalendarPart!DaysBefore(1970 + m)
          = 365 * (1970 + m - 1970) + CalendarPart!Cardinality(Counted(1970 + m))
  BY SameCount DEF CalendarPart!DaysBefore, Counted
<1> QED
  BY <1>3, <1>4, SameCount

\* The first page of a year.
LEMMA FirstPageSays ==
  ASSUME CalendarFits, NEW y \in StartYears
  PROVE  /\ y \in CalendarPart!Years
         /\ CalendarPart!FirstPage(y) = [y |-> y, m |-> 1, d |-> 1]
         /\ 1 <= CalendarPart!LastDay(y, 1)
                /\ CalendarPart!since1970(y) \in Int
         /\ CalendarPart!DaysBefore(y) = CalendarPart!since1970(y)
         /\ CalendarPart!monthStart(y)[1] = 0
<1>1. y \in CalendarPart!Years /\ y \in Nat /\ 1970 <= y /\ y <= 9999
  BY YearSays DEF CalendarFits
<1>2. CalendarPart!FirstPage(y) = [y |-> y, m |-> 1, d |-> 1]
  BY DEF CalendarPart!FirstPage
<1>3. CalendarPart!DaysBefore(y) = CalendarPart!since1970(y)
  <2>1. y - 1970 \in Nat /\ 1970 + (y - 1970) = y
    BY <1>1
  <2> QED
    BY <2>1, YearsCounted
<1>4. CalendarPart!monthStart(y)[1] = 0
  BY <1>1, YearStarts
<1>5. CalendarPart!since1970(y) \in Int
  BY <1>1, YearAdds
<1>6. CalendarPart!LastDay(y, 1) = 31
  BY DEF CalendarPart!LastDay
<1> QED
  BY <1>1, <1>2, <1>3, <1>4, <1>5, <1>6

LEMMA FirstPageInv ==
  ASSUME CalendarFits, s1 \in StartYears, s2 = CalendarPart!FirstPage(s1),
         s3 = CalendarPart!DaysBefore(s1)
  PROVE  CalendarPart!CalendarInv
<1>1. /\ s1 \in CalendarPart!Years
      /\ CalendarPart!FirstPage(s1) = [y |-> s1, m |-> 1, d |-> 1]
      /\ 1 <= CalendarPart!LastDay(s1, 1) /\ CalendarPart!since1970(s1) \in Int
      /\ CalendarPart!DaysBefore(s1) = CalendarPart!since1970(s1)
      /\ CalendarPart!monthStart(s1)[1] = 0
  BY FirstPageSays
<1>2. s2.y = s1 /\ s2.m = 1 /\ s2.d = 1
  BY <1>1
<1>3. s2 \in [y : CalendarPart!Years, m : 1 .. 12, d : 1 .. 31]
  BY <1>1
<1>4. s3 = CalendarPart!since1970(s2.y)
           + CalendarPart!monthStart(s2.y)[s2.m] + s2.d - 1
  BY <1>1, <1>2
<1> QED
  BY <1>1, <1>2, <1>3, <1>4 DEF CalendarPart!CalendarInv

LEMMA CalendarInit == CalendarFits /\ CalendarPart!Init
                      => CalendarPart!CalendarInv
  BY FirstPageInv DEF CalendarPart!Init

\* What the invariant says, and the types the arithmetic needs.
LEMMA PageSays ==
  ASSUME CalendarPart!CalendarInv
  PROVE  /\ s2.y \in Nat
         /\ 1970 <= s2.y
                /\ s2.y <= 9999
                       /\ s2.m \in 1 .. 12
                       /\ s2.d \in 1 .. CalendarPart!LastDay(s2.y, s2.m)
         /\ CalendarPart!since1970(s2.y) \in Nat
         /\ CalendarPart!monthStart(s2.y)[s2.m] \in Nat
         /\ CalendarPart!monthDays(s2.y, s2.m)
                = CalendarPart!LastDay(s2.y, s2.m)
         /\ CalendarPart!LastDay(s2.y, s2.m) \in 28 .. 31
         /\ s3 = CalendarPart!since1970(s2.y)
                 + CalendarPart!monthStart(s2.y)[s2.m] + s2.d - 1
         /\ s3 \in Nat
<1>1. /\ s2.y \in Nat
      /\ 1970 <= s2.y /\ s2.y <= 9999 /\ s2.m \in 1 .. 12 /\ s2.d \in 1 .. 31
      /\ s2.d <= CalendarPart!LastDay(s2.y, s2.m)
      /\ s3 = CalendarPart!since1970(s2.y)
              + CalendarPart!monthStart(s2.y)[s2.m] + s2.d - 1
  BY YearSays DEF CalendarPart!CalendarInv
<1>2. CalendarPart!since1970(s2.y) \in Nat
  BY <1>1, YearsInOrder
<1>3. CalendarPart!monthStart(s2.y)[s2.m] \in Nat
  BY <1>1, MonthStarts
<1>4. CalendarPart!monthDays(s2.y, s2.m) = CalendarPart!LastDay(s2.y, s2.m)
      /\ CalendarPart!LastDay(s2.y, s2.m) \in 28 .. 31
  BY <1>1, SameMonths
<1> QED
  BY <1>1, <1>2, <1>3, <1>4

LEMMA PageTurned ==
  ASSUME CalendarPart!CalendarInv, CalendarPart!turnPage
  PROVE  CalendarPart!CalendarInv'
<1> DEFINE y == s2.y
           m == s2.m
           d == s2.d
           n == CalendarPart!LastDay(y, m)
<1>1. /\ y \in Nat
      /\ 1970 <= y
             /\ y <= 9999 /\ m \in 1 .. 12 /\ d \in 1 .. n /\ n \in 28 .. 31
      /\ CalendarPart!since1970(y) \in Nat
      /\ CalendarPart!monthStart(y)[m] \in Nat
      /\ CalendarPart!monthDays(y, m) = n
      /\ s3 = CalendarPart!since1970(y)
              + CalendarPart!monthStart(y)[m] + d - 1
  BY PageSays
<1>2. /\ s1' = s1 /\ s1 \in StartYears /\ s3' = s3 + 1 /\ s2'.y < 10000
      /\ s2' = IF d < n THEN [s2 EXCEPT !.d = d + 1]
                 ELSE IF m < 12 THEN [s2 EXCEPT !.d = 1, !.m = m + 1]
                 ELSE CalendarPart!FirstPage(y + 1)
  BY DEF CalendarPart!turnPage, CalendarPart!CalendarInv
<1>3. s2 \in [y : CalendarPart!Years, m : 1 .. 12, d : 1 .. 31]
  BY DEF CalendarPart!CalendarInv
<1>4. s2 = [y |-> y, m |-> m, d |-> d] /\ y \in CalendarPart!Years
  BY <1>3
<1> HIDE DEF n, d, m, y
<1>5. y \in Int /\ m \in 1 .. 12 /\ d \in Int /\ n \in Int /\ n >= 28
      /\ n <= 31 /\ d >= 1 /\ d <= n
  BY <1>1
<1>6. ASSUME NEW yy \in CalendarPart!Years, NEW mm \in 1 .. 12,
             NEW dd \in 1 .. 31, dd <= CalendarPart!LastDay(yy, mm),
             s2' = [y |-> yy, m |-> mm, d |-> dd],
             s3' = CalendarPart!since1970(yy)
                   + CalendarPart!monthStart(yy)[mm] + dd - 1
      PROVE  CalendarPart!CalendarInv'
  <2>1. s2'.y = yy /\ s2'.m = mm /\ s2'.d = dd
        /\ s2' \in [y : CalendarPart!Years, m : 1 .. 12, d : 1 .. 31]
    BY <1>6
  <2> QED
    BY <1>2, <1>6, <2>1 DEF CalendarPart!CalendarInv
<1>7. CASE d < n
  <2>1. s2' = [s2 EXCEPT !.d = d + 1]
    BY <1>2, <1>7
  <2>2. s2' = [y |-> y, m |-> m, d |-> d + 1]
    BY <1>4, <2>1
  <2>3. d + 1 \in 1 .. 31 /\ d + 1 <= CalendarPart!LastDay(y, m)
    BY <1>5, <1>7 DEF n
  <2>4. s3' = CalendarPart!since1970(y)
              + CalendarPart!monthStart(y)[m] + (d + 1) - 1
    BY <1>1, <1>2
  <2> QED
    BY <1>4, <1>5, <1>6, <2>2, <2>3, <2>4
<1>8. CASE ~(d < n) /\ m < 12
  <2>1. s2' = [s2 EXCEPT !.d = 1, !.m = m + 1]
    BY <1>2, <1>8
  <2>2. s2' = [y |-> y, m |-> m + 1, d |-> 1]
    BY <1>4, <2>1
  <2>3. m \in 1 .. 11 /\ m + 1 \in 1 .. 12 /\ d = n
    BY <1>5, <1>8
  <2>4. CalendarPart!monthStart(y)[m + 1] = CalendarPart!monthStart(y)[m] + n
    BY <1>1, <1>5, <2>3, MonthAfter
  <2>5. 1 <= CalendarPart!LastDay(y, m + 1) /\ 1 \in 1 .. 31
    BY <1>5, <2>3, SameMonths
  <2>6. s3' = CalendarPart!since1970(y)
              + CalendarPart!monthStart(y)[m + 1] + 1 - 1
    BY <1>1, <1>2, <2>3, <2>4
  <2> QED
    BY <1>4, <1>6, <2>2, <2>3, <2>5, <2>6
<1>9. CASE ~(d < n) /\ ~(m < 12)
  <2>1. s2' = CalendarPart!FirstPage(y + 1)
    BY <1>2, <1>9
  <2>2. s2' = [y |-> y + 1, m |-> 1, d |-> 1]
    BY <2>1 DEF CalendarPart!FirstPage
  <2>3. m = 12 /\ d = n
    BY <1>5, <1>9
  <2>4. n = 31
    BY <2>3 DEF n, CalendarPart!LastDay
  <2>5. y + 1 \in CalendarPart!Years
    <3>1. s2'.y = y + 1
      BY <2>2
    <3>2. y + 1 \in Int /\ 1970 <= y + 1 /\ y + 1 <= 9999
      BY <1>1, <1>2, <3>1
    <3> QED
      BY <3>2, IsYear
  <2>6. CalendarPart!since1970(y + 1) = CalendarPart!since1970(y)
      + CalendarPart!monthStart(y)[12] + 31
    BY <1>1, YearIsItsMonths
  <2>7. CalendarPart!monthStart(y + 1)[1] = 0
    BY <1>5, YearStarts
  <2>8. 1 <= CalendarPart!LastDay(y + 1, 1) /\ 1 \in 1 .. 31 /\ 1 \in 1 .. 12
    BY DEF CalendarPart!LastDay
  <2>9. s3' = CalendarPart!since1970(y + 1)
              + CalendarPart!monthStart(y + 1)[1] + 1 - 1
    BY <1>1, <1>2, <2>3, <2>4, <2>6, <2>7
  <2> QED
    BY <1>6, <2>2, <2>5, <2>8, <2>9
<1> QED
  BY <1>7, <1>8, <1>9

LEMMA CalendarStep == CalendarFits /\ CalendarPart!CalendarInv
                      /\ CalendarPart!Next => CalendarPart!CalendarInv'
<1> SUFFICES ASSUME CalendarFits, CalendarPart!CalendarInv, CalendarPart!Next
             PROVE CalendarPart!CalendarInv'
  OBVIOUS
<1>1. CASE CalendarPart!turnPage
  BY <1>1, PageTurned
<1>2. CASE CalendarPart!startOver
  <2> DEFINE page == CalendarPart!FirstPage(s1)
  <2>1. s1' = s1 /\ s1 \in StartYears /\ s2' = page
        /\ s3' = CalendarPart!DaysBefore(s1)
    BY <1>2 DEF CalendarPart!startOver, CalendarPart!CalendarInv
  <2>2. /\ s1 \in CalendarPart!Years /\ page = [y |-> s1, m |-> 1, d |-> 1]
        /\ 1 <= CalendarPart!LastDay(s1, 1)
               /\ CalendarPart!since1970(s1) \in Int
        /\ CalendarPart!DaysBefore(s1) = CalendarPart!since1970(s1)
        /\ CalendarPart!monthStart(s1)[1] = 0
    BY <2>1, FirstPageSays
  <2>3. s2'.y = s1 /\ s2'.m = 1 /\ s2'.d = 1
    BY <2>1, <2>2
  <2>4. s2' \in [y : CalendarPart!Years, m : 1 .. 12, d : 1 .. 31]
    BY <2>1, <2>2
  <2>5. s3' = CalendarPart!since1970(s2'.y)
              + CalendarPart!monthStart(s2'.y)[s2'.m] + s2'.d - 1
    BY <2>1, <2>2, <2>3
  <2> QED
    BY <2>1, <2>2, <2>3, <2>4, <2>5 DEF CalendarPart!CalendarInv
<1> QED
  BY <1>1, <1>2 DEF CalendarPart!Next

LEMMA DaysCounted == CalendarPart!CalendarInv => CalendarPart!CountsDays
<1> SUFFICES ASSUME CalendarPart!CalendarInv PROVE CalendarPart!CountsDays
  OBVIOUS
<1>1. /\ s2.y \in Nat
      /\ 1970 <= s2.y
             /\ s2.y <= 9999
                    /\ s2.m \in 1 .. 12
                    /\ s2.d \in 1 .. CalendarPart!LastDay(s2.y, s2.m)
      /\ CalendarPart!since1970(s2.y) \in Nat
      /\ CalendarPart!monthStart(s2.y)[s2.m] \in Nat
      /\ CalendarPart!monthDays(s2.y, s2.m) = CalendarPart!LastDay(s2.y, s2.m)
      /\ CalendarPart!LastDay(s2.y, s2.m) \in 28 .. 31
      /\ s3 = CalendarPart!since1970(s2.y)
              + CalendarPart!monthStart(s2.y)[s2.m] + s2.d - 1
      /\ s3 \in Nat
  BY PageSays
<1>2. s3 = CalendarPart!since1970(s2.y) + s2.d - 1
           + CalendarPart!monthStart(s2.y)[s2.m]
  BY <1>1
<1>3. s2 # CalendarPart!NoLimit(FALSE)
  BY <1>1 DEF CalendarPart!NoLimit
<1>4. CalendarPart!dayOfMonth(s2) /\ ~(s2.y < 1970) /\ s2.m \in 1 .. 12
  BY <1>1 DEF CalendarPart!dayOfMonth
<1>5. CalendarPart!parseDate(s2, FALSE)
          = IF s3 = 0 THEN CalendarPart!Unlimited ELSE s3
  BY <1>2, <1>3, <1>4 DEF CalendarPart!parseDate
<1>6. CalendarPart!parseDate(s2, TRUE)
          = IF s2 = CalendarPart!NoLimit(TRUE)
              THEN CalendarPart!Unlimited ELSE s3
  <2>1. CASE s2 = CalendarPart!NoLimit(TRUE)
    BY <2>1 DEF CalendarPart!parseDate
  <2>2. CASE s2 # CalendarPart!NoLimit(TRUE)
    BY <1>2, <1>4, <2>2 DEF CalendarPart!parseDate
  <2> QED
    BY <2>1, <2>2
<1> QED
  BY <1>5, <1>6 DEF CalendarPart!CountsDays

LEMMA DatesAreReal == CalendarPart!CalendarInv => CalendarPart!OnlyRealDates
<1> SUFFICES ASSUME CalendarPart!CalendarInv, NEW d \in 0 .. 32
             PROVE  (CalendarPart!parseDate([s2 EXCEPT !.d = d],
                                            FALSE) # CalendarPart!Bad)
                      <=> d \in 1 .. CalendarPart!LastDay(s2.y, s2.m)
  BY DEF CalendarPart!OnlyRealDates
<1> DEFINE t == [s2 EXCEPT !.d = d]
           n == CalendarPart!since1970(t.y) + t.d - 1
              + CalendarPart!monthStart(t.y)[t.m]
<1>1. /\ s2.y \in Nat /\ 1970 <= s2.y /\ s2.y <= 9999 /\ s2.m \in 1 .. 12
      /\ CalendarPart!since1970(s2.y) \in Nat
      /\ CalendarPart!monthStart(s2.y)[s2.m] \in Nat
      /\ CalendarPart!monthDays(s2.y, s2.m) = CalendarPart!LastDay(s2.y, s2.m)
      /\ CalendarPart!LastDay(s2.y, s2.m) \in 28 .. 31
  BY PageSays
<1>2. t.y = s2.y /\ t.m = s2.m /\ t.d = d
  BY DEF CalendarPart!CalendarInv
<1> HIDE DEF t
<1>3. t # CalendarPart!NoLimit(FALSE) /\ ~(t.y < 1970) /\ t.m \in 1 .. 12
  BY <1>1, <1>2 DEF CalendarPart!NoLimit
<1>4. CalendarPart!dayOfMonth(t)
      <=> d \in 1 .. CalendarPart!LastDay(s2.y, s2.m)
  BY <1>1, <1>2 DEF CalendarPart!dayOfMonth
<1>5. CASE CalendarPart!dayOfMonth(t)
  <2>1. n \in Nat
    BY <1>1, <1>2, <1>4, <1>5
  <2>2. CalendarPart!parseDate(t, FALSE) \in {n, CalendarPart!Unlimited}
    BY <1>3, <1>5 DEF CalendarPart!parseDate
  <2> HIDE DEF n
  <2>3. n # CalendarPart!Bad /\ CalendarPart!Unlimited # CalendarPart!Bad
    BY <2>1 DEF CalendarPart!Bad, CalendarPart!Unlimited
  <2>4. CalendarPart!parseDate(t, FALSE) # CalendarPart!Bad
    BY <2>2, <2>3
  <2> QED
    BY <1>4, <1>5, <2>4 DEF t
<1>6. CASE ~CalendarPart!dayOfMonth(t)
  <2>1. CalendarPart!parseDate(t, FALSE) = CalendarPart!Bad
    BY <1>3, <1>6 DEF CalendarPart!parseDate
  <2> QED
    BY <1>4, <1>6, <2>1 DEF t
<1> QED
  BY <1>5, <1>6

\* A day of a year comes before the next year.
LEMMA DaysOfYear ==
  ASSUME CalendarPart!CalendarInv
  PROVE  CalendarPart!since1970(s2.y) <= s3
             /\ s3 < CalendarPart!since1970(s2.y + 1)
<1> DEFINE y == s2.y
<1>1. /\ y \in Nat /\ 1970 <= y /\ y <= 9999 /\ s3 \in Nat
      /\ CalendarPart!since1970(y) \in Nat
      /\ CalendarPart!monthStart(y)[s2.m] \in Nat
      /\ s2.d \in 1 .. 31 /\ s2.m \in 1 .. 12
      /\ s2.d <= CalendarPart!LastDay(y, s2.m)
      /\ s3 = CalendarPart!since1970(y)
              + CalendarPart!monthStart(y)[s2.m] + s2.d - 1
  BY PageSays DEF CalendarPart!CalendarInv
<1> HIDE DEF y
<1>2. CalendarPart!since1970(y + 1) = CalendarPart!since1970(y)
    + CalendarPart!monthStart(y)[12] + 31
  BY <1>1, YearIsItsMonths
<1>3. /\ CalendarPart!monthDays(y, s2.m) = CalendarPart!LastDay(y, s2.m)
      /\ CalendarPart!LastDay(y, s2.m) \in 28 .. 31
      /\ CalendarPart!monthStart(y)[12] \in Nat
  <2>1. y \in Int /\ s2.m \in 1 .. 12 /\ 12 \in 1 .. 12
    BY <1>1
  <2> QED
    BY <2>1, SameMonths, MonthStarts
<1>4. CalendarPart!monthStart(y)[s2.m] + CalendarPart!LastDay(y, s2.m)
        <= CalendarPart!monthStart(y)[12] + 31
  <2>1. CASE s2.m = 12
    BY <1>1, <1>3, <2>1
  <2>2. CASE s2.m < 12
    <3>1. CalendarPart!monthStart(y)[s2.m] + CalendarPart!monthDays(y, s2.m)
            <= CalendarPart!monthStart(y)[12]
      BY <1>1, <2>2, MonthsInOrder
    <3> QED
      BY <1>1, <1>3, <3>1
  <2> QED
    BY <1>1, <2>1, <2>2
<1>5. CalendarPart!since1970(y) <= s3 /\ s3 < CalendarPart!since1970(y + 1)
  BY <1>1, <1>2, <1>3, <1>4
<1> QED
  BY <1>5 DEF y

\* The year that formatDate() finds, and the month.
LEMMA YearFound == CalendarPart!CalendarInv => CalendarPart!yearOf(s3) = s2.y
<1> SUFFICES ASSUME CalendarPart!CalendarInv
             PROVE CalendarPart!yearOf(s3) = s2.y
  OBVIOUS
<1> DEFINE y == s2.y
           least == 1970 + s3 \div 366
           Stops(x) == x \in least .. 9999 /\ ~CalendarPart!pastYear(x, s3)
                       /\ \A z \in least .. x - 1 : CalendarPart!pastYear(z,
                                                                          s3)
<1>1. /\ y \in Nat /\ 1970 <= y /\ y <= 9999 /\ s3 \in Nat
      /\ CalendarPart!since1970(y) \in Nat
      /\ CalendarPart!monthStart(y)[s2.m] \in Nat
      /\ s2.d \in 1 .. 31 /\ s2.m \in 1 .. 12
      /\ s2.d <= CalendarPart!LastDay(y, s2.m)
      /\ s3 = CalendarPart!since1970(y)
              + CalendarPart!monthStart(y)[s2.m] + s2.d - 1
  BY PageSays DEF CalendarPart!CalendarInv
<1> HIDE DEF y
<1>2. CalendarPart!since1970(y) <= s3 /\ s3 < CalendarPart!since1970(y + 1)
  BY DaysOfYear DEF y
<1>3. least \in 1970 .. y
  <2>1. CalendarPart!since1970(y + 1) <= 366 * (y - 1969)
            /\ CalendarPart!since1970(y + 1) \in Int
    BY <1>1, YearsAreLong, YearAdds
  <2>2. s3 < 366 * (y - 1969)
    BY <1>1, <1>2, <2>1
  <2> QED
    BY <1>1, <2>2
<1> HIDE DEF least
<1>4. \A z \in 1970 .. y - 1 : CalendarPart!pastYear(z, s3)
  <2>1. SUFFICES ASSUME NEW z \in 1970 .. y - 1
                 PROVE CalendarPart!since1970(z + 1) <= s3
    BY DEF CalendarPart!pastYear
  <2>2. z + 1 \in Int /\ 1970 <= z + 1 /\ z + 1 <= y /\ y <= 10000
    BY <1>1
  <2>3. CalendarPart!since1970(z + 1) <= CalendarPart!since1970(y)
            /\ CalendarPart!since1970(z + 1) \in Nat
    <3>1. y \in Int
      BY <1>1
    <3> HIDE DEF Stops
    <3> QED
      BY <2>2, <3>1, YearsInOrder
  <2> QED
    BY <1>1, <1>2, <2>3
<1>5. ~CalendarPart!pastYear(y, s3)
  <2>1. CalendarPart!since1970(y + 1) \in Int
    BY <1>1, YearAdds
  <2> QED
    BY <1>1, <1>2, <2>1 DEF CalendarPart!pastYear
<1>6. Stops(y)
  <2>1. \A z \in least .. y - 1 : z \in 1970 .. y - 1
    BY <1>1, <1>3
  <2>2. y \in least .. 9999
    BY <1>1, <1>3
  <2> QED
    BY <1>4, <1>5, <2>1, <2>2
<1>7. ASSUME NEW x, Stops(x) PROVE x = y
  <2>1. x \in Int /\ x >= least
        /\ x <= 9999
               /\ least \in Int /\ 1970 <= least /\ least <= y /\ y \in Int
    BY <1>1, <1>3, <1>7
  <2>2. ~(x < y)
    <3>1. ASSUME x < y PROVE x \in 1970 .. y - 1
      BY <2>1, <3>1
    <3> QED
      BY <1>4, <1>7, <3>1
  <2>3. ~(x > y)
    <3>1. ASSUME x > y PROVE y \in least .. x - 1
      BY <2>1, <3>1
    <3> QED
      BY <1>5, <1>7, <3>1
  <2> HIDE DEF Stops
  <2> QED
    BY <2>1, <2>2, <2>3
<1>8. CalendarPart!yearOf(s3) = CHOOSE x : Stops(x)
  BY DEF CalendarPart!yearOf, least
<1> HIDE DEF Stops
<1> QED
  BY <1>6, <1>7, <1>8 DEF y

LEMMA MonthFound == CalendarPart!CalendarInv
                    => CalendarPart!monthOf(s3 - CalendarPart!since1970(s2.y),
                                            s2.y) = s2.m
<1> SUFFICES ASSUME CalendarPart!CalendarInv
             PROVE CalendarPart!monthOf(s3 - CalendarPart!since1970(s2.y),
                                        s2.y) = s2.m
  OBVIOUS
<1> DEFINE y == s2.y
           m == s2.m
           r == s3 - CalendarPart!since1970(y)
           past(k) == CalendarPart!pastMonth(CalendarPart!leftIn(r, y, k), y,
                                             k)
           Stops(x) == x \in 1 .. 12 /\ ~past(x)
           /\ \A k \in 1 .. x - 1 : past(k)
<1>1. /\ y \in Int /\ m \in 1 .. 12 /\ s2.d \in 1 .. CalendarPart!LastDay(y, m)
      /\ CalendarPart!monthStart(y)[m] \in Int
      /\ CalendarPart!monthDays(y, m) = CalendarPart!LastDay(y, m)
      /\ CalendarPart!LastDay(y, m) \in 28 .. 31
      /\ r = CalendarPart!monthStart(y)[m] + s2.d - 1
  BY PageSays
<1> HIDE DEF r, y, m
<1>2. \A k \in 1 .. 12 : CalendarPart!monthStart(y)[k] \in Nat
      /\ CalendarPart!monthDays(y, k) \in Int
  <2>1. \A k \in 1 .. 12 : CalendarPart!monthStart(y)[k] \in Nat
    BY <1>1, MonthStarts
  <2>2. \A k \in 1 .. 12 : CalendarPart!monthDays(y, k) \in Int
    BY <1>1, SameMonths
  <2> QED
    BY <2>1, <2>2
<1>3. ~past(m)
  BY <1>1 DEF CalendarPart!pastMonth, CalendarPart!leftIn
<1>4. \A k \in 1 .. m - 1 : past(k)
  <2>1. SUFFICES ASSUME NEW k \in 1 .. m - 1 PROVE past(k)
    OBVIOUS
  <2>2. k \in 1 .. 12 /\ k < m
    BY <1>1
  <2>3. CalendarPart!monthStart(y)[k] + CalendarPart!monthDays(y, k)
          <= CalendarPart!monthStart(y)[m]
    BY <1>1, <2>2, MonthsInOrder
  <2> QED
    BY <1>1, <1>2, <2>2, <2>3 DEF CalendarPart!pastMonth, CalendarPart!leftIn
<1> HIDE DEF past
<1>5. Stops(m)
  BY <1>1, <1>3, <1>4
<1>6. ASSUME NEW x, Stops(x) PROVE x = m
  <2>1. x \in 1 .. 12
    BY <1>6
  <2>2. CASE x < m
    BY <1>1, <1>4, <1>6, <2>1, <2>2
  <2>3. CASE x > m
    BY <1>1, <1>3, <1>6, <2>1, <2>3
  <2> QED
    BY <1>1, <2>1, <2>2, <2>3
<1>7. CalendarPart!monthOf(r, y) = CHOOSE x : Stops(x)
  BY DEF CalendarPart!monthOf, past
<1> HIDE DEF Stops
<1> QED
  BY <1>5, <1>6, <1>7 DEF r, y, m

LEMMA DatesShown == CalendarPart!CalendarInv => CalendarPart!ShownAsEntered
<1> SUFFICES ASSUME CalendarPart!CalendarInv, NEW endOfDay \in BOOLEAN
             PROVE  CalendarPart!formatDate(CalendarPart!parseDate(s2,
                                                                   endOfDay),
                                                                   endOfDay)
                      = IF s3 = 0
                      /\ ~endOfDay THEN CalendarPart!NoLimit(FALSE) ELSE s2
  BY DEF CalendarPart!ShownAsEntered
<1>1. /\ s2.y \in Nat
      /\ 1970 <= s2.y
             /\ s2.y <= 9999
                    /\ s2.m \in 1 .. 12
                    /\ s2.d \in 1 .. CalendarPart!LastDay(s2.y, s2.m)
      /\ CalendarPart!since1970(s2.y) \in Nat
      /\ CalendarPart!monthStart(s2.y)[s2.m] \in Nat
      /\ CalendarPart!LastDay(s2.y, s2.m) \in 28 .. 31
      /\ s3 = CalendarPart!since1970(s2.y)
              + CalendarPart!monthStart(s2.y)[s2.m] + s2.d - 1
      /\ s3 \in Nat
  BY PageSays
<1>2. s2 = [y |-> s2.y, m |-> s2.m, d |-> s2.d]
  BY DEF CalendarPart!CalendarInv
<1>3. /\ CalendarPart!parseDate(s2, FALSE)
             = IF s3 = 0 THEN CalendarPart!Unlimited ELSE s3
      /\ CalendarPart!parseDate(s2, TRUE)
             = IF s2 = CalendarPart!NoLimit(TRUE)
                 THEN CalendarPart!Unlimited ELSE s3
  BY DaysCounted DEF CalendarPart!CountsDays
<1>4. CalendarPart!formatDate(CalendarPart!Unlimited, endOfDay)
          = CalendarPart!NoLimit(endOfDay)
  BY DEF CalendarPart!formatDate
<1>5. CalendarPart!formatDate(s3, endOfDay) = s2
  <2>1. s3 # CalendarPart!Unlimited
    BY <1>1 DEF CalendarPart!Unlimited
  <2>2. ~(s3 >= CalendarPart!since1970(10000))
    <3>1. CalendarPart!since1970(s2.y + 1) <= CalendarPart!since1970(10000)
              /\ CalendarPart!since1970(s2.y + 1) \in Nat
      BY <1>1, YearsInOrder
    <3>2. CalendarPart!since1970(10000) \in Int
      BY YearAdds
    <3>3. s3 < CalendarPart!since1970(s2.y + 1)
      BY DaysOfYear
    <3> QED
      BY <1>1, <3>1, <3>2, <3>3
  <2>3. CalendarPart!yearOf(s3) = s2.y
        /\ CalendarPart!monthOf(s3 - CalendarPart!since1970(s2.y), s2.y) = s2.m
    BY YearFound, MonthFound
  <2>4. CalendarPart!leftIn(s3 - CalendarPart!since1970(s2.y), s2.y, s2.m) + 1
            = s2.d
    BY <1>1 DEF CalendarPart!leftIn
  <2>5. CalendarPart!formatDate(s3, endOfDay)
            = [y |-> s2.y, m |-> s2.m, d |-> s2.d]
    BY <2>1, <2>2, <2>3, <2>4 DEF CalendarPart!formatDate
  <2> QED
    BY <1>2, <2>5
<1>6. CASE endOfDay = TRUE
  BY <1>3, <1>4, <1>5, <1>6
<1>7. CASE endOfDay = FALSE
  BY <1>3, <1>4, <1>5, <1>7
<1> QED
  BY <1>6, <1>7

LEMMA CalendarPromises == CalendarPart!CalendarInv => CalendarPart!CountsDays
                          /\ CalendarPart!ShownAsEntered
                          /\ CalendarPart!OnlyRealDates
  BY DaysCounted, DatesShown, DatesAreReal
=============================================================================
