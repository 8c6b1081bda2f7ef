---------------------------- MODULE TunnelSession ----------------------------
(***************************************************************************)
(* How the tunnel's SSH session is configured, set up and taken down       *)
(* (SSHConfiguration of ssh_config.cpp, SSHSession of ssh_session.cpp, and *)
(* VPNManager::applyConfig()).                                             *)
(*                                                                         *)
(* connect() opens the socket, shakes hands, checks the host key, logs in  *)
(* and asks for the reverse listeners, one after the other; each of them   *)
(* fails when the lock is busy, when libssh2 says so, or on what the       *)
(* server answers.  The configuration is kept between connections and is   *)
(* changed by setters, so that what an earlier one left behind is still    *)
(* there.                                                                  *)
(***************************************************************************)
EXTENDS Naturals, Sequences

CONSTANTS
  HostKey,        \* host keys, told apart by their SHA-256 fingerprint
  KeyType,        \* types of host keys
  NoText,         \* an empty string
  MaxMappings,    \* tunnel mappings of a configuration
  maxAttempts     \* of createListenerForMapping(); 50 in the code

VARIABLES
  pc,         \* the step of connect(); "idle" outside of it
  wanted,     \* the VPNConfig that was applied last
  ssh,        \* SSHServerConfig
  mappings,   \* tunnelMappings
  limit,      \* maxReverseListeners
  sock,       \* socketfd_ is open
  sess,       \* session_: "none", "made", "ready" after the handshake
  blocking,   \* libssh2's blocking mode
  listeners,  \* how many of the mappings have a listener
  tries,      \* attempts of the current loop
  peer        \* the server that answered: its host key, the key's type

vars == <<pc, wanted, ssh, mappings, limit, sock, sess, blocking, listeners,
          tries, peer>>

conn == <<sock, sess, blocking, listeners, tries, peer>>

VPNConfig ==
  {v \in [key : BOOLEAN, verify : BOOLEAN, fingerprint : HostKey \cup {NoText},
          type : KeyType \cup {NoText}, tunnel : 1 .. MaxMappings] :
     v.verify => v.fingerprint # NoText}

NoPeer == [key |-> NoText, type |-> NoText]
DefaultSsh == [useSSHKey |-> FALSE, password |-> FALSE, keyData |-> FALSE,
               verify |-> FALSE, fingerprint |-> NoText, type |-> NoText]

Init ==
  /\ pc = "idle"
  /\ wanted = NoPeer          \* nothing was applied yet
  /\ ssh = DefaultSsh
  /\ mappings = <<1>> /\ limit = 1
  /\ sock = FALSE /\ sess = "none" /\ blocking = TRUE
  /\ listeners = 0 /\ tries = 0 /\ peer = NoPeer

-----------------------------------------------------------------------------
(***************************************************************************)
(* The configuration.                                                      *)
(***************************************************************************)
setSSHServer(s) == [s EXCEPT !.password = TRUE, !.useSSHKey = FALSE]

setSSHKeyAuthFromMemory(s) ==
  [s EXCEPT !.keyData = TRUE, !.useSSHKey = TRUE]

setFingerprintOnly(s, on, fingerprint, type) ==
  IF ~on THEN [s EXCEPT !.verify = FALSE]
  ELSE [s EXCEPT !.verify = TRUE, !.type = type]
setHostKeyVerification(s, on, fingerprint, type) ==
  IF ~on THEN [s EXCEPT !.verify = FALSE]
  ELSE [s EXCEPT !.verify = TRUE, !.fingerprint = fingerprint, !.type = type]

setTunnelConfig(m) == <<m>>
setMaxReverseListeners(n) == IF n <= 0 THEN limit ELSE n

validateSSHConfig(s) == IF s.useSSHKey THEN s.keyData ELSE s.password
validateTunnelConfig(ms) == ms # <<>>
validateConnectionConfig == limit > 0
validateConfiguration ==
  /\ validateSSHConfig(ssh) /\ validateTunnelConfig(mappings)
  /\ validateConnectionConfig

applyConfig(v) ==
  /\ pc = "idle"
  /\ wanted' = v
  /\ LET s == IF v.key THEN setSSHKeyAuthFromMemory(ssh) ELSE setSSHServer(ssh)
     IN ssh' = setHostKeyVerification(s, v.verify, v.fingerprint, v.type)
  /\ mappings' = setTunnelConfig(v.tunnel)
  /\ limit' = setMaxReverseListeners(1)
  /\ UNCHANGED <<pc, conn>>

addTunnelMapping(m) ==
  /\ pc = "idle" /\ Len(mappings) < MaxMappings
  /\ mappings' = Append(mappings, m)
  /\ UNCHANGED <<pc, wanted, ssh, limit, conn>>

-----------------------------------------------------------------------------
(***************************************************************************)
(* cancelAllListeners() forgets the listeners even when the lock is busy;  *)
(* cleanupSession() frees the session with the lock or without it.         *)
(***************************************************************************)
cancelAllListeners == listeners' = 0

cleanupSession ==
  /\ cancelAllListeners
  /\ sess' = "none" /\ sock' = FALSE /\ blocking' = TRUE
  /\ tries' = 0 /\ peer' = NoPeer

config == <<wanted, ssh, mappings, limit>>

GoOn(from, to) == pc = from /\ pc' = to /\ UNCHANGED config

Fail(from) == GoOn(from, "idle") /\ cleanupSession

tcpConnect ==
  /\ GoOn("idle", "handshake") /\ validateConfiguration
  /\ sock' = TRUE
  /\ peer' \in [key : HostKey, type : KeyType]
  /\ UNCHANGED <<sess, blocking, listeners, tries>>

\* The socket is closed when the name or the server cannot be reached.
tcpFails == GoOn("idle", "idle") /\ validateConfiguration /\ UNCHANGED conn

handshake ==
  \/ /\ GoOn("handshake", "keepalive")
     /\ sess' = "ready"
     /\ UNCHANGED <<sock, blocking, listeners, tries, peer>>
  \/ Fail("handshake")

\* Not fatal, whatever happens.
configureKeepalive == GoOn("keepalive", "hostkey") /\ UNCHANGED conn

(***************************************************************************)
(* verifyHostKey(): the fingerprint is compared in the form, hexadecimal   *)
(* or base64, in which it was given, after blanks, colons, the prefix and  *)
(* the padding were removed and the case of hexadecimal digits was put     *)
(* right; both forms denote the same key.                                  *)
(***************************************************************************)
typeAccepted == ssh.type = NoText \/ ssh.type = peer.type
fingerprintsMatch == ssh.fingerprint = NoText \/ ssh.fingerprint = peer.key
hostKeyAccepted == ~ssh.verify \/ (typeAccepted /\ fingerprintsMatch)

verifyHostKey ==
  \/ hostKeyAccepted /\ GoOn("hostkey", "list") /\ UNCHANGED conn
  \/ Fail("hostkey")

(***************************************************************************)
(* authenticate(): the list of methods, and then the password, or the keys *)
(* from memory with three passphrases in turn.                             *)
(***************************************************************************)
userauthList ==
  \/ /\ GoOn("list", IF ssh.useSSHKey THEN "publickey" ELSE "password")
     /\ tries' = 0
     /\ UNCHANGED <<sock, sess, blocking, listeners, peer>>
  \/ Fail("list")

authPassword ==
  \/ GoOn("password", "listen") /\ UNCHANGED conn
  \/ Fail("password")

authPublicKey ==
  \/ GoOn("publickey", "listen") /\ tries' = 0
     /\ UNCHANGED <<sock, sess, blocking, listeners, peer>>
  \/ /\ GoOn("publickey", "publickey") /\ tries < 2
     /\ tries' = tries + 1
     /\ UNCHANGED <<sock, sess, blocking, listeners, peer>>
  \/ Fail("publickey")         \* the third variant, or the lock is busy

(***************************************************************************)
(* createListeners(): as many mappings as the limit allows, all or none.   *)
(***************************************************************************)
Desired == IF Len(mappings) < limit THEN Len(mappings) ELSE limit

createListenerForMapping ==
  /\ GoOn("listen", "listen") /\ listeners < Desired
  /\ tries < maxAttempts
  /\ \/ /\ listeners' = listeners + 1
        /\ tries' = 0
     \/ tries' = tries + 1 /\ UNCHANGED listeners
  /\ UNCHANGED <<sock, sess, blocking, peer>>

listenFails == tries = maxAttempts /\ Fail("listen")

connected ==
  /\ GoOn("listen", "connected") /\ listeners = Desired
  /\ blocking' = FALSE
  /\ UNCHANGED <<sock, sess, listeners, tries, peer>>

disconnect == Fail("connected")

-----------------------------------------------------------------------------
Next ==
  \/ \E v \in VPNConfig : applyConfig(v)
  \/ \E m \in 1 .. MaxMappings : addTunnelMapping(m)
  \/ tcpConnect \/ tcpFails \/ handshake \/ configureKeepalive
  \/ verifyHostKey \/ userauthList \/ authPassword \/ authPublicKey
  \/ createListenerForMapping \/ listenFails \/ connected \/ disconnect

Spec == Init /\ [][Next]_vars

-----------------------------------------------------------------------------
TypeOK ==
  /\ pc \in {"idle", "handshake", "keepalive", "hostkey", "list", "password",
             "publickey", "listen", "connected"}
  /\ wanted \in VPNConfig \cup {NoPeer}
  /\ mappings \in Seq(1 .. MaxMappings)
  /\ sess \in {"none", "ready"} /\ sock \in BOOLEAN /\ blocking \in BOOLEAN
  /\ listeners \in 0 .. Len(mappings)
  /\ tries \in 0 .. IF maxAttempts > 2 THEN maxAttempts ELSE 2

Trusted == /\ wanted.verify => wanted.fingerprint = peer.key
           /\ wanted.verify /\ wanted.type # NoText => wanted.type = peer.type

(***************************************************************************)
(* The password and the key are offered to the server that the applied     *)
(* configuration names, in the way it names, and to no other, whatever     *)
(* configurations were applied before (verifyHostKey() before              *)
(* authenticate(), and the setters of ssh_config.cpp).                     *)
(***************************************************************************)
SecretToTrustedHost ==
  pc \in {"list", "password", "publickey"} /\ wanted # NoPeer =>
    /\ Trusted
    /\ pc = "password" => ~wanted.key
    /\ pc = "publickey" => wanted.key

(***************************************************************************)
(* After every failure, at whatever step, and after disconnect(), nothing  *)
(* is left: no socket, no session, no listener (the error paths of         *)
(* connect()).                                                             *)
(***************************************************************************)
NothingLeft ==
  pc = "idle" => ~sock /\ sess = "none" /\ listeners = 0 /\ blocking

(***************************************************************************)
(* A session that connect() reports is ready and does not block, and it    *)
(* listens for what the applied configuration asks.                        *)
(***************************************************************************)
ConnectedServes ==
  pc = "connected" =>
    /\ sock /\ sess = "ready" /\ ~blocking
    /\ listeners > 0 /\ listeners <= limit
    /\ wanted # NoPeer => Trusted /\ mappings[1] = wanted.tunnel

(***************************************************************************)
(* What makes these hold, step by step.  The configuration in use is the   *)
(* one applied last; on the way to `connected' the socket is open, the     *)
(* session made and the host key accepted, and no more listeners exist     *)
(* than asked for.                                                         *)
(***************************************************************************)
SSHServerConfig ==
  [useSSHKey : BOOLEAN, password : BOOLEAN, keyData : BOOLEAN,
   verify : BOOLEAN, fingerprint : HostKey \cup {NoText},
   type : KeyType \cup {NoText}]

Mapping == {1} \cup 1 .. MaxMappings

AppliedInv ==
  /\ ssh \in SSHServerConfig
  /\ mappings \in Seq(Mapping) /\ mappings # <<>>
  /\ limit = 1
  /\ \/ wanted = NoPeer
     \/ /\ wanted \in VPNConfig
        /\ ssh.useSSHKey = wanted.key /\ ssh.verify = wanted.verify
        /\ wanted.verify => ssh.fingerprint = wanted.fingerprint
                            /\ ssh.type = wanted.type
        /\ mappings[1] = wanted.tunnel

ProgressInv ==
  /\ pc # "idle" => sock
  /\ pc \notin {"idle", "handshake"} => sess = "ready"
  /\ pc \in {"list", "password", "publickey", "listen", "connected"}
       => hostKeyAccepted
  /\ pc = "password" => ~ssh.useSSHKey
  /\ pc = "publickey" => ssh.useSSHKey
  /\ listeners \in 0 .. Desired
  /\ pc \notin {"listen", "connected"} => listeners = 0
  /\ pc = "connected" => listeners = Desired /\ ~blocking

SessionInv == AppliedInv /\ ProgressInv /\ NothingLeft

=============================================================================
