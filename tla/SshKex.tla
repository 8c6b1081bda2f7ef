------------------------------- MODULE SshKex -------------------------------
(***************************************************************************)
(* The key exchange of libssh2 (kex.c): agreeing on methods, the           *)
(* Diffie-Hellman, group exchange, ECDH and curve25519 exchanges, and the  *)
(* switch to the new keys, for the first exchange and for the ones the     *)
(* server asks for later.  Every send and every wait may return EAGAIN;    *)
(* the next call goes on from the states kept in key_exchange_state_t.     *)
(*                                                                         *)
(* A KEXINIT, a public value and a set of keys are named by the number of  *)
(* the exchange they belong to, so that one of another exchange is seen.   *)
(***************************************************************************)
EXTENDS Naturals, Sequences, SequencesExt

CONSTANTS
  ClientKex, ClientHostkey, ClientCrypt, ClientMac,   \* the client's lists, best first
  ServerKex, ServerHostkey, ServerCrypt, ServerMac,   \* sets of lists a server may have
  Integrated,       \* ciphers that have their own MAC
  MaxExchanges      \* bound: key exchanges of the session

VARIABLES
  server,           \* the server's lists, and whether it sends a guessed packet
  pc, ret,          \* "out" or "in" the library; what the last exchange returned
  n,                \* number of the exchange
  kstate, low, ex,  \* key_state->state, key_state_low.state, exchange_state.state
  kex, methods,     \* session->kex, hostkey and the methods of both directions
  burn,             \* burn_optimistic_kexinit
  localKexinit, remoteKexinit, kexinitData,
  pub,              \* the client's public value: e, public_key_oct
  session_id, keys, newkeys,
  held, lost,       \* what is allocated for the exchange; ghost: what was overwritten
  sent, inbox,      \* packets to the server, and from it
  srv,              \* the server: how many packets of each type it has sent
  signed, burned    \* ghost: what the server has signed; packets burned

lists    == <<kex, methods, burn>>
kexinits == <<localKexinit, remoteKexinit, kexinitData>>
crypto   == <<session_id, keys, newkeys>>
memory   == <<held, lost>>
ghosts   == <<signed, burned>>
vars == <<server, pc, ret, n, kstate, low, ex, lists, kexinits, pub, crypto, memory, sent, inbox, srv, ghosts>>

(* The parts that get keys, in the order of the code: ciphers, MACs and    *)
(* compression of both directions.                                         *)
Parts == <<"local.crypt", "remote.crypt", "local.mac", "remote.mac", "local.comp", "remote.comp">>
NoHash == [ck |-> 0, sk |-> 0, pub |-> 0]
NoKey == [ex |-> 0, id |-> 0, method |-> "none"]

Init ==
  /\ server \in [kex : ServerKex, hostkey : ServerHostkey, cs : ServerCrypt, sc : ServerCrypt,
                 mac : ServerMac, guess : BOOLEAN]
  /\ server.guess => server.kex[1] \notin Range(ClientKex)
  /\ srv = [t \in {"kexinit", "group", "reply", "newkeys"} |-> 0]
  /\ pc = "out" /\ ret = "none" /\ n = 0
  /\ kstate = "idle" /\ low = "idle" /\ ex = "idle"
  /\ kex = "none" /\ burn = FALSE
  /\ methods = [m \in Range(Parts) \cup {"hostkey"} |-> "none"]
  /\ localKexinit = 0 /\ remoteKexinit = 0 /\ kexinitData = 0 /\ pub = 0
  /\ session_id = 0 /\ newkeys = FALSE /\ keys = [p \in Range(Parts) |-> NoKey]
  /\ held = {} /\ lost = {} /\ sent = <<>> /\ inbox = <<>> /\ signed = {} /\ burned = {}

-----------------------------------------------------------------------------
(* Agreement.                                                              *)

(* The first of the client's methods that the server has too.              *)
agreed(client, theirs) ==
  LET both == SelectSeq(client, LAMBDA m : m \in Range(theirs))
  IN  IF both = <<>> THEN "none" ELSE both[1]

kex_agree_hostkey == agreed(ClientHostkey, server.hostkey)
kex_agree_kex     == IF kex_agree_hostkey = "none" THEN "none" ELSE agreed(ClientKex, server.kex)
kex_agree_mac(crypt) == IF crypt \in Integrated THEN "integrated" ELSE agreed(ClientMac, server.mac)

(* In the order of kex_agree_methods().                                    *)
choices == <<kex_agree_hostkey, agreed(ClientCrypt, server.cs), agreed(ClientCrypt, server.sc),
             kex_agree_mac(agreed(ClientCrypt, server.cs)), kex_agree_mac(agreed(ClientCrypt, server.sc)),
             "none-comp", "none-comp">>

(* Mutant: a server that did not guess is taken to have guessed wrong.     *)
(* The packet that follows the server's KEXINIT is for another method.     *)
guessedWrong == server.guess /\ kex_agree_kex # server.kex[1]

(* What is agreed is set at once; the first thing that is not ends it.     *)
kex_agree_methods ==
  LET names == <<"hostkey">> \o Parts
      fail  == {i \in 1..7 : choices[i] = "none"}
      upto  == IF kex_agree_kex = "none" THEN 0
               ELSE IF fail = {} THEN 7 ELSE (CHOOSE i \in fail : \A j \in fail : i <= j) - 1
  IN  /\ methods' = [m \in DOMAIN methods |->
                       IF \E i \in 1..upto : names[i] = m
                       THEN choices[CHOOSE i \in 1..upto : names[i] = m] ELSE methods[m]]
      /\ kex' = kex_agree_kex
      /\ burn' = guessedWrong
Agreeable == kex_agree_kex # "none" /\ \A i \in 1..7 : choices[i] # "none"

-----------------------------------------------------------------------------
(* Memory, and leaving the library.                                        *)
Alloc(S) == held' = held \cup S /\ lost' = lost \cup (held \cap S)

Dh == kex \in {"dh", "gex"}
LowData == {"p", "g", "data", "private_key", "public_key"}
ExData  == {"x", "e", "f", "k", "e_packet", "s_packet", "k_value"}

again == pc' = "out" /\ UNCHANGED <<kstate, low, ex, ret, memory>>

(* Mutant: the state of the inner function is left as it is.               *)
(* kex_diffie_hellman_cleanup() frees the group only if it was completed.  *)
cleaned == (held \ ExData) \ (IF Dh /\ low = "idle" THEN {} ELSE LowData)

(* The end of _libssh2_kex_exchange(), with result r.                      *)
finish(r, left) ==
  /\ pc' = "out" /\ ret' = r /\ kstate' = "idle" /\ low' = "idle" /\ ex' = "idle"
  /\ held' = left \ {"local.kexinit", "remote.kexinit"} /\ UNCHANGED lost
  /\ localKexinit' = 0 /\ remoteKexinit' = 0 /\ UNCHANGED kexinitData

(* Anything that cannot be made, sent or understood ends the exchange; so  *)
(* does a wrong signature.                                                 *)
exchangeFails ==
  /\ pc = "in" /\ kstate = "sent2"
  /\ finish("error", cleaned)
  /\ UNCHANGED <<server, n, lists, pub, crypto, sent, inbox, ghosts>>

-----------------------------------------------------------------------------
(* _libssh2_kex_exchange(): from the handshake, or from packet_add() when  *)
(* the server's KEXINIT comes; or again after EAGAIN.                      *)
Has(t) == \E i \in DOMAIN inbox : inbox[i].type = t
First(t) == CHOOSE i \in DOMAIN inbox : inbox[i].type = t /\ \A j \in 1..(i - 1) : inbox[j].type # t

beginKex ==
  /\ pc = "out" /\ kstate = "idle" /\ ret # "error" /\ n < MaxExchanges
  /\ n > 0 => Has("kexinit")
  /\ n' = n + 1 /\ pc' = "in" /\ kstate' = "created" /\ ret' = "none"
  /\ IF n > 0 THEN kex' = "none" /\ methods' = [methods EXCEPT !["hostkey"] = "none"]
              ELSE UNCHANGED <<kex, methods>>
  /\ UNCHANGED <<server, low, ex, burn, kexinits, pub, crypto, memory, sent, inbox, ghosts>>

reenter ==
  /\ pc = "out" /\ kstate # "idle" /\ pc' = "in"
  /\ kstate' = (IF kex # "none" /\ methods["hostkey"] # "none" THEN "sent2" ELSE kstate)
  /\ UNCHANGED <<server, ret, n, low, ex, lists, kexinits, pub, crypto, memory, sent, inbox, ghosts>>

startKexinit ==
  /\ pc = "in" /\ kstate = "created"
  /\ kstate' = "sent" /\ localKexinit' = 0
  /\ UNCHANGED <<server, pc, ret, n, low, ex, lists, remoteKexinit, kexinitData, pub, crypto, memory, sent,
                 inbox, ghosts>>

(* kexinit(): made once, then sent until it is gone.                       *)
makeKexinit ==
  /\ pc = "in" /\ kstate = "sent" /\ kexinitData = 0
  /\ kexinitData' = n /\ Alloc({"kexinit_data"})
  /\ UNCHANGED <<server, pc, ret, n, kstate, low, ex, lists, localKexinit, remoteKexinit, pub, crypto, sent,
                 inbox, ghosts>>
sendKexinit ==
  /\ pc = "in" /\ kstate = "sent" /\ kexinitData # 0
  /\ \/ again /\ UNCHANGED <<kexinits, sent>>
     \/ /\ sent' = Append(sent, [type |-> "kexinit", no |-> kexinitData])
        /\ localKexinit' = kexinitData /\ kexinitData' = 0 /\ UNCHANGED remoteKexinit
        /\ held' = (held \ {"kexinit_data"}) \cup {"local.kexinit"} /\ UNCHANGED lost
        /\ kstate' = "sent1" /\ UNCHANGED <<pc, low, ex, ret>>
  /\ UNCHANGED <<server, n, lists, pub, crypto, inbox, ghosts>>
kexinitFails ==
  /\ pc = "in" /\ kstate = "sent"
  /\ kexinitData' = 0 /\ localKexinit' = 0 /\ UNCHANGED remoteKexinit
  /\ pc' = "out" /\ ret' = "error" /\ kstate' = "idle" /\ held' = held \ {"kexinit_data"}
  /\ UNCHANGED <<server, n, low, ex, lists, pub, crypto, lost, sent, inbox, ghosts>>

takeKexinit ==
  /\ pc = "in" /\ kstate = "sent1"
  /\ \/ again /\ ~Has("kexinit") /\ UNCHANGED <<lists, kexinits, inbox>>
     \/ finish("error", held) /\ UNCHANGED <<lists, inbox>>
     \/ /\ Has("kexinit")
        /\ inbox' = RemoveAt(inbox, First("kexinit"))
        /\ kex_agree_methods
        /\ IF Agreeable
           THEN /\ remoteKexinit' = inbox[First("kexinit")].no /\ UNCHANGED <<localKexinit, kexinitData>>
                /\ kstate' = "sent2" /\ Alloc({"remote.kexinit"}) /\ UNCHANGED <<pc, ret, low, ex>>
           ELSE finish("error", held)
  /\ UNCHANGED <<server, n, pub, crypto, sent, ghosts>>

-----------------------------------------------------------------------------
(* The methods' exchange_keys() functions.                                 *)
In(k, l, e) == pc = "in" /\ kstate = "sent2" /\ kex \in k /\ low = l /\ ex = e

(* A packet is sent, or the call has to be repeated.                       *)
Sends(m, l, e) ==
  /\ \/ again /\ UNCHANGED sent
     \/ sent' = Append(sent, m) /\ low' = l /\ ex' = e /\ UNCHANGED <<pc, ret, kstate, memory>>
  /\ UNCHANGED <<server, n, lists, kexinits, pub, crypto, inbox, ghosts>>
(* A packet of that type is taken from the queue, or there is none.        *)
Waits(t, l, e, what) ==
  /\ \/ again /\ ~Has(t) /\ UNCHANGED inbox
     \/ /\ Has(t) /\ inbox' = RemoveAt(inbox, First(t)) /\ low' = l /\ ex' = e /\ Alloc({what})
        /\ UNCHANGED <<pc, ret, kstate>>
  /\ UNCHANGED <<server, n, lists, kexinits, pub, crypto, sent, ghosts>>
Makes(l, e, S) ==
  /\ low' = l /\ ex' = e /\ Alloc(S)
  /\ UNCHANGED <<server, pc, ret, n, kstate, lists, kexinits, crypto, sent, inbox, ghosts>>

(* The fixed groups; the group exchange asks the server for one.           *)
dhGroup    == In({"dh"}, "idle", "idle") /\ Makes("created", ex, {"p", "g"}) /\ UNCHANGED pub
dhGroupFails ==
  /\ In({"dh"}, "idle", "idle") /\ finish("error", held \cup {"p", "g"})
  /\ UNCHANGED <<server, n, lists, pub, crypto, sent, inbox, ghosts>>
gexStart   == In({"gex"}, "idle", "idle") /\ Makes("created", ex, {"p", "g"}) /\ UNCHANGED pub
gexRequest == In({"gex"}, "created", "idle") /\ Sends([type |-> "request", no |-> n], "sent", ex)
gexGroup   == In({"gex"}, "sent", "idle") /\ Waits("group", "sent1", ex, "data")

(* diffie_hellman_sha_algo().                                              *)
DhReady == IF kex = "gex" THEN "sent1" ELSE "created"
dhPair == /\ In({"dh", "gex"}, DhReady, "idle")
          /\ Makes(low, "created", {"x", "e", "f", "k", "e_packet"}) /\ pub' = n
dhInit == In({"dh", "gex"}, DhReady, "created") /\ Sends([type |-> "init", no |-> pub], low, "sent")

(* The packet of a wrong guess is thrown away: the first of the exchange   *)
(* that comes.                                                             *)
Exchange == {"guess", "group", "reply"}
FirstOfKex == CHOOSE i \in DOMAIN inbox :
                inbox[i].type \in Exchange /\ \A j \in 1..(i - 1) : inbox[j].type \notin Exchange
dhBurn ==
  /\ In({"dh", "gex"}, DhReady, "sent")
  /\ \/ ~burn /\ ex' = "sent1" /\ UNCHANGED <<pc, ret, kstate, low, memory, burn, inbox, burned>>
     \/ /\ burn /\ \E t \in Exchange : Has(t)
        /\ burned' = burned \cup {inbox[FirstOfKex].type} /\ inbox' = RemoveAt(inbox, FirstOfKex)
        /\ burn' = FALSE /\ ex' = "sent1" /\ UNCHANGED <<pc, ret, kstate, low, memory>>
     \/ burn /\ again /\ UNCHANGED <<burn, inbox, burned>>
  /\ UNCHANGED <<server, n, kex, methods, kexinits, pub, crypto, sent, signed>>

(* Elliptic curves: the pair is made before, and the reply waited for      *)
(* before the inner function starts.                                       *)
Ec == {"ecdh", "curve"}
ecStart == In(Ec, "idle", "idle") /\ Makes("created", ex, {}) /\ UNCHANGED pub
ecPair  == In(Ec, "created", "idle") /\ Makes("sent", ex, {"private_key", "public_key"}) /\ pub' = n
ecInit  == In(Ec, "sent", "idle") /\ Sends([type |-> "init", no |-> pub], "sent1", ex)

(* The hash both sides sign and check covers both KEXINITs and the         *)
(* client's public value.                                                  *)
hash == [ck |-> localKexinit, sk |-> remoteKexinit, pub |-> pub]

(* The reply: host key, the server's value, the secret, the hash, and the  *)
(* check of the signature.  An ECDH reply replaces the host key of an      *)
(* earlier exchange without freeing it.                                    *)
(* Mutant: the signature is checked, but not against this exchange.        *)
verifiedAny(r) == r.sig # NoHash
verified(r) == r.sig = hash
replyTaken(r, e, S) ==
  /\ inbox' = RemoveAt(inbox, First("reply"))
  /\ verified(r)
  /\ ex' = e /\ Alloc(S \cup (IF Dh THEN {} ELSE {"hostkey"}))
  /\ UNCHANGED <<pc, ret, kstate, low>>
replyRefused(r) ==
  /\ inbox' = RemoveAt(inbox, First("reply"))
  /\ ~verified(r) /\ finish("error", cleaned)
waitReply ==
  /\ \/ In({"dh", "gex"}, DhReady, "sent1") \/ In(Ec, "sent1", "idle")
  /\ \/ /\ Has("reply")
        /\ \/ /\ replyTaken(inbox[First("reply")], IF Dh THEN "sent2" ELSE "sent",
                            IF Dh THEN {"s_packet", "k_value"} ELSE {"data", "k", "k_value"})
              /\ UNCHANGED kexinits
           \/ replyRefused(inbox[First("reply")])
     \/ ~Has("reply") /\ again /\ UNCHANGED <<inbox, kexinits>>
  /\ UNCHANGED <<server, n, lists, pub, crypto, sent, ghosts>>

Checked == IF Dh THEN "sent2" ELSE "sent"
Told    == IF Dh THEN "sent3" ELSE "sent2"
sendNewkeys ==
  /\ pc = "in" /\ kstate = "sent2" /\ low # "idle" /\ kex # "none"
  /\ ex = Checked
  /\ Sends([type |-> "newkeys", no |-> n], low, Told)

(* NEWKEYS has come: the session id, then keys part by part; each part is  *)
(* cleared before it is made.  k parts are done when something fails.      *)
(* Mutant: every exchange makes a session id.                              *)
id == IF session_id = 0 THEN n ELSE session_id
keyed(k) ==
  [p \in DOMAIN keys |->
     IF \E i \in 1..k : Parts[i] = p THEN [ex |-> n, id |-> id, method |-> methods[p]]
     ELSE IF k < 6 /\ Parts[k + 1] = p THEN NoKey ELSE keys[p]]
switchKeys ==
  /\ pc = "in" /\ kstate = "sent2" /\ ex = Told
  /\ \/ /\ Has("newkeys")
        /\ inbox' = RemoveAt(inbox, First("newkeys"))
        /\ newkeys' = TRUE /\ session_id' = id
        /\ \E k \in {0, 3, 6} : keys' = keyed(k) /\ finish(IF k = 6 THEN "ok" ELSE "error", cleaned)
     \/ again /\ ~Has("newkeys") /\ UNCHANGED <<inbox, crypto, kexinits>>
  /\ UNCHANGED <<server, n, lists, pub, sent, ghosts>>

-----------------------------------------------------------------------------
(* The server (external).  It starts every exchange, the first one when it *)
(* likes and a later one when the last is complete; if it guesses, a       *)
(* packet of its favourite method follows at once.                         *)
Sent(t, k) == [type |-> t, no |-> k] \in Range(sent)
serverSays(t, sig) ==
  /\ srv' = [srv EXCEPT ![t] = @ + 1]
  /\ inbox' = inbox \o <<[type |-> t, no |-> srv[t] + 1, sig |-> sig]>>
              \o IF t = "kexinit" /\ server.guess THEN <<[type |-> "guess", no |-> srv[t] + 1, sig |-> NoHash]>>
                 ELSE <<>>
  /\ UNCHANGED <<server, pc, ret, n, kstate, low, ex, lists, kexinits, pub, crypto, memory, sent, burned>>

serverKexinit ==
  /\ srv.kexinit = srv.newkeys /\ srv.kexinit < MaxExchanges
  /\ serverSays("kexinit", NoHash) /\ UNCHANGED signed

serverGroup ==
  /\ srv.group < srv.kexinit /\ Sent("request", srv.kexinit)
  /\ serverSays("group", NoHash) /\ UNCHANGED signed

(* It signs the KEXINITs and the public value that it has got; something   *)
(* that is not the server can only send a signature it has seen, or a      *)
(* wrong one.                                                              *)
LastOf(t) == sent[CHOOSE i \in DOMAIN sent : sent[i].type = t /\ \A j \in (i + 1)..Len(sent) : sent[j].type # t].no
serverReply ==
  /\ srv.reply < srv.kexinit
  /\ Len(SelectSeq(sent, LAMBDA m : m.type = "init")) > srv.reply
  /\ LET h == [ck |-> LastOf("kexinit"), sk |-> srv.kexinit, pub |-> LastOf("init")]
     IN  \/ signed' = signed \cup {h} /\ serverSays("reply", h)
         \/ UNCHANGED signed /\ \E sig \in {NoHash} \cup signed : serverSays("reply", sig)

serverNewkeys ==
  /\ srv.newkeys < srv.reply /\ Sent("newkeys", srv.reply)
  /\ serverSays("newkeys", NoHash) /\ UNCHANGED signed

-----------------------------------------------------------------------------
Client == \/ beginKex \/ reenter \/ startKexinit \/ makeKexinit \/ sendKexinit \/ kexinitFails \/ takeKexinit
          \/ dhGroup \/ dhGroupFails \/ gexStart \/ gexRequest \/ gexGroup \/ dhPair \/ dhInit \/ dhBurn
          \/ ecStart \/ ecPair \/ ecInit \/ waitReply \/ sendNewkeys \/ switchKeys \/ exchangeFails
Server == serverKexinit \/ serverGroup \/ serverReply \/ serverNewkeys
Next == \/ Client /\ UNCHANGED srv
        \/ Server
Spec == Init /\ [][Next]_vars

-----------------------------------------------------------------------------
(* The states, the numbers of exchanges and the memory are what they are   *)
(* declared to be.                                                         *)
TypeOK ==
  /\ pc \in {"out", "in"} /\ ret \in {"none", "ok", "error"} /\ n \in 0..MaxExchanges
  /\ kstate \in {"idle", "created", "sent", "sent1", "sent2"}
  /\ low \in {"idle", "created", "sent", "sent1"}
  /\ ex \in {"idle", "created", "sent", "sent1", "sent2", "sent3"}
  /\ {localKexinit, remoteKexinit, kexinitData, pub, session_id} \subseteq 0..MaxExchanges
  /\ burn \in BOOLEAN /\ newkeys \in BOOLEAN
  /\ held \cup lost \subseteq LowData \cup ExData \cup {"kexinit_data", "local.kexinit", "remote.kexinit", "hostkey"}

(* The client says that it will use the new keys only after the server has *)
(* signed a hash of the two KEXINITs and the public value of this very     *)
(* exchange; a signature of an earlier exchange is not enough.             *)
NewkeysSigned ==
  \A i \in DOMAIN sent : sent[i].type = "newkeys" =>
    [ck |-> sent[i].no, sk |-> sent[i].no, pub |-> sent[i].no] \in signed

(* When an exchange has succeeded, every part of the session works with    *)
(* keys of that exchange, made from the id of the first one, and with the  *)
(* method that the lists of that direction give; nothing is left over from *)
(* the keys before.                                                        *)
Wanted(p) ==
  CASE p = "local.crypt"  -> agreed(ClientCrypt, server.cs)
    [] p = "remote.crypt" -> agreed(ClientCrypt, server.sc)
    [] p = "local.mac"    -> kex_agree_mac(agreed(ClientCrypt, server.cs))
    [] p = "remote.mac"   -> kex_agree_mac(agreed(ClientCrypt, server.sc))
    [] OTHER              -> "none-comp"
KeysMatch ==
  ret = "ok" => \A p \in Range(Parts) : keys[p] = [ex |-> n, id |-> 1, method |-> Wanted(p)]

(* However an exchange ends, what was allocated for it is freed: between   *)
(* exchanges only the host key is kept.  Two leaks of the code remain: the *)
(* numbers of a fixed group when the group cannot be made, and the old     *)
(* host key when an elliptic curve exchange is repeated.                   *)
NothingLeft ==
  /\ kstate = "idle" => held \subseteq {"hostkey"} \cup (IF ret = "error" /\ kex = "dh" THEN {"p", "g"} ELSE {})
  /\ lost \subseteq {"hostkey"}

(* Only a guessed packet is ever thrown away: never the reply or the group *)
(* that the exchange is waiting for.                                       *)
OnlyGuessBurned == burned \subseteq {"guess"}
=============================================================================
