-------------------------- MODULE SshUserauthCalls --------------------------
(***************************************************************************)
(* The authentication methods of libssh2 (userauth.c), as steps of SshCall. *)
(***************************************************************************)
EXTENDS SshCall

(* userauth_list(): SSH_MSG_USERAUTH_BANNER may come before the answer.    *)
(* The list itself stays in userauth_list_data, for the program to read.   *)
userauth_list ==
  LET f == "userauth_list"
      replies == {"auth_success", "auth_failure", "banner"} IN
  \/ In(f, "idle")
     /\ \/ Move(f, {"data"}, {"data"}, "created")
        \/ Leave(f, "error", {"data"}, "idle")
     /\ UNCHANGED <<wild, net>>
  \/ In(f, "created") /\ Send(f, {"data"}, Request("auth"), {"data"}, "sent", {"data"}, "idle")
  \/ In(f, "sent") /\ Waits(f, replies, {}, "idle")
  \/ /\ In(f, "sent")
     /\ \E m \in Range(inbox) :
          /\ Takes(f, replies, m)
          /\ \/ m.msg = "auth_success" /\ Accepted(f, {"data"})
             \/ /\ m.msg = "banner"        \* kept in userauth_banner; or no memory
                /\ \/ Move(f, {"banner"}, {"banner"}, "sent")
                   \/ Leave(f, "error", {"banner"}, "sent")
                /\ UNCHANGED <<wild, authed>>
             \/ m.msg = "auth_failure" /\ m.short
                /\ Leave(f, "error", {}, "sent") /\ UNCHANGED <<wild, authed>>
             \/ /\ m.msg = "auth_failure" /\ ~m.short
                /\ Return(f, "denied", {"data"}, {}, "idle")
                /\ UNCHANGED <<wild, authed>>

(* Mutant: an expired password counts as accepted.                         *)
(* userauth_password(), up to the server's verdict ...                     *)
passwordSent ==
  LET f == "userauth_password"
      replies == {"auth_success", "auth_failure", "changereq"} IN
  \/ In(f, "idle") /\ Build(f, {"data"}, "created")
  \/ In(f, "created") /\ Send(f, {"data"}, Request("password"), {"data"}, "sent", {"data"}, "idle")
  \/ In(f, "sent") /\ Waits(f, replies, {}, "idle")
  \/ /\ In(f, "sent")
     /\ \E m \in Range(inbox) :
          /\ Takes(f, replies, m)
          /\ \/ m.msg = "auth_success" /\ Accepted(f, {})
             \/ m.msg = "auth_failure"
                /\ Leave(f, "denied", {}, "idle") /\ UNCHANGED <<wild, authed>>
             \/ m.msg = "changereq"
                /\ Move(f, {"data"}, {}, "sent1") /\ UNCHANGED <<wild, authed>>

(* ... and the change of an expired password.  Without a callback the      *)
(* authentication has failed.  A callback that gives no password, or no    *)
(* memory for the packet, leaves the state at sent1 with the answer freed. *)
passwordChange ==
  LET f == "userauth_password" IN
  \/ /\ In(f, "sent1") /\ Uses(f, {"data"})
     /\ \/ Leave(f, "denied", {"data"}, "idle")
        \/ Leave(f, "error", {"data"}, "sent1")
        \/ Move(f, {"data", "newpw"}, {"data"}, "sent2")
     /\ UNCHANGED net
  \/ In(f, "sent2")
     /\ Send(f, {"data", "newpw"}, Request("password"), {"data", "newpw"}, "sent",
             {"data", "newpw"}, "sent2")

userauth_password == passwordSent \/ passwordChange

(* userauth_hostbased_fromfile(): reading the keys and signing either end  *)
(* in a complete packet or leave nothing behind ...                        *)
hostbasedBuilt ==
  In("userauth_hostbased_fromfile", "idle")
  /\ Build("userauth_hostbased_fromfile", {"packet"}, "created")

(* ... then one packet, one answer.                                        *)
hostbasedSent ==
  LET f == "userauth_hostbased_fromfile"
      replies == {"auth_success", "auth_failure"} IN
  \/ In(f, "created") /\ Send(f, {"packet"}, Request("auth"), {"packet"}, "sent", {"packet"}, "idle")
  \/ In(f, "sent") /\ Waits(f, replies, {}, "idle")
  \/ /\ In(f, "sent")
     /\ \E m \in Range(inbox) :
          /\ Takes(f, replies, m)
          /\ \/ m.msg = "auth_success" /\ Accepted(f, {})
             \/ m.msg # "auth_success"
                /\ Leave(f, "denied", {}, "idle") /\ UNCHANGED <<wild, authed>>

-----------------------------------------------------------------------------
(* memory_read_publickey() and file_read_publickey(): the key is read, and *)
(* its method name is left in userauth_pblc_method.                        *)
memory_read_publickey(f) ==
  /\ Move(f, {}, {}, "reading") \/ Leave(f, "error", {}, "idle")
  /\ UNCHANGED <<wild, net>>
file_read_publickey(f) == memory_read_publickey(f)

(* The public key is read when the request starts, and only then.          *)
publickeyFrom(f, read) ==
  LET g == "_libssh2_userauth_publickey" IN
  \/ In(f, "idle") /\ at[g] = "idle" /\ read
  \/ In(f, "idle") /\ at[g] # "idle" /\ Call(f, g)
  \/ /\ In(f, "reading")
     /\ at' = [at EXCEPT ![f] = "idle"]
     /\ Hold(g, {"method"}, {})
     /\ stack' = Append(stack, g) /\ ret' = "none"
     /\ UNCHANGED <<again, locals, wild, net>>
  \/ \E r \in Results \cup {"again"} :
       Back(f, "idle", r) /\ Leave(f, r, {}, "idle") /\ UNCHANGED <<wild, net>>

userauth_publickey_frommemory ==
  LET f == "userauth_publickey_frommemory" IN publickeyFrom(f, memory_read_publickey(f))
userauth_publickey_fromfile ==
  LET f == "userauth_publickey_fromfile" IN publickeyFrom(f, file_read_publickey(f))

keyBlocks == {"method", "packet"}

(* _libssh2_userauth_publickey(), first round: may this key be used?  No   *)
(* algorithm in common ends the call with the method name still held.      *)
publickeyQuery ==
  LET f == "_libssh2_userauth_publickey" IN
  \/ /\ In(f, "idle")
     /\ \/ Move(f, {"packet"}, {}, "created") /\ Uses(f, {"method"})
        \/ Leave(f, "error", {}, "idle") /\ UNCHANGED wild
        \/ Leave(f, "error", {"method"}, "idle") /\ UNCHANGED wild
     /\ UNCHANGED net
  \/ In(f, "created") /\ Send(f, {"packet"}, Request("key"), {}, "sent", keyBlocks, "idle")

publickeyAnswer ==
  LET f == "_libssh2_userauth_publickey"
      replies == {"auth_success", "auth_failure", "pk_ok"} IN
  \/ In(f, "sent") /\ Waits(f, replies, keyBlocks, "idle")
  \/ /\ In(f, "sent")
     /\ \E m \in Range(inbox) :
          /\ Takes(f, replies, m)
          /\ \/ m.msg = "auth_success" /\ Accepted(f, keyBlocks)
             \/ m.msg = "auth_failure"
                /\ Leave(f, "denied", keyBlocks, "idle") /\ UNCHANGED <<wild, authed>>
             \/ m.msg = "pk_ok"
                /\ Move(f, {}, {}, "sent1") /\ UNCHANGED <<wild, authed>>

(* Second round: sign and send.  Without memory for the signed data the    *)
(* state stays at sent1.  A key that cannot be signed with the upgraded    *)
(* algorithm is tried again with its own, if this is the first attempt of  *)
(* this call; a call that was re-entered has lost the key and fails.       *)
publickeySign ==
  LET f == "_libssh2_userauth_publickey" IN
  /\ In(f, "sent1")
  /\ Uses(f, keyBlocks)
  /\ \/ Leave(f, "error", {}, "sent1")
     \/ Leave(f, "again", {}, "sent1")
     \/ Leave(f, "error", keyBlocks, "idle")
     \/ /\ locals = "fresh" /\ locals' = "retried"
        /\ at' = [at EXCEPT ![f] = "idle"]
        /\ Hold(f, {"method"}, keyBlocks)
        /\ UNCHANGED <<stack, ret, again>>
     \/ Move(f, {}, {"method"}, "sent2")
  /\ UNCHANGED net

publickeySigned ==
  LET f == "_libssh2_userauth_publickey"
      replies == {"auth_success", "auth_failure"} IN
  \/ In(f, "sent2") /\ Send(f, {"packet"}, Request("auth"), {"packet"}, "sent3", {"packet"}, "idle")
  \/ In(f, "sent3") /\ Waits(f, replies, {}, "idle")
  \/ /\ In(f, "sent3")
     /\ \E m \in Range(inbox) :
          /\ Takes(f, replies, m)
          /\ \/ m.msg = "auth_success" /\ Accepted(f, {})
             \/ m.msg # "auth_success"
                /\ Leave(f, "denied", {}, "idle") /\ UNCHANGED <<wild, authed>>

_libssh2_userauth_publickey ==
  publickeyQuery \/ publickeyAnswer \/ publickeySign \/ publickeySigned

-----------------------------------------------------------------------------
(* userauth_keyboard_interactive(): rounds of questions and answers.       *)
(* userauth_kybd_auth_failure is 1 in the first round ("sent", "sent1")    *)
(* and 0 once a response has been sent ("later", "later1"): a failure      *)
(* after that does not end the call, it goes back to wait.                 *)
infoBlocks == {"data", "name", "instruction", "prompts", "responses"}
keyboardRound(s, s1, fails) ==
  LET f == "userauth_keyboard_interactive"
      replies == {"auth_success", "auth_failure", "info_request"} IN
  \/ In(f, s) /\ Waits(f, replies, {}, "idle")
  \/ /\ In(f, s)
     /\ \E m \in Range(inbox) :
          /\ Takes(f, replies, m)
          /\ \/ m.msg = "auth_success" /\ Accepted(f, {})
             \/ m.msg = "auth_failure"
                /\ Leave(f, "denied", {}, "idle") /\ UNCHANGED <<wild, authed>>
             \/ m.msg = "info_request" /\ ~m.short
                /\ Move(f, infoBlocks, {}, s1) /\ UNCHANGED <<wild, authed>>
             \/ m.msg = "info_request"    \* not decoded, or no memory
                /\ (IF fails THEN Leave(f, "error", {}, "idle") ELSE Move(f, {}, {}, s))
                /\ UNCHANGED <<wild, authed>>
  \/ /\ In(f, s1) /\ Uses(f, {"data"})
     /\ \/ alive /\ Move(f, {}, infoBlocks, "later") /\ Sent(Request("keyboard"))
        \/ alive /\ Again(f) /\ UNCHANGED net
        \/ /\ Cut
           /\ IF fails THEN Leave(f, "error", infoBlocks, "idle")
                       ELSE Move(f, {}, infoBlocks, s)

userauth_keyboard_interactive ==
  LET f == "userauth_keyboard_interactive" IN
  \/ In(f, "idle") /\ Build(f, {"data"}, "created")
  \/ In(f, "created") /\ Send(f, {"data"}, Request("keyboard"), {"data"}, "sent", {"data"}, "idle")
  \/ keyboardRound("sent", "sent1", TRUE)
  \/ keyboardRound("later", "later1", FALSE)

UserauthCalls ==
  \/ userauth_list \/ userauth_password \/ hostbasedBuilt \/ hostbasedSent
  \/ userauth_publickey_frommemory \/ userauth_publickey_fromfile \/ _libssh2_userauth_publickey
  \/ userauth_keyboard_interactive

UserauthFunctions ==
  {"userauth_list", "userauth_password", "userauth_hostbased_fromfile",
   "userauth_publickey_frommemory", "userauth_publickey_fromfile", "_libssh2_userauth_publickey",
   "userauth_keyboard_interactive"}
=============================================================================
