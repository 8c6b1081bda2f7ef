--------------------------- MODULE SshSessionCalls ---------------------------
(***************************************************************************)
(* The life of a libssh2 session (session.c, keepalive.c), as steps of     *)
(* SshCall.                                                                *)
(***************************************************************************)
EXTENDS SshCall

CONSTANT KeepaliveReply   \* the want_reply given to libssh2_keepalive_config()

(* banner_send(): the rest of the line goes out with the next call.        *)
banner_send(f) ==
  \/ alive /\ Move(f, {}, {}, "sent") /\ UNCHANGED <<wild, net>>
  \/ alive /\ Again(f) /\ UNCHANGED <<wild, net>>
  \/ Leave(f, "error", {}, "created") /\ Cut /\ UNCHANGED wild

(* banner_receive(), called until a line starts with "SSH-": each line     *)
(* replaces the one before.                                                *)
banner_receive(f) ==
  \/ alive /\ \E s \in {"sent", "sent1"} : Move(f, {"banner"}, {"banner"}, s)
     /\ UNCHANGED <<wild, net>>
  \/ alive /\ Again(f) /\ UNCHANGED <<wild, net>>
  \/ \E freed \in {{}, {"banner"}} :      \* an empty line, a NUL; no memory
       Leave(f, "error", freed, "sent") /\ UNCHANGED <<wild, net>>
  \/ Leave(f, "error", {}, "sent") /\ Cut /\ UNCHANGED wild

(* session_startup(): an error leaves startup_state where it stands.  The  *)
(* key exchange is SshKex's subject: here it works, blocks or fails.       *)
session_startup ==
  LET f == "session_startup" IN
  \/ In(f, "idle") /\ Build(f, {}, "created")
  \/ In(f, "created") /\ banner_send(f)
  \/ In(f, "sent") /\ banner_receive(f)
  \/ In(f, "sent1")
     /\ \/ Move(f, {}, {}, "sent3")
        \/ Again(f)
        \/ Leave(f, "error", {}, "sent1")
     /\ UNCHANGED <<wild, net>>
  \/ In(f, "sent3") /\ Send(f, {}, Request("service"), {}, "sent4", {}, "sent3")
  \/ In(f, "sent4") /\ Waits(f, {"accept"}, {}, "sent4")
  \/ /\ In(f, "sent4")
     /\ \E m \in Range(inbox) :
          /\ Takes(f, {"accept"}, m)
          /\ IF m.short THEN \E kept \in {{"data"}, {}} : Return(f, "error", kept, {}, "sent4")
                        ELSE Leave(f, "ok", {}, "idle")
          /\ UNCHANGED <<wild, authed>>

(* session_disconnect(): whatever the transport says, EAGAIN excepted, it  *)
(* has disconnected.                                                       *)
session_disconnect ==
  LET f == "session_disconnect" IN
  \/ In(f, "idle") /\ Build(f, {}, "created")
  \/ In(f, "created")
     /\ \/ alive /\ Again(f)
        \/ Leave(f, "ok", {}, "idle")
     /\ UNCHANGED <<wild, net>>

(* Mutant: the pointers of the password and the public key authentication  *)
(* are not looked at.                                                      *)
(* The pointers session_free() looks at.                                   *)
sessionFrees ==
  {"session_startup", "userauth_list"} \X {"banner", "data"}
  \cup {"userauth_password"} \X {"data", "newpw"}
  \cup {"userauth_hostbased_fromfile", "_libssh2_userauth_publickey"}
       \X {"packet", "method", "data"}
  \cup {"userauth_keyboard_interactive"} \X {"data", "packet", "instruction"}
  \cup {<<OpenCall, "packet">>, <<"channel_direct_tcpip", "message">>,
        <<"channel_direct_streamlocal", "message">>,
        <<"channel_forward_listen", "packet">>, <<"publickey_init", "data">>,
        <<"scp_recv", "command">>, <<"scp_send", "command">>}

(* session_free(): close every channel, cancel every listener, free what   *)
(* the structures point to.  A subsystem that was not shut down goes with  *)
(* its channel: `closed' are the blocks its close callback frees.  What is *)
(* left is lost.                                                           *)
session_free(closed) ==
  LET f == "session_free" IN
  \/ In(f, "idle") /\ Move(f, {}, {}, "created") /\ UNCHANGED <<wild, net>>
  \/ (In(f, "created") \/ In(f, "sent")) /\ alive /\ Again(f) /\ UNCHANGED <<wild, net>>
  \/ /\ In(f, "created")
     /\ at' = [at EXCEPT ![f] = "sent"]
     /\ blocks' = blocks \ (channelFrees \cup closed \cup {<<"_libssh2_channel_forward_cancel", "packet">>})
     /\ UNCHANGED <<stack, ret, again, locals, lost, wild, net>>
  \/ /\ In(f, "sent")
     /\ lost' = lost \cup (blocks \ sessionFrees)
     /\ blocks' = {}
     /\ at' = [at EXCEPT ![f] = "idle"]
     /\ stack' = <<>> /\ ret' = "closed" /\ again' = "none"
     /\ UNCHANGED <<locals, wild, net>>

(* Mutant: keepalives ask for an answer.                                   *)
keepaliveAsks ==
  /\ Outside /\ ret # "closed" /\ alive
  /\ due' = due \o <<[req |-> "global", own |-> FALSE]>>
  /\ UNCHANGED <<stack, ret, again, locals, at, blocks, lost, wild, inbox, alive, authed,
                 granted, honest, ghosts>>

(* libssh2_keepalive_send(): EAGAIN is ignored.  An answer, were one asked *)
(* for, would be nobody's.                                                 *)
libssh2_keepalive_send ==
  /\ Outside /\ ret # "closed" /\ alive
  /\ \/ /\ due' = due \o (IF KeepaliveReply THEN <<[req |-> "global", own |-> FALSE]>> ELSE <<>>)
        /\ UNCHANGED alive
     \/ alive' = FALSE /\ UNCHANGED due
  /\ UNCHANGED <<stack, ret, again, locals, at, blocks, lost, wild, inbox, authed,
                 granted, honest, ghosts>>

SessionCalls == session_startup \/ session_disconnect
SessionFunctions == {"session_startup", "session_disconnect", "session_free"}
=============================================================================
