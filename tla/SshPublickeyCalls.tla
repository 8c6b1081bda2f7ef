-------------------------- MODULE SshPublickeyCalls --------------------------
(***************************************************************************)
(* The publickey subsystem of libssh2 (publickey.c), as steps of SshCall.  *)
(***************************************************************************)
EXTENDS SshCall

Receive == "publickey_packet_receive"
Replies == {"status_ok", "status_bad", "reply", "unknown"}

(* publickey_packet_receive(): first the length, then the packet.  The     *)
(* packet is the caller's from then on, but receive_packet still points    *)
(* to it ("stale").                                                        *)
publickey_packet_receive ==
  LET g == Receive IN
  \/ In(g, "idle") /\ Waits(g, Replies, {}, "idle")
  \/ In(g, "idle") /\ Here(Replies) # {} /\ Build(g, {"packet"}, "sent")
  \/ In(g, "sent")
     /\ \/ alive /\ Again(g)
        \/ Leave(g, "error", {"packet"}, "idle")
        \/ Return(g, "ok", {"stale"}, {"packet", "stale"}, "idle")
     /\ UNCHANGED <<wild, net>>

(* publickey_response_success(): wait for a status, ignoring everything    *)
(* else.  An answer that is too short is not freed.                        *)
publickey_response_success(f) ==
  \/ In(f, "sent") /\ Call(f, Receive)
  \/ Back(f, "sent", "again") /\ Again(f) /\ UNCHANGED <<wild, net>>
  \/ Back(f, "sent", "error") /\ Leave(f, "error", {}, "idle") /\ UNCHANGED <<wild, net>>
  \/ /\ Back(f, "sent", "ok")
     /\ \E m \in Range(inbox) :
          /\ Takes(f, Replies, m)
          /\ \/ m.short /\ Forget(f, "error", {"data"}, "idle")
             \/ ~m.short /\ m.msg = "status_ok" /\ Leave(f, "ok", {}, "idle")
             \/ ~m.short /\ m.msg = "status_bad" /\ Leave(f, "denied", {}, "idle")
             \/ ~m.short /\ m.msg \in {"reply", "unknown"} /\ Move(f, {}, {}, "sent")
     /\ UNCHANGED <<wild, authed>>

-----------------------------------------------------------------------------
(* publickey_init(), up to the first packet.                               *)
initPkeyChannel ==
  LET f == "publickey_init" IN
  \/ In(f, "idle") /\ Move(f, {}, {}, "allocated") /\ UNCHANGED <<wild, net>>
  \/ In(f, "allocated") /\ Call(f, OpenCall)
  \/ In(f, "sent") /\ Call(f, "_libssh2_channel_process_startup")
  \/ \E s \in {"allocated", "sent"} :
       /\ Back(f, s, "again")
       /\ Again(f) /\ UNCHANGED <<wild, net>>
  \/ Back(f, "allocated", "ok") /\ Move(f, {}, {}, "sent") /\ UNCHANGED <<wild, net>>
  \/ Back(f, "sent", "ok") /\ Move(f, {}, {}, "sent1") /\ UNCHANGED <<wild, net>>
  \/ \E r \in {"denied", "error"} :
       \/ Back(f, "allocated", r) /\ Leave(f, "error", {}, "idle") /\ UNCHANGED <<wild, net>>
       \/ Back(f, "sent", r) /\ Move(f, {}, {}, "sent4") /\ UNCHANGED <<wild, net>>

(* The version packet: the rest of one that was sent in part is taken from *)
(* the start of the buffer again.                                          *)
initPkeyVersion ==
  LET f == "publickey_init" IN
  \/ In(f, "sent1") /\ UNCHANGED <<wild, net>>
     /\ (Move(f, {"pkey"}, {}, "sent2") \/ Move(f, {}, {}, "sent4"))
  \/ In(f, "sent2")
     /\ \/ alive /\ Again(f) /\ UNCHANGED net
        \/ alive /\ Again(f) /\ garbled' = garbled \cup {f} /\ UNCHANGED <<wire, foreign, hopeless>>
        \/ alive /\ Move(f, {}, {}, "sent3")
           /\ Sent(IF f \in garbled THEN <<>> ELSE Request("version"))
        \/ Move(f, {}, {}, "sent4") /\ Cut
     /\ UNCHANGED wild

(* The answer; err_exit closes the channel, which stays in the session.    *)
initPkeyAnswer ==
  LET f == "publickey_init" IN
  \/ In(f, "sent3") /\ Call(f, Receive)
  \/ Back(f, "sent3", "again") /\ Again(f) /\ UNCHANGED <<wild, net>>
  \/ Back(f, "sent3", "error") /\ Move(f, {}, {}, "sent4") /\ UNCHANGED <<wild, net>>
  \/ /\ Back(f, "sent3", "ok")
     /\ \E m \in Range(inbox) :
          /\ Takes(f, Replies, m)
          /\ \/ (m.short \/ m.msg = "status_bad") /\ Move(f, {"data"}, {}, "sent4")
             \/ ~m.short /\ m.msg = "reply" /\ Leave(f, "ok", {}, "idle")
             \/ ~m.short /\ m.msg = "unknown" /\ Move(f, {}, {}, "sent3")
     /\ UNCHANGED <<wild, authed>>
  \/ In(f, "sent4") /\ alive /\ Again(f) /\ UNCHANGED <<wild, net>>
  \/ In(f, "sent4") /\ Leave(f, "error", {"pkey", "data"}, "idle") /\ UNCHANGED <<wild, net>>

publickey_init == initPkeyChannel \/ initPkeyVersion \/ initPkeyAnswer

-----------------------------------------------------------------------------
(* A packet that is not sent as a whole is freed, but add_state stays at   *)
(* created.                                                                *)
libssh2_publickey_add_ex ==
  LET f == "libssh2_publickey_add_ex" IN
  \/ In(f, "idle") /\ Build(f, {"packet"}, "created")
  \/ In(f, "created") /\ Write(f, {"packet"}, Request("command"), {"packet"}, "sent", {"packet"}, "created")
  \/ publickey_response_success(f)

libssh2_publickey_remove_ex ==
  LET f == "libssh2_publickey_remove_ex" IN
  \/ In(f, "idle") /\ Build(f, {"packet"}, "created")
  \/ In(f, "created") /\ Write(f, {"packet"}, Request("command"), {"packet"}, "sent", {"packet"}, "idle")
  \/ publickey_response_success(f)

(* libssh2_publickey_list_fetch(): the request ...                         *)
askForList ==
  LET f == "libssh2_publickey_list_fetch" IN
  \/ In(f, "idle") /\ Move(f, {}, {}, "created") /\ UNCHANGED <<wild, net>>
  \/ In(f, "created") /\ Write(f, {}, Request("list"), {}, "sent", {}, "idle")
  \/ In(f, "sent") /\ Call(f, Receive)

(* ... its entries, in a list that a local variable leads to: EAGAIN       *)
(* forgets it ...                                                          *)
listEntry ==
  LET f == "libssh2_publickey_list_fetch" IN
  \/ Back(f, "sent", "again") /\ UNCHANGED <<wild, net>>
     /\ Forget(f, "again", IF <<f, "list">> \in blocks THEN {"list"} ELSE {}, "sent")
  \/ /\ Back(f, "sent", "ok")
     /\ \E m \in Range(inbox) :
          /\ Takes(f, Replies, m) /\ ~m.short
          /\ \/ m.msg = "reply" /\ Move(f, {"list"}, {"list"}, "sent")
             \/ m.msg = "unknown" /\ Move(f, {}, {}, "sent")
     /\ UNCHANGED <<wild, authed>>

(* ... and its end: the list is the program's, or freed.                   *)
listEnd ==
  LET f == "libssh2_publickey_list_fetch" IN
  \/ Back(f, "sent", "error") /\ Leave(f, "error", {"list"}, "idle") /\ UNCHANGED <<wild, net>>
  \/ /\ Back(f, "sent", "ok")
     /\ \E m \in Range(inbox) :
          /\ Takes(f, Replies, m)
          /\ \/ m.short /\ Leave(f, "error", {"list"}, "idle")
             \/ ~m.short /\ m.msg = "status_ok" /\ Leave(f, "ok", {"list"}, "idle")
             \/ ~m.short /\ m.msg = "status_bad" /\ Leave(f, "denied", {"list"}, "idle")
     /\ UNCHANGED <<wild, authed>>

PublickeyHandle == {Receive, "libssh2_publickey_add_ex", "libssh2_publickey_remove_ex",
                    "libssh2_publickey_list_fetch"}
publickeyFrees ==
  {<<"publickey_init", "pkey">>} \cup PublickeyHandle \X {"packet", "data"}

(* libssh2_publickey_shutdown() frees what receive_packet points to, and   *)
(* after the first answer that is a block freed long ago.                  *)
libssh2_publickey_shutdown ==
  LET f == "libssh2_publickey_shutdown" IN
  /\ In(f, "idle")
  /\ wild' = IF <<Receive, "stale">> \in blocks THEN wild \cup {f} ELSE wild
  /\ LET freed == (publickeyFrees \cup {<<Receive, "stale">>}) IN
     \/ /\ alive /\ Exit(f, "again")
        /\ blocks' = blocks \ (freed \ {<<"publickey_init", "pkey">>})
        /\ UNCHANGED <<at, lost, net>>
     \/ Gone(PublickeyHandle, freed, PublickeyHandle) /\ Exit(f, "ok")

PublickeyCalls ==
  \/ publickey_packet_receive \/ publickey_init
  \/ libssh2_publickey_add_ex \/ libssh2_publickey_remove_ex
  \/ askForList \/ listEntry \/ listEnd \/ libssh2_publickey_shutdown
PublickeyFunctions ==
  PublickeyHandle \cup {"publickey_init", "libssh2_publickey_shutdown"}
=============================================================================
