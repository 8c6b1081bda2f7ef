---------------------------- MODULE SshSftpCalls ----------------------------
(***************************************************************************)
(* The requests of libssh2's SFTP client (sftp.c), as steps of SshCall.    *)
(* The pipelined reads and writes of a file are in SftpFile.               *)
(***************************************************************************)
EXTENDS SshCall

PacketRead == "sftp_packet_read"
Statuses == {"status_ok", "status_bad"}
SftpAnswers == Statuses \cup {"reply"}

(* sftp_packet_read(): the header, the window for the rest, the rest.      *)
sftp_packet_read ==
  LET g == PacketRead IN
  \/ In(g, "idle") /\ Waits(g, SftpAnswers, {}, "idle")
  \/ In(g, "idle") /\ Here(SftpAnswers) # {} /\ Build(g, {"partial"}, "sent")
  \/ In(g, "sent") /\ UNCHANGED <<wild, net>>
     /\ ((alive /\ Again(g)) \/ Move(g, {}, {}, "sent1"))
  \/ In(g, "sent1")
     /\ \/ alive /\ Again(g)
        \/ Leave(g, "error", {"partial"}, "idle")
        \/ Leave(g, "ok", {"partial"}, "idle")
     /\ UNCHANGED <<wild, net>>

(* sftp_packet_require() and sftp_packet_requirev(): answers carry the id  *)
(* of their request.  A function that finds its answer too short returns   *)
(* without touching its state.                                             *)
sftp_packet_requirev(f, s, yes) ==
  \/ In(f, s) /\ Call(f, PacketRead)
  \/ Back(f, s, "again") /\ Again(f) /\ UNCHANGED <<wild, net>>
  \/ Back(f, s, "error") /\ Leave(f, "error", {}, "idle") /\ UNCHANGED <<wild, net>>
  \/ /\ Back(f, s, "ok")
     /\ \E m \in Range(inbox) :
          /\ Takes(f, SftpAnswers, m)
          /\ \/ m.short /\ Leave(f, "error", {}, s)
             \/ ~m.short /\ m.msg \in yes /\ Leave(f, "ok", {}, "idle")
             \/ ~m.short /\ m.msg \notin yes /\ Leave(f, "denied", {}, "idle")
     /\ UNCHANGED <<wild, authed>>

-----------------------------------------------------------------------------
(* sftp_init(), up to the first packet.                                    *)
initSftpChannel ==
  LET f == "sftp_init" IN
  \/ In(f, "idle") /\ Move(f, {}, {}, "created") /\ UNCHANGED <<wild, net>>
  \/ In(f, "created") /\ Call(f, OpenCall)
  \/ In(f, "sent") /\ Call(f, "_libssh2_channel_process_startup")
  \/ \E s \in {"created", "sent"} :
       Back(f, s, "again") /\ Again(f) /\ UNCHANGED <<wild, net>>
  \/ Back(f, "created", "ok") /\ Move(f, {}, {}, "sent") /\ UNCHANGED <<wild, net>>
  \/ Back(f, "sent", "ok") /\ Move(f, {}, {}, "sent1") /\ UNCHANGED <<wild, net>>
  \/ \E r \in {"denied", "error"} :
       \/ Back(f, "created", r) /\ Leave(f, "error", {}, "idle") /\ UNCHANGED <<wild, net>>
       \/ Back(f, "sent", r) /\ Leave(f, "error", {}, "error_closing") /\ UNCHANGED <<wild, net>>

(* SSH_FXP_INIT and its answer; after an error the next call closes the    *)
(* channel.                                                                *)
initSftpVersion ==
  LET f == "sftp_init" IN
  \/ In(f, "sent1") /\ UNCHANGED <<wild, net>>
     /\ (Move(f, {"sftp"}, {}, "sent2") \/ Leave(f, "error", {}, "error_closing"))
  \/ In(f, "sent2") /\ Send(f, {"sftp"}, Request("reply"), {}, "sent3", {}, "error_closing")
  \/ In(f, "sent3") /\ Call(f, PacketRead)
  \/ Back(f, "sent3", "again") /\ Again(f) /\ UNCHANGED <<wild, net>>
  \/ Back(f, "sent3", "error") /\ Leave(f, "error", {}, "error_closing") /\ UNCHANGED <<wild, net>>
  \/ /\ Back(f, "sent3", "ok")
     /\ \E m \in Range(inbox) :
          /\ Takes(f, SftpAnswers, m)
          /\ IF m.short \/ m.msg # "reply" THEN Leave(f, "error", {}, "error_closing")
                                           ELSE Leave(f, "ok", {}, "idle")
     /\ UNCHANGED <<wild, authed>>
  \/ In(f, "error_closing") /\ alive /\ Again(f) /\ UNCHANGED <<wild, net>>
  \/ In(f, "error_closing") /\ Gone({f}, Own(f, {"sftp"}), {}) /\ Exit(f, "error") /\ UNCHANGED wild

-----------------------------------------------------------------------------
(* sftp_open(): a packet that was sent in part goes on from there, but the *)
(* call returns without an error code of its own.  After a status of OK it *)
(* waits for the handle; if that fails the status is freed again.          *)
sftp_open ==
  LET f == "sftp_open" IN
  \/ In(f, "idle") /\ Build(f, {"packet"}, "created")
  \/ In(f, "created") /\ Send(f, {"packet"}, Request("sftp_open"), {"packet"}, "sent", {"packet"}, "idle")
  \/ In(f, "created") /\ alive /\ Leave(f, "error", {}, "created") /\ UNCHANGED <<wild, net>>
  \/ In(f, "sent") /\ Call(f, PacketRead)
  \/ Back(f, "sent", "again") /\ Again(f) /\ UNCHANGED <<wild, net>>
  \/ Back(f, "sent", "error") /\ Leave(f, "error", {}, "idle") /\ UNCHANGED <<wild, net>>
  \/ /\ Back(f, "sent", "ok")
     /\ \E m \in Range(inbox) :
          /\ Takes(f, SftpAnswers, m)
          /\ \/ m.short /\ \E s \in {"sent", "idle"} : Leave(f, "error", {}, s) /\ UNCHANGED wild
             \/ ~m.short /\ m.msg = "status_bad" /\ Leave(f, "denied", {}, "idle") /\ UNCHANGED wild
             \/ ~m.short /\ m.msg = "reply" /\ Return(f, "ok", {"handle"}, {}, "idle") /\ UNCHANGED wild
             \/ /\ ~m.short /\ m.msg = "status_ok"
                /\ \/ alive /\ Leave(f, "again", {}, "sent") /\ UNCHANGED wild
                   \/ ~alive /\ Leave(f, "denied", {}, "idle") /\ wild' = wild \cup {f}
     /\ UNCHANGED authed

(* Mutant: the packet is freed although the call will be resumed.          *)
SftpRequestFreed(f, request) ==
  \/ In(f, "idle") /\ Build(f, {"packet"}, "created")
  \/ In(f, "created") /\ Write(f, {"packet"}, Request(request), {"packet"}, "sent", {"packet"}, "created")

SftpRequest(f, request) ==
  \/ In(f, "idle") /\ Build(f, {"packet"}, "created")
  \/ In(f, "created") /\ Write(f, {"packet"}, Request(request), {"packet"}, "sent", {"packet"}, "idle")

(* ... where a packet that was sent in part is sent again, all of it.      *)
SftpRequestAgain(f, request) ==
  \/ In(f, "idle") /\ Build(f, {"packet"}, "created")
  \/ In(f, "created")
     /\ Send(f, {"packet"}, IF f \in garbled THEN <<>> ELSE Request(request),
             {"packet"}, "sent", {"packet"}, "idle")
  \/ /\ In(f, "created") /\ alive /\ Again(f)
     /\ garbled' = garbled \cup {f} /\ UNCHANGED <<wild, wire, foreign, hopeless>>

(* sftp_readdir(): the names of an answer are given out one per call.      *)
sftp_readdir ==
  LET f == "sftp_readdir"
      more == <<f, "names">> \in blocks IN
  \/ In(f, "idle") /\ more /\ UNCHANGED <<wild, net>>
     /\ \/ \E freed \in {{}, {"names"}} : Leave(f, "ok", freed, "idle")
        \/ Leave(f, "error", {}, "idle")
  \/ (In(f, "idle") => ~more) /\ SftpRequest(f, "reply")
  \/ In(f, "sent") /\ Call(f, PacketRead)
  \/ Back(f, "sent", "again") /\ Again(f) /\ UNCHANGED <<wild, net>>
  \/ Back(f, "sent", "error") /\ Leave(f, "error", {}, "idle") /\ UNCHANGED <<wild, net>>
  \/ /\ Back(f, "sent", "ok")
     /\ \E m \in Range(inbox) :
          /\ Takes(f, SftpAnswers, m)
          /\ \/ m.short /\ Leave(f, "error", {}, "sent")
             \/ ~m.short /\ m.msg \in Statuses
                /\ \E r \in {"ok", "denied"} : Leave(f, r, {}, "idle")
             \/ ~m.short /\ m.msg = "reply"
                /\ \E got \in {{}, {"names"}} : Return(f, "ok", got, {}, "idle")
     /\ UNCHANGED <<wild, authed>>

sftp_fsync ==
  LET f == "sftp_fsync" IN
  SftpRequestAgain(f, "status") \/ sftp_packet_requirev(f, "sent", {"status_ok"})
sftp_fstat ==
  LET f == "sftp_fstat" IN
  SftpRequest(f, "reply") \/ sftp_packet_requirev(f, "sent", {"status_ok", "reply"})
sftp_unlink ==
  LET f == "sftp_unlink" IN
  SftpRequest(f, "status") \/ sftp_packet_requirev(f, "sent", {"status_ok"})
sftp_rename ==
  LET f == "sftp_rename" IN
  SftpRequest(f, "status") \/ sftp_packet_requirev(f, "sent", {"status_ok"})
sftp_posix_rename ==
  LET f == "sftp_posix_rename" IN
  SftpRequestAgain(f, "status") \/ sftp_packet_requirev(f, "sent", {"status_ok"})
sftp_fstatvfs ==
  LET f == "sftp_fstatvfs" IN
  SftpRequestAgain(f, "reply") \/ sftp_packet_requirev(f, "sent", {"reply"})
sftp_statvfs ==
  LET f == "sftp_statvfs" IN
  SftpRequestAgain(f, "reply") \/ sftp_packet_requirev(f, "sent", {"reply"})
sftp_mkdir ==
  LET f == "sftp_mkdir" IN
  SftpRequest(f, "status") \/ sftp_packet_requirev(f, "sent", {"status_ok"})
sftp_rmdir ==
  LET f == "sftp_rmdir" IN
  SftpRequest(f, "status") \/ sftp_packet_requirev(f, "sent", {"status_ok"})
sftp_stat ==
  LET f == "sftp_stat" IN
  SftpRequest(f, "reply") \/ sftp_packet_requirev(f, "sent", {"status_ok", "reply"})
sftp_symlink ==
  LET f == "sftp_symlink" IN
  SftpRequest(f, "reply") \/ sftp_packet_requirev(f, "sent", {"status_ok", "reply"})

(* sftp_close_handle() frees the handle, whatever happens but EAGAIN.      *)
Handle == {<<"sftp_open", "handle">>, <<"sftp_readdir", "names">>}
handleClosed(f, r) ==
  /\ at' = [at EXCEPT ![f] = "idle"]
  /\ blocks' = blocks \ (Handle \cup Own(f, {"packet"}))
  /\ Exit(f, r) /\ UNCHANGED lost

sftp_close_handle ==
  LET f == "sftp_close_handle" IN
  \/ In(f, "idle") /\ UNCHANGED <<wild, net>>
     /\ (Move(f, {"packet"}, {}, "created") \/ handleClosed(f, "error"))
  \/ In(f, "created") /\ Uses(f, {"packet"})
     /\ \/ alive /\ Move(f, {}, {"packet"}, "sent") /\ Sent(Request("status"))
        \/ alive /\ Again(f) /\ UNCHANGED net
        \/ handleClosed(f, "error") /\ (Cut \/ UNCHANGED net)
  \/ In(f, "sent") /\ Call(f, PacketRead)
  \/ Back(f, "sent", "again") /\ Again(f) /\ UNCHANGED <<wild, net>>
  \/ Back(f, "sent", "error") /\ handleClosed(f, "error") /\ UNCHANGED <<wild, net>>
  \/ /\ Back(f, "sent", "ok")
     /\ \E m \in Range(inbox) :
          /\ Takes(f, SftpAnswers, m)
          /\ handleClosed(f, IF m.short THEN "error" ELSE IF m.msg = "status_ok" THEN "ok" ELSE "denied")
     /\ UNCHANGED <<wild, authed>>

OnHandle == {"sftp_readdir", "sftp_fsync", "sftp_fstat", "sftp_fstatvfs", "sftp_close_handle"}
OnSftp   == {"sftp_open", "sftp_unlink", "sftp_rename", "sftp_posix_rename", "sftp_statvfs",
             "sftp_mkdir", "sftp_rmdir", "sftp_stat", "sftp_symlink"}
InSftp   == OnHandle \cup OnSftp \cup {PacketRead}
SftpFunctions == InSftp \cup {"sftp_init", "sftp_shutdown"}

(* libssh2_sftp_dtor(), the close callback of the channel.                 *)
libssh2_sftp_dtor ==
  {<<"sftp_init", "sftp">>, <<PacketRead, "partial">>, <<"sftp_readdir", "packet">>}

(* sftp_shutdown(): posix_rename_packet, close_packet and open handles are *)
(* not looked at; without a connection the close callback is not called.   *)
sftp_shutdown ==
  LET f == "sftp_shutdown"
      freed == {<<PacketRead, "partial">>}
               \cup (InSftp \ {"sftp_posix_rename", "sftp_close_handle"}) \X {"packet"} IN
  /\ In(f, "idle") /\ UNCHANGED wild
  /\ \/ alive /\ Exit(f, "again") /\ blocks' = blocks \ freed /\ UNCHANGED <<at, lost, net>>
     \/ /\ Gone(InSftp, freed \cup (IF alive THEN libssh2_sftp_dtor ELSE {}), SftpFunctions)
        /\ Exit(f, "ok")

SftpCalls ==
  \/ sftp_packet_read \/ initSftpChannel \/ initSftpVersion \/ sftp_open \/ sftp_readdir
  \/ sftp_fsync \/ sftp_fstat \/ sftp_unlink \/ sftp_rename \/ sftp_posix_rename
  \/ sftp_fstatvfs \/ sftp_statvfs \/ sftp_mkdir \/ sftp_rmdir \/ sftp_stat \/ sftp_symlink
  \/ sftp_close_handle \/ sftp_shutdown
=============================================================================
