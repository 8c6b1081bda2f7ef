----------------------------- MODULE SshScpCalls -----------------------------
(***************************************************************************)
(* The file copies of libssh2 (scp.c), as steps of SshCall.                *)
(***************************************************************************)
EXTENDS SshCall

(* Both start the same way: the command is built, a channel is opened for  *)
(* it, and the remote scp is started.                                      *)
Startup == "_libssh2_channel_process_startup"

(* scpRecv_channel and scpSend_channel are used whatever has become of the *)
(* channel.                                                                *)
UsesChannel(f) == wild' = IF ChannelOpen THEN wild ELSE wild \cup {f}

(* scp_recv_error, scp_send_error: the channel is freed, however long it   *)
(* takes to close it.                                                      *)
scp_error(f) ==
  /\ Gone({f}, Own(f, {"command"}), {})
  /\ Exit(f, "error") /\ UsesChannel(f)

startScp(f, wake) ==
  \/ In(f, "idle") /\ Build(f, {"command"}, "created")
  \/ In(f, "created") /\ Call(f, OpenCall)
  \/ In(f, "sent") /\ Call(f, Startup)
  \/ (Back(f, "created", "again") \/ Back(f, "sent", "again"))
     /\ Again(f) /\ UNCHANGED <<wild, net>>
  \/ Back(f, "created", "ok") /\ Move(f, {}, {}, "sent") /\ UNCHANGED <<wild, net>>
  \/ \E r \in {"denied", "error"} :
       \/ Back(f, "created", r) /\ Leave(f, "error", {"command"}, "idle") /\ UNCHANGED <<wild, net>>
       \/ Back(f, "sent", r) /\ scp_error(f)
  \/ Back(f, "sent", "ok") /\ Move(f, {}, {"command"}, "sent1") /\ Sent(wake) /\ UNCHANGED wild

(* One byte, or a line, of what the remote scp says.  At the end of the    *)
(* stream libssh2_channel_eof() is asked: it says no while data of another *)
(* stream is queued, and then the channel is returned as if all were well, *)
(* with the state where it stood.                                          *)
Hears(f, s, next) ==
  \/ In(f, s) /\ Here({"line", "eof", "eof_stderr"}) = {} /\ alive
     /\ hopeless' = (IF due = <<>> THEN hopeless \cup {f} ELSE hopeless)
     /\ Again(f) /\ UsesChannel(f) /\ UNCHANGED <<wire, garbled, foreign>>
  \/ In(f, s) /\ ~alive /\ scp_error(f)
  \/ /\ In(f, s)
     /\ \E m \in Range(inbox) :
          \/ /\ m.msg = "line" /\ ~m.short
             /\ Takes(f, {"line"}, m) /\ Move(f, {}, {}, next)
             /\ UsesChannel(f) /\ UNCHANGED authed
          \/ /\ m.msg = "eof_stderr"
             /\ Takes(f, {"eof_stderr"}, m) /\ Leave(f, "ok", {}, s)
             /\ UsesChannel(f) /\ UNCHANGED authed
          \/ /\ m.msg = "eof" \/ (m.msg = "line" /\ m.short)
             /\ scp_error(f)

(* One write: an acknowledgement or a line.                                *)
Says(f, s, next) ==
  \/ In(f, s) /\ alive /\ Move(f, {}, {}, next) /\ Sent(Request("stream")) /\ UsesChannel(f)
  \/ In(f, s) /\ alive /\ Again(f) /\ UsesChannel(f) /\ UNCHANGED net
  \/ In(f, s) /\ scp_error(f)

(* scp_recv(): wake the remote scp up; with "-p" hear the times and        *)
(* acknowledge them; hear size and mode and acknowledge them.              *)
scp_recv_start ==
  \/ startScp("scp_recv", <<>>)
  \/ \E next \in {"sent2", "sent5"} : Says("scp_recv", "sent1", next)

scp_recv_times ==
  LET f == "scp_recv" IN
  \/ Hears(f, "sent2", "sent3")
  \/ Says(f, "sent3", "sent5")

scp_recv_size ==
  LET f == "scp_recv" IN
  \/ Hears(f, "sent5", "sent6")
  \/ In(f, "sent6") /\ alive /\ Leave(f, "ok", {}, "idle") /\ UNCHANGED <<wild, net>>
  \/ In(f, "sent6") /\ alive /\ Again(f) /\ UNCHANGED <<wild, net>>
  \/ In(f, "sent6") /\ scp_error(f)

(* scp_send(): hear that the remote scp is ready; send the times, if       *)
(* there are any, and hear that they are taken; send mode and size and     *)
(* hear that they are taken.                                               *)
scp_send_times ==
  LET f == "scp_send" IN
  \/ startScp(f, Request("stream"))
  \/ \E next \in {"sent2", "sent4"} : Hears(f, "sent1", next)
  \/ Says(f, "sent2", "sent3")
  \/ Hears(f, "sent3", "sent4")

scp_send_size ==
  LET f == "scp_send" IN
  \/ Says(f, "sent4", "sent6")
  \/ Hears(f, "sent6", "taken")
  \/ In(f, "taken") /\ Leave(f, "ok", {}, "idle") /\ UNCHANGED <<wild, net>>

ScpCalls ==
  scp_recv_start \/ scp_recv_times \/ scp_recv_size \/ scp_send_times \/ scp_send_size
ScpFunctions == {"scp_recv", "scp_send"}
=============================================================================
