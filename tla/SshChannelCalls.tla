--------------------------- MODULE SshChannelCalls ---------------------------
(***************************************************************************)
(* The requests libssh2 makes on the connection and on a channel           *)
(* (channel.c), as steps of SshCall.                                       *)
(***************************************************************************)
EXTENDS SshCall

(* _libssh2_channel_open(): the channel is in session->channels from the   *)
(* moment it is allocated; channel_error unlinks and frees all.  The       *)
(* channel that is open keeps its type.                                    *)
openBlocks == {"channel", "type", "packet"}
_libssh2_channel_open ==
  LET f == OpenCall IN
  \/ In(f, "idle") /\ Build(f, openBlocks, "created")
  \/ In(f, "created")
     /\ Send(f, {"packet"}, Request("open"), {}, "sent", openBlocks, "idle")
  \/ In(f, "sent")
     /\ \/ Waits(f, {"confirm", "refuse"}, openBlocks, "idle")
        \/ \E m \in Range(inbox) :
             /\ Takes(f, {"confirm", "refuse"}, m)
             /\ Uses(f, {"packet"})
             /\ \/ m.msg = "refuse" /\ Leave(f, "denied", openBlocks, "idle")
                \/ m.msg = "confirm" /\ m.short /\ Leave(f, "error", openBlocks, "idle")
                \/ m.msg = "confirm" /\ ~m.short /\ Leave(f, "ok", {"packet"}, "idle")
             /\ UNCHANGED authed

(* channel_direct_tcpip() and channel_direct_streamlocal(): the message is *)
(* built once, and kept while _libssh2_channel_open() says EAGAIN.  They   *)
(* share direct_state; a program never has both under way.                 *)
directOpen(f) ==
  LET g == OpenCall IN
  \/ In(f, "idle") /\ Build(f, {"message"}, "opening")
  \/ (In(f, "opening") \/ In(f, "created")) /\ Call(f, g)
  \/ (Back(f, "opening", "again") \/ Back(f, "created", "again"))
     /\ Leave(f, "again", {}, "created") /\ UNCHANGED <<wild, net>>
  \/ \E r \in Results :
       /\ Back(f, "opening", r) \/ Back(f, "created", r)
       /\ Leave(f, r, {"message"}, "idle") /\ UNCHANGED <<wild, net>>

channel_direct_tcpip == directOpen("channel_direct_tcpip")
channel_direct_streamlocal == directOpen("channel_direct_streamlocal")

(* channel_forward_listen(): SSH_MSG_REQUEST_SUCCESS and _FAILURE carry no *)
(* name, so the first one in the queue is taken for the answer.            *)
channel_forward_listen ==
  LET f == "channel_forward_listen" IN
  \/ In(f, "idle") /\ Build(f, {"packet"}, "created")
  \/ In(f, "created")
     /\ Send(f, {"packet"}, Request("global"), {"packet"}, "sent", {"packet"}, "idle")
  \/ In(f, "sent")
     /\ \/ YesOrNo(f, "granted", "declined", {}, "idle")
        \/ \E m \in Range(inbox) :       \* no memory for the listener
             /\ Takes(f, {"granted", "declined"}, m) /\ m.msg = "granted"
             /\ Leave(f, "error", {}, "idle") /\ UNCHANGED <<wild, authed>>

(* Requests that ask for no answer: they end when the packet is sent.      *)
Notice(f, packet) ==
  \/ In(f, "created") /\ Send(f, packet, <<>>, packet, "sent", packet, "idle")
  \/ In(f, "sent") /\ Leave(f, "ok", {}, "idle") /\ UNCHANGED <<wild, net>>

(* _libssh2_channel_forward_cancel() asks for no answer and goes on after  *)
(* an error: the listener is freed in any case.                            *)
_libssh2_channel_forward_cancel ==
  LET f == "_libssh2_channel_forward_cancel" IN
  \/ In(f, "idle") /\ Build(f, {"packet"}, "created")
  \/ Notice(f, {"packet"})

(* The three-step requests on a channel.                                   *)
ChannelRequest(f, packet, end) ==
  \/ In(f, "created")
     /\ Send(f, packet, Request("channel"), packet, "sent", packet, end)
  \/ In(f, "sent") /\ YesOrNo(f, "success", "failure", {}, end)

(* Mutant: the answer does not end the call's state.                       *)
channel_setenv ==
  LET f == "channel_setenv" IN
  \/ In(f, "idle") /\ Build(f, {"packet"}, "created")
  \/ ChannelRequest(f, {"packet"}, "idle")

(* The packet is part of the channel structure; too long a terminal name   *)
(* is refused.                                                             *)
channel_request_pty ==
  LET f == "channel_request_pty" IN
  \/ In(f, "idle") /\ Build(f, {}, "created")
  \/ ChannelRequest(f, {}, "idle")

(* Mutant: an answer is awaited that was not asked for.                    *)
(* Shares reqPTY_state and reqPTY_packet with channel_request_pty(); a     *)
(* program never has both under way on one channel.                        *)
channel_request_pty_size ==
  LET f == "channel_request_pty_size" IN
  \/ In(f, "idle") /\ Move(f, {}, {}, "created") /\ UNCHANGED <<wild, net>>
  \/ Notice(f, {})

channel_request_auth_agent ==
  LET f == "channel_request_auth_agent" IN
  \/ In(f, "idle") /\ Build(f, {}, "created")
  \/ ChannelRequest(f, {}, "idle")

(* First auth-agent-req@openssh.com, then auth-agent-req; req_auth_agent_  *)
(* try_state remembers which.  After both have failed it stays at sent1.   *)
libssh2_channel_request_auth_agent ==
  LET f == "libssh2_channel_request_auth_agent"
      g == "channel_request_auth_agent" IN
  \/ (In(f, "idle") \/ In(f, "sent")) /\ Call(f, g)
  \/ In(f, "sent1") /\ Leave(f, "error", {}, "sent1") /\ UNCHANGED <<wild, net>>
  \/ \E s \in {"idle", "sent"} :
       /\ Back(f, s, "again")
       /\ Again(f) /\ UNCHANGED <<wild, net>>
  \/ \E s \in {"idle", "sent"} :
       /\ Back(f, s, "ok")
       /\ Leave(f, "ok", {}, "idle") /\ UNCHANGED <<wild, net>>
  \/ \E r \in {"denied", "error"} :
       \/ Back(f, "idle", r) /\ Move(f, {}, {}, "sent") /\ UNCHANGED <<wild, net>>
       \/ Back(f, "sent", r) /\ Leave(f, "error", {}, "sent1") /\ UNCHANGED <<wild, net>>

(* _libssh2_random() may fail when the packet is already allocated: the    *)
(* function returns with the packet held.                                  *)
channel_x11_req ==
  LET f == "channel_x11_req" IN
  \/ In(f, "idle") /\ Build(f, {"packet"}, "created")
  \/ In(f, "idle") /\ Return(f, "error", {"packet"}, {}, "idle") /\ UNCHANGED <<wild, net>>
  \/ ChannelRequest(f, {"packet"}, "idle")

(* A channel runs one process: after that the state stays at the end.      *)
_libssh2_channel_process_startup ==
  LET f == "_libssh2_channel_process_startup" IN
  \/ In(f, "end") /\ Leave(f, "error", {}, "end") /\ UNCHANGED <<wild, net>>
  \/ In(f, "idle") /\ Build(f, {"packet"}, "created")
  \/ ChannelRequest(f, {"packet"}, "end")

channel_signal ==
  LET f == "channel_signal" IN
  \/ In(f, "idle") /\ Build(f, {"packet"}, "created")
  \/ Notice(f, {"packet"})

(* _libssh2_channel_free(): close the channel, if the connection stands,   *)
(* and wait until the other side has closed it too; then free it.          *)
_libssh2_channel_free ==
  LET f == "_libssh2_channel_free" IN
  \/ In(f, "idle") /\ Move(f, {}, {}, "created") /\ UNCHANGED <<wild, net>>
  \/ In(f, "created") /\ alive /\ Again(f) /\ UNCHANGED <<wild, net>>
  \/ /\ In(f, "created")
     /\ Gone({f}, {}, {})
     /\ Exit(f, "ok") /\ UNCHANGED wild

ChannelCalls ==
  \/ _libssh2_channel_open \/ channel_direct_tcpip \/ channel_direct_streamlocal
  \/ channel_forward_listen \/ _libssh2_channel_forward_cancel
  \/ channel_setenv \/ channel_request_pty \/ channel_request_pty_size
  \/ channel_request_auth_agent \/ libssh2_channel_request_auth_agent
  \/ channel_x11_req \/ _libssh2_channel_process_startup \/ channel_signal
  \/ _libssh2_channel_free

ChannelFunctions ==
  {"_libssh2_channel_open", "channel_direct_tcpip", "channel_direct_streamlocal",
   "channel_forward_listen",
   "_libssh2_channel_forward_cancel", "channel_setenv", "channel_request_pty",
   "channel_request_pty_size", "channel_request_auth_agent",
   "libssh2_channel_request_auth_agent", "channel_x11_req",
   "_libssh2_channel_process_startup", "channel_signal", "_libssh2_channel_free"}
=============================================================================
