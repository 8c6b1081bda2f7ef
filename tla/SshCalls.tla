------------------------------ MODULE SshCalls ------------------------------
(***************************************************************************)
(* A program that uses libssh2 on a non-blocking session: it makes one     *)
(* call after the other, repeats a call that says EAGAIN, gives one up by  *)
(* closing what it worked on, and closes the session in the end.  The      *)
(* functions are in the modules extended here; a server answers, well or   *)
(* badly, and the connection may break at any time.                        *)
(***************************************************************************)
EXTENDS SshSessionCalls, SshUserauthCalls, SshChannelCalls, SshScpCalls,
        SshPublickeyCalls, SshSftpCalls

CONSTANTS
  UsesOfSession,  \* among "auth", "channel", "scp", "publickey", "sftp"
  MaxDue          \* bound: requests without an answer that keepalives may add

AllFunctions ==
  SessionFunctions \cup UserauthFunctions \cup ChannelFunctions \cup ScpFunctions
  \cup PublickeyFunctions \cup SftpFunctions
ASSUME FunctionsAssumption == Functions = AllFunctions

VARIABLES
  use,       \* what the program uses the session for
  stage,     \* "new", "open" after libssh2_session_handshake(), "over"
  failed     \* the function whose error the program has not reacted to, or "none"

vars == <<stack, ret, again, locals, at, blocks, lost, wild, due, inbox, alive, authed,
          granted, honest, garbled, foreign, hopeless, use, stage, failed>>

HasSftp   == <<"sftp_init", "sftp">> \in blocks /\ at["sftp_init"] = "idle"
HasPkey   == <<"publickey_init", "pkey">> \in blocks /\ at["publickey_init"] = "idle"
HasHandle == <<"sftp_open", "handle">> \in blocks
NoChannel == <<OpenCall, "channel">> \notin blocks
(* A channel the program holds the pointer of.                             *)
PlainChannel ==
  /\ ChannelOpen /\ ~HasSftp /\ ~HasPkey /\ again \notin ScpFunctions
  /\ \A g \in {"sftp_init", "publickey_init"} : at[g] = "idle" /\ failed # g

(* What may be called to close things.                                     *)
Teardown ==
  {"session_free"}
  \cup (IF stage = "open" THEN {"session_disconnect"} ELSE {})
  \cup (IF PlainChannel THEN {"_libssh2_channel_free"} ELSE {})
  \cup (IF HasSftp THEN {"sftp_shutdown"} ELSE {})
  \cup (IF HasPkey THEN {"libssh2_publickey_shutdown"} ELSE {})

(* What may be called when nothing is under way.                           *)
Connection ==
  CASE use = "auth"      -> {}
    [] use = "channel"   -> {"channel_forward_listen", "_libssh2_channel_forward_cancel"}
         \cup (IF NoChannel THEN {OpenCall, "channel_direct_tcpip", "channel_direct_streamlocal"} ELSE {})
         \cup (IF PlainChannel THEN PerChannel \ {"channel_request_auth_agent"} ELSE {})
    [] use = "scp"       -> IF NoChannel THEN ScpFunctions ELSE {}
    [] use = "publickey" ->
         IF HasPkey THEN PublickeyHandle \ {Receive}
         ELSE IF NoChannel THEN {"publickey_init"} ELSE {}
    [] use = "sftp"      ->
         IF HasSftp THEN (OnSftp \ (IF HasHandle THEN {"sftp_open"} ELSE {}))
                         \cup (IF HasHandle THEN OnHandle ELSE {})
         ELSE IF NoChannel THEN {"sftp_init"} ELSE {}

Operations ==
  IF stage = "new" THEN {"session_startup"}
  ELSE IF authed THEN Connection
  ELSE IF use = "auth" THEN UserauthFunctions \ {"_libssh2_userauth_publickey"}
  ELSE {"userauth_publickey_frommemory"}

(* A call under way may only be repeated or given up.  After an error the  *)
(* program tries the same once more or closes; the publickey subsystem,    *)
(* whose answers carry no id, it closes.                                   *)
Callable ==
  IF again # "none"
  THEN {again, "session_free"}
       \cup (IF again \in PerChannel \cup PublickeyHandle \cup InSftp THEN Teardown ELSE {})
  ELSE IF failed = "publickey_init" /\ ~NoChannel THEN {"session_free"}
  ELSE IF failed \in PublickeyHandle THEN Teardown
  ELSE IF failed # "none" THEN {failed} \cup Teardown
  ELSE IF stage = "over" THEN {"session_free"}
  ELSE Operations \cup Teardown

(* Answers that a new request finds outstanding are not its own; those of  *)
(* SFTP carry the id of their request, and nobody looks for them any more. *)
Stale(seq) ==
  LET rest == SelectSeq(seq, LAMBDA e : e.req \notin {"sftp_open", "handle", "status", "reply"})
  IN  [i \in DOMAIN rest |-> [rest[i] EXCEPT !.own = FALSE]]

(* The program calls f.  The ghosts tell what happened since the last call. *)
Start(f) ==
  /\ Outside /\ ret # "closed" /\ f \in Callable
  /\ stack' = <<f>> /\ ret' = "none" /\ again' = "none"
  /\ locals' = IF again = f THEN "resumed" ELSE "fresh"
  /\ lost' = {} /\ wild' = {} /\ foreign' = {} /\ hopeless' = {}
  /\ garbled' = IF at[f] = "idle" THEN {} ELSE garbled
  /\ IF again = f \/ at[f] # "idle" THEN UNCHANGED <<due, inbox>>
                                    ELSE due' = Stale(due) /\ inbox' = Stale(inbox)
  /\ UNCHANGED <<at, blocks, alive, authed, granted, honest, use, stage, failed>>

(* A function runs; when the outermost one returns the program notes how.  *)
closedWith ==
  (IF alive THEN libssh2_sftp_dtor ELSE {})
  \cup (IF at["sftp_init"] = "idle" THEN {} ELSE {<<"sftp_init", "sftp">>})
RunsIn(functions) == Last(stack) \in functions
Step ==
  /\ ~Outside
  /\ \/ RunsIn(SessionFunctions) /\ (SessionCalls \/ session_free(closedWith))
     \/ RunsIn(UserauthFunctions) /\ UserauthCalls
     \/ RunsIn(ChannelFunctions) /\ ChannelCalls
     \/ RunsIn(ScpFunctions) /\ ScpCalls
     \/ RunsIn(PublickeyFunctions) /\ PublickeyCalls
     \/ RunsIn(SftpFunctions) /\ SftpCalls
  /\ UNCHANGED use
  /\ failed' = IF stack' # <<>> THEN failed
               ELSE IF ret' = "error" THEN stack[1] ELSE "none"
  /\ stage' = IF stack' # <<>> \/ ret' # "ok" THEN stage
              ELSE IF stack[1] = "session_startup" THEN "open"
              ELSE IF stack[1] = "session_disconnect" THEN "over" ELSE stage

Server == (Answer \/ Banner) /\ UNCHANGED <<use, stage, failed>>
Keepalive == Len(due) < MaxDue /\ libssh2_keepalive_send /\ UNCHANGED <<use, stage, failed>>

(* libssh2_session_init(): all fields are zero.                            *)
session_init ==
  /\ ret = "closed"
  /\ stack' = <<>> /\ ret' = "none" /\ again' = "none" /\ locals' = "fresh"
  /\ at' = [f \in Functions |-> "idle"] /\ blocks' = {}
  /\ lost' = {} /\ wild' = {} /\ garbled' = {} /\ foreign' = {} /\ hopeless' = {}
  /\ due' = <<>> /\ inbox' = <<>>
  /\ alive' = TRUE /\ authed' = FALSE /\ granted' = FALSE /\ honest' = TRUE
  /\ use' \in UsesOfSession /\ stage' = "new" /\ failed' = "none"

CallsInit == Init /\ use \in UsesOfSession /\ stage = "new" /\ failed = "none"
CallsNext == (Outside /\ \E f \in Callable : Start(f)) \/ Step \/ Server \/ Keepalive \/ session_init
Spec == CallsInit /\ [][CallsNext]_vars

-----------------------------------------------------------------------------
TypeOK ==
  /\ stack \in Seq(Functions) /\ Len(stack) <= 3
  /\ ret \in Results \cup {"none", "again", "closed"}
  /\ again \in Functions \cup {"none"} /\ failed \in Functions \cup {"none"}
  /\ locals \in {"fresh", "retried", "resumed"}
  /\ DOMAIN at = Functions
  /\ \A b \in blocks \cup lost : b[1] \in Functions
  /\ wild \cup garbled \cup foreign \cup hopeless \subseteq Functions
  /\ \A d \in Range(due) : d.own \in BOOLEAN
  /\ \A m \in Range(inbox) : m.own \in BOOLEAN /\ m.short \in BOOLEAN
  /\ {alive, authed, granted, honest} \subseteq BOOLEAN
  /\ use \in UsesOfSession /\ stage \in {"new", "open", "over"}

(* What the code is known to lose.                                         *)
KnownLost ==
  {"userauth_keyboard_interactive"} \X {"name", "prompts", "responses"}
  \cup {"channel_signal", "channel_x11_req", "sftp_posix_rename", "sftp_close_handle"} \X {"packet"}
  \cup {<<"_libssh2_userauth_publickey", "method">>, <<"libssh2_publickey_list_fetch", "list">>,
        <<"sftp_open", "handle">>, <<"sftp_readdir", "names">>}

(* However calls are interleaved with EAGAIN, given up and repeated, the   *)
(* heap blocks of a call stay reachable until they are freed, and          *)
(* session_free() (session.c:922) frees those of calls given up.           *)
NothingLost ==
  honest /\ alive /\ (ret = "closed" => use \in {"auth", "channel", "scp"})
    => lost \subseteq KnownLost

(* A call that ends with an answer leaves every saved state idle, so that  *)
(* the next call of any function starts from its beginning; a channel      *)
(* starts one process, and a copy that met its end early stays where it    *)
(* was (scp.c:777).                                                        *)
CleanEnd ==
  Outside /\ stage = "open" /\ ret \in {"ok", "denied"} =>
    \A g \in Functions \ ScpFunctions :
      at[g] = "idle" \/ (g = "_libssh2_channel_process_startup" /\ at[g] = "end")

(* No function takes the answer to a request it did not make, although     *)
(* answers to global requests carry no name (channel.c:612): nothing is    *)
(* ever asked whose answer nobody waits for.                               *)
OwnAnswer == foreign = {}

(* With a server that sends well-formed packets no call says EAGAIN for an *)
(* answer that cannot come, except keyboard-interactive authentication     *)
(* after a failure in a later round (userauth.c:2370).                     *)
NotHopeless ==
  honest /\ wild = {} /\ garbled = {} => hopeless \subseteq {"userauth_keyboard_interactive"}

(* A resumed call finds the packet it has built: except where an earlier   *)
(* error of the same function has freed it and left the state behind.      *)
NoDangling ==
  wild \subseteq {"userauth_password", "scp_recv", "scp_send", "libssh2_publickey_shutdown",
                  "sftp_open"}

(* The session is authenticated only when the server has accepted one of   *)
(* the methods (userauth.c:206, 401, 1233, 1713, 1899, 2229).                          *)
AuthGranted == authed => granted

(* A call that returns EAGAIN goes on where it stood: what it keeps is     *)
(* there when it is resumed, freed when it ends or is given up, and        *)
(* leaves nothing behind for the next call.                                *)
CallsKeepState == NothingLost /\ CleanEnd /\ NoDangling

(* A call waits for the answer to its own request, for one that can come,  *)
(* and says what the server said.                                          *)
CallsAnswered == OwnAnswer /\ NotHopeless /\ AuthGranted
=============================================================================
