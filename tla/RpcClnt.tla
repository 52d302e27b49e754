------------------------------ MODULE RpcClnt ------------------------------
(***************************************************************************)
(* The client side of one RPC connection: rpc/rpc-lib/src/rpc-clnt.c and   *)
(* rpc-clnt-ping.c, over the socket transport, as protocol/client uses     *)
(* them.  Requests are saved until a reply, the frame timeout (call_bail)  *)
(* or the loss of the connection (rpc_clnt_connection_cleanup) answers     *)
(* them.  Pings detect a server that is silent; a timer reconnects.        *)
(*                                                                         *)
(* Threads: "epoll" runs the socket's event handlers, "timer" the timer    *)
(* callbacks, "err" is the thread socket_connect starts when there is no   *)
(* socket to report an error on, "owner" disables the connection, and each *)
(* request is submitted by a thread of its own.  A critical section of     *)
(* conn->lock is one step, and so is the callback of an answered request.  *)
(***************************************************************************)
EXTENDS Integers, List

CONSTANTS Requests,       \* the fops the translators above send
          Locks,          \* those that wait for a lock on the server
          Programs        \* what happens in a run, see Program

ASSUME LocksAssumption == Locks \subseteq Requests

VARIABLES conn,           \* rpc_clnt_connection_t, and rpc_clnt.disabled
          fired,          \* timers whose callback was started
          sock,           \* the socket of the transport
          wire,           \* requests of this connection the server has
          pings,          \* and how many pings
          active,         \* traffic since the ping timer was set
          conf_connected, \* clnt_conf_t.connected
          th,             \* per thread: where it is, what it works on
          answered,       \* per request: how often its callback ran
          hung,           \* the server does not answer
          prog            \* what may still happen

vars == <<conn, fired, sock, wire, pings, active, conf_connected, th, answered,
          hung, prog>>

Handshake == {"dump", "setvolume"}
Frames == Requests \cup Handshake \cup {"ping"}
Threads == Requests \cup {"epoll", "timer", "err", "owner"}
Timers == {"timer", "reconnect", "ping_timer"}

\* requests: the fops that are sent; attached: the run starts with a connection
\* that is set up; breaks: how often a connection is lost or refused; early: how
\* often a connect fails before there is a socket; hang: whether the server may
\* fall silent; slow: whether requests may time out; disable: whether the graph
\* may be torn down.
Program == [requests : SUBSET Requests, attached : BOOLEAN, breaks : Nat,
            early : Nat, hang : BOOLEAN, slow : BOOLEAN,
            disable : BOOLEAN]

ASSUME ProgramsAssumption == Programs \subseteq Program

\* Requests are none of the other frames and run on none of the other threads.
ASSUME NamesAssumption ==
    Requests \cap (Handshake \cup {"ping", "epoll", "timer", "err", "owner"}) = {}

NoFrame == "none"

-----------------------------------------------------------------------------
(* Saved frames.  A lock request is saved on lk_sf, any other on sf.        *)

Saved(c) == Range(c.sf) \cup Range(c.lk_sf)

saved_frames_put(c, x) ==
    IF x \in Locks THEN [c EXCEPT !.lk_sf = Append(@, x)]
                   ELSE [c EXCEPT !.sf = Append(@, x)]

save_frame(c, x) == [saved_frames_put(c, x) EXCEPT !.timer = TRUE]

\* lookup_frame: take the frame of a reply off its list.
saved_frame_get(c, x) ==
    [c EXCEPT !.sf = find_del(@, x), !.lk_sf = find_del(@, x)]

\* How many frames at the head of sf have timed out when call_bail looks: a
\* call that finds none only sets its timer again.  A server that is not silent
\* answers a ping before the much longer frame timeout.
TimedOut(c) ==
    LET heads == {n \in 1..Len(c.sf) :
                    hung \/ "ping" \notin Range(SubSeq(c.sf, 1, n))}
    IN IF heads = {} THEN {0} ELSE heads

-----------------------------------------------------------------------------
(* Timers.  A timer that has fired stays set until somebody cancels it.     *)

Cancel(c, timers) ==
    [c EXCEPT !.timer = @ /\ "timer" \notin timers,
              !.reconnect = @ /\ "reconnect" \notin timers,
              !.ping_timer = IF "ping_timer" \in timers THEN "none" ELSE @]

IsSet(t) ==
    \/ t = "timer" /\ conn.timer
    \/ t = "reconnect" /\ conn.reconnect
    \/ t = "ping_timer" /\ conn.ping_timer # "none"

\* When it may fire.  Unless the server is slow, it answers a request before the
\* frame timeout, and a ping before the ping timeout if it answers at all.
Due(t) ==
    /\ t \notin fired
    /\ \/ prog.slow
       \/ t = "reconnect"
       \/ t = "ping_timer" /\ ( \/ conn.ping_timer = "start"
                                \/ active \/ hung \/ sock # "up" )

\* What the timer calls.
CallbackOf(t) ==
    CASE t = "timer" -> "call_bail"
      [] t = "reconnect" -> "reconnect"
      [] t = "ping_timer" -> IF conn.ping_timer = "start" THEN "start"
                             ELSE "expired"

-----------------------------------------------------------------------------
(* Threads.                                                                 *)

Idle == [pc |-> "idle", arg |-> NoFrame, list |-> <<>>]

At(t, pc) == th[t].pc = pc

Goto(t, pc, x) == th' = [th EXCEPT ![t] = [@ EXCEPT !.pc = pc, !.arg = x]]

Return(t) == th' = [th EXCEPT ![t] = Idle]

Answer(x) ==
    answered' = IF x \in Requests THEN [answered EXCEPT ![x] = @ + 1]
                ELSE answered

\* rpc_clnt_ping_cbk for a ping that was not answered.
PingFailed(c) == [Cancel(c, {"ping_timer"}) EXCEPT !.ping_started = FALSE]

\* A connection that is set up, or rpc_clnt_start, which calls
\* rpc_clnt_reconnect: the model lets the timer thread do it.
Init ==
    /\ prog \in Programs
    /\ conn = [trans |-> TRUE, connected |-> prog.attached, disabled |-> FALSE,
               sf |-> <<>>, lk_sf |-> <<>>, timer |-> FALSE,
               reconnect |-> prog.attached, ping_timer |-> "none",
               ping_started |-> FALSE]
    /\ fired = {}
    /\ sock = IF prog.attached THEN "up" ELSE "closed"
    /\ wire = {}
    /\ pings = 0
    /\ active = prog.attached
    /\ conf_connected = prog.attached
    /\ th = [t \in Threads |->
               IF t \in prog.requests THEN [Idle EXCEPT !.pc = "new"]
               ELSE IF t = "timer" /\ ~prog.attached
                    THEN [Idle EXCEPT !.pc = "reconnect"]
               ELSE Idle]
    /\ answered = [r \in Requests |-> 0]
    /\ hung = FALSE

-----------------------------------------------------------------------------
(* Submitting.                                                              *)

\* socket_connect, called with conn->lock held.  It fails at once when the
\* address cannot be resolved; a thread then reports the disconnection.
EarlyFailures ==
    {FALSE} \cup {f \in {TRUE} : /\ sock = "closed"
                                 /\ prog.early > 0
                                 /\ At("err", "idle")}

socket_connect(fails) ==
    /\ sock' = IF sock = "closed" /\ ~fails THEN "connecting" ELSE sock
    /\ prog' = IF fails THEN [prog EXCEPT !.early = @ - 1] ELSE prog

Spawned(fails) ==
    IF fails THEN [th EXCEPT !["err"].pc = "cleanup"] ELSE th

\* What a silent server gets is not counted.
Send(x) ==
    /\ wire' = IF hung THEN wire ELSE wire \cup ({x} \ {"ping"})
    /\ pings' = IF x = "ping" /\ ~hung THEN pings + 1 ELSE pings

\* client_submit_request: without a connection the fop fails.
client_submit_request(r) ==
    /\ At(r, "new")
    /\ IF conf_connected
       THEN Goto(r, "submit", r) /\ UNCHANGED answered
       ELSE Return(r) /\ Answer(r)
    /\ UNCHANGED <<conn, fired, sock, wire, pings, active, conf_connected, hung,
                   prog>>

\* rpc_clnt_submit, up to the release of conn->lock, and the callback of a
\* request that could not be sent.
rpc_clnt_submit(t) ==
    /\ At(t, "submit")
    /\ \E fails \in EarlyFailures :
         LET x == th[t].arg
             connects == conn.trans /\ ~conn.connected
             sent == conn.trans /\ sock = "up"
         IN /\ fails => connects
            /\ IF connects THEN socket_connect(fails)
                           ELSE UNCHANGED <<sock, prog>>
            /\ conn' = IF sent THEN save_frame(conn, x) ELSE conn
            /\ IF sent THEN Send(x) ELSE UNCHANGED <<wire, pings>>
            /\ IF sent THEN UNCHANGED answered ELSE Answer(x)
            /\ th' = [Spawned(fails) EXCEPT
                        ![t] = IF sent THEN [Idle EXCEPT !.pc = "check"]
                               ELSE IF x = "ping"
                                    THEN [Idle EXCEPT !.pc = "ping_failed"]
                               ELSE Idle]
    /\ UNCHANGED <<fired, active, conf_connected, hung>>

rpc_clnt_check_and_start_ping(t) ==
    /\ At(t, "check")
    /\ IF conn.ping_started THEN Return(t) ELSE Goto(t, "start", NoFrame)
    /\ UNCHANGED <<conn, fired, sock, wire, pings, active, conf_connected, answered,
                   hung, prog>>

\* rpc_clnt_start_ping: as a timer's callback, or after a request was sent.
rpc_clnt_start_ping(t) ==
    LET c == IF conn.ping_timer # "none" THEN PingFailed(conn) ELSE conn
    IN /\ At(t, "start")
       /\ fired' = fired \ {"ping_timer"}
       /\ IF Saved(c) = {} \/ ~c.connected
          THEN /\ conn' = c
               /\ Return(t)
               /\ UNCHANGED active
          ELSE /\ conn' = [c EXCEPT !.ping_timer = "expired",
                                    !.ping_started = TRUE]
               /\ active' = FALSE
               /\ Goto(t, "submit", "ping")
       /\ UNCHANGED <<sock, wire, pings, conf_connected, answered, hung, prog>>

\* rpc_clnt_ping_cbk of a ping that could not be sent.
rpc_clnt_ping_failed(t) ==
    /\ At(t, "ping_failed")
    /\ conn' = PingFailed(conn)
    /\ fired' = fired \ {"ping_timer"}
    /\ Return(t)
    /\ UNCHANGED <<sock, wire, pings, active, conf_connected, answered, hung, prog>>

-----------------------------------------------------------------------------
(* The event thread.                                                        *)

\* socket_connect_finish, and client_rpc_notify (RPC_CLNT_CONNECT), which
\* starts the handshake.  A server that was silent may answer again.
socket_connect_finish ==
    /\ At("epoll", "idle")
    /\ sock = "connecting"
    /\ sock' = "up"
    /\ active' = TRUE
    /\ conf_connected' = TRUE
    /\ hung' \in {FALSE, hung}
    /\ Goto("epoll", "submit", "dump")
    /\ UNCHANGED <<conn, fired, wire, pings, answered, prog>>

\* __socket_reset: what the server has not answered, it never will.
Close == sock' = "closed" /\ wire' = {} /\ pings' = 0

\* socket_event_poll_err: the connection broke, was refused or was shut down.
socket_event_poll_err ==
    /\ At("epoll", "idle")
    /\ \/ sock = "shut" /\ UNCHANGED prog
       \/ /\ sock \in {"connecting", "up"}
          /\ prog.breaks > 0
          /\ prog' = [prog EXCEPT !.breaks = @ - 1]
    /\ Close
    /\ Goto("epoll", "cleanup", NoFrame)
    /\ UNCHANGED <<conn, fired, active, conf_connected, answered, hung>>

\* What a reply nobody waits for does: the handler fails, and with it the
\* connection.
Unexpected ==
    /\ Close
    /\ Goto("epoll", "cleanup", NoFrame)

\* __socket_read_reply and rpc_clnt_handle_reply: the request of a reply is
\* looked up and its callback called, except those of a ping and of setvolume,
\* which take conn->lock again.
rpc_clnt_handle_reply(x) ==
    /\ At("epoll", "idle")
    /\ sock = "up"
    /\ ~hung
    /\ IF x = "ping" THEN pings > 0 ELSE x \in wire
    /\ active' = TRUE
    /\ IF x \in Saved(conn)
       THEN /\ conn' = saved_frame_get(conn, x)
            /\ wire' = wire \ {x}
            /\ pings' = IF x = "ping" THEN pings - 1 ELSE pings
            /\ Answer(x)
            /\ CASE x = "ping" -> Goto("epoll", "ping_cbk", NoFrame)
                 [] x = "dump" -> Goto("epoll", "submit", "setvolume")
                 [] x = "setvolume" -> Goto("epoll", "set_connected", NoFrame)
                 [] OTHER -> Return("epoll")
            /\ UNCHANGED sock
       ELSE Unexpected /\ UNCHANGED <<conn, answered>>
    /\ UNCHANGED <<fired, conf_connected, hung, prog>>

\* The volume is attached: client_setvolume_cbk tells rpc-clnt ...
rpc_clnt_set_connected ==
    /\ At("epoll", "set_connected")
    /\ conn' = [conn EXCEPT !.connected = TRUE]
    /\ Goto("epoll", "attached", NoFrame)
    /\ UNCHANGED <<fired, sock, wire, pings, active, conf_connected, answered, hung,
                   prog>>

\* ... and then itself.
client_setvolume_cbk ==
    /\ At("epoll", "attached")
    /\ conf_connected' = TRUE
    /\ Return("epoll")
    /\ UNCHANGED <<conn, fired, sock, wire, pings, active, answered, hung, prog>>

\* A ping was answered: the next one is due after the ping timeout.
rpc_clnt_ping_cbk ==
    /\ At("epoll", "ping_cbk")
    /\ conn' = [conn EXCEPT !.ping_timer = "start"]
    /\ fired' = fired \ {"ping_timer"}
    /\ Return("epoll")
    /\ UNCHANGED <<sock, wire, pings, active, conf_connected, answered, hung, prog>>

-----------------------------------------------------------------------------
(* The loss of a connection, in the event thread or the error thread.       *)

\* Give the frames of the list back, one step each; an empty list at once.
Unwinding(t, list) ==
    th' = [th EXCEPT ![t] =
             IF list # <<>> THEN [Idle EXCEPT !.pc = "unwind", !.list = list]
             ELSE IF t = "timer" THEN Idle
             ELSE [Idle EXCEPT !.pc = "disconnected"]]

\* Mutant: ping_started is not reset.
CleanupKeepsStarted(t) ==
    /\ At(t, "cleanup")
    /\ conn' = [Cancel(conn, {"timer", "ping_timer"}) EXCEPT
                  !.sf = <<>>, !.lk_sf = <<>>, !.connected = FALSE]
    /\ fired' = fired \ {"timer", "ping_timer"}
    /\ Unwinding(t, conn.lk_sf \o conn.sf)
    /\ UNCHANGED <<sock, wire, pings, active, conf_connected, answered, hung, prog>>

rpc_clnt_connection_cleanup(t) ==
    /\ At(t, "cleanup")
    /\ conn' = [Cancel(conn, {"timer", "ping_timer"}) EXCEPT
                  !.sf = <<>>, !.lk_sf = <<>>, !.connected = FALSE,
                  !.ping_started = @ /\ conn.ping_timer = "none"]
    /\ fired' = fired \ {"timer", "ping_timer"}
    /\ Unwinding(t, conn.lk_sf \o conn.sf)
    /\ UNCHANGED <<sock, wire, pings, active, conf_connected, answered, hung, prog>>

\* One round of saved_frames_unwind, or of the loop of call_bail.
saved_frames_unwind(t) ==
    LET x == Head(th[t].list)
    IN /\ At(t, "unwind")
       /\ Answer(x)
       /\ conn' = IF x = "ping" THEN PingFailed(conn) ELSE conn
       /\ fired' = IF x = "ping" THEN fired \ {"ping_timer"} ELSE fired
       /\ Unwinding(t, Tail(th[t].list))
       /\ UNCHANGED <<sock, wire, pings, active, conf_connected, hung, prog>>

\* Mutant: the timer is left as it is.
NotifyNoTimer(t) ==
    /\ At(t, "disconnected")
    /\ Goto(t, "notify", NoFrame)
    /\ UNCHANGED <<conn, fired, sock, wire, pings, active, conf_connected,
                   answered, hung, prog>>

\* The rest of RPC_TRANSPORT_DISCONNECT: set the timer to reconnect ...
rpc_clnt_notify_disconnect(t) ==
    /\ At(t, "disconnected")
    /\ conn' = [conn EXCEPT !.reconnect = @ \/ ~conn.disabled]
    /\ Goto(t, "notify", NoFrame)
    /\ UNCHANGED <<fired, sock, wire, pings, active, conf_connected, answered, hung,
                   prog>>

\* ... and tell protocol/client.
client_disconnected(t) ==
    /\ At(t, "notify")
    /\ conf_connected' = FALSE
    /\ Return(t)
    /\ UNCHANGED <<conn, fired, sock, wire, pings, active, answered, hung, prog>>

-----------------------------------------------------------------------------
(* The timer thread.                                                        *)

\* gf_timer_proc takes a timer that is due and calls its function.  All but
\* rpc_clnt_start_ping first look for a transport.
gf_timer_proc(t) ==
    /\ At("timer", "idle")
    /\ IsSet(t)
    /\ Due(t)
    /\ fired' = fired \cup {t}
    /\ IF conn.trans \/ CallbackOf(t) = "start"
       THEN Goto("timer", CallbackOf(t), NoFrame)
       ELSE Return("timer")
    /\ UNCHANGED <<conn, sock, wire, pings, active, conf_connected, answered, hung,
                   prog>>

\* Mutant: the frames that timed out stay saved.
BailKeeps(n) ==
    /\ At("timer", "call_bail")
    /\ fired' = fired \ {"timer"}
    /\ Unwinding("timer", moved(SubSeq(conn.sf, 1, n)))
    /\ UNCHANGED <<conn, sock, wire, pings, active, conf_connected, answered,
                   hung, prog>>

\* Mutant: the timer is not set again.
BailOnce(n) ==
    /\ At("timer", "call_bail")
    /\ conn' = [conn EXCEPT !.sf = SubSeq(@, n + 1, Len(@))]
    /\ Unwinding("timer", moved(SubSeq(conn.sf, 1, n)))
    /\ UNCHANGED <<fired, sock, wire, pings, active, conf_connected, answered,
                   hung, prog>>

\* call_bail sets its timer again and takes the first n frames, timed out.
call_bail(n) ==
    /\ At("timer", "call_bail")
    /\ conn' = [conn EXCEPT !.sf = SubSeq(@, n + 1, Len(@))]
    /\ fired' = fired \ {"timer"}
    /\ Unwinding("timer", moved(SubSeq(conn.sf, 1, n)))
    /\ UNCHANGED <<sock, wire, pings, active, conf_connected, answered, hung, prog>>

rpc_clnt_reconnect ==
    /\ At("timer", "reconnect")
    /\ \E fails \in EarlyFailures :
         LET connects == conn.trans /\ ~conn.connected /\ ~conn.disabled
         IN /\ fails => connects
            /\ IF connects THEN socket_connect(fails)
                           ELSE UNCHANGED <<sock, prog>>
            /\ conn' = IF conn.trans THEN [conn EXCEPT !.reconnect = connects]
                       ELSE conn
            /\ fired' = IF conn.trans THEN fired \ {"reconnect"} ELSE fired
            /\ th' = [Spawned(fails) EXCEPT !["timer"] = Idle]
    /\ UNCHANGED <<wire, pings, active, conf_connected, answered, hung>>

\* With traffic since the timer was set it waits once more; without it gives
\* the connection up.
rpc_clnt_ping_timer_expired ==
    /\ At("timer", "expired")
    /\ fired' = fired \ {"ping_timer"}
    /\ active' = FALSE
    /\ IF active
       THEN /\ conn' = [conn EXCEPT !.ping_timer = "expired"]
            /\ Return("timer")
       ELSE /\ conn' = PingFailed(conn)
            /\ Goto("timer", "disconnect", NoFrame)
    /\ UNCHANGED <<sock, wire, pings, conf_connected, answered, hung, prog>>

\* __socket_disconnect: the event thread will see the error.
Shut == sock' = IF sock = "closed" THEN sock ELSE "shut"

\* rpc_transport_disconnect, of conn->trans as it is now.
PingDisconnect ==
    /\ At("timer", "disconnect")
    /\ IF conn.trans THEN Shut ELSE UNCHANGED sock
    /\ Return("timer")
    /\ UNCHANGED <<conn, fired, wire, pings, active, conf_connected, answered, hung,
                   prog>>

-----------------------------------------------------------------------------
(* The owner, the server and the network.                                   *)

\* rpc_clnt_disable: the graph is no longer active (GF_EVENT_PARENT_DOWN).
rpc_clnt_disable ==
    /\ prog.disable
    /\ At("owner", "idle")
    /\ ~conn.disabled
    /\ conn' = [Cancel(conn, Timers) EXCEPT
                  !.disabled = TRUE, !.connected = FALSE, !.trans = FALSE,
                  !.ping_started = @ /\ conn.ping_timer = "none"]
    /\ fired' = {}
    /\ Goto("owner", "disconnect", NoFrame)
    /\ UNCHANGED <<sock, wire, pings, active, conf_connected, answered, hung, prog>>

DisableDisconnect ==
    /\ At("owner", "disconnect")
    /\ Shut
    /\ Return("owner")
    /\ UNCHANGED <<conn, fired, wire, pings, active, conf_connected, answered, hung,
                   prog>>

\* The server stops answering, without its host closing the connection.
Hang ==
    /\ prog.hang /\ ~hung
    /\ hung' = TRUE
    /\ wire' = {} /\ pings' = 0
    /\ UNCHANGED <<conn, fired, sock, active, conf_connected, th,
                   answered, prog>>

-----------------------------------------------------------------------------

\* A step of a thread that has begun something.
Work(t) ==
    \/ rpc_clnt_submit(t)
    \/ rpc_clnt_check_and_start_ping(t)
    \/ rpc_clnt_start_ping(t)
    \/ rpc_clnt_ping_failed(t)
    \/ rpc_clnt_connection_cleanup(t)
    \/ saved_frames_unwind(t)
    \/ rpc_clnt_notify_disconnect(t)
    \/ client_disconnected(t)
    \/ t = "epoll" /\ ( \/ rpc_clnt_ping_cbk
                        \/ rpc_clnt_set_connected
                        \/ client_setvolume_cbk )
    \/ t = "timer" /\ ( \/ \E n \in TimedOut(conn) : call_bail(n)
                        \/ rpc_clnt_reconnect
                        \/ rpc_clnt_ping_timer_expired
                        \/ PingDisconnect )
    \/ t = "owner" /\ DisableDisconnect

Next ==
    \/ \E r \in Requests : client_submit_request(r)
    \/ \E t \in Threads : Work(t)
    \/ socket_connect_finish
    \/ socket_event_poll_err
    \/ \E x \in Frames : rpc_clnt_handle_reply(x)
    \/ \E t \in Timers : gf_timer_proc(t)
    \/ rpc_clnt_disable
    \/ Hang

Spec == Init /\ [][Next]_vars

\* Threads go on, the event thread sees that a socket was shut down, a server
\* that is not silent answers pings, and call_bail is called again and again.
Fairness ==
    /\ \A t \in Threads : WF_vars(Work(t))
    /\ WF_vars(sock = "shut" /\ socket_event_poll_err)
    /\ WF_vars(rpc_clnt_handle_reply("ping"))
    /\ SF_vars(gf_timer_proc("timer"))

FairSpec == Spec /\ Fairness

-----------------------------------------------------------------------------

\* Type invariant: lock requests are saved on lk_sf and the others on sf
\* (saved_frames_put), a fired timer is one that is set, and requests are on the
\* wire only of a socket that is up or was just shut down.
TypeOK ==
    /\ conn.trans \in BOOLEAN /\ conn.connected \in BOOLEAN
    /\ conn.disabled \in BOOLEAN /\ conn.ping_started \in BOOLEAN
    /\ conn.timer \in BOOLEAN /\ conn.reconnect \in BOOLEAN
    /\ conn.ping_timer \in {"none", "start", "expired"}
    /\ Range(conn.sf) \subseteq Frames \ Locks
    /\ Range(conn.lk_sf) \subseteq Locks
    /\ \A t \in fired : t \in Timers /\ IsSet(t)
    /\ sock \in {"closed", "connecting", "up", "shut"}
    /\ wire \subseteq Frames
    /\ wire # {} => sock \in {"up", "shut"}
    /\ answered \in [Requests -> Nat]

Spots(l, r) == {i \in DOMAIN l : l[i] = r}

\* The places of a request that will still be answered: saved with the connection,
\* being submitted by a thread, or on the list of a thread that unwinds it.
Places(r) ==
    {<<"sf", i>> : i \in Spots(conn.sf, r)}
    \cup {<<"lk_sf", i>> : i \in Spots(conn.lk_sf, r)}
    \cup {<<"submit", t>> : t \in {u \in Threads : th[u].pc = "submit" /\ th[u].arg = r}}
    \cup UNION {{<<t, i>> : i \in Spots(th[t].list, r)} : t \in Threads}

\* A request is answered once: by its reply, the frame timeout (call_bail), the
\* loss of the connection (saved_frames_unwind) or the failure to send it
\* (rpc_clnt_submit), whichever comes first, and until then exactly one of the
\* lists and threads has it.
AnsweredOnce ==
    \A r \in prog.requests : ~At(r, "new") =>
        \/ answered[r] = 1 /\ Places(r) = {}
        \/ answered[r] = 0 /\ \E p \in Places(r) : Places(r) = {p}

Leaving == {"cleanup", "unwind", "disconnected"}

\* A client that lost its connection never stops trying: while there is no
\* socket, the timer of rpc_clnt_reconnect is set, or a thread is on the way to
\* set it (RPC_TRANSPORT_DISCONNECT), unless the connection is disabled.
KeepsTrying ==
    \/ conn.disabled
    \/ sock # "closed"
    \/ conn.reconnect \/ At("timer", "reconnect")
    \/ th["epoll"].pc \in Leaving \/ th["err"].pc \in Leaving

\* Saved requests have the timer of call_bail, however the loss of a connection,
\* the timers and the submissions interleave; and ping_started, which keeps
\* rpc_clnt_check_and_start_ping from starting pings, implies a ping timer.
Guarded ==
    /\ Saved(conn) # {} => conn.timer \/ conn.disabled
    /\ conn.ping_started => conn.ping_timer # "none"

\* A request that is not a lock request is answered in the end, whether or not
\* the server is silent, the connection breaks or is disabled: the frame timeout
\* is the last resort (call_bail).
Answered ==
    \A r \in Requests \ Locks :
        (prog.slow /\ r \in prog.requests /\ ~At(r, "new")) ~> answered[r] = 1

\* The comment in client_submit_request: no fop is sent to the server before
\* the handshake (setvolume) succeeded on this connection.
SentAttached ==
    \A r \in Requests : r \in wire /\ sock = "up" => conn.connected

=============================================================================
