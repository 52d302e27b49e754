--------------------------- MODULE RpcClntProofs ----------------------------
(***************************************************************************)
(* Proofs about RpcClnt, for any requests and any programs: its types,     *)
(* that saved requests and started pings are guarded by a timer, and that  *)
(* a client without a connection keeps trying.                             *)
(***************************************************************************)
EXTENDS RpcClnt, RpcLists

-----------------------------------------------------------------------------
(* Types.                                                                  *)

PCs == {"idle", "new", "submit", "check", "start", "ping_failed", "cleanup",
        "ping_cbk", "unwind", "disconnected", "notify", "call_bail", "reconnect",
        "expired", "disconnect", "set_connected", "attached"}

Conn == [trans : BOOLEAN, connected : BOOLEAN, disabled : BOOLEAN,
         sf : Seq(Frames), lk_sf : Seq(Frames), timer : BOOLEAN,
         reconnect : BOOLEAN, ping_timer : {"none", "start", "expired"},
         ping_started : BOOLEAN]

Thread == [pc : PCs, arg : Frames \cup {NoFrame}, list : Seq(Frames)]

\* What a thread works on: a frame it submits, or frames it gives back.
ThreadsOK ==
    /\ th \in [Threads -> Thread]
    /\ \A t \in Threads : /\ th[t].pc = "submit" => th[t].arg \in Frames
                          /\ th[t].pc = "unwind" <=> th[t].list # <<>>

ConnOK ==
    /\ conn \in Conn
    /\ Range(conn.sf) \subseteq Frames \ Locks
    /\ Range(conn.lk_sf) \subseteq Locks

ProgOK == prog \in Program

WireOK ==
    /\ sock \in {"closed", "connecting", "up", "shut"}
    /\ wire \subseteq Frames
    /\ wire # {} => sock \in {"up", "shut"}
    /\ answered \in [Requests -> Nat]

FiredOK == \A t \in fired : t \in Timers /\ IsSet(t)

\* A connection that is disabled has lost its transport; one that counts as set
\* up without a socket is about to be cleaned up, and none is set up without one.
TransOK ==
    /\ conn.trans <=> ~conn.disabled
    /\ conn.connected /\ sock = "closed" => At("epoll", "cleanup")
    /\ At("epoll", "set_connected") => sock # "closed"

ClntInv == /\ ThreadsOK /\ ConnOK /\ ProgOK /\ WireOK /\ FiredOK /\ TransOK
           /\ Guarded /\ KeepsTrying

-----------------------------------------------------------------------------
(* Threads.                                                                 *)

\* What a thread that changes may look like, so that ThreadsOK is kept.
Sound(v) ==
    /\ v \in Thread
    /\ v.pc = "submit" => v.arg \in Frames
    /\ v.pc = "unwind" <=> v.list # <<>>

\* One thread changes.
LEMMA OneThread ==
    ASSUME ThreadsOK, NEW t \in Threads, NEW v, Sound(v), th' = [th EXCEPT ![t] = v]
    PROVE  ThreadsOK' /\ th'[t] = v /\ \A u \in Threads \ {t} : th'[u] = th[u]
  BY DEF ThreadsOK, Sound

\* A thread that is idle.
LEMMA IdleThread ==
    /\ Sound(Idle) /\ Idle.pc = "idle" /\ Idle.list = <<>> /\ Range(Idle.list) = {}
    /\ \A pc \in PCs \ {"submit", "unwind"} :
         /\ Sound([Idle EXCEPT !.pc = pc])
         /\ [Idle EXCEPT !.pc = pc].pc = pc
         /\ [Idle EXCEPT !.pc = pc].list = <<>>
<1>1. <<>> \in Seq(Frames) /\ Range(<<>>) = {}
  BY DEF Range
<1> QED
  BY <1>1, ZenonT(30) DEF Idle, Sound, Thread, PCs

\* A thread returns.
LEMMA ReturnThread ==
    ASSUME ThreadsOK, NEW t \in Threads, Return(t)
    PROVE  /\ ThreadsOK' /\ th'[t] = Idle /\ th'[t].pc = "idle"
           /\ \A u \in Threads \ {t} : th'[u] = th[u]
<1>1. th' = [th EXCEPT ![t] = Idle]
  BY DEF Return
<1> QED
  BY <1>1, IdleThread, OneThread, ZenonT(30)

\* A thread goes on to its next step.
LEMMA GotoThread ==
    ASSUME ThreadsOK, NEW t \in Threads, NEW pc \in PCs \ {"unwind"},
           NEW x \in Frames \cup {NoFrame}, pc = "submit" => x \in Frames,
           th[t].pc # "unwind", Goto(t, pc, x)
    PROVE  /\ ThreadsOK'
           /\ th'[t].pc = pc /\ th'[t].arg = x /\ th'[t].list = <<>>
           /\ \A u \in Threads \ {t} : th'[u] = th[u]
<1> PICK v : v = [th[t] EXCEPT !.pc = pc, !.arg = x]
  OBVIOUS
<1>1. th' = [th EXCEPT ![t] = v]
  BY DEF Goto
<1>2. th[t] \in Thread /\ th[t].list = <<>>
  BY DEF ThreadsOK
<1>3. v \in Thread /\ v.pc = pc /\ v.arg = x /\ v.list = <<>>
  BY <1>2, ZenonT(30) DEF Thread
<1>4. Sound(v)
  BY <1>3 DEF Sound
<1> QED
  BY <1>1, <1>3, <1>4, OneThread, ZenonT(30)

\* A thread goes on to give the frames of a list back.
LEMMA UnwindThread ==
    ASSUME ThreadsOK, NEW t \in Threads, NEW l \in Seq(Frames), Unwinding(t, l)
    PROVE  /\ ThreadsOK'
           /\ l # <<>> => th'[t].pc = "unwind"
           /\ l = <<>> => th'[t].pc = IF t = "timer" THEN "idle" ELSE "disconnected"
           /\ th'[t].list = l
           /\ \A u \in Threads \ {t} : th'[u] = th[u]
<1> PICK v : v = IF l # <<>> THEN [Idle EXCEPT !.pc = "unwind", !.list = l]
                 ELSE IF t = "timer" THEN Idle
                 ELSE [Idle EXCEPT !.pc = "disconnected"]
  BY ZenonT(30)
<1>1. th' = [th EXCEPT ![t] = v]
  BY DEF Unwinding
<1>2. /\ v \in Thread /\ v.list = l /\ v.pc # "submit"
      /\ l # <<>> => v.pc = "unwind"
      /\ l = <<>> => v.pc = IF t = "timer" THEN "idle" ELSE "disconnected"
  BY ZenonT(30) DEF Idle, Thread, PCs
<1>3. Sound(v)
  BY <1>2 DEF Sound
<1> QED
  BY <1>1, <1>2, <1>3, OneThread, ZenonT(30)

\* A thread goes on, and the connect it tried may have started the error thread.
Spawns(t, v, fails) ==
    /\ ThreadsOK' /\ th'[t] = v
    /\ \A u \in Threads \ {t} :
         \/ th'[u] = th[u]
         \/ /\ fails = TRUE /\ u = "err" /\ th[u].pc = "idle" /\ th'[u].pc = "cleanup"
            /\ th[u].list = <<>> /\ th'[u].list = <<>>

\* That is what rpc_clnt_submit and rpc_clnt_reconnect do to the threads.
LEMMA SpawnThread ==
    ASSUME ThreadsOK, NEW t \in Threads, NEW v, Sound(v), NEW fails \in EarlyFailures,
           th[t].pc # "idle", th' = [Spawned(fails) EXCEPT ![t] = v]
    PROVE  Spawns(t, v, fails)
<1>3. fails \in BOOLEAN
  BY ZenonT(30) DEF EarlyFailures
<1>1. CASE ~fails
  BY <1>1, OneThread, ZenonT(30) DEF Spawned, Spawns
<1>2. CASE fails
  <2> PICK w : w = [th["err"] EXCEPT !.pc = "cleanup"]
    BY ZenonT(30)
  <2>1. "err" \in Threads /\ th["err"].pc = "idle" /\ t # "err"
    BY <1>2 DEF EarlyFailures, At, Threads
  <2>2. th["err"] \in Thread /\ th["err"].list = <<>>
    BY <2>1 DEF ThreadsOK
  <2>3. w \in Thread /\ w.pc = "cleanup" /\ w.list = <<>>
    BY <2>2 DEF Thread, PCs
  <2>4. th' = [[th EXCEPT !["err"] = w] EXCEPT ![t] = v]
    BY <1>2 DEF Spawned
  <2>5. /\ th' \in [Threads -> Thread]
        /\ th'[t] = v /\ th'["err"] = w
        /\ \A u \in Threads \ {t, "err"} : th'[u] = th[u]
    <3> USE ZenonT(30)
    <3>1. PICK E : E = [th EXCEPT !["err"] = w] OBVIOUS
    <3>2. E \in [Threads -> Thread] /\ E["err"] = w /\ \A u \in Threads \ {"err"} : E[u] = th[u]
      BY <2>1, <2>3, <3>1, SMTT(30) DEF ThreadsOK
    <3>3. th' = [E EXCEPT ![t] = v] /\ v \in Thread
      BY <2>4, <3>1 DEF Sound
    <3> QED
      BY <2>1, <3>2, <3>3
  <2>6. ThreadsOK'
    <3>1. ASSUME NEW u \in Threads
          PROVE  /\ th'[u].pc = "submit" => th'[u].arg \in Frames
                 /\ th'[u].pc = "unwind" <=> th'[u].list # <<>>
      <4>1. CASE u = t
        BY <2>5, <4>1 DEF Sound
      <4>2. CASE u = "err"
        BY <2>3, <2>5, <4>2, ZenonT(30)
      <4>3. CASE u \notin {t, "err"}
        BY <2>5, <4>3 DEF ThreadsOK
      <4> QED
        BY <4>1, <4>2, <4>3
    <3> QED
      BY <2>5, <3>1, ZenonT(30) DEF ThreadsOK
  <2>7. ASSUME NEW u \in Threads \ {t}
        PROVE  \/ th'[u] = th[u]
               \/ /\ fails = TRUE /\ u = "err" /\ th[u].pc = "idle" /\ th'[u].pc = "cleanup"
                  /\ th[u].list = <<>> /\ th'[u].list = <<>>
    <3>1. CASE u = "err"
      BY <1>2, <1>3, <2>1, <2>2, <2>3, <2>5, <3>1, ZenonT(30)
    <3>2. CASE u # "err"
      BY <2>5, <3>2
    <3> QED
      BY <3>1, <3>2, ZenonT(30)
  <2> QED
    BY <2>5, <2>6, <2>7, ZenonT(30) DEF Spawns
<1> QED
  BY <1>1, <1>2, <1>3

-----------------------------------------------------------------------------
(* The connection.                                                          *)

\* Nothing changes but the saved frames and the timers.
SameTransport(c, d) ==
    d.trans = c.trans /\ d.connected = c.connected /\ d.disabled = c.disabled

SameTimers(c, d) ==
    /\ d.timer = c.timer /\ d.reconnect = c.reconnect
    /\ d.ping_timer = c.ping_timer /\ d.ping_started = c.ping_started

SameSaved(c, d) == d.sf = c.sf /\ d.lk_sf = c.lk_sf

\* What rpc_clnt_ping_cbk does for a ping that was not answered.
PingFails(c, d) ==
    /\ d \in Conn /\ SameTransport(c, d) /\ SameSaved(c, d)
    /\ d.timer = c.timer /\ d.reconnect = c.reconnect
    /\ d.ping_timer = "none" /\ d.ping_started = FALSE

\* PingFailed does that.
LEMMA PingFailedFacts ==
    ASSUME NEW c \in Conn, NEW d, d = PingFailed(c)
    PROVE  PingFails(c, d)
<1>1. d = [c EXCEPT !.timer = c.timer /\ "timer" \notin {"ping_timer"},
                    !.reconnect = c.reconnect /\ "reconnect" \notin {"ping_timer"},
                    !.ping_timer = "none", !.ping_started = FALSE]
  BY DEF PingFailed, Cancel, Conn
<1> QED
  BY <1>1, ZenonT(30) DEF Conn, SameTransport, SameSaved, PingFails

\* Frame x is saved.
Saves(c, x, d) ==
    /\ d \in Conn /\ SameTransport(c, d) /\ d.timer = TRUE
    /\ d.reconnect = c.reconnect /\ d.ping_timer = c.ping_timer
    /\ d.ping_started = c.ping_started
    /\ x \in Locks => d.sf = c.sf /\ d.lk_sf = Append(c.lk_sf, x)
    /\ x \notin Locks => d.sf = Append(c.sf, x) /\ d.lk_sf = c.lk_sf

\* save_frame does that.
LEMMA SaveFacts ==
    ASSUME NEW c \in Conn, NEW x \in Frames, NEW d, d = save_frame(c, x)
    PROVE  Saves(c, x, d)
<1>1. c.sf \in Seq(Frames) /\ c.lk_sf \in Seq(Frames)
  BY DEF Conn
<1>2. Append(c.sf, x) \in Seq(Frames) /\ Append(c.lk_sf, x) \in Seq(Frames)
  BY <1>1
<1>3. CASE x \in Locks
  <2>1. d = [c EXCEPT !.lk_sf = Append(c.lk_sf, x), !.timer = TRUE]
    BY <1>3 DEF save_frame, saved_frames_put, Conn
  <2> QED
    BY <1>2, <1>3, <2>1, ZenonT(30) DEF Conn, SameTransport, Saves
<1>4. CASE x \notin Locks
  <2>1. d = [c EXCEPT !.sf = Append(c.sf, x), !.timer = TRUE]
    BY <1>4 DEF save_frame, saved_frames_put, Conn
  <2> QED
    BY <1>2, <1>4, <2>1, ZenonT(30) DEF Conn, SameTransport, Saves
<1> QED
  BY <1>3, <1>4

\* The frame of a reply is taken off its list.
Takes(c, x, d) ==
    /\ d \in Conn /\ SameTransport(c, d) /\ SameTimers(c, d)
    /\ d.sf = find_del(c.sf, x) /\ d.lk_sf = find_del(c.lk_sf, x)
    /\ Range(d.sf) \subseteq Range(c.sf) /\ Range(d.lk_sf) \subseteq Range(c.lk_sf)

\* saved_frame_get does that.
LEMMA GetFacts ==
    ASSUME NEW c \in Conn, NEW x, NEW d, d = saved_frame_get(c, x)
    PROVE  Takes(c, x, d)
<1>1. c.sf \in Seq(Frames) /\ c.lk_sf \in Seq(Frames)
  BY DEF Conn
<1>2. OnceIn(c.sf, {}) /\ OnceIn(c.lk_sf, {})
  BY DEF OnceIn
<1> PICK s, l : s = find_del(c.sf, x) /\ l = find_del(c.lk_sf, x)
  OBVIOUS
<1>3. /\ s \in Seq(Frames) /\ l \in Seq(Frames)
      /\ Range(s) \subseteq Range(c.sf) /\ Range(l) \subseteq Range(c.lk_sf)
  BY <1>1, <1>2, FindDelOnce, ZenonT(30)
<1>4. d = [c EXCEPT !.sf = s, !.lk_sf = l]
  BY DEF saved_frame_get, Conn
<1> QED
  BY <1>3, <1>4, ZenonT(30) DEF Conn, SameTransport, SameTimers, Takes

\* What the loss of a connection does to it.
Cleans(c, d) ==
    /\ d \in Conn /\ d.trans = c.trans /\ d.disabled = c.disabled
    /\ d.connected = FALSE /\ d.sf = <<>> /\ d.lk_sf = <<>>
    /\ d.timer = FALSE /\ d.reconnect = c.reconnect
    /\ d.ping_timer = "none" /\ d.ping_started = FALSE

\* rpc_clnt_connection_cleanup does that.
LEMMA CleanupFacts ==
    ASSUME NEW c \in Conn, NEW d, c.ping_started => c.ping_timer # "none",
           d = [Cancel(c, {"timer", "ping_timer"}) EXCEPT
                  !.sf = <<>>, !.lk_sf = <<>>, !.connected = FALSE,
                  !.ping_started = @ /\ c.ping_timer = "none"]
    PROVE  Cleans(c, d)
<1>1. d = [c EXCEPT !.timer = FALSE, !.reconnect = c.reconnect /\ TRUE,
                    !.ping_timer = "none", !.sf = <<>>, !.lk_sf = <<>>,
                    !.connected = FALSE, !.ping_started = FALSE]
  BY ZenonT(30) DEF Cancel, Conn
<1>2. <<>> \in Seq(Frames)
  OBVIOUS
<1> QED
  BY <1>1, <1>2, ZenonT(30) DEF Conn, Cleans

\* What disabling a connection does to it.
Disables(c, d) ==
    /\ d \in Conn /\ d.trans = FALSE /\ d.disabled = TRUE
    /\ d.connected = FALSE /\ SameSaved(c, d)
    /\ d.ping_timer = "none" /\ d.ping_started = FALSE

\* rpc_clnt_disable does that.
LEMMA DisableFacts ==
    ASSUME NEW c \in Conn, NEW d, c.ping_started => c.ping_timer # "none",
           d = [Cancel(c, Timers) EXCEPT
                  !.disabled = TRUE, !.connected = FALSE, !.trans = FALSE,
                  !.ping_started = @ /\ c.ping_timer = "none"]
    PROVE  Disables(c, d)
<1> USE ZenonT(30)
<1>1. d = [c EXCEPT !.timer = FALSE, !.reconnect = FALSE, !.ping_timer = "none",
                    !.disabled = TRUE, !.connected = FALSE, !.trans = FALSE,
                    !.ping_started = FALSE]
  BY DEF Cancel, Conn, Timers
<1> QED
  BY <1>1 DEF Conn, SameSaved, Disables

\* What call_bail does to the frames saved on sf.
LEMMA BailFacts ==
    ASSUME NEW n \in TimedOut(conn), conn \in Conn,
           conn' = [conn EXCEPT !.sf = SubSeq(@, n + 1, Len(@))]
    PROVE  /\ n \in 0..Len(conn.sf)
           /\ conn' \in Conn /\ SameTransport(conn, conn') /\ SameTimers(conn, conn')
           /\ conn'.sf = SubSeq(conn.sf, n + 1, Len(conn.sf))
           /\ conn'.lk_sf = conn.lk_sf
           /\ Range(conn'.sf) \subseteq Range(conn.sf)
           /\ moved(SubSeq(conn.sf, 1, n)) \in Seq(Frames)
<1>1. conn.sf \in Seq(Frames) /\ Len(conn.sf) \in Nat
  BY LenFacts DEF Conn
<1>2. n \in 0..Len(conn.sf)
  <2> PICK heads : heads = {m \in 1..Len(conn.sf) :
                              hung \/ "ping" \notin Range(SubSeq(conn.sf, 1, m))}
    BY ZenonT(30)
  <2>1. n \in IF heads = {} THEN {0} ELSE heads
    BY DEF TimedOut
  <2>2. heads \subseteq 1..Len(conn.sf)
    OBVIOUS
  <2> HIDE DEF TimedOut
  <2> QED
    BY <1>1, <2>1, <2>2
<1> PICK s, l : s = SubSeq(conn.sf, n + 1, Len(conn.sf)) /\ l = SubSeq(conn.sf, 1, n)
  BY ZenonT(30)
<1>3. OnceIn(conn.sf, {})
  BY DEF OnceIn
<1>4. s \in Seq(Frames) /\ l \in Seq(Frames) /\ OnceIn(l, {})
      /\ Range(conn.sf) = Range(l) \cup Range(s)
  BY <1>1, <1>2, <1>3, SplitOnce
<1>5. moved(l) \in Seq(Frames)
  BY <1>4, MovedList, ZenonT(30)
<1>6. conn' = [conn EXCEPT !.sf = s]
  OBVIOUS
<1> QED
  BY <1>2, <1>4, <1>5, <1>6, ZenonT(30) DEF Conn, SameTransport, SameTimers

-----------------------------------------------------------------------------
(* The steps keep ClntInv.                                                  *)

\* Threads, requests and the frames of the handshake have names of their own.
LEMMA ThreadNames ==
    /\ {"epoll", "timer", "err", "owner"} \subseteq Threads
    /\ \A r \in Requests : /\ r \notin {"epoll", "timer", "err", "owner"}
                           /\ r \in Threads /\ r \in Frames /\ r # "ping"
                           /\ r \notin Handshake
  BY NamesAssumption DEF Threads, Frames, Handshake

\* Counting an answer.
LEMMA AnswerType ==
    ASSUME answered \in [Requests -> Nat], NEW x, Answer(x)
    PROVE  answered' \in [Requests -> Nat]
<1>1. CASE x \in Requests
  BY <1>1, NatCounterType DEF Answer
<1>2. CASE x \notin Requests
  BY <1>2 DEF Answer
<1> QED
  BY <1>1, <1>2

\* A step of one thread that touches at most the ping timer, and takes frames off
\* the lists of saved frames.
SmallStep(t) ==
    /\ conn' \in Conn /\ SameTransport(conn, conn')
    /\ Range(conn'.sf) \subseteq Range(conn.sf)
    /\ Range(conn'.lk_sf) \subseteq Range(conn.lk_sf)
    /\ conn'.timer = conn.timer /\ conn'.reconnect = conn.reconnect
    /\ conn'.ping_started => conn'.ping_timer # "none"
    /\ fired' \subseteq fired
    /\ conn'.ping_timer = "none" => conn.ping_timer = "none" \/ "ping_timer" \notin fired'
    /\ UNCHANGED <<sock, wire, prog>>
    /\ ThreadsOK' /\ answered' \in [Requests -> Nat]
    /\ \A u \in Threads \ {t} : th'[u] = th[u]
    /\ th[t].pc \notin {"cleanup", "reconnect"} /\ (t = "epoll" => th'[t].pc # "set_connected")
    /\ th[t].pc \in Leaving => th'[t].pc \in Leaving \/ t \notin {"epoll", "err"}

\* Such a step keeps the invariant.
LEMMA SmallStepInv ==
    ASSUME ClntInv, NEW t \in Threads, SmallStep(t)
    PROVE  ClntInv'
<1>1. ConnOK' /\ ProgOK' /\ WireOK'
  BY DEF ClntInv, ConnOK, ProgOK, WireOK, SmallStep
<1>2. FiredOK'
  BY DEF ClntInv, FiredOK, IsSet, SmallStep
<1>3. Guarded'
  BY DEF ClntInv, Guarded, Saved, SmallStep, SameTransport
<1>4. TransOK' /\ KeepsTrying'
  BY ThreadNames DEF ClntInv, TransOK, KeepsTrying, At, Leaving, SmallStep, SameTransport
<1> QED
  BY <1>1, <1>2, <1>3, <1>4 DEF ClntInv, SmallStep

\* In particular one that leaves the connection alone.
LEMMA QuietInv ==
    ASSUME ClntInv, UNCHANGED <<conn, fired, sock, wire, prog>>, ThreadsOK',
           answered' \in [Requests -> Nat],
           NEW t \in Threads, \A u \in Threads \ {t} : th'[u] = th[u],
           th[t].pc \notin Leaving \cup {"reconnect"}, th'[t].pc # "set_connected"
    PROVE  ClntInv'
<1>1. SmallStep(t)
  BY DEF SmallStep, ClntInv, ConnOK, Guarded, Leaving, SameTransport
<1> QED
  BY <1>1, SmallStepInv

\* client_submit_request.
LEMMA SubmitRequestInv ==
    ASSUME ClntInv, NEW r \in Requests, client_submit_request(r)
    PROVE  ClntInv'
<1>1. /\ ThreadsOK /\ r \in Threads /\ th[r].pc = "new" /\ r \in Frames
      /\ th[r].pc \notin Leaving \cup {"reconnect"}
      /\ answered \in [Requests -> Nat]
  BY ThreadNames DEF ClntInv, client_submit_request, At, WireOK, Leaving
<1>2. CASE conf_connected
  <2>1. Goto(r, "submit", r) /\ UNCHANGED answered
    BY <1>2 DEF client_submit_request
  <2>2. /\ ThreadsOK' /\ \A u \in Threads \ {r} : th'[u] = th[u]
        /\ th'[r].pc # "set_connected"
    BY <1>1, <2>1, GotoThread DEF PCs
  <2> QED
    BY <1>1, <2>1, <2>2, QuietInv DEF client_submit_request
<1>3. CASE ~conf_connected
  <2>1. Return(r) /\ Answer(r)
    BY <1>3 DEF client_submit_request
  <2>2. /\ ThreadsOK' /\ \A u \in Threads \ {r} : th'[u] = th[u]
        /\ th'[r].pc # "set_connected"
    BY <1>1, <2>1, ReturnThread
  <2>3. answered' \in [Requests -> Nat]
    BY <1>1, <2>1, AnswerType
  <2> QED
    BY <1>1, <2>2, <2>3, QuietInv DEF client_submit_request
<1> QED
  BY <1>2, <1>3

\* rpc_clnt_check_and_start_ping.
LEMMA CheckInv ==
    ASSUME ClntInv, NEW t \in Threads, rpc_clnt_check_and_start_ping(t)
    PROVE  ClntInv'
<1>1. /\ ThreadsOK /\ th[t].pc = "check" /\ NoFrame \in Frames \cup {NoFrame}
      /\ th[t].pc \notin Leaving \cup {"reconnect"}
      /\ answered' \in [Requests -> Nat]
  BY DEF ClntInv, rpc_clnt_check_and_start_ping, At, WireOK, Leaving
<1>2. Return(t) \/ Goto(t, "start", NoFrame)
  BY DEF rpc_clnt_check_and_start_ping
<1>3. /\ ThreadsOK' /\ \A u \in Threads \ {t} : th'[u] = th[u]
      /\ th'[t].pc # "set_connected"
  <2>1. CASE Return(t)
    BY <1>1, <2>1, ReturnThread
  <2>2. CASE Goto(t, "start", NoFrame)
    <3>1. ThreadsOK' /\ th'[t].pc = "start" /\ \A u \in Threads \ {t} : th'[u] = th[u]
      BY <1>1, <2>2, GotoThread, ZenonT(30) DEF PCs
    <3> QED
      BY <3>1
  <2> QED
    BY <1>2, <2>1, <2>2
<1> QED
  BY <1>1, <1>3, QuietInv DEF rpc_clnt_check_and_start_ping

\* rpc_clnt_submit.
LEMMA SubmitInv ==
    ASSUME ClntInv, NEW t \in Threads, rpc_clnt_submit(t)
    PROVE  ClntInv'
<1> PICK x : x = th[t].arg
  OBVIOUS
<1>0. /\ ThreadsOK /\ conn \in Conn /\ prog \in Program
      /\ sock \in {"closed", "connecting", "up", "shut"}
      /\ th[t].pc = "submit" /\ x \in Frames
  BY DEF ClntInv, ThreadsOK, ConnOK, ProgOK, WireOK, rpc_clnt_submit, At
<1>1. PICK fails \in EarlyFailures :
        LET connects == conn.trans /\ ~conn.connected
            sent == conn.trans /\ sock = "up"
        IN /\ fails => connects
           /\ IF connects THEN socket_connect(fails) ELSE UNCHANGED <<sock, prog>>
           /\ conn' = IF sent THEN save_frame(conn, x) ELSE conn
           /\ IF sent THEN Send(x) ELSE UNCHANGED <<wire, pings>>
           /\ IF sent THEN UNCHANGED answered ELSE Answer(x)
           /\ th' = [Spawned(fails) EXCEPT
                       ![t] = IF sent THEN [Idle EXCEPT !.pc = "check"]
                              ELSE IF x = "ping"
                                   THEN [Idle EXCEPT !.pc = "ping_failed"]
                              ELSE Idle]
  BY ZenonT(30) DEF rpc_clnt_submit
<1>2. fails \in BOOLEAN /\ (fails => sock = "closed" /\ prog.early > 0)
  BY ZenonT(30) DEF EarlyFailures
<1>3. /\ prog' \in Program
      /\ sock' = sock \/ (sock = "closed" /\ sock' = "connecting")
  <2>1. fails => prog.early - 1 \in Nat
    BY <1>0, <1>2 DEF Program
  <2>2. fails => [prog EXCEPT !.early = @ - 1] \in Program
    BY <1>0, <2>1 DEF Program
  <2> QED
    BY <1>0, <1>1, <1>2, <2>2 DEF socket_connect
<1> PICK v : v = IF conn.trans /\ sock = "up" THEN [Idle EXCEPT !.pc = "check"]
                 ELSE IF x = "ping" THEN [Idle EXCEPT !.pc = "ping_failed"]
                 ELSE Idle
  BY ZenonT(30)
<1>4. Sound(v) /\ v.pc \in {"check", "ping_failed", "idle"}
  BY IdleThread DEF PCs
<1>5. /\ ThreadsOK' /\ th'[t] = v
      /\ \A u \in Threads \ {t} :
           th'[u] = th[u] \/ (u = "err" /\ th[u].pc = "idle" /\ th'[u].pc = "cleanup")
  <2>1. th' = [Spawned(fails) EXCEPT ![t] = v]
    BY <1>1
  <2>2. Spawns(t, v, fails)
    BY <1>0, <1>4, <2>1, SpawnThread, ZenonT(30)
  <2> QED
    BY <2>2 DEF Spawns
<1>6. /\ conn' \in Conn /\ SameTransport(conn, conn')
      /\ conn'.reconnect = conn.reconnect
      /\ conn'.ping_timer = conn.ping_timer /\ conn'.ping_started = conn.ping_started
      /\ conn' = conn \/ conn'.timer = TRUE
      /\ Range(conn'.sf) \subseteq Frames \ Locks /\ Range(conn'.lk_sf) \subseteq Locks
  <2>1. CASE conn' = conn
    BY <1>0, <2>1 DEF ClntInv, ConnOK, SameTransport
  <2>2. CASE conn' = save_frame(conn, x)
    <3>1. conn.sf \in Seq(Frames) /\ conn.lk_sf \in Seq(Frames)
      BY <1>0 DEF Conn
    <3>2. /\ Range(Append(conn.sf, x)) = Range(conn.sf) \cup {x}
          /\ Range(Append(conn.lk_sf, x)) = Range(conn.lk_sf) \cup {x}
      BY <1>0, <3>1, AppendRange
    <3>3. /\ conn' \in Conn /\ SameTransport(conn, conn') /\ conn'.timer = TRUE
          /\ conn'.reconnect = conn.reconnect /\ conn'.ping_timer = conn.ping_timer
          /\ conn'.ping_started = conn.ping_started
          /\ x \in Locks => conn'.sf = conn.sf /\ conn'.lk_sf = Append(conn.lk_sf, x)
          /\ x \notin Locks => conn'.sf = Append(conn.sf, x) /\ conn'.lk_sf = conn.lk_sf
      <4>1. Saves(conn, x, conn')
        BY <1>0, <2>2, SaveFacts
      <4> QED
        BY <4>1 DEF Saves
    <3> QED
      BY <1>0, <3>2, <3>3, ZenonT(30) DEF ClntInv, ConnOK
  <2> QED
    BY <1>1, <2>1, <2>2, ZenonT(30)
<1>7. ConnOK' /\ ProgOK'
  BY <1>3, <1>6 DEF ConnOK, ProgOK
<1>8. WireOK'
  <2>1. answered' \in [Requests -> Nat]
    BY <1>1, AnswerType DEF ClntInv, WireOK
  <2>2. wire' = wire \/ (sock = "up" /\ wire' = wire \cup ({x} \ {"ping"}))
    BY <1>1 DEF Send
  <2> QED
    BY <1>0, <1>3, <2>1, <2>2 DEF ClntInv, WireOK
<1>9. FiredOK' /\ Guarded'
  <2>1. fired' = fired
    BY DEF rpc_clnt_submit
  <2> QED
    BY <1>6, <2>1 DEF ClntInv, FiredOK, Guarded, IsSet, Saved, SameTransport
<1>10. TransOK' /\ KeepsTrying'
  BY <1>0, <1>3, <1>4, <1>5, <1>6, ThreadNames, ZenonT(30)
     DEF ClntInv, TransOK, KeepsTrying, SameTransport, At, Leaving
<1> QED
  BY <1>5, <1>7, <1>8, <1>9, <1>10 DEF ClntInv

\* rpc_clnt_start_ping.
LEMMA StartInv ==
    ASSUME ClntInv, NEW t \in Threads, rpc_clnt_start_ping(t)
    PROVE  ClntInv'
<1> PICK c : c = IF conn.ping_timer # "none" THEN PingFailed(conn) ELSE conn
  OBVIOUS
<1>0. /\ ThreadsOK /\ conn \in Conn /\ th[t].pc = "start"
      /\ conn.ping_started => conn.ping_timer # "none"
      /\ answered' \in [Requests -> Nat]
      /\ NoFrame \in Frames \cup {NoFrame} /\ "ping" \in Frames
  BY DEF ClntInv, rpc_clnt_start_ping, At, ConnOK, Guarded, WireOK, Frames
<1>1. PingFails(conn, c)
  <2>1. CASE conn.ping_timer # "none"
    BY <1>0, <2>1, PingFailedFacts
  <2>2. CASE conn.ping_timer = "none"
    BY <1>0, <2>2 DEF PingFails, Conn, SameTransport, SameSaved
  <2> QED
    BY <2>1, <2>2
<1>2. \/ conn' = c /\ Return(t)
      \/ /\ conn' = [c EXCEPT !.ping_timer = "expired", !.ping_started = TRUE]
         /\ Goto(t, "submit", "ping")
  BY DEF rpc_clnt_start_ping
<1>3. /\ ThreadsOK' /\ \A u \in Threads \ {t} : th'[u] = th[u]
      /\ th'[t].pc # "set_connected"
  <2>1. CASE Return(t)
    BY <1>0, <2>1, ReturnThread
  <2>2. CASE Goto(t, "submit", "ping")
    <3>1. ThreadsOK' /\ th'[t].pc = "submit" /\ \A u \in Threads \ {t} : th'[u] = th[u]
      BY <1>0, <2>2, GotoThread, ZenonT(30) DEF PCs
    <3> QED
      BY <3>1
  <2> QED
    BY <1>2, <2>1, <2>2
<1>4. /\ conn' \in Conn /\ SameTransport(conn, conn') /\ SameSaved(conn, conn')
      /\ conn'.timer = conn.timer /\ conn'.reconnect = conn.reconnect
      /\ conn'.ping_started => conn'.ping_timer # "none"
  BY <1>1, <1>2, ZenonT(30) DEF PingFails, Conn, SameTransport, SameSaved
<1>5. fired' = fired \ {"ping_timer"} /\ UNCHANGED <<sock, wire, prog>>
  BY DEF rpc_clnt_start_ping
<1>6. SmallStep(t)
  BY <1>0, <1>3, <1>4, <1>5 DEF SmallStep, SameSaved, Leaving
<1> QED
  BY <1>6, SmallStepInv

\* rpc_clnt_ping_cbk of a ping that could not be sent.
LEMMA PingFailedInv ==
    ASSUME ClntInv, NEW t \in Threads, rpc_clnt_ping_failed(t)
    PROVE  ClntInv'
<1>0. /\ ThreadsOK /\ conn \in Conn /\ th[t].pc = "ping_failed"
      /\ answered' \in [Requests -> Nat] /\ Return(t)
  BY DEF ClntInv, rpc_clnt_ping_failed, At, ConnOK, WireOK
<1>1. PingFails(conn, conn')
  BY <1>0, PingFailedFacts DEF rpc_clnt_ping_failed
<1>3. /\ ThreadsOK' /\ \A u \in Threads \ {t} : th'[u] = th[u]
      /\ th'[t].pc # "set_connected"
  BY <1>0, ReturnThread
<1>5. fired' = fired \ {"ping_timer"} /\ UNCHANGED <<sock, wire, prog>>
  BY DEF rpc_clnt_ping_failed
<1>6. SmallStep(t)
  BY <1>0, <1>1, <1>3, <1>5 DEF SmallStep, PingFails, SameSaved, Leaving
<1> QED
  BY <1>6, SmallStepInv

\* saved_frames_unwind.
LEMMA UnwindInv ==
    ASSUME ClntInv, NEW t \in Threads, saved_frames_unwind(t)
    PROVE  ClntInv'
<1>0. /\ ThreadsOK /\ conn \in Conn /\ th[t].pc = "unwind"
      /\ th[t].list \in Seq(Frames) /\ th[t].list # <<>>
      /\ conn.ping_started => conn.ping_timer # "none"
      /\ answered \in [Requests -> Nat]
  BY DEF ClntInv, saved_frames_unwind, At, ConnOK, Guarded, WireOK, ThreadsOK, Thread
<1>1. answered' \in [Requests -> Nat]
  BY <1>0, AnswerType DEF saved_frames_unwind
<1>2. Tail(th[t].list) \in Seq(Frames)
  BY <1>0
<1>3. /\ ThreadsOK' /\ \A u \in Threads \ {t} : th'[u] = th[u]
      /\ t # "timer" => th'[t].pc \in Leaving
      /\ th'[t].pc # "set_connected"
  <2> PICK l : l = Tail(th[t].list)
    BY ZenonT(30)
  <2>1. l \in Seq(Frames) /\ Unwinding(t, l)
    BY <1>2 DEF saved_frames_unwind
  <2> QED
    BY <1>0, <2>1, UnwindThread, ZenonT(30) DEF Leaving
<1>4. /\ fired' \subseteq fired /\ UNCHANGED <<sock, wire, prog>>
      /\ \/ conn' = conn
         \/ conn' = PingFailed(conn) /\ fired' = fired \ {"ping_timer"}
  BY DEF saved_frames_unwind
<1>5. CASE conn' = conn
  <2>1. SmallStep(t)
    BY <1>0, <1>1, <1>3, <1>4, <1>5 DEF SmallStep, SameTransport, Leaving
  <2> QED
    BY <2>1, SmallStepInv
<1>6. CASE conn' = PingFailed(conn) /\ fired' = fired \ {"ping_timer"}
  <2>1. PingFails(conn, conn')
    BY <1>0, <1>6, PingFailedFacts
  <2>2. SmallStep(t)
    BY <1>0, <1>1, <1>3, <1>4, <1>6, <2>1
       DEF SmallStep, PingFails, SameSaved, SameTransport, Leaving
  <2> QED
    BY <2>2, SmallStepInv
<1> QED
  BY <1>4, <1>5, <1>6

\* rpc_clnt_ping_cbk of a ping that was answered, and rpc_clnt_ping_timer_expired.
LEMMA PingCbkInv ==
    ASSUME ClntInv, rpc_clnt_ping_cbk
    PROVE  ClntInv'
<1>0. /\ ThreadsOK /\ conn \in Conn /\ th["epoll"].pc = "ping_cbk"
      /\ answered' \in [Requests -> Nat] /\ Return("epoll") /\ "epoll" \in Threads
  BY ThreadNames DEF ClntInv, rpc_clnt_ping_cbk, At, ConnOK, WireOK
<1>1. conn' = [conn EXCEPT !.ping_timer = "start"]
  BY DEF rpc_clnt_ping_cbk
<1>2. /\ conn' \in Conn /\ SameTransport(conn, conn') /\ SameSaved(conn, conn')
      /\ conn'.timer = conn.timer /\ conn'.reconnect = conn.reconnect
      /\ conn'.ping_timer = "start"
  BY <1>0, <1>1 DEF Conn, SameTransport, SameSaved
<1>3. /\ ThreadsOK' /\ \A u \in Threads \ {"epoll"} : th'[u] = th[u]
      /\ th'["epoll"].pc # "set_connected"
  BY <1>0, ReturnThread
<1>5. fired' = fired \ {"ping_timer"} /\ UNCHANGED <<sock, wire, prog>>
  BY DEF rpc_clnt_ping_cbk
<1>6. SmallStep("epoll")
  BY <1>0, <1>2, <1>3, <1>5 DEF SmallStep, SameSaved, Leaving
<1> QED
  BY <1>0, <1>6, SmallStepInv

\* rpc_clnt_ping_timer_expired.
LEMMA ExpiredInv ==
    ASSUME ClntInv, rpc_clnt_ping_timer_expired
    PROVE  ClntInv'
<1>0. /\ ThreadsOK /\ conn \in Conn /\ th["timer"].pc = "expired"
      /\ answered' \in [Requests -> Nat] /\ "timer" \in Threads
      /\ NoFrame \in Frames \cup {NoFrame}
  BY ThreadNames DEF ClntInv, rpc_clnt_ping_timer_expired, At, ConnOK, WireOK
<1>1. \/ conn' = [conn EXCEPT !.ping_timer = "expired"] /\ Return("timer")
      \/ conn' = PingFailed(conn) /\ Goto("timer", "disconnect", NoFrame)
  BY DEF rpc_clnt_ping_timer_expired
<1>2. /\ conn' \in Conn /\ SameTransport(conn, conn') /\ SameSaved(conn, conn')
      /\ conn'.timer = conn.timer /\ conn'.reconnect = conn.reconnect
      /\ conn'.ping_started => conn'.ping_timer # "none"
  <2>1. CASE conn' = [conn EXCEPT !.ping_timer = "expired"]
    BY <1>0, <2>1, ZenonT(30) DEF Conn, SameTransport, SameSaved
  <2>2. CASE conn' = PingFailed(conn)
    <3>1. PingFails(conn, conn')
      BY <1>0, <2>2, PingFailedFacts
    <3> QED
      BY <3>1 DEF PingFails
  <2> QED
    BY <1>1, <2>1, <2>2
<1>3. ThreadsOK' /\ \A u \in Threads \ {"timer"} : th'[u] = th[u]
  BY <1>0, <1>1, ReturnThread, GotoThread DEF PCs
<1>5. fired' = fired \ {"ping_timer"} /\ UNCHANGED <<sock, wire, prog>>
  BY DEF rpc_clnt_ping_timer_expired
<1>6. SmallStep("timer")
  BY <1>0, <1>2, <1>3, <1>5 DEF SmallStep, SameSaved, Leaving
<1> QED
  BY <1>0, <1>6, SmallStepInv

\* call_bail.
LEMMA BailInv ==
    ASSUME ClntInv, NEW n \in TimedOut(conn), call_bail(n)
    PROVE  ClntInv'
<1>0. /\ ThreadsOK /\ conn \in Conn /\ th["timer"].pc = "call_bail"
      /\ conn.ping_started => conn.ping_timer # "none"
      /\ answered' \in [Requests -> Nat] /\ "timer" \in Threads
  BY ThreadNames DEF ClntInv, call_bail, At, ConnOK, WireOK, Guarded
<1>1. conn' = [conn EXCEPT !.sf = SubSeq(@, n + 1, Len(@))]
  BY DEF call_bail
<1> PICK l : l = moved(SubSeq(conn.sf, 1, n))
  OBVIOUS
<1>2. /\ conn' \in Conn /\ SameTransport(conn, conn') /\ SameTimers(conn, conn')
      /\ conn'.lk_sf = conn.lk_sf
      /\ Range(conn'.sf) \subseteq Range(conn.sf)
      /\ l \in Seq(Frames)
  BY <1>0, <1>1, BailFacts, ZenonT(30)
<1>3. ThreadsOK' /\ \A u \in Threads \ {"timer"} : th'[u] = th[u]
  <2>1. Unwinding("timer", l)
    BY DEF call_bail
  <2> QED
    BY <1>0, <1>2, <2>1, UnwindThread
<1>5. fired' = fired \ {"timer"} /\ UNCHANGED <<sock, wire, prog>>
  BY DEF call_bail
<1>6. SmallStep("timer")
  BY <1>0, <1>2, <1>3, <1>5 DEF SmallStep, SameTimers, Leaving
<1> QED
  BY <1>0, <1>6, SmallStepInv

\* client_rpc_notify of a connection that was lost.
LEMMA DisconnectedInv ==
    ASSUME ClntInv, NEW t \in Threads, client_disconnected(t)
    PROVE  ClntInv'
<1>1. /\ ThreadsOK /\ th[t].pc = "notify" /\ Return(t)
      /\ th[t].pc \notin Leaving \cup {"reconnect"}
      /\ answered' \in [Requests -> Nat]
  BY DEF ClntInv, client_disconnected, At, WireOK, Leaving
<1>2. /\ ThreadsOK' /\ \A u \in Threads \ {t} : th'[u] = th[u]
      /\ th'[t].pc # "set_connected"
  BY <1>1, ReturnThread
<1> QED
  BY <1>1, <1>2, QuietInv DEF client_disconnected

\* rpc_clnt_connection_cleanup.
LEMMA CleanupInv ==
    ASSUME ClntInv, NEW t \in Threads, rpc_clnt_connection_cleanup(t)
    PROVE  ClntInv'
<1> PICK l : l = conn.lk_sf \o conn.sf
  BY ZenonT(30)
<1>0. /\ ThreadsOK /\ conn \in Conn /\ th[t].pc = "cleanup"
      /\ conn.ping_started => conn.ping_timer # "none"
      /\ answered' = answered /\ UNCHANGED <<sock, wire, prog>>
      /\ fired' = fired \ {"timer", "ping_timer"} /\ Unwinding(t, l)
  BY DEF ClntInv, rpc_clnt_connection_cleanup, At, ConnOK, Guarded
<1>1. Cleans(conn, conn')
  BY <1>0, CleanupFacts, ZenonT(30) DEF rpc_clnt_connection_cleanup
<1>2. l \in Seq(Frames)
  <2>1. conn.lk_sf \in Seq(Frames) /\ conn.sf \in Seq(Frames)
    BY <1>0 DEF Conn
  <2> QED
    BY <2>1, JoinFacts
<1>3. /\ ThreadsOK' /\ \A u \in Threads \ {t} : th'[u] = th[u]
      /\ t # "timer" => th'[t].pc \in Leaving
  BY <1>0, <1>2, UnwindThread, ZenonT(30) DEF Leaving
<1>4. Range(conn'.sf) = {} /\ Range(conn'.lk_sf) = {}
  BY <1>1 DEF Cleans, Range
<1>5. ConnOK' /\ ProgOK' /\ WireOK' /\ Guarded'
  BY <1>0, <1>1, <1>4 DEF ClntInv, ConnOK, ProgOK, WireOK, Guarded, Saved, Cleans
<1>6. FiredOK'
  BY <1>0, <1>1 DEF ClntInv, FiredOK, IsSet, Cleans
<1>7. TransOK' /\ KeepsTrying'
  BY <1>0, <1>1, <1>3, ThreadNames
     DEF ClntInv, TransOK, KeepsTrying, At, Leaving, Cleans
<1> QED
  BY <1>3, <1>5, <1>6, <1>7 DEF ClntInv

\* RPC_TRANSPORT_DISCONNECT sets the timer to reconnect.
LEMMA NotifyInv ==
    ASSUME ClntInv, NEW t \in Threads, rpc_clnt_notify_disconnect(t)
    PROVE  ClntInv'
<1>0. /\ ThreadsOK /\ conn \in Conn /\ th[t].pc = "disconnected"
      /\ UNCHANGED <<sock, wire, prog, fired, answered>>
      /\ NoFrame \in Frames \cup {NoFrame} /\ Goto(t, "notify", NoFrame)
      /\ conn' = [conn EXCEPT !.reconnect = @ \/ ~conn.disabled]
  BY DEF ClntInv, rpc_clnt_notify_disconnect, At, ConnOK
<1>1. /\ conn' \in Conn /\ SameTransport(conn, conn') /\ SameSaved(conn, conn')
      /\ conn'.timer = conn.timer /\ conn'.ping_timer = conn.ping_timer
      /\ conn'.ping_started = conn.ping_started
      /\ conn'.reconnect = (conn.reconnect \/ ~conn.disabled)
  BY <1>0, ZenonT(30) DEF Conn, SameTransport, SameSaved
<1>3. /\ ThreadsOK' /\ \A u \in Threads \ {t} : th'[u] = th[u]
      /\ th'[t].pc # "set_connected"
  <2>1. ThreadsOK' /\ th'[t].pc = "notify" /\ \A u \in Threads \ {t} : th'[u] = th[u]
    BY <1>0, GotoThread, ZenonT(30) DEF PCs
  <2> QED
    BY <2>1
<1>5. ConnOK' /\ ProgOK' /\ WireOK' /\ Guarded'
  BY <1>0, <1>1 DEF ClntInv, ConnOK, ProgOK, WireOK, Guarded, Saved, SameSaved,
                    SameTransport
<1>6. FiredOK'
  BY <1>0, <1>1, ZenonT(30) DEF ClntInv, FiredOK, IsSet
<1>7. TransOK' /\ KeepsTrying'
  BY <1>0, <1>1, <1>3, ThreadNames, ZenonT(30)
     DEF ClntInv, TransOK, KeepsTrying, At, Leaving, SameTransport
<1> QED
  BY <1>3, <1>5, <1>6, <1>7 DEF ClntInv

\* rpc_clnt_reconnect.
LEMMA ReconnectInv ==
    ASSUME ClntInv, rpc_clnt_reconnect
    PROVE  ClntInv'
<1>0. /\ ThreadsOK /\ conn \in Conn /\ prog \in Program
      /\ sock \in {"closed", "connecting", "up", "shut"}
      /\ th["timer"].pc = "reconnect" /\ "timer" \in Threads
      /\ UNCHANGED <<wire, answered>>
  BY ThreadNames DEF ClntInv, ConnOK, ProgOK, WireOK, rpc_clnt_reconnect, At
<1>1. PICK fails \in EarlyFailures :
        LET connects == conn.trans /\ ~conn.connected /\ ~conn.disabled
        IN /\ fails => connects
           /\ IF connects THEN socket_connect(fails) ELSE UNCHANGED <<sock, prog>>
           /\ conn' = IF conn.trans THEN [conn EXCEPT !.reconnect = connects] ELSE conn
           /\ fired' = IF conn.trans THEN fired \ {"reconnect"} ELSE fired
           /\ th' = [Spawned(fails) EXCEPT !["timer"] = Idle]
  BY ZenonT(30) DEF rpc_clnt_reconnect
<1>2. fails \in BOOLEAN /\ (fails => sock = "closed" /\ prog.early > 0)
  BY ZenonT(30) DEF EarlyFailures
<1>3. /\ prog' \in Program
      /\ sock' = sock \/ (sock = "closed" /\ sock' = "connecting")
  <2>1. fails => prog.early - 1 \in Nat
    BY <1>0, <1>2 DEF Program
  <2>2. fails => [prog EXCEPT !.early = @ - 1] \in Program
    BY <1>0, <2>1 DEF Program
  <2> QED
    BY <1>0, <1>1, <1>2, <2>2 DEF socket_connect
<1>5. /\ ThreadsOK' /\ th'["timer"] = Idle
      /\ \A u \in Threads \ {"timer"} :
           th'[u] = th[u] \/ (u = "err" /\ th[u].pc = "idle" /\ th'[u].pc = "cleanup")
  <2>1. Spawns("timer", Idle, fails)
    BY <1>0, <1>1, IdleThread, SpawnThread, ZenonT(30)
  <2> QED
    BY <2>1 DEF Spawns
<1>6. /\ conn' \in Conn /\ SameTransport(conn, conn') /\ SameSaved(conn, conn')
      /\ conn'.timer = conn.timer /\ conn'.ping_timer = conn.ping_timer
      /\ conn'.ping_started = conn.ping_started
      /\ conn.trans => conn'.reconnect = (~conn.connected /\ ~conn.disabled)
      /\ conn'.reconnect # conn.reconnect => conn.trans
  BY <1>0, <1>1, ZenonT(30) DEF Conn, SameTransport, SameSaved
<1>7. fired' \subseteq fired /\ (conn.trans => "reconnect" \notin fired')
  BY <1>1
<1>8. ConnOK' /\ ProgOK' /\ WireOK' /\ Guarded'
  BY <1>0, <1>3, <1>6 DEF ClntInv, ConnOK, ProgOK, WireOK, Guarded, Saved, SameSaved,
                          SameTransport
<1>9. FiredOK'
  BY <1>6, <1>7 DEF ClntInv, FiredOK, IsSet
<1>10. TransOK' /\ KeepsTrying'
  BY <1>0, <1>3, <1>5, <1>6, ThreadNames, ZenonT(30)
     DEF ClntInv, TransOK, KeepsTrying, SameTransport, At, Leaving
<1> QED
  BY <1>5, <1>8, <1>9, <1>10 DEF ClntInv

\* gf_timer_proc.
LEMMA TimerInv ==
    ASSUME ClntInv, NEW x \in Timers, gf_timer_proc(x)
    PROVE  ClntInv'
<1>0. /\ ThreadsOK /\ th["timer"].pc = "idle" /\ "timer" \in Threads
      /\ UNCHANGED <<conn, sock, wire, answered, prog>>
      /\ fired' = fired \cup {x} /\ IsSet(x)
      /\ NoFrame \in Frames \cup {NoFrame}
  BY ThreadNames DEF ClntInv, gf_timer_proc, At
<1>1. CallbackOf(x) \in PCs \ {"unwind", "submit"}
  BY DEF CallbackOf, Timers, PCs
<1>2. Goto("timer", CallbackOf(x), NoFrame) \/ Return("timer")
  BY DEF gf_timer_proc
<1>3. ThreadsOK' /\ \A u \in Threads \ {"timer"} : th'[u] = th[u]
  <2> PICK pc : pc = CallbackOf(x)
    OBVIOUS
  <2>1. pc \in PCs \ {"unwind", "submit"}
    BY <1>1
  <2>2. Goto("timer", pc, NoFrame) \/ Return("timer")
    BY <1>2
  <2> QED
    BY <1>0, <2>1, <2>2, GotoThread, ReturnThread
<1>4. ConnOK' /\ ProgOK' /\ WireOK' /\ Guarded' /\ FiredOK'
  BY <1>0 DEF ClntInv, ConnOK, ProgOK, WireOK, Guarded, Saved, FiredOK, IsSet
<1>5. TransOK' /\ KeepsTrying'
  BY <1>0, <1>3, ThreadNames DEF ClntInv, TransOK, KeepsTrying, At, Leaving
<1> QED
  BY <1>3, <1>4, <1>5 DEF ClntInv

\* A step of the event thread that leaves the timers alone.
LEMMA EventInv ==
    ASSUME ClntInv, ThreadsOK', \A u \in Threads \ {"epoll"} : th'[u] = th[u],
           th["epoll"].pc \in {"idle", "set_connected"}, fired' = fired, prog' \in Program, WireOK',
           conn' \in Conn, SameTimers(conn, conn'),
           conn'.trans = conn.trans, conn'.disabled = conn.disabled,
           Range(conn'.sf) \subseteq Range(conn.sf),
           Range(conn'.lk_sf) \subseteq Range(conn.lk_sf),
           sock' = "closed" => th'["epoll"].pc = "cleanup"
    PROVE  ClntInv'
<1>1. ConnOK' /\ ProgOK' /\ Guarded'
  BY DEF ClntInv, ConnOK, ProgOK, Guarded, Saved, SameTimers
<1>2. FiredOK'
  BY DEF ClntInv, FiredOK, IsSet, SameTimers
<1>3. TransOK' /\ KeepsTrying'
  BY ThreadNames DEF ClntInv, TransOK, KeepsTrying, At, Leaving, SameTimers
<1> QED
  BY <1>1, <1>2, <1>3 DEF ClntInv

\* socket_connect_finish.
LEMMA ConnectInv ==
    ASSUME ClntInv, socket_connect_finish
    PROVE  ClntInv'
<1>0. /\ ThreadsOK /\ th["epoll"].pc = "idle" /\ "epoll" \in Threads
      /\ conn \in Conn /\ prog \in Program
      /\ UNCHANGED <<conn, fired, wire, answered, prog>>
      /\ sock = "connecting" /\ sock' = "up"
      /\ "dump" \in Frames /\ Goto("epoll", "submit", "dump")
  BY ThreadNames DEF ClntInv, socket_connect_finish, At, ConnOK, ProgOK, Frames, Handshake
<1>1. ThreadsOK' /\ \A u \in Threads \ {"epoll"} : th'[u] = th[u]
  BY <1>0, GotoThread DEF PCs
<1>2. WireOK'
  BY <1>0 DEF ClntInv, WireOK
<1>3. conn' \in Conn /\ prog' \in Program /\ SameTimers(conn, conn')
  BY <1>0 DEF SameTimers
<1> QED
  BY <1>0, <1>1, <1>2, <1>3, EventInv

\* socket_event_poll_err.
LEMMA PollErrInv ==
    ASSUME ClntInv, socket_event_poll_err
    PROVE  ClntInv'
<1>0. /\ ThreadsOK /\ th["epoll"].pc = "idle" /\ "epoll" \in Threads
      /\ conn \in Conn /\ prog \in Program
      /\ UNCHANGED <<conn, fired, answered>>
      /\ sock' = "closed" /\ wire' = {}
      /\ NoFrame \in Frames \cup {NoFrame} /\ Goto("epoll", "cleanup", NoFrame)
  BY ThreadNames DEF ClntInv, socket_event_poll_err, Close, At, ConnOK, ProgOK
<1>1. /\ ThreadsOK' /\ \A u \in Threads \ {"epoll"} : th'[u] = th[u]
      /\ th'["epoll"].pc = "cleanup"
  BY <1>0, GotoThread, ZenonT(30) DEF PCs
<1>2. WireOK'
  BY <1>0 DEF ClntInv, WireOK
<1>3. prog' \in Program
  <2>1. prog.breaks > 0 => [prog EXCEPT !.breaks = @ - 1] \in Program
    BY <1>0 DEF Program
  <2> QED
    BY <1>0, <2>1 DEF socket_event_poll_err
<1>4. SameTimers(conn, conn')
  BY <1>0 DEF SameTimers
<1> QED
  BY <1>0, <1>1, <1>2, <1>3, <1>4, EventInv

\* rpc_clnt_handle_reply.
LEMMA ReplyInv ==
    ASSUME ClntInv, NEW x \in Frames, rpc_clnt_handle_reply(x)
    PROVE  ClntInv'
<1>0. /\ ThreadsOK /\ th["epoll"].pc = "idle" /\ "epoll" \in Threads
      /\ conn \in Conn /\ prog' \in Program
      /\ UNCHANGED <<fired, prog>>
      /\ NoFrame \in Frames \cup {NoFrame} /\ "setvolume" \in Frames
      /\ sock = "up" /\ wire \subseteq Frames /\ answered \in [Requests -> Nat]
  BY ThreadNames DEF ClntInv, rpc_clnt_handle_reply, At, ConnOK, ProgOK, WireOK,
                     Frames, Handshake
<1>1. CASE x \in Saved(conn)
  <2>1. /\ conn' = saved_frame_get(conn, x)
        /\ wire' = wire \ {x} /\ sock' = sock /\ Answer(x)
        /\ \/ Goto("epoll", "ping_cbk", NoFrame)
           \/ Goto("epoll", "submit", "setvolume")
           \/ Goto("epoll", "set_connected", NoFrame)
           \/ Return("epoll")
    BY <1>1 DEF rpc_clnt_handle_reply
  <2>2. ThreadsOK' /\ \A u \in Threads \ {"epoll"} : th'[u] = th[u]
    BY <1>0, <2>1, GotoThread, ReturnThread, ZenonT(30) DEF PCs
  <2>3. WireOK'
    BY <1>0, <2>1, AnswerType DEF WireOK
  <2>4. Takes(conn, x, conn')
    BY <1>0, <2>1, GetFacts, ZenonT(30)
  <2>5. /\ conn' \in Conn /\ SameTimers(conn, conn')
        /\ conn'.trans = conn.trans /\ conn'.disabled = conn.disabled
        /\ Range(conn'.sf) \subseteq Range(conn.sf)
        /\ Range(conn'.lk_sf) \subseteq Range(conn.lk_sf)
    BY <2>4 DEF Takes, SameTransport
  <2>6. sock' # "closed"
    BY <1>0, <2>1
  <2> QED
    BY <1>0, <2>2, <2>3, <2>5, <2>6, EventInv
<1>2. CASE x \notin Saved(conn)
  <2>1. /\ UNCHANGED <<conn, answered>> /\ sock' = "closed" /\ wire' = {}
        /\ Goto("epoll", "cleanup", NoFrame)
    BY <1>2 DEF rpc_clnt_handle_reply, Unexpected, Close
  <2>2. /\ ThreadsOK' /\ \A u \in Threads \ {"epoll"} : th'[u] = th[u]
        /\ th'["epoll"].pc = "cleanup"
    BY <1>0, <2>1, GotoThread DEF PCs
  <2>3. WireOK'
    BY <1>0, <2>1 DEF WireOK
  <2>4. SameTimers(conn, conn')
    BY <2>1 DEF SameTimers
  <2> QED
    BY <1>0, <2>1, <2>2, <2>3, <2>4, EventInv
<1> QED
  BY <1>1, <1>2

\* rpc_clnt_set_connected.
LEMMA SetConnectedInv ==
    ASSUME ClntInv, rpc_clnt_set_connected
    PROVE  ClntInv'
<1>0. /\ ThreadsOK /\ th["epoll"].pc = "set_connected" /\ "epoll" \in Threads
      /\ conn \in Conn /\ prog' \in Program /\ sock' = sock /\ sock # "closed"
      /\ UNCHANGED <<fired, wire, answered>> /\ conn' = [conn EXCEPT !.connected = TRUE]
      /\ NoFrame \in Frames \cup {NoFrame} /\ Goto("epoll", "attached", NoFrame)
  BY ThreadNames DEF ClntInv, rpc_clnt_set_connected, At, ConnOK, ProgOK, TransOK
<1>1. ThreadsOK' /\ \A u \in Threads \ {"epoll"} : th'[u] = th[u]
  BY <1>0, GotoThread, ZenonT(30) DEF PCs
<1>2. WireOK'
  BY <1>0 DEF ClntInv, WireOK
<1>3. /\ conn' \in Conn /\ SameTimers(conn, conn') /\ SameSaved(conn, conn')
      /\ conn'.trans = conn.trans /\ conn'.disabled = conn.disabled
  BY <1>0, ZenonT(30) DEF Conn, SameTimers, SameSaved
<1>4. Range(conn'.sf) \subseteq Range(conn.sf) /\ Range(conn'.lk_sf) \subseteq Range(conn.lk_sf)
  BY <1>3 DEF SameSaved
<1> QED
  BY <1>0, <1>1, <1>2, <1>3, <1>4, EventInv

\* client_setvolume_cbk.
LEMMA SetvolumeInv ==
    ASSUME ClntInv, client_setvolume_cbk
    PROVE  ClntInv'
<1>1. /\ ThreadsOK /\ th["epoll"].pc = "attached" /\ Return("epoll")
      /\ th["epoll"].pc \notin Leaving \cup {"reconnect"} /\ "epoll" \in Threads
      /\ answered' \in [Requests -> Nat]
  BY ThreadNames DEF ClntInv, client_setvolume_cbk, At, WireOK, Leaving
<1>2. /\ ThreadsOK' /\ \A u \in Threads \ {"epoll"} : th'[u] = th[u]
      /\ th'["epoll"].pc # "set_connected"
  BY <1>1, ReturnThread
<1> QED
  BY <1>1, <1>2, QuietInv DEF client_setvolume_cbk

\* __socket_disconnect, by the timer thread or by the owner.
LEMMA ShutInv ==
    ASSUME ClntInv, NEW t \in {"timer", "owner"}, th[t].pc = "disconnect", Return(t),
           sock' = sock \/ Shut, UNCHANGED <<conn, fired, wire, answered, prog>>
    PROVE  ClntInv'
<1>0. ThreadsOK /\ t \in Threads
  BY ThreadNames DEF ClntInv
<1>1. ThreadsOK' /\ \A u \in Threads \ {t} : th'[u] = th[u]
  BY <1>0, ReturnThread
<1>2. ConnOK' /\ ProgOK' /\ Guarded' /\ FiredOK'
  BY DEF ClntInv, ConnOK, ProgOK, Guarded, Saved, FiredOK, IsSet
<1>3. WireOK'
  BY DEF ClntInv, WireOK, Shut
<1>4. TransOK' /\ KeepsTrying'
  BY <1>0, <1>1, ThreadNames DEF ClntInv, TransOK, KeepsTrying, At, Leaving, Shut
<1> QED
  BY <1>1, <1>2, <1>3, <1>4 DEF ClntInv

\* rpc_clnt_disable.
LEMMA DisableInv ==
    ASSUME ClntInv, rpc_clnt_disable
    PROVE  ClntInv'
<1>0. /\ ThreadsOK /\ th["owner"].pc = "idle" /\ "owner" \in Threads
      /\ conn \in Conn /\ (conn.ping_started => conn.ping_timer # "none")
      /\ fired' = {} /\ UNCHANGED <<sock, wire, answered, prog>>
      /\ NoFrame \in Frames \cup {NoFrame} /\ Goto("owner", "disconnect", NoFrame)
  BY ThreadNames DEF ClntInv, rpc_clnt_disable, At, ConnOK, Guarded
<1>1. ThreadsOK' /\ \A u \in Threads \ {"owner"} : th'[u] = th[u]
  BY <1>0, GotoThread DEF PCs
<1>2. Disables(conn, conn')
  BY <1>0, DisableFacts, ZenonT(30) DEF rpc_clnt_disable
<1>3. ConnOK' /\ ProgOK' /\ WireOK' /\ Guarded' /\ FiredOK'
  BY <1>0, <1>2 DEF ClntInv, ConnOK, ProgOK, WireOK, Guarded, FiredOK, Disables, SameSaved
<1>4. TransOK' /\ KeepsTrying'
  BY <1>0, <1>1, <1>2, ThreadNames DEF ClntInv, TransOK, KeepsTrying, At, Disables
<1> QED
  BY <1>1, <1>3, <1>4 DEF ClntInv

\* A silent server.
LEMMA HangInv ==
    ASSUME ClntInv, Hang
    PROVE  ClntInv'
<1>1. ThreadsOK' /\ ConnOK' /\ ProgOK' /\ Guarded' /\ FiredOK'
  BY DEF ClntInv, Hang, ThreadsOK, ConnOK, ProgOK, Guarded, Saved, FiredOK, IsSet
<1>2. WireOK' /\ TransOK' /\ KeepsTrying'
  BY DEF ClntInv, Hang, WireOK, TransOK, KeepsTrying, At
<1> QED
  BY <1>1, <1>2, SMTT(30) DEF ClntInv

\* Every step keeps the invariant.
LEMMA ClntNext ==
    ASSUME ClntInv, [Next]_vars
    PROVE  ClntInv'
<1>1. ASSUME NEW r \in Requests, client_submit_request(r) PROVE ClntInv'
  BY <1>1, SubmitRequestInv
<1>2. ASSUME NEW t \in Threads, Work(t) PROVE ClntInv'
  <2>1. CASE rpc_clnt_submit(t)
    BY <2>1, SubmitInv
  <2>2. CASE rpc_clnt_check_and_start_ping(t)
    BY <2>2, CheckInv
  <2>3. CASE rpc_clnt_start_ping(t)
    BY <2>3, StartInv
  <2>4. CASE rpc_clnt_ping_failed(t)
    BY <2>4, PingFailedInv
  <2>5. CASE rpc_clnt_connection_cleanup(t)
    BY <2>5, CleanupInv
  <2>6. CASE saved_frames_unwind(t)
    BY <2>6, UnwindInv
  <2>7. CASE rpc_clnt_notify_disconnect(t)
    BY <2>7, NotifyInv
  <2>8. CASE client_disconnected(t)
    BY <2>8, DisconnectedInv
  <2>9. CASE rpc_clnt_ping_cbk
    BY <2>9, PingCbkInv
  <2>10. ASSUME NEW n \in TimedOut(conn), call_bail(n) PROVE ClntInv'
    BY <2>10, BailInv
  <2>11. CASE rpc_clnt_reconnect
    BY <2>11, ReconnectInv
  <2>12. CASE rpc_clnt_ping_timer_expired
    BY <2>12, ExpiredInv
  <2>13. CASE PingDisconnect
    <3>1. /\ th["timer"].pc = "disconnect" /\ Return("timer")
          /\ sock' = sock \/ Shut
          /\ UNCHANGED <<conn, fired, wire, answered, prog>>
      BY <2>13 DEF PingDisconnect, At
    <3> QED
      BY <3>1, ShutInv
  <2>14. CASE DisableDisconnect
    <3>1. /\ th["owner"].pc = "disconnect" /\ Return("owner")
          /\ sock' = sock \/ Shut
          /\ UNCHANGED <<conn, fired, wire, answered, prog>>
      BY <2>14 DEF DisableDisconnect, At
    <3> QED
      BY <3>1, ShutInv
  <2>15. CASE rpc_clnt_set_connected
    BY <2>15, SetConnectedInv
  <2>16. CASE client_setvolume_cbk
    BY <2>16, SetvolumeInv
  <2> QED
    BY SMTT(30), <1>2, <2>1, <2>2, <2>3, <2>4, <2>5, <2>6, <2>7, <2>8, <2>9, <2>10, <2>11,
       <2>12, <2>13, <2>14, <2>15, <2>16 DEF Work
<1>3. CASE socket_connect_finish
  BY <1>3, ConnectInv
<1>4. CASE socket_event_poll_err
  BY <1>4, PollErrInv, SMTT(30)
<1>5. ASSUME NEW x \in Frames, rpc_clnt_handle_reply(x) PROVE ClntInv'
  BY <1>5, ReplyInv
<1>6. ASSUME NEW t \in Timers, gf_timer_proc(t) PROVE ClntInv'
  BY <1>6, TimerInv
<1>7. CASE rpc_clnt_disable
  BY <1>7, DisableInv
<1>8. CASE Hang
  BY <1>8, HangInv
<1>9. CASE UNCHANGED vars
  BY <1>9 DEF vars, ClntInv, ThreadsOK, ConnOK, ProgOK, WireOK, FiredOK, TransOK,
              Guarded, KeepsTrying, IsSet, Saved, At
<1> QED
  BY <1>1, <1>2, <1>3, <1>4, <1>5, <1>6, <1>7, <1>8, <1>9 DEF Next

\* It holds at the start.
LEMMA ClntInit ==
    ASSUME Init
    PROVE  ClntInv
<1>1. /\ prog \in Program /\ prog.attached \in BOOLEAN
      /\ <<>> \in Seq(Frames) /\ Range(<<>>) = {}
  BY ProgramsAssumption DEF Init, Program, Range
<1>2. ConnOK /\ ProgOK
  BY <1>1 DEF Init, ConnOK, ProgOK, Conn
<1>3. ThreadsOK
  <2>1. \A pc \in {"new", "reconnect"} : /\ Sound([Idle EXCEPT !.pc = pc])
                                         /\ [Idle EXCEPT !.pc = pc].pc = pc
    BY IdleThread DEF PCs
  <2>2. th \in [Threads -> Thread] /\ \A t \in Threads : Sound(th[t])
    BY <2>1, IdleThread DEF Init, Sound
  <2> QED
    BY <2>2 DEF ThreadsOK, Sound
<1>4. WireOK /\ FiredOK
  BY <1>1 DEF Init, WireOK, FiredOK
<1>5. TransOK /\ Guarded
  <2>1. th["epoll"].pc # "set_connected"
    BY ThreadNames, IdleThread DEF Init, Idle
  <2> QED
    BY <1>1, <2>1 DEF Init, TransOK, Guarded, Saved, At
<1>6. KeepsTrying
  <2>1. "timer" \in Threads /\ "timer" \notin prog.requests
    BY <1>1, ThreadNames DEF Program
  <2>2. ~prog.attached => th["timer"].pc = "reconnect"
    BY <2>1 DEF Init, Idle
  <2> QED
    BY <1>1, <2>2 DEF Init, KeepsTrying, At
<1> QED
  BY <1>2, <1>3, <1>4, <1>5, <1>6 DEF ClntInv

\* The inductive invariant holds in every behaviour.
LEMMA ClntInvariant == Spec => []ClntInv
  BY ClntInit, ClntNext, PTL DEF Spec

\* The types of RpcClnt: lock requests are saved on lk_sf and the others on sf
\* (saved_frames_put), a timer that fired is set, and requests are on the wire only
\* of a socket that is up or was just shut down.
THEOREM TypeCorrect == Spec => []TypeOK
<1>1. ClntInv => TypeOK
  BY DEF ClntInv, ConnOK, WireOK, FiredOK, TypeOK, Conn
<1> QED
  BY <1>1, ClntInvariant, PTL

\* Saved requests have the timer of call_bail, and ping_started implies a ping
\* timer, for any requests, failures and interleavings.
THEOREM TimersGuard == Spec => []Guarded
<1>1. ClntInv => Guarded
  BY DEF ClntInv
<1> QED
  BY <1>1, ClntInvariant, PTL

\* A client that lost its connection has the timer of rpc_clnt_reconnect set, or a
\* thread on the way to set it, unless it is disabled.
THEOREM Reconnects == Spec => []KeepsTrying
<1>1. ClntInv => KeepsTrying
  BY DEF ClntInv
<1> QED
  BY <1>1, ClntInvariant, PTL
=============================================================================
