---------------------------- MODULE RpcClntOnce -----------------------------
(***************************************************************************)
(* The proof that a request of RpcClnt is answered once, for any requests  *)
(* and any programs.                                                       *)
(***************************************************************************)
EXTENDS RpcClntProofs

\* Thread t has to answer request r.
Busy(t, r) ==
    \/ th[t].pc = "submit" /\ th[t].arg = r
    \/ r \in Range(th[t].list)

ListsOnce ==
    /\ OnceIn(conn.sf, prog.requests) /\ OnceIn(conn.lk_sf, prog.requests)
    /\ \A t \in Threads : OnceIn(th[t].list, prog.requests)

\* A request is with at most one thread, or saved and with none; it is counted as
\* answered when it is neither, nor still to be submitted.
KeptOnce(r) ==
    /\ \A t, u \in Threads : Busy(t, r) /\ Busy(u, r) => t = u
    /\ r \in Saved(conn) \/ At(r, "new") => \A t \in Threads : ~Busy(t, r)
    /\ ~(r \in Saved(conn) /\ At(r, "new"))
    /\ answered[r] = IF \/ r \in Saved(conn) \/ At(r, "new")
                        \/ \E t \in Threads : Busy(t, r)
                     THEN 0 ELSE 1

RequestsOnce == ListsOnce /\ \A r \in prog.requests : KeptOnce(r)

-----------------------------------------------------------------------------
(* The steps keep RequestsOnce.                                             *)

\* A thread that has no request to answer.
Free(v) == v.pc # "new" /\ v.list = <<>> /\ (v.pc = "submit" => v.arg \notin Requests)

\* Nothing changes for request r.
SameFor(r) ==
    /\ r \in Saved(conn') <=> r \in Saved(conn)
    /\ \A t \in Threads : Busy(t, r)' <=> Busy(t, r)
    /\ At(r, "new")' <=> At(r, "new")
    /\ answered'[r] = answered[r]

\* A request that nothing happens to is kept once.
LEMMA SameKept ==
    ASSUME NEW r \in Requests, KeptOnce(r), SameFor(r)
    PROVE  KeptOnce(r)'
  BY DEF KeptOnce, SameFor

\* The empty list.
LEMMA EmptyOnce ==
    Range(<<>>) = {} /\ OnceIn(<<>>, prog.requests) /\ <<>> \in Seq(Frames)
  BY DEF Range, OnceIn

\* A step in which only threads that have no request change.
LEMMA FrameOnce ==
    ASSUME RequestsOnce, SameSaved(conn, conn'), answered' = answered,
           prog'.requests = prog.requests, prog.requests \subseteq Requests,
           \A u \in Threads : th'[u] = th[u] \/ (Free(th[u]) /\ Free(th'[u]))
    PROVE  RequestsOnce'
<1>1. ListsOnce'
  <2>1. OnceIn(conn'.sf, prog.requests) /\ OnceIn(conn'.lk_sf, prog.requests)
    BY DEF RequestsOnce, ListsOnce, SameSaved
  <2>2. \A t \in Threads : OnceIn(th'[t].list, prog.requests)
    BY EmptyOnce DEF RequestsOnce, ListsOnce, Free
  <2> QED
    BY <2>1, <2>2 DEF ListsOnce
<1>2. ASSUME NEW r \in prog.requests PROVE KeptOnce(r)'
  <2>1. \A t \in Threads : Busy(t, r)' <=> Busy(t, r)
    BY <1>2, EmptyOnce DEF Busy, Free
  <2>2. r \in Saved(conn') <=> r \in Saved(conn)
    BY DEF Saved, SameSaved
  <2>3. At(r, "new")' <=> At(r, "new")
    BY <1>2, ThreadNames DEF At, Free
  <2>4. SameFor(r)
    BY <2>1, <2>2, <2>3 DEF SameFor
  <2> QED
    BY <1>2, <2>4, SameKept DEF RequestsOnce
<1> QED
  BY <1>1, <1>2, SMTT(30) DEF RequestsOnce

\* In particular one in which one thread returns or goes on.
LEMMA QuietOnce ==
    ASSUME ClntInv, RequestsOnce, SameSaved(conn, conn'), answered' = answered,
           prog'.requests = prog.requests, NEW t \in Threads,
           th[t].pc \notin {"new", "submit", "unwind"},
           \/ Return(t)
           \/ \E pc \in PCs \ {"new", "submit", "unwind"} : Goto(t, pc, NoFrame)
           \/ \E x \in Frames \ Requests : Goto(t, "submit", x)
    PROVE  RequestsOnce'
<1>0. /\ ThreadsOK /\ NoFrame \in Frames \cup {NoFrame}
      /\ prog.requests \subseteq Requests /\ Free(th[t])
  BY DEF ClntInv, ThreadsOK, ProgOK, Program, Free
<1>1. Free(th'[t]) /\ \A u \in Threads \ {t} : th'[u] = th[u]
  <2>1. CASE Return(t)
    BY <1>0, <2>1, ReturnThread, IdleThread DEF Free
  <2>2. ASSUME NEW pc \in PCs \ {"new", "submit", "unwind"}, Goto(t, pc, NoFrame)
        PROVE  Free(th'[t]) /\ \A u \in Threads \ {t} : th'[u] = th[u]
    BY <1>0, <2>2, GotoThread DEF Free
  <2>3. ASSUME NEW x \in Frames \ Requests, Goto(t, "submit", x)
        PROVE  Free(th'[t]) /\ \A u \in Threads \ {t} : th'[u] = th[u]
    BY <1>0, <2>3, GotoThread DEF Free, PCs
  <2> QED
    BY <2>1, <2>2, <2>3
<1> QED
  BY <1>0, <1>1, FrameOnce

\* client_submit_request.
LEMMA SubmitRequestOnce ==
    ASSUME ClntInv, RequestsOnce, NEW q \in Requests, client_submit_request(q)
    PROVE  RequestsOnce'
<1>0. /\ ThreadsOK /\ q \in Threads /\ th[q].pc = "new" /\ th[q].list = <<>>
      /\ q \in Frames /\ prog.requests \subseteq Requests
      /\ UNCHANGED <<conn, prog>> /\ answered \in [Requests -> Nat]
  BY ThreadNames DEF ClntInv, ThreadsOK, ProgOK, Program, WireOK, client_submit_request, At
<1>1. /\ th'[q].list = <<>> /\ th'[q].pc # "new"
      /\ \A u \in Threads \ {q} : th'[u] = th[u]
      /\ \/ th'[q].pc = "submit" /\ th'[q].arg = q /\ answered' = answered
         \/ /\ th'[q].pc = "idle"
            /\ answered' = [answered EXCEPT ![q] = @ + 1]
  <2>1. CASE conf_connected
    <3>1. Goto(q, "submit", q) /\ UNCHANGED answered
      BY <2>1 DEF client_submit_request
    <3> QED
      BY <1>0, <3>1, GotoThread, SMTT(30) DEF PCs
  <2>2. CASE ~conf_connected
    <3>1. Return(q) /\ answered' = [answered EXCEPT ![q] = @ + 1]
      BY <2>2 DEF client_submit_request, Answer
    <3> QED
      BY <1>0, <3>1, ReturnThread, IdleThread
  <2> QED
    BY <2>1, <2>2
<1>2. ListsOnce'
  <2>1. \A t \in Threads : OnceIn(th'[t].list, prog.requests)
    BY <1>1, EmptyOnce DEF RequestsOnce, ListsOnce
  <2> QED
    BY <1>0, <2>1 DEF RequestsOnce, ListsOnce
<1>3. ASSUME NEW r \in prog.requests PROVE KeptOnce(r)'
  <2> USE SMTT(30)
  <2>0. r \in Requests /\ r \in Threads /\ KeptOnce(r)
    BY <1>0, <1>3, ThreadNames DEF RequestsOnce
  <2>1. CASE r # q
    <3>1. \A t \in Threads : Busy(t, r)' <=> Busy(t, r)
      BY <1>0, <1>1, <2>1, EmptyOnce DEF Busy
    <3>2. SameFor(r)
      BY <1>0, <1>1, <2>0, <2>1, <3>1 DEF SameFor, At
    <3> QED
      BY <2>0, <3>2, SameKept
  <2>2. CASE r = q
    <3>1. /\ \A t \in Threads \ {q} : Busy(t, r)' <=> Busy(t, r)
          /\ Busy(q, r)' <=> th'[q].pc = "submit"
      BY <1>0, <1>1, <2>2, EmptyOnce DEF Busy
    <3>2. \A t \in Threads : ~Busy(t, r)
      BY <1>0, <2>0, <2>2 DEF KeptOnce, At
    <3>3. r \notin Saved(conn) /\ answered[r] = 0
      BY <1>0, <2>0, <2>2 DEF KeptOnce, At
    <3>4. r \notin Saved(conn') /\ ~At(r, "new")'
      BY <1>0, <1>1, <2>2, <3>3 DEF At
    <3>5. answered'[r] = IF th'[q].pc = "submit" THEN 0 ELSE 1
      BY <1>0, <1>1, <2>0, <2>2, <3>3
    <3> QED
      BY <1>0, <3>1, <3>2, <3>4, <3>5 DEF KeptOnce
  <2> QED
    BY <2>1, <2>2
<1> QED
  BY <1>0, <1>2, <1>3 DEF RequestsOnce

\* A request that thread t had is answered.
AnsweredBy(t, r) ==
    /\ Busy(t, r) /\ ~Busy(t, r)' /\ \A u \in Threads \ {t} : Busy(u, r)' <=> Busy(u, r)
    /\ r \in Saved(conn') <=> r \in Saved(conn)
    /\ At(r, "new")' <=> At(r, "new")
    /\ answered'[r] = answered[r] + 1

\* A request that is answered is no longer kept.
LEMMA AnsweredKept ==
    ASSUME NEW r \in Requests, KeptOnce(r), NEW t \in Threads, AnsweredBy(t, r)
    PROVE  KeptOnce(r)'
<1>1. r \notin Saved(conn) /\ ~At(r, "new") /\ answered[r] = 0
  BY DEF KeptOnce, AnsweredBy
<1>2. \A u \in Threads : ~Busy(u, r)'
  BY DEF KeptOnce, AnsweredBy
<1> QED
  BY <1>1, <1>2 DEF KeptOnce, AnsweredBy

\* rpc_clnt_submit: the request is saved, or answered when it could not be sent.
LEMMA SubmitOnce ==
    ASSUME ClntInv, RequestsOnce, NEW t \in Threads, rpc_clnt_submit(t)
    PROVE  RequestsOnce'
<1> PICK x : x = th[t].arg
  OBVIOUS
<1>0. /\ ThreadsOK /\ conn \in Conn /\ prog \in Program
      /\ prog.requests \subseteq Requests /\ answered \in [Requests -> Nat]
      /\ th[t].pc = "submit" /\ x \in Frames /\ th[t].list = <<>>
      /\ conn.sf \in Seq(Frames) /\ conn.lk_sf \in Seq(Frames)
  BY DEF ClntInv, ThreadsOK, ConnOK, Conn, ProgOK, Program, WireOK, rpc_clnt_submit, At
<1> PICK sent : sent = (conn.trans /\ sock = "up")
  OBVIOUS
<1> PICK v : v = IF sent THEN [Idle EXCEPT !.pc = "check"]
                 ELSE IF x = "ping" THEN [Idle EXCEPT !.pc = "ping_failed"]
                 ELSE Idle
  BY ZenonT(30)
<1>1. PICK fails \in EarlyFailures :
           /\ prog' = prog \/ prog' = [prog EXCEPT !.early = @ - 1]
           /\ conn' = IF sent THEN save_frame(conn, x) ELSE conn
           /\ IF sent THEN UNCHANGED answered ELSE Answer(x)
           /\ th' = [Spawned(fails) EXCEPT ![t] = v]
  BY ZenonT(30) DEF rpc_clnt_submit, socket_connect
<1>2. prog'.requests = prog.requests
  BY <1>0, <1>1 DEF Program
<1>3. Sound(v) /\ v.pc \in {"check", "ping_failed", "idle"} /\ v.list = <<>>
  BY IdleThread, ZenonT(30) DEF PCs
<1>4. /\ th'[t] = v
      /\ \A u \in Threads \ {t} :
           \/ th'[u] = th[u]
           \/ /\ th[u].pc = "idle" /\ th'[u].pc = "cleanup"
              /\ th[u].list = <<>> /\ th'[u].list = <<>>
  <2>1. Spawns(t, v, fails)
    BY <1>0, <1>1, <1>3, SpawnThread, ZenonT(30)
  <2> QED
    BY <2>1 DEF Spawns
<1>5. /\ \A r \in Requests : \A u \in Threads \ {t} : Busy(u, r)' <=> Busy(u, r)
      /\ \A r \in Requests : ~Busy(t, r)' /\ (Busy(t, r) <=> r = x)
      /\ \A r \in Requests : At(r, "new")' <=> At(r, "new")
  BY <1>0, <1>3, <1>4, EmptyOnce, ThreadNames, ZenonT(30) DEF Busy, At
<1>6. \A u \in Threads : OnceIn(th'[u].list, prog'.requests)
  BY <1>2, <1>3, <1>4, EmptyOnce, ZenonT(30) DEF RequestsOnce, ListsOnce
<1>7. CASE sent
  <2>1. Saves(conn, x, conn') /\ answered' = answered
    BY <1>0, <1>1, <1>7, SaveFacts
  <2>2. /\ Range(Append(conn.sf, x)) = Range(conn.sf) \cup {x}
        /\ Range(Append(conn.lk_sf, x)) = Range(conn.lk_sf) \cup {x}
    BY <1>0, AppendRange
  <2>3. Saved(conn') = Saved(conn) \cup {x}
    BY <2>1, <2>2, ZenonT(30) DEF Saved, Saves
  <2>4. x \notin prog.requests \/ x \notin Saved(conn)
    BY <1>0, <1>5 DEF RequestsOnce, KeptOnce
  <2>5. OnceIn(conn'.sf, prog.requests) /\ OnceIn(conn'.lk_sf, prog.requests)
    <3>1. OnceIn(conn.sf, prog.requests) /\ OnceIn(conn.lk_sf, prog.requests)
      BY DEF RequestsOnce, ListsOnce
    <3>2. x \notin prog.requests \/ (x \notin Range(conn.sf) /\ x \notin Range(conn.lk_sf))
      BY <2>4 DEF Saved
    <3>3. /\ OnceIn(Append(conn.sf, x), prog.requests)
          /\ OnceIn(Append(conn.lk_sf, x), prog.requests)
      BY <1>0, <3>1, <3>2, AppendOnce
    <3> QED
      BY <2>1, <3>1, <3>3, ZenonT(30) DEF Saves
  <2>6. ListsOnce'
    BY <1>2, <1>6, <2>5 DEF ListsOnce
  <2>7. ASSUME NEW r \in prog.requests PROVE KeptOnce(r)'
    <3>0. r \in Requests /\ KeptOnce(r)
      BY <1>0, <2>7 DEF RequestsOnce
    <3>1. CASE r = x
      <4>1. Busy(t, r) /\ ~At(r, "new") /\ answered[r] = 0
        BY <1>5, <3>0, <3>1 DEF KeptOnce
      <4>2. \A u \in Threads : ~Busy(u, r)'
        BY <1>5, <3>0, <4>1 DEF KeptOnce
      <4>3. r \in Saved(conn') /\ ~At(r, "new")' /\ answered'[r] = 0
        BY <1>5, <2>1, <2>3, <3>0, <3>1, <4>1
      <4> QED
        BY <4>2, <4>3 DEF KeptOnce
    <3>2. CASE r # x
      <4>1. SameFor(r)
        BY <1>5, <2>1, <2>3, <3>0, <3>2 DEF SameFor
      <4> QED
        BY <3>0, <4>1, SameKept
    <3> QED
      BY <3>1, <3>2
  <2> QED
    BY <1>2, <2>6, <2>7 DEF RequestsOnce
<1>8. CASE ~sent
  <2>1. conn' = conn /\ Answer(x)
    BY <1>1, <1>8
  <2>2. ListsOnce'
    BY <1>2, <1>6, <2>1 DEF RequestsOnce, ListsOnce
  <2>3. ASSUME NEW r \in prog.requests PROVE KeptOnce(r)'
    <3>0. r \in Requests /\ KeptOnce(r)
      BY <1>0, <2>3 DEF RequestsOnce
    <3>1. CASE r = x
      <4>1. answered'[r] = answered[r] + 1
        BY <1>0, <2>1, <3>0, <3>1 DEF Answer
      <4>2. AnsweredBy(t, r)
        BY <1>5, <2>1, <3>0, <3>1, <4>1 DEF AnsweredBy
      <4> QED
        BY <3>0, <4>2, AnsweredKept
    <3>2. CASE r # x
      <4>1. answered'[r] = answered[r]
        BY <1>0, <2>1, <3>0, <3>2 DEF Answer
      <4>2. SameFor(r)
        BY <1>5, <2>1, <3>0, <3>2, <4>1 DEF SameFor
      <4> QED
        BY <3>0, <4>2, SameKept
    <3> QED
      BY <3>1, <3>2
  <2> QED
    BY <1>2, <2>2, <2>3 DEF RequestsOnce
<1> QED
  BY <1>7, <1>8

\* saved_frames_unwind: the first request of the list is answered.
LEMMA UnwindOnce ==
    ASSUME ClntInv, RequestsOnce, NEW t \in Threads, saved_frames_unwind(t)
    PROVE  RequestsOnce'
<1> PICK l, m, x : l = th[t].list /\ m = Tail(l) /\ x = Head(l)
  BY ZenonT(30)
<1>0. /\ ThreadsOK /\ conn \in Conn /\ th[t].pc = "unwind"
      /\ l \in Seq(Frames) /\ l # <<>> /\ OnceIn(l, prog.requests)
      /\ prog.requests \subseteq Requests /\ answered \in [Requests -> Nat]
  BY DEF ClntInv, saved_frames_unwind, At, ConnOK, WireOK, ThreadsOK, Thread, ProgOK,
         Program, RequestsOnce, ListsOnce
<1>1. /\ x \in Range(l) /\ OnceIn(m, prog.requests) /\ Range(m) \subseteq Range(l)
      /\ Range(l) \ {x} \subseteq Range(m) /\ (x \in prog.requests => x \notin Range(m))
  BY <1>0, TailOnce
<1>2. Answer(x) /\ Unwinding(t, m) /\ prog' = prog
  BY DEF saved_frames_unwind
<1>3. SameSaved(conn, conn')
  <2>1. CASE conn' = conn
    BY <2>1 DEF SameSaved
  <2>2. CASE conn' = PingFailed(conn)
    <3>1. PingFails(conn, conn')
      BY <1>0, <2>2, PingFailedFacts
    <3> QED
      BY <3>1 DEF PingFails
  <2> QED
    BY <2>1, <2>2 DEF saved_frames_unwind
<1>4. /\ th'[t].list = m /\ th'[t].pc \in {"unwind", "idle", "disconnected"}
      /\ \A u \in Threads \ {t} : th'[u] = th[u]
  <2>1. m \in Seq(Frames)
    BY <1>0
  <2> QED
    BY <1>0, <1>2, <2>1, UnwindThread, ZenonT(30)
<1>5. ListsOnce'
  BY <1>1, <1>2, <1>3, <1>4 DEF RequestsOnce, ListsOnce, SameSaved
<1>6. ASSUME NEW r \in prog.requests PROVE KeptOnce(r)'
  <2> USE SMTT(30)
  <2>0. r \in Requests /\ r \in Threads /\ KeptOnce(r)
    BY <1>0, <1>6, ThreadNames DEF RequestsOnce
  <2>1. /\ \A u \in Threads \ {t} : Busy(u, r)' <=> Busy(u, r)
        /\ Busy(t, r)' <=> r \in Range(m)
        /\ Busy(t, r) <=> r \in Range(l)
        /\ At(r, "new")' <=> At(r, "new")
    BY <1>0, <1>4, <2>0 DEF Busy, At
  <2>2. r \in Saved(conn') <=> r \in Saved(conn)
    BY <1>3 DEF SameSaved, Saved
  <2>3. CASE r = x
    <3>1. answered'[r] = answered[r] + 1
      BY <1>0, <1>2, <2>0, <2>3 DEF Answer
    <3>2. AnsweredBy(t, r)
      BY <1>1, <1>6, <2>1, <2>2, <2>3, <3>1 DEF AnsweredBy
    <3> QED
      BY <2>0, <3>2, AnsweredKept
  <2>4. CASE r # x
    <3>1. answered'[r] = answered[r]
      BY <1>0, <1>2, <2>0, <2>4 DEF Answer
    <3>2. SameFor(r)
      BY <1>1, <2>1, <2>2, <2>4, <3>1 DEF SameFor
    <3> QED
      BY <2>0, <3>2, SameKept
  <2> QED
    BY <2>3, <2>4
<1> QED
  BY <1>2, <1>5, <1>6 DEF RequestsOnce

\* rpc_clnt_handle_reply: the request of the reply is answered.
LEMMA ReplyOnce ==
    ASSUME ClntInv, RequestsOnce, NEW x \in Frames, rpc_clnt_handle_reply(x)
    PROVE  RequestsOnce'
<1> USE SMTT(30)
<1>0. /\ ThreadsOK /\ th["epoll"].pc = "idle" /\ "epoll" \in Threads
      /\ conn \in Conn /\ prog' = prog
      /\ conn.sf \in Seq(Frames) /\ conn.lk_sf \in Seq(Frames)
      /\ prog.requests \subseteq Requests /\ answered \in [Requests -> Nat]
      /\ NoFrame \in Frames \cup {NoFrame}
      /\ "setvolume" \in Frames /\ "setvolume" \notin Requests
  BY ThreadNames DEF ClntInv, rpc_clnt_handle_reply, At, ConnOK, Conn, ProgOK, Program,
                     WireOK, Frames, Handshake
<1>1. CASE x \in Saved(conn)
  <2>1. /\ conn' = saved_frame_get(conn, x)
        /\ Answer(x)
        /\ \/ Goto("epoll", "ping_cbk", NoFrame)
           \/ Goto("epoll", "submit", "setvolume")
           \/ Goto("epoll", "set_connected", NoFrame)
           \/ Return("epoll")
    BY <1>1 DEF rpc_clnt_handle_reply
  <2>2. /\ Free(th["epoll"]) /\ Free(th'["epoll"])
        /\ \A u \in Threads \ {"epoll"} : th'[u] = th[u]
    <3>1. Free(th["epoll"])
      BY <1>0 DEF Free, ThreadsOK
    <3>2. CASE Return("epoll")
      BY <1>0, <3>1, <3>2, ReturnThread, IdleThread DEF Free
    <3>3. CASE Goto("epoll", "ping_cbk", NoFrame)
      BY <1>0, <3>1, <3>3, GotoThread DEF Free, PCs
    <3>4. CASE Goto("epoll", "submit", "setvolume")
      BY <1>0, <3>1, <3>4, GotoThread DEF Free, PCs
    <3>5. CASE Goto("epoll", "set_connected", NoFrame)
      BY <1>0, <3>1, <3>5, GotoThread DEF Free, PCs
    <3> QED
      BY <2>1, <3>2, <3>3, <3>4, <3>5
  <2> PICK s, l : s = conn'.sf /\ l = conn'.lk_sf
    OBVIOUS
  <2>3. s = find_del(conn.sf, x) /\ l = find_del(conn.lk_sf, x)
    <3>1. Takes(conn, x, conn')
      BY <1>0, <2>1, GetFacts, ZenonT(30)
    <3> QED
      BY <3>1 DEF Takes
  <2>4. ASSUME NEW c \in Seq(Frames), OnceIn(c, prog.requests),
               NEW d, d = find_del(c, x)
        PROVE  /\ OnceIn(d, prog.requests) /\ Range(d) \subseteq Range(c)
               /\ Range(c) \ {x} \subseteq Range(d)
               /\ x \in prog.requests => x \notin Range(d)
    <3>1. OnceIn(d, prog.requests)
      BY <2>4, FindDelOnce
    <3>2. Range(d) \subseteq Range(c)
      BY <2>4, FindDelOnce, ZenonT(30)
    <3>3. Range(c) \ {x} \subseteq Range(d)
      BY <2>4, FindDelOnce, ZenonT(30)
    <3>4. x \in prog.requests => x \notin Range(d)
      BY <2>4, FindDelOnce
    <3> QED
      BY <3>1, <3>2, <3>3, <3>4
  <2>5. /\ OnceIn(s, prog.requests) /\ OnceIn(l, prog.requests)
        /\ Range(s) \subseteq Range(conn.sf) /\ Range(l) \subseteq Range(conn.lk_sf)
        /\ Range(conn.sf) \ {x} \subseteq Range(s)
        /\ Range(conn.lk_sf) \ {x} \subseteq Range(l)
        /\ x \in prog.requests => x \notin Range(s) /\ x \notin Range(l)
    <3>1. OnceIn(conn.sf, prog.requests) /\ OnceIn(conn.lk_sf, prog.requests)
      BY DEF RequestsOnce, ListsOnce
    <3>2. /\ OnceIn(s, prog.requests) /\ Range(s) \subseteq Range(conn.sf)
          /\ Range(conn.sf) \ {x} \subseteq Range(s)
          /\ x \in prog.requests => x \notin Range(s)
      BY <1>0, <2>3, <2>4, <3>1
    <3>3. /\ OnceIn(l, prog.requests) /\ Range(l) \subseteq Range(conn.lk_sf)
          /\ Range(conn.lk_sf) \ {x} \subseteq Range(l)
          /\ x \in prog.requests => x \notin Range(l)
      BY <1>0, <2>3, <2>4, <3>1
    <3> QED
      BY <3>2, <3>3
  <2>6. \A t \in Threads : OnceIn(th'[t].list, prog.requests)
    BY <2>2, EmptyOnce DEF RequestsOnce, ListsOnce, Free
  <2>7. ListsOnce'
    BY <1>0, <2>5, <2>6 DEF ListsOnce
  <2>8. ASSUME NEW r \in prog.requests PROVE KeptOnce(r)'
    <3>0. r \in Requests /\ r \in Threads /\ KeptOnce(r)
      BY <1>0, <2>8, ThreadNames DEF RequestsOnce
    <3>1. /\ \A t \in Threads : Busy(t, r)' <=> Busy(t, r)
          /\ At(r, "new")' <=> At(r, "new")
      BY <2>2, <3>0, EmptyOnce DEF Busy, Free, At
    <3>2. CASE r # x
      <4>1. r \in Saved(conn') <=> r \in Saved(conn)
        BY <2>5, <3>2 DEF Saved
      <4>2. answered'[r] = answered[r]
        BY <1>0, <2>1, <3>0, <3>2 DEF Answer
      <4>3. SameFor(r)
        BY <3>1, <4>1, <4>2 DEF SameFor
      <4> QED
        BY <3>0, <4>3, SameKept
    <3>3. CASE r = x
      <4>1. /\ r \notin Saved(conn') /\ ~At(r, "new") /\ answered[r] = 0
            /\ \A t \in Threads : ~Busy(t, r)
        BY <1>1, <2>5, <2>8, <3>0, <3>3 DEF Saved, KeptOnce
      <4>2. answered'[r] = 1
        BY <1>0, <2>1, <3>0, <3>3, <4>1 DEF Answer
      <4> QED
        BY <3>1, <4>1, <4>2 DEF KeptOnce
    <3> QED
      BY <3>2, <3>3
  <2> QED
    BY <1>0, <2>7, <2>8 DEF RequestsOnce
<1>2. CASE x \notin Saved(conn)
  <2>1. UNCHANGED <<conn, answered>> /\ Goto("epoll", "cleanup", NoFrame)
    BY <1>2 DEF rpc_clnt_handle_reply, Unexpected
  <2>2. SameSaved(conn, conn') /\ "cleanup" \in PCs \ {"new", "submit", "unwind"}
    BY <2>1 DEF SameSaved, PCs
  <2> QED
    BY <1>0, <2>1, <2>2, QuietOnce
<1> QED
  BY <1>1, <1>2

\* Requests go from the lists of saved frames to a thread: those of the list m.
LEMMA MovedOnce ==
    ASSUME ClntInv, RequestsOnce, NEW t \in Threads, NEW m \in Seq(Frames),
           OnceIn(m, prog.requests), Unwinding(t, m),
           th[t].pc \notin {"new", "submit", "unwind"},
           OnceIn(conn'.sf, prog.requests), OnceIn(conn'.lk_sf, prog.requests),
           Saved(conn) = Saved(conn') \cup Range(m),
           \A r \in prog.requests : ~(r \in Saved(conn') /\ r \in Range(m)),
           answered' = answered, prog' = prog
    PROVE  RequestsOnce'
<1> USE SMTT(30)
<1>0. ThreadsOK /\ prog.requests \subseteq Requests /\ th[t].list = <<>>
  BY DEF ClntInv, ThreadsOK, ProgOK, Program
<1>1. /\ th'[t].list = m /\ th'[t].pc \in {"unwind", "idle", "disconnected"}
      /\ \A u \in Threads \ {t} : th'[u] = th[u]
  BY <1>0, UnwindThread
<1>2. ListsOnce'
  BY <1>1 DEF RequestsOnce, ListsOnce
<1>3. ASSUME NEW r \in prog.requests PROVE KeptOnce(r)'
  <2>0. r \in Requests /\ r \in Threads /\ KeptOnce(r)
    BY <1>0, <1>3, ThreadNames DEF RequestsOnce
  <2>1. /\ \A u \in Threads \ {t} : Busy(u, r)' <=> Busy(u, r)
        /\ Busy(t, r)' <=> r \in Range(m)
        /\ ~Busy(t, r)
        /\ At(r, "new")' <=> At(r, "new")
    BY <1>0, <1>1, <2>0, EmptyOnce DEF Busy, At
  <2>2. CASE r \in Range(m)
    <3>1. r \in Saved(conn) /\ r \notin Saved(conn')
      BY <1>3, <2>2
    <3>2. /\ ~At(r, "new") /\ answered[r] = 0 /\ \A u \in Threads : ~Busy(u, r)
      BY <2>0, <3>1 DEF KeptOnce
    <3> QED
      BY <2>1, <2>2, <3>1, <3>2, ZenonT(30) DEF KeptOnce
  <2>3. CASE r \notin Range(m)
    <3>1. SameFor(r)
      BY <2>1, <2>3 DEF SameFor
    <3> QED
      BY <2>0, <3>1, SameKept
  <2> QED
    BY <2>2, <2>3
<1> QED
  BY <1>2, <1>3 DEF RequestsOnce

\* rpc_clnt_connection_cleanup takes all saved frames.
LEMMA CleanupOnce ==
    ASSUME ClntInv, RequestsOnce, NEW t \in Threads, rpc_clnt_connection_cleanup(t)
    PROVE  RequestsOnce'
<1> PICK l : l = conn.lk_sf \o conn.sf
  BY ZenonT(30)
<1>0. /\ conn \in Conn /\ th[t].pc = "cleanup"
      /\ conn.sf \in Seq(Frames) /\ conn.lk_sf \in Seq(Frames)
      /\ conn.ping_started => conn.ping_timer # "none"
      /\ UNCHANGED <<answered, prog>> /\ Unwinding(t, l)
  BY DEF ClntInv, rpc_clnt_connection_cleanup, At, ConnOK, Conn, Guarded
<1>1. Cleans(conn, conn')
  BY <1>0, CleanupFacts, ZenonT(30) DEF rpc_clnt_connection_cleanup
<1>2. conn'.sf = <<>> /\ conn'.lk_sf = <<>> /\ Saved(conn') = {}
  BY <1>1, EmptyOnce DEF Cleans, Saved
<1>3. l \in Seq(Frames) /\ Range(l) = Saved(conn)
  BY <1>0, JoinFacts, ConcatRange, SMTT(30) DEF Saved
<1>4. OnceIn(l, prog.requests)
  <2>1. \A r \in prog.requests : ~(r \in Range(conn.lk_sf) /\ r \in Range(conn.sf))
    BY DEF ClntInv, ConnOK
  <2> QED
    BY <1>0, <2>1, ConcatOnce DEF RequestsOnce, ListsOnce
<1> QED
  BY <1>0, <1>2, <1>3, <1>4, EmptyOnce, MovedOnce, ZenonT(30)

\* call_bail takes the frames that timed out.
LEMMA BailedOnce ==
    ASSUME ClntInv, RequestsOnce, NEW n \in TimedOut(conn), call_bail(n)
    PROVE  RequestsOnce'
<1>0. /\ conn \in Conn /\ th["timer"].pc = "call_bail" /\ "timer" \in Threads
      /\ conn.sf \in Seq(Frames) /\ UNCHANGED <<answered, prog>>
      /\ conn' = [conn EXCEPT !.sf = SubSeq(@, n + 1, Len(@))]
      /\ Unwinding("timer", moved(SubSeq(conn.sf, 1, n)))
  BY ThreadNames DEF ClntInv, call_bail, At, ConnOK, Conn
<1> PICK a, b, m : /\ a = SubSeq(conn.sf, 1, n) /\ m = moved(a)
                   /\ b = SubSeq(conn.sf, n + 1, Len(conn.sf))
  BY ZenonT(30)
<1>1. n \in 0..Len(conn.sf) /\ conn'.sf = b /\ conn'.lk_sf = conn.lk_sf
  BY <1>0, BailFacts, SMTT(30)
<1>2. /\ a \in Seq(Frames) /\ OnceIn(a, prog.requests) /\ OnceIn(b, prog.requests)
      /\ Range(conn.sf) = Range(a) \cup Range(b)
      /\ \A r \in prog.requests : ~(r \in Range(a) /\ r \in Range(b))
  BY <1>0, <1>1, SplitOnce DEF RequestsOnce, ListsOnce
<1>3. m \in Seq(Frames) /\ OnceIn(m, prog.requests) /\ Range(m) = Range(a)
  BY <1>2, MovedList, ZenonT(30)
<1>4. Saved(conn) = Saved(conn') \cup Range(m)
  BY <1>1, <1>2, <1>3 DEF Saved
<1>5. \A r \in prog.requests : ~(r \in Saved(conn') /\ r \in Range(m))
  BY <1>1, <1>2, <1>3 DEF Saved, ClntInv, ConnOK
<1>6. OnceIn(conn'.sf, prog.requests) /\ OnceIn(conn'.lk_sf, prog.requests)
  BY <1>1, <1>2 DEF RequestsOnce, ListsOnce
<1>7. Unwinding("timer", m)
  BY <1>0
<1> QED
  BY <1>0, <1>3, <1>4, <1>5, <1>6, <1>7, MovedOnce, ZenonT(30)

\* The steps that have to do with no request.
LEMMA OtherOnce ==
    ASSUME ClntInv, RequestsOnce,
           \/ \E t \in Threads : \/ rpc_clnt_check_and_start_ping(t)
                                 \/ rpc_clnt_start_ping(t)
                                 \/ rpc_clnt_ping_failed(t)
                                 \/ rpc_clnt_notify_disconnect(t)
                                 \/ client_disconnected(t)
           \/ rpc_clnt_ping_cbk \/ rpc_clnt_reconnect \/ rpc_clnt_ping_timer_expired
           \/ PingDisconnect \/ DisableDisconnect \/ socket_connect_finish
           \/ socket_event_poll_err \/ (\E x \in Timers : gf_timer_proc(x))
           \/ rpc_clnt_disable \/ Hang \/ rpc_clnt_set_connected \/ client_setvolume_cbk
    PROVE  RequestsOnce'
<1> USE SMTT(30)
<1>0. /\ conn \in Conn /\ prog \in Program /\ prog.requests \subseteq Requests
      /\ ThreadsOK /\ (conn.ping_started => conn.ping_timer # "none")
      /\ "epoll" \in Threads /\ "timer" \in Threads /\ "owner" \in Threads
      /\ "ping" \in Frames \ Requests /\ "dump" \in Frames \ Requests
  BY ThreadNames DEF ClntInv, ConnOK, ProgOK, Program, Guarded, Frames, Handshake
<1>1. SameSaved(conn, PingFailed(conn))
  <2> PICK d : d = PingFailed(conn)
    OBVIOUS
  <2>1. PingFails(conn, d)
    BY <1>0, PingFailedFacts
  <2> QED
    BY <2>1 DEF PingFails
<1>2. ASSUME NEW t \in Threads, rpc_clnt_check_and_start_ping(t) PROVE RequestsOnce'
  <2>1. /\ UNCHANGED <<conn, answered, prog>> /\ th[t].pc = "check"
        /\ Return(t) \/ Goto(t, "start", NoFrame)
    BY <1>2, ZenonT(30) DEF rpc_clnt_check_and_start_ping, At
  <2>2. SameSaved(conn, conn') /\ "start" \in PCs \ {"new", "submit", "unwind"}
    BY <2>1 DEF SameSaved, PCs
  <2> QED
    BY <2>1, <2>2, QuietOnce, ZenonT(30)
<1>3. ASSUME NEW t \in Threads, rpc_clnt_start_ping(t) PROVE RequestsOnce'
  <2> PICK c : c = IF conn.ping_timer # "none" THEN PingFailed(conn) ELSE conn
    OBVIOUS
  <2>1. /\ UNCHANGED <<answered, prog>> /\ th[t].pc = "start"
        /\ Return(t) \/ Goto(t, "submit", "ping")
        /\ \/ conn' = c
           \/ conn' = [c EXCEPT !.ping_timer = "expired", !.ping_started = TRUE]
    BY <1>3 DEF rpc_clnt_start_ping, At
  <2>2. c \in Conn /\ SameSaved(conn, c)
    <3>1. CASE conn.ping_timer = "none"
      BY <1>0, <3>1 DEF SameSaved
    <3>2. CASE conn.ping_timer # "none"
      <4>1. PingFails(conn, c)
        BY <1>0, <3>2, PingFailedFacts
      <4> QED
        BY <4>1 DEF PingFails
    <3> QED
      BY <3>1, <3>2
  <2>3. SameSaved(conn, conn')
    BY <2>1, <2>2, ZenonT(30) DEF SameSaved, Conn
  <2> QED
    BY <1>0, <2>1, <2>3, QuietOnce
<1>4. ASSUME NEW t \in Threads, rpc_clnt_ping_failed(t) PROVE RequestsOnce'
  <2>1. /\ UNCHANGED <<answered, prog>> /\ th[t].pc = "ping_failed" /\ Return(t)
        /\ conn' = PingFailed(conn)
    BY <1>4 DEF rpc_clnt_ping_failed, At
  <2>2. SameSaved(conn, conn')
    BY <1>1, <2>1, ZenonT(30)
  <2> QED
    BY <1>0, <2>1, <2>2, QuietOnce
<1>5. ASSUME NEW t \in Threads, rpc_clnt_notify_disconnect(t) PROVE RequestsOnce'
  <2>1. /\ UNCHANGED <<answered, prog>> /\ th[t].pc = "disconnected"
        /\ Goto(t, "notify", NoFrame) /\ "notify" \in PCs \ {"new", "submit", "unwind"}
        /\ conn' = [conn EXCEPT !.reconnect = @ \/ ~conn.disabled]
    BY <1>5 DEF rpc_clnt_notify_disconnect, At, PCs
  <2>2. SameSaved(conn, conn')
    BY <1>0, <2>1 DEF SameSaved, Conn
  <2> QED
    BY <2>1, <2>2, QuietOnce
<1>6. ASSUME NEW t \in Threads, client_disconnected(t) PROVE RequestsOnce'
  <2>1. UNCHANGED <<conn, answered, prog>> /\ th[t].pc = "notify" /\ Return(t)
    BY <1>6 DEF client_disconnected, At
  <2>2. SameSaved(conn, conn')
    BY <2>1 DEF SameSaved
  <2> QED
    BY <2>1, <2>2, QuietOnce, ZenonT(30)
<1>7. CASE rpc_clnt_ping_cbk
  <2>1. /\ UNCHANGED <<answered, prog>> /\ th["epoll"].pc = "ping_cbk" /\ Return("epoll")
        /\ conn' = [conn EXCEPT !.ping_timer = "start"]
    BY <1>7 DEF rpc_clnt_ping_cbk, At
  <2>2. SameSaved(conn, conn')
    BY <1>0, <2>1 DEF SameSaved, Conn
  <2> QED
    BY <1>0, <2>1, <2>2, QuietOnce
<1>8. CASE rpc_clnt_reconnect
  <2>1. PICK fails \in EarlyFailures :
           /\ prog' = prog \/ prog' = [prog EXCEPT !.early = @ - 1]
           /\ conn' = conn \/ \E b : conn' = [conn EXCEPT !.reconnect = b]
           /\ th' = [Spawned(fails) EXCEPT !["timer"] = Idle]
    BY <1>8, ZenonT(30) DEF rpc_clnt_reconnect, socket_connect
  <2>2. th["timer"].pc = "reconnect" /\ answered' = answered
    BY <1>8 DEF rpc_clnt_reconnect, At
  <2>3. SameSaved(conn, conn') /\ prog'.requests = prog.requests
    BY <1>0, <2>1 DEF SameSaved, Conn, Program
  <2>4. Spawns("timer", Idle, fails)
    BY <1>0, <2>1, <2>2, IdleThread, SpawnThread, ZenonT(30)
  <2>5. \A u \in Threads : th'[u] = th[u] \/ (Free(th[u]) /\ Free(th'[u]))
    <3>1. Free(th["timer"]) /\ Free(Idle)
      BY <1>0, <2>2, IdleThread DEF Free, ThreadsOK
    <3> QED
      BY <2>4, <3>1 DEF Spawns, Free
  <2> QED
    BY <1>0, <2>2, <2>3, <2>5, FrameOnce, ZenonT(30)
<1>9. CASE rpc_clnt_ping_timer_expired
  <2>1. /\ UNCHANGED <<answered, prog>> /\ th["timer"].pc = "expired"
        /\ Return("timer") \/ Goto("timer", "disconnect", NoFrame)
        /\ conn' = [conn EXCEPT !.ping_timer = "expired"] \/ conn' = PingFailed(conn)
        /\ "disconnect" \in PCs \ {"new", "submit", "unwind"}
    BY <1>9 DEF rpc_clnt_ping_timer_expired, At, PCs
  <2>2. SameSaved(conn, conn')
    BY <1>0, <1>1, <2>1 DEF SameSaved, Conn
  <2> QED
    BY <1>0, <2>1, <2>2, QuietOnce
<1>10. CASE PingDisconnect
  <2>1. UNCHANGED <<conn, answered, prog>> /\ th["timer"].pc = "disconnect" /\ Return("timer")
    BY <1>10 DEF PingDisconnect, At
  <2>2. SameSaved(conn, conn')
    BY <2>1 DEF SameSaved
  <2> QED
    BY <1>0, <2>1, <2>2, QuietOnce
<1>11. CASE DisableDisconnect
  <2>1. UNCHANGED <<conn, answered, prog>> /\ th["owner"].pc = "disconnect" /\ Return("owner")
    BY <1>11 DEF DisableDisconnect, At
  <2>2. SameSaved(conn, conn')
    BY <2>1 DEF SameSaved
  <2> QED
    BY <1>0, <2>1, <2>2, QuietOnce
<1>12. CASE socket_connect_finish
  <2>1. /\ UNCHANGED <<conn, answered, prog>> /\ th["epoll"].pc = "idle"
        /\ Goto("epoll", "submit", "dump")
    BY <1>12 DEF socket_connect_finish, At
  <2>2. SameSaved(conn, conn')
    BY <2>1 DEF SameSaved
  <2> QED
    BY <1>0, <2>1, <2>2, QuietOnce
<1>13. CASE socket_event_poll_err
  <2>1. /\ UNCHANGED <<conn, answered>> /\ th["epoll"].pc = "idle"
        /\ prog' = prog \/ prog' = [prog EXCEPT !.breaks = @ - 1]
        /\ Goto("epoll", "cleanup", NoFrame) /\ "cleanup" \in PCs \ {"new", "submit", "unwind"}
    BY <1>13 DEF socket_event_poll_err, At, PCs
  <2>2. SameSaved(conn, conn') /\ prog'.requests = prog.requests
    BY <1>0, <2>1 DEF SameSaved, Program
  <2> QED
    BY <1>0, <2>1, <2>2, QuietOnce
<1>14. ASSUME NEW x \in Timers, gf_timer_proc(x) PROVE RequestsOnce'
  <2>1. /\ UNCHANGED <<conn, answered, prog>> /\ th["timer"].pc = "idle"
        /\ Return("timer") \/ Goto("timer", CallbackOf(x), NoFrame)
    BY <1>14 DEF gf_timer_proc, At
  <2>2. SameSaved(conn, conn')
    BY <2>1 DEF SameSaved
  <2>3. CallbackOf(x) \in PCs \ {"new", "submit", "unwind"}
    BY DEF CallbackOf, Timers, PCs
  <2> PICK pc : pc = CallbackOf(x)
    OBVIOUS
  <2>4. Return("timer") \/ Goto("timer", pc, NoFrame)
    BY <2>1
  <2> QED
    BY <1>0, <2>1, <2>2, <2>3, <2>4, QuietOnce
<1>15. CASE rpc_clnt_disable
  <2>1. /\ UNCHANGED <<answered, prog>> /\ th["owner"].pc = "idle"
        /\ Goto("owner", "disconnect", NoFrame)
        /\ "disconnect" \in PCs \ {"new", "submit", "unwind"}
    BY <1>15 DEF rpc_clnt_disable, At, PCs
  <2>2. Disables(conn, conn')
    BY <1>0, <1>15, DisableFacts, ZenonT(30) DEF rpc_clnt_disable
  <2>3. SameSaved(conn, conn')
    BY <2>2 DEF Disables
  <2> QED
    BY <1>0, <2>1, <2>3, QuietOnce, ZenonT(30)
<1>16. CASE Hang
  <2>1. UNCHANGED <<conn, answered, prog, th>>
    BY <1>16 DEF Hang
  <2>2. SameSaved(conn, conn')
    BY <2>1 DEF SameSaved
  <2> QED
    BY <1>0, <2>1, <2>2, FrameOnce, ZenonT(30)
<1>17. CASE rpc_clnt_set_connected
  <2>1. /\ UNCHANGED <<answered, prog>> /\ th["epoll"].pc = "set_connected"
        /\ Goto("epoll", "attached", NoFrame)
        /\ "attached" \in PCs \ {"new", "submit", "unwind"}
        /\ conn' = [conn EXCEPT !.connected = TRUE]
    BY <1>17 DEF rpc_clnt_set_connected, At, PCs
  <2>2. SameSaved(conn, conn')
    BY <1>0, <2>1 DEF SameSaved, Conn
  <2> QED
    BY <1>0, <2>1, <2>2, QuietOnce
<1>18. CASE client_setvolume_cbk
  <2>1. UNCHANGED <<conn, answered, prog>> /\ th["epoll"].pc = "attached" /\ Return("epoll")
    BY <1>18 DEF client_setvolume_cbk, At
  <2>2. SameSaved(conn, conn')
    BY <2>1 DEF SameSaved
  <2> QED
    BY <1>0, <2>1, <2>2, QuietOnce
<1> QED
  BY <1>2, <1>3, <1>4, <1>5, <1>6, <1>7, <1>8, <1>9, <1>10, <1>11, <1>12, <1>13, <1>14,
     <1>15, <1>16, <1>17, <1>18

\* Every step keeps RequestsOnce.
LEMMA OnceNext ==
    ASSUME ClntInv, RequestsOnce, [Next]_vars
    PROVE  RequestsOnce'
<1>1. ASSUME NEW r \in Requests, client_submit_request(r) PROVE RequestsOnce'
  BY <1>1, SubmitRequestOnce
<1>2. ASSUME NEW t \in Threads, rpc_clnt_submit(t) PROVE RequestsOnce'
  BY <1>2, SubmitOnce
<1>3. ASSUME NEW t \in Threads, rpc_clnt_connection_cleanup(t) PROVE RequestsOnce'
  BY <1>3, CleanupOnce
<1>4. ASSUME NEW t \in Threads, saved_frames_unwind(t) PROVE RequestsOnce'
  BY <1>4, UnwindOnce
<1>5. ASSUME NEW n \in TimedOut(conn), call_bail(n) PROVE RequestsOnce'
  BY <1>5, BailedOnce
<1>6. ASSUME NEW x \in Frames, rpc_clnt_handle_reply(x) PROVE RequestsOnce'
  BY <1>6, ReplyOnce
<1>7. CASE UNCHANGED vars
  <2>1. /\ UNCHANGED <<conn, answered, prog, th>> /\ SameSaved(conn, conn')
        /\ prog.requests \subseteq Requests
    BY <1>7 DEF vars, SameSaved, ClntInv, ProgOK, Program
  <2> QED
    BY <2>1, FrameOnce
<1> QED
  BY <1>1, <1>2, <1>3, <1>4, <1>5, <1>6, <1>7, OtherOnce DEF Next, Work

\* It holds at the start, when no request was submitted.
LEMMA OnceInit ==
    ASSUME Init, ClntInv
    PROVE  RequestsOnce
<1>1. prog.requests \subseteq Requests
  BY DEF ClntInv, ProgOK, Program
<1>2. \A t \in Threads : th[t].list = <<>> /\ th[t].pc # "submit"
  BY IdleThread DEF Init, Idle
<1>3. ListsOnce
  BY <1>2, EmptyOnce DEF Init, ListsOnce
<1>4. ASSUME NEW r \in prog.requests PROVE KeptOnce(r)
  <2>1. r \in Requests /\ r \in Threads
    BY <1>1, <1>4, ThreadNames
  <2>2. r \notin Saved(conn) /\ answered[r] = 0
    BY <2>1, EmptyOnce DEF Init, Saved
  <2>3. At(r, "new")
    BY <1>4, <2>1 DEF Init, At, Idle
  <2>4. \A t \in Threads : ~Busy(t, r)
    BY <1>2, EmptyOnce DEF Busy
  <2> QED
    BY <2>2, <2>3, <2>4 DEF KeptOnce
<1> QED
  BY <1>3, <1>4 DEF RequestsOnce

\* Where a request is in a list that has it at most once.
LEMMA OneSpot ==
    ASSUME NEW s, NEW R, OnceIn(s, R), NEW r \in R
    PROVE  /\ r \in Range(s) => \E i : Spots(s, r) = {i}
           /\ r \notin Range(s) => Spots(s, r) = {}
<1>1. CASE r \in Range(s)
  <2>1. PICK i \in DOMAIN s : s[i] = r
    BY <1>1 DEF Range
  <2>2. Spots(s, r) = {i}
    BY <2>1 DEF OnceIn, Spots
  <2> QED
    BY <1>1, <2>2
<1>2. CASE r \notin Range(s)
  BY <1>2 DEF Range, Spots
<1> QED
  BY <1>1, <1>2

\* A request is answered once, by its reply, the frame timeout, the loss of the
\* connection or the failure to send it, and until then exactly one of the lists
\* and threads has it: for any requests, failures and interleavings.
THEOREM RepliedOnce == Spec => []AnsweredOnce
<1>1. ClntInv /\ RequestsOnce => AnsweredOnce
  <2>1. SUFFICES ASSUME ClntInv, RequestsOnce, NEW r \in prog.requests, ~At(r, "new")
                 PROVE  \/ answered[r] = 1 /\ Places(r) = {}
                        \/ answered[r] = 0 /\ \E p : Places(r) = {p}
    BY DEF AnsweredOnce
  <2>2. KeptOnce(r)
    BY <2>1, SMTT(30) DEF RequestsOnce
  <2>3. /\ \E i : r \in Range(conn.sf) => Spots(conn.sf, r) = {i}
        /\ r \notin Range(conn.sf) => Spots(conn.sf, r) = {}
    BY <2>1, OneSpot, Zenon DEF RequestsOnce, ListsOnce
  <2>4. /\ \E i : r \in Range(conn.lk_sf) => Spots(conn.lk_sf, r) = {i}
        /\ r \notin Range(conn.lk_sf) => Spots(conn.lk_sf, r) = {}
    BY <2>1, OneSpot DEF RequestsOnce, ListsOnce
  <2>5. ~(r \in Range(conn.sf) /\ r \in Range(conn.lk_sf))
    BY <2>1 DEF ClntInv, ConnOK
  <2>6. ASSUME NEW t \in Threads
        PROVE  /\ \E i : r \in Range(th[t].list) => Spots(th[t].list, r) = {i}
               /\ r \notin Range(th[t].list) => Spots(th[t].list, r) = {}
    BY <2>1, OneSpot, Zenon DEF RequestsOnce, ListsOnce
  <2>7. ASSUME NEW t \in Threads
        PROVE  ~(th[t].pc = "submit" /\ r \in Range(th[t].list))
    <3>1. th[t].pc = "submit" => th[t].list = <<>>
      BY <2>1 DEF ClntInv, ThreadsOK
    <3> QED
      BY <3>1, EmptyOnce
  <2> DEFINE A == {<<"sf", i>> : i \in Spots(conn.sf, r)}
             B == {<<"lk_sf", i>> : i \in Spots(conn.lk_sf, r)}
             S == {u \in Threads : th[u].pc = "submit" /\ th[u].arg = r}
             D == {<<"submit", t>> : t \in S}
             E(t) == {<<t, i>> : i \in Spots(th[t].list, r)}
             G == UNION {E(t) : t \in Threads}
  <2>8. Places(r) = A \cup B \cup D \cup G
    BY DEF Places
  <2>9. \A t \in Threads : ~Busy(t, r) => t \notin S /\ E(t) = {}
    BY <2>6 DEF Busy
  <2>10. CASE r \in Saved(conn)
    <3>1. S = {} /\ \A t \in Threads : E(t) = {}
      BY <2>2, <2>9, <2>10 DEF KeptOnce
    <3>2. D = {} /\ G = {}
      BY <3>1
    <3>3. answered[r] = 0
      BY <2>2, <2>10, SMTT(30) DEF KeptOnce
    <3>4. CASE r \in Range(conn.sf)
      <4>1. PICK i : Spots(conn.sf, r) = {i}
        BY <2>3, <3>4
      <4>2. A = {<<"sf", i>>} /\ B = {}
        BY <2>4, <2>5, <3>4, <4>1
      <4> QED
        BY <2>8, <3>2, <3>3, <4>2, Zenon
    <3>5. CASE r \in Range(conn.lk_sf)
      <4>1. PICK i : Spots(conn.lk_sf, r) = {i}
        BY <2>4, <3>5
      <4>2. B = {<<"lk_sf", i>>} /\ A = {}
        BY <2>3, <2>5, <3>5, <4>1
      <4> QED
        BY <2>8, <3>2, <3>3, <4>2, Zenon
    <3> QED
      BY <2>10, <3>4, <3>5, Zenon DEF Saved
  <2>11. CASE r \notin Saved(conn)
    <3>1. A = {} /\ B = {}
      BY <2>3, <2>4, <2>11 DEF Saved
    <3>2. CASE \A t \in Threads : ~Busy(t, r)
      <4>1. S = {} /\ \A t \in Threads : E(t) = {}
        BY <2>9, <3>2, SMTT(30)
      <4>2. D = {} /\ G = {}
        BY <4>1
      <4>3. answered[r] = 1
        BY <2>1, <2>2, <2>11, <3>2, SMTT(30) DEF KeptOnce
      <4> QED
        BY <2>8, <3>1, <4>2, <4>3
    <3>3. ASSUME NEW t \in Threads, Busy(t, r)
          PROVE  answered[r] = 0 /\ \E p : Places(r) = {p}
      <4>1. answered[r] = 0
        BY <2>2, <3>3 DEF KeptOnce
      <4>2. \A u \in Threads : u # t => u \notin S /\ E(u) = {}
        BY <2>2, <2>9, <3>3 DEF KeptOnce
      <4>3. CASE th[t].pc = "submit" /\ th[t].arg = r
        <5>1. S = {t}
          BY <4>2, <4>3
        <5>2. E(t) = {}
          BY <2>6, <2>7, <4>3
        <5>3. D = {<<"submit", t>>} /\ G = {}
          BY <4>2, <5>1, <5>2, SMTT(30)
        <5> QED
          BY <2>8, <3>1, <4>1, <5>3, Zenon
      <4>4. CASE r \in Range(th[t].list)
        <5>1. PICK i : Spots(th[t].list, r) = {i}
          BY <2>6, <4>4, Zenon
        <5>2. S = {}
          BY <2>7, <4>2, <4>4
        <5>3. E(t) = {<<t, i>>}
          BY <5>1
        <5>4. D = {} /\ G = {<<t, i>>}
          BY <4>2, <5>2, <5>3
        <5> QED
          BY <2>8, <3>1, <4>1, <5>4, Zenon
      <4> QED
        BY <3>3, <4>3, <4>4, Zenon DEF Busy
    <3> QED
      BY <3>2, <3>3, Zenon
  <2> QED
    BY <2>10, <2>11
<1>2. Init => ClntInv /\ RequestsOnce
  BY ClntInit, OnceInit
<1>3. ClntInv /\ RequestsOnce /\ [Next]_vars => (ClntInv /\ RequestsOnce)'
  BY ClntNext, OnceNext
<1> QED
  BY <1>1, <1>2, <1>3, PTL DEF Spec
=============================================================================
