---------------------------- MODULE WriteBehind ----------------------------
(***************************************************************************)
(* performance/write-behind: the queue of one inode.  A buffered ("tempted")*)
(* write is answered before the child has it; requests that depend on it   *)
(* must wait until the child has acknowledged it.                          *)
(*                                                                         *)
(* The application calls the requests in any order and from any thread.    *)
(* An activation <<q, "fop">> is the call of request q, <<q, "cbk">> the   *)
(* child's callback for it; each runs wb_process_queue.  A critical        *)
(* section of wb_inode->lock is one step.  The child executes the calls it *)
(* has in any order; data is abstracted to which request wrote it.         *)
(***************************************************************************)
EXTENDS Integers, FiniteSets, SequencesExt

CONSTANTS
    Reqs, Fds,
    Programs,     \* what the requests may be: functions from Reqs to Request
    Confs,        \* configurations of the translator
    ULLONG_MAX,
    MaxErrors,    \* bound: writes that fail in the child
    None

Request == [fop : {"write", "read", "truncate", "ftruncate", "fsync", "flush", "stat"},
            fd : Fds, offset : 0..ULLONG_MAX, size : 0..ULLONG_MAX,
            sync : BOOLEAN, append : BOOLEAN]

Conf == [window : Nat, page : Nat, aggregate : Nat, trickling : BOOLEAN,
         strict : BOOLEAN, flush_behind : BOOLEAN]

ASSUME WriteBehindAssumption ==
    /\ Programs \subseteq [Reqs -> Request]
    /\ Confs \subseteq Conf
    /\ ULLONG_MAX \in Nat /\ MaxErrors \in Nat
    /\ None \notin Reqs

VARIABLES
    args,    \* request -> the arguments of its call_stub_t
    conf,    \* wb_conf_t and ctx->page_size
    wb,      \* the wb_inode_t
    req,     \* request -> its wb_request_t
    th,      \* activation -> where it is, and its local lists
    fd_err,  \* the fds whose context holds an error
    wire,    \* requests wound to the child
    answer,  \* request -> "none", or what the application was told
    before,  \* request -> the changes answered with success when it arrived
    done,    \* requests the child has executed
    failed,  \* writes the child has refused, or never saw because of fd_err
    errors

vars == <<args, conf, wb, req, th, fd_err, wire, answer, before, done, failed, errors>>

Acts == Reqs \X {"fop", "cbk"}

IsWrite(q) == args[q].fop = "write"
Tempted(q) == IsWrite(q) /\ ~args[q].sync
Truncates(q) == args[q].fop \in {"truncate", "ftruncate"}

NewReq == [ref |-> 0, gen |-> 0, off |-> 0, size |-> 0, write_size |-> 0,
           total_size |-> 0, ok |-> TRUE, lied |-> FALSE, fulfilled |-> FALSE,
           go |-> FALSE, data |-> <<>>, winds |-> <<>>]

NewAct == [pc |-> "none", lies |-> <<>>, tasks |-> <<>>, liabs |-> <<>>,
           at |-> None, retry |-> FALSE, res |-> "ok"]

\* What a critical section works on.
state == [wb |-> wb, req |-> req]

Without(seq, q) == SelectSeq(seq, LAMBDA e : e # q)

----------------------------------------------------------------------------
(* Conflicts.                                                              *)

End(x) == IF x.size # 0 THEN x.off + x.size - 1 ELSE ULLONG_MAX

wb_requests_overlap(s, q1, q2) ==
    /\ End(s.req[q1]) >= s.req[q2].off
    /\ End(s.req[q2]) >= s.req[q1].off

wb_requests_conflict(s, lie, q) ==
    /\ lie # q
    /\ s.req[lie].gen < s.req[q].gen
    /\ args[lie].append \/ conf.strict \/ wb_requests_overlap(s, lie, q)

\* Mutant: reads are let through, as wb_wip_has_conflict does.
LiabilityNotRead(s, q) ==
    /\ args[q].fop # "read"
    /\ \E lie \in s.wb.liability : wb_requests_conflict(s, lie, q)

wb_liability_has_conflict(s, q) ==
    \E lie \in s.wb.liability : wb_requests_conflict(s, lie, q)

\* Mutant: writes in progress are not looked at.
WipNever(s, q) == FALSE

wb_wip_has_conflict(s, q) ==
    /\ IsWrite(q)
    /\ \E w \in s.wb.wip \ {q} : wb_requests_overlap(s, w, q)

----------------------------------------------------------------------------
(* References.                                                             *)

\* The last reference takes the request off all lists; the generation and the
\* window start again when the inode has no request left.
free(s, q) ==
    LET w == [s.wb EXCEPT !.all = @ \ {q}, !.todo = Without(@, q), !.wip = @ \ {q},
                          !.liability = @ \ {q}, !.temptation = Without(@, q)]
    IN [req |-> [s.req EXCEPT ![q] = NewReq],
        wb  |-> IF w.all = {} THEN [w EXCEPT !.gen = 0, !.window = 0] ELSE w]

wb_request_unref(s, q) ==
    IF s.req[q].ref = 1 THEN free(s, q) ELSE [s EXCEPT !.req[q].ref = @ - 1]

wb_fulfill_request(s, q) ==
    LET n == s.req[q].total_size IN
    wb_request_unref([s EXCEPT !.req[q].fulfilled = TRUE,
                               !.wb.window = @ - n, !.wb.transit = @ - n], q)

wb_head_done(s, h) == FoldLeft(wb_fulfill_request, s, Append(s.req[h].winds, h))

----------------------------------------------------------------------------
(* wb_process_queue, under the lock: collapse small writes, choose what to *)
(* wind and what to answer.                                                *)

\* The data of q is appended to the holder's buffer.
collapse(s, h, q) ==
    LET n == s.req[q].write_size IN
    [s EXCEPT !.req[h].write_size = @ + n, !.req[h].size = @ + n,
              !.req[h].data = @ \o s.req[q].data]

fits(s, h, q) ==
    /\ args[q].offset = args[h].offset + s.req[h].write_size
    /\ args[q].fd = args[h].fd
    /\ conf.page - s.req[h].write_size >= s.req[q].write_size

go(s, h) == [s EXCEPT !.req[h].go = TRUE]

\* One step of the loop over todo; h is the request that holds data back.
preprocess(acc, q) ==
    LET s == acc.s  h == acc.holder IN
    IF ~Tempted(q)
    THEN IF h # None /\ wb_requests_conflict(s, h, q) THEN [acc EXCEPT !.s = go(s, h)] ELSE acc
    ELSE IF h = None THEN [acc EXCEPT !.holder = q]
    ELSE IF ~fits(s, h, q) THEN [s |-> go(s, h), holder |-> q]
    ELSE LET s1 == [collapse(s, h, q) EXCEPT !.wb.todo = Without(@, q)]
         IN [acc EXCEPT !.s = wb_fulfill_request(s1, q)]

wb_preprocess_winds(s0) ==
    LET acc == FoldLeft(preprocess, [s |-> s0, holder |-> None], s0.wb.todo) IN
    IF conf.trickling /\ acc.s.wb.transit = 0 /\ acc.holder # None
    THEN go(acc.s, acc.holder) ELSE acc.s

may_wind(s, q) == /\ ~wb_liability_has_conflict(s, q)
                  /\ Tempted(q) => s.req[q].go
                  /\ ~wb_wip_has_conflict(s, q)

\* acc.tasks and acc.liabs are the lists of the activation.
pick_wind(acc, q) ==
    LET s  == acc.s
        s1 == [s EXCEPT !.wb.todo = Without(@, q),
                        !.wb.wip = IF IsWrite(q) THEN @ \cup {q} ELSE @,
                        !.req[q].ref = IF IsWrite(q) /\ ~Tempted(q) THEN @ + 1 ELSE @]
    IN IF ~may_wind(s, q) THEN acc
       ELSE IF Tempted(q) THEN [acc EXCEPT !.s = s1, !.liabs = Append(@, q)]
       ELSE [acc EXCEPT !.s = s1, !.tasks = Append(@, q)]

pick_unwind(acc, q) ==
    LET s == acc.s  x == s.req[q]
        s1 == [s EXCEPT !.wb.temptation = Without(@, q), !.wb.window = @ + args[q].size]
    IN IF ~x.fulfilled /\ s.wb.window > conf.window THEN acc
       ELSE [acc EXCEPT !.lies = Append(@, q),
                        !.s = IF x.fulfilled THEN s1
                              ELSE [s1 EXCEPT !.wb.liability = @ \cup {q},
                                              !.wb.gen = @ + 1,
                                              !.req[q].lied = TRUE]]

pick(s0) ==
    LET s == wb_preprocess_winds(s0)
        a == FoldLeft(pick_wind, [s |-> s, tasks |-> <<>>, liabs |-> <<>>, lies |-> <<>>],
                      s.wb.todo)
    IN FoldLeft(pick_unwind, a, a.s.wb.temptation)

----------------------------------------------------------------------------
(* A request arrives.                                                      *)

Apply(s) == wb' = s.wb /\ req' = s.req

GoTo(t, pc) == th' = [th EXCEPT ![t].pc = pc]

ChecksFd(q) == args[q].fop \in {"write", "fsync", "ftruncate"}

Changes == {q \in Reqs : IsWrite(q) \/ Truncates(q)}

\* wb_writev, wb_readv, ...: an fd with an error fails the call at once.  Then
\* the first critical section of wb_enqueue_common, for a change: a write past
\* the end of the file also covers the hole before it.
Arrive(q) ==
    LET t == <<q, "fop">>
        a == args[q]
        off == IF IsWrite(q) /\ wb.size < a.offset THEN wb.size ELSE a.offset
        end == a.offset + a.size
    IN
    /\ th[t].pc = "none"
    /\ before' = [before EXCEPT ![q] = {m \in Changes : answer[m] = "ok"}]
    /\ IF ChecksFd(q) /\ a.fd \in fd_err
       THEN /\ answer' = [answer EXCEPT ![q] = "fail"]
            /\ GoTo(t, "over")
            /\ UNCHANGED <<wb, req>>
       ELSE /\ wb' = IF IsWrite(q) THEN [wb EXCEPT !.size = Max({@, end})]
                     ELSE IF Truncates(q) THEN [wb EXCEPT !.size = a.offset] ELSE wb
            /\ req' = [req EXCEPT ![q].off = IF q \in Changes THEN off ELSE 0,
                                  ![q].size = IF IsWrite(q) THEN end - off ELSE 0]
            /\ GoTo(t, "enqueue")
            /\ UNCHANGED answer
    /\ UNCHANGED <<args, conf, fd_err, wire, done, failed, errors>>

\* Mutant: a buffered write has one reference, not one for its answer and one
\* for its write.
EnqueueOneRef(q) ==
    LET t == <<q, "fop">> IN
    /\ th[t].pc = "enqueue"
    /\ req' = [req EXCEPT ![q].ref = 1, ![q].gen = wb.gen, ![q].write_size = args[q].size,
                          ![q].data = <<q>>]
    /\ wb' = [wb EXCEPT !.all = @ \cup {q}, !.todo = Append(@, q),
                        !.temptation = IF Tempted(q) THEN Append(@, q) ELSE @]
    /\ GoTo(t, "pick")
    /\ UNCHANGED <<args, conf, fd_err, wire, answer, before, done, failed, errors>>

\* The second critical section of wb_enqueue_common.
Enqueue(q) ==
    LET t == <<q, "fop">>
        a == args[q]
        x == [req[q] EXCEPT !.ref = IF Tempted(q) THEN 2 ELSE 1, !.gen = wb.gen,
                            !.write_size = IF IsWrite(q) THEN a.size ELSE 0,
                            !.data = <<q>>]
    IN
    /\ th[t].pc = "enqueue"
    /\ req' = [req EXCEPT ![q] = IF a.fop = "read"
                                 THEN [x EXCEPT !.off = a.offset, !.size = a.size] ELSE x]
    /\ wb' = [wb EXCEPT !.all = @ \cup {q}, !.todo = Append(@, q),
                        !.temptation = IF Tempted(q) THEN Append(@, q) ELSE @]
    /\ GoTo(t, "pick")
    /\ UNCHANGED <<args, conf, fd_err, wire, answer, before, done, failed, errors>>

----------------------------------------------------------------------------
(* wb_process_queue, outside the lock.                                     *)

\* When its lists are empty the activation goes round again or returns; the
\* callback of an unbuffered write has the answer still to give.
settle(a, t) ==
    IF a.at # None \/ a.lies # <<>> \/ a.tasks # <<>> \/ a.liabs # <<>> THEN a
    ELSE IF a.retry THEN [a EXCEPT !.pc = "pick"]
    ELSE IF t[2] = "cbk" /\ ~Tempted(t[1]) THEN [a EXCEPT !.pc = "reply"]
    ELSE [NewAct EXCEPT !.pc = "over"]

Pick(t) ==
    LET a == pick(state) IN
    /\ th[t].pc = "pick"
    /\ Apply(a.s)
    /\ th' = [th EXCEPT ![t] = settle([@ EXCEPT !.pc = "work", !.lies = a.lies,
                                                !.tasks = a.tasks, !.liabs = a.liabs,
                                                !.retry = FALSE], t)]
    /\ UNCHANGED <<args, conf, fd_err, wire, answer, before, done, failed, errors>>

\* wb_do_unwinds: the application has its answer, true or a lie.
Unwind(t) ==
    /\ th[t].pc = "work" /\ th[t].at = None
    /\ th[t].lies # <<>>
    /\ LET q == Head(th[t].lies) IN
         /\ answer' = [answer EXCEPT ![q] = IF req[q].ok THEN "ok" ELSE "fail"]
         /\ th' = [th EXCEPT ![t].lies = Tail(@), ![t].at = q]
    /\ UNCHANGED <<args, conf, wb, req, fd_err, wire, before, done, failed, errors>>

\* Mutant: wb_flush_helper does not look at the fd.
WindUnchecked(t) ==
    /\ th[t].pc = "work" /\ th[t].at = None
    /\ th[t].lies = <<>> /\ th[t].tasks # <<>>
    /\ LET q == Head(th[t].tasks) IN
         /\ wire' = wire \cup {q}
         /\ answer' = [answer EXCEPT ![q] = IF args[q].fop = "flush" THEN "ok" ELSE @]
         /\ th' = [th EXCEPT ![t].tasks = Tail(@), ![t].at = q]
    /\ UNCHANGED <<args, conf, wb, req, fd_err, before, done, failed, errors>>

\* wb_do_winds: call_resume of a request that is not buffered.  A flush fails
\* if the fd has an error by now, and may be answered before it is done.
Wind(t) ==
    /\ th[t].pc = "work" /\ th[t].at = None
    /\ th[t].lies = <<>> /\ th[t].tasks # <<>>
    /\ LET q == Head(th[t].tasks)
           bad == args[q].fop = "flush" /\ args[q].fd \in fd_err
           behind == args[q].fop = "flush" /\ conf.flush_behind
       IN /\ wire' = IF bad THEN wire ELSE wire \cup {q}
          /\ answer' = [answer EXCEPT ![q] = IF bad THEN "fail"
                                             ELSE IF behind THEN "ok" ELSE @]
          /\ th' = [th EXCEPT ![t].tasks = Tail(@), ![t].at = q]
    /\ UNCHANGED <<args, conf, wb, req, fd_err, before, done, failed, errors>>

\* The reference that wb_do_unwinds or wb_do_winds drops after the call.
Unref(t) ==
    /\ th[t].pc = "work" /\ th[t].at # None
    /\ Apply(wb_request_unref(state, th[t].at))
    /\ th' = [th EXCEPT ![t] = settle([@ EXCEPT !.at = None], t)]
    /\ UNCHANGED <<args, conf, fd_err, wire, answer, before, done, failed, errors>>

SizeOf(qs) == FoldLeft(LAMBDA n, q : n + req[q].write_size, 0, qs)

\* wb_fulfill: the requests that follow the head in the list and continue
\* where it ends are sent with it.
HeadLen(qs) ==
    CHOOSE n \in DOMAIN qs :
        LET joins(i) ==
              /\ args[qs[i]].fd = args[qs[1]].fd
              /\ args[qs[i]].offset = args[qs[1]].offset + req[qs[1]].write_size
              /\ SizeOf(SubSeq(qs, 2, i)) <= conf.aggregate
        IN /\ \A i \in 2..n : joins(i)
           /\ n = Len(qs) \/ ~joins(n + 1)

DataOf(qs) == FlattenSeq([i \in DOMAIN qs |-> req[qs[i]].data])

\* wb_fulfill_head: wind the head, or drop it if the fd has an error.
Fulfill(t) ==
    /\ th[t].pc = "work" /\ th[t].at = None
    /\ th[t].lies = <<>> /\ th[t].tasks = <<>> /\ th[t].liabs # <<>>
    /\ LET qs == SubSeq(th[t].liabs, 1, HeadLen(th[t].liabs))
           h  == Head(qs)
           s  == [state EXCEPT !.req[h].total_size = SizeOf(qs), !.req[h].winds = Tail(qs)]
           bad == args[h].fd \in fd_err
       IN /\ Apply(IF bad THEN wb_head_done(s, h)
                   ELSE [s EXCEPT !.wb.transit = @ + SizeOf(qs)])
          /\ wire' = IF bad THEN wire ELSE wire \cup {h}
          /\ failed' = IF bad THEN failed \cup ToSet(DataOf(qs)) ELSE failed
          /\ th' = [th EXCEPT ![t] =
                      settle([@ EXCEPT !.liabs = SubSeq(@, Len(qs) + 1, Len(@)),
                                       !.retry = @ \/ bad], t)]
    /\ UNCHANGED <<args, conf, fd_err, answer, before, done, errors>>

\* wb_writev_cbk, at its end.
Reply(t) ==
    /\ th[t].pc = "reply"
    /\ answer' = [answer EXCEPT ![t[1]] = th[t].res]
    /\ th' = [th EXCEPT ![t] = [NewAct EXCEPT !.pc = "over"]]
    /\ UNCHANGED <<args, conf, wb, req, fd_err, wire, before, done, failed, errors>>

----------------------------------------------------------------------------
(* The child.                                                              *)

Returned(q) == wire' = wire \ {q}

\* A write is executed; the callback runs on.
ChildWrite(q) ==
    LET t == <<q, "cbk">> IN
    /\ q \in wire /\ IsWrite(q)
    /\ Returned(q)
    /\ done' = done \cup ToSet(DataOf(<<q>> \o req[q].winds))
    /\ GoTo(t, IF Tempted(q) THEN "head_done" ELSE "unref")
    /\ UNCHANGED <<args, conf, wb, req, fd_err, answer, before, failed, errors>>

\* It fails, or is short: only a part of the data is written.  For a buffered
\* write wb_fulfill_err marks the fd.
ChildWriteFails(q) ==
    LET t == <<q, "cbk">>
        data == DataOf(<<q>> \o req[q].winds)
    IN
    /\ q \in wire /\ IsWrite(q)
    /\ errors < MaxErrors
    /\ errors' = errors + 1
    /\ Returned(q)
    /\ \E n \in 0..(Len(data) - 1) :
         /\ done' = done \cup ToSet(SubSeq(data, 1, n))
         /\ failed' = failed \cup ToSet(SubSeq(data, n + 1, Len(data)))
    /\ fd_err' = IF Tempted(q) THEN fd_err \cup {args[q].fd} ELSE fd_err
    /\ th' = [th EXCEPT ![t].pc = IF Tempted(q) THEN "mark" ELSE "unref",
                        ![t].res = "fail"]
    /\ UNCHANGED <<args, conf, wb, req, answer, before>>

\* Everything else is answered by its callback; a truncate also sets the size.
ChildOther(q) ==
    /\ q \in wire /\ ~IsWrite(q)
    /\ Returned(q)
    /\ done' = done \cup {q}
    /\ answer' = [answer EXCEPT ![q] = "ok"]
    /\ wb' = IF Truncates(q) THEN [wb EXCEPT !.size = args[q].offset] ELSE wb
    /\ UNCHANGED <<args, conf, req, th, fd_err, before, failed, errors>>

\* wb_fulfill_err: the requests of the fd that have arrived fail as well.
Mark(q) ==
    LET t == <<q, "cbk">> IN
    /\ th[t].pc = "mark"
    /\ req' = [p \in Reqs |-> IF /\ p \in wb.all
                                 /\ args[p].fop \in {"write", "read", "ftruncate"}
                                 /\ args[p].fd = args[q].fd
                              THEN [req[p] EXCEPT !.ok = FALSE] ELSE req[p]]
    /\ GoTo(t, "head_done")
    /\ UNCHANGED <<args, conf, wb, fd_err, wire, answer, before, done, failed, errors>>

\* wb_head_done, or the reference of the frame in wb_writev_cbk.
HeadDone(q) ==
    LET t == <<q, "cbk">> IN
    /\ th[t].pc \in {"head_done", "unref"}
    /\ Apply(IF th[t].pc = "unref" THEN wb_request_unref(state, q) ELSE wb_head_done(state, q))
    /\ GoTo(t, "pick")
    /\ UNCHANGED <<args, conf, fd_err, wire, answer, before, done, failed, errors>>

----------------------------------------------------------------------------
Init ==
    /\ args \in Programs
    /\ conf \in Confs
    /\ wb = [gen |-> 0, window |-> 0, transit |-> 0, size |-> 0, all |-> {},
             todo |-> <<>>, temptation |-> <<>>, liability |-> {}, wip |-> {}]
    /\ req = [q \in Reqs |-> NewReq]
    /\ th = [t \in Acts |-> NewAct]
    /\ fd_err = {}
    /\ wire = {}
    /\ answer = [q \in Reqs |-> "none"]
    /\ before = [q \in Reqs |-> {}]
    /\ done = {}
    /\ failed = {}
    /\ errors = 0

Step(t) == \/ Pick(t) \/ Unwind(t) \/ Wind(t) \/ Unref(t) \/ Fulfill(t) \/ Reply(t)

CbkStep(q) == Mark(q) \/ HeadDone(q)
Child(q) == ChildWrite(q) \/ ChildWriteFails(q) \/ ChildOther(q)

Next == \/ \E q \in Reqs : Arrive(q) \/ Enqueue(q) \/ CbkStep(q) \/ Child(q)
        \/ \E t \in Acts : Step(t)

Spec == Init /\ [][Next]_vars

----------------------------------------------------------------------------
(* Properties.                                                             *)

\* The variables have their types; a request has at most three references (its
\* answer, its write or frame, and none is dropped twice).
TypeOK ==
    /\ args \in Programs /\ conf \in Confs
    /\ wb.gen \in Nat /\ wb.size \in Nat /\ wb.window \in Int /\ wb.transit \in Int
    /\ wb.all \cup wb.liability \cup wb.wip \subseteq Reqs
    /\ \A q \in Reqs : req[q].ref \in 0..3 /\ answer[q] \in {"none", "ok", "fail"}
    /\ \A t \in Acts : th[t].at \in Reqs \cup {None}
    /\ wire \cup done \cup failed \subseteq Reqs
    /\ fd_err \subseteq Fds

\* The bytes a request is about; a flush, an fsync or a stat is about the whole
\* file, and so is an append, whose place is not known.
Bytes(q) == CASE Truncates(q) -> args[q].offset..ULLONG_MAX
              [] args[q].fop \in {"write", "read"} /\ ~args[q].append ->
                   args[q].offset..(args[q].offset + args[q].size - 1)
              [] OTHER -> 0..ULLONG_MAX

\* An append waits only for other appends: see the README.
Depends(q, m) == /\ Bytes(m) \cap Bytes(q) # {}
                 /\ args[q].append => args[m].append

\* What the application has been told is done looks done: the child executes a
\* request only after every change of the same bytes that was answered with
\* success before the request arrived, unless that change was lost (failed).
\* So reads see acknowledged writes, and no older write overwrites a newer one.
InOrder ==
    \A q \in done : \A m \in before[q] :
        Depends(q, m) => m \in done \cup failed

\* The data a call on its way to the child will write.
InFlight(q) == UNION {Bytes(p) : p \in ToSet(DataOf(<<q>> \o req[q].winds))}

\* struct wb_inode, wip: "This is for guaranteeing that no two overlapping writes are in progress at the same
\* time. Modules like eager-lock in AFR depend on this behavior."
NoOverlapInProgress ==
    \A p, q \in {w \in wire : IsWrite(w) /\ ~args[w].append} :
        p # q => InFlight(p) \cap InFlight(q) = {}

\* Option flush-behind: a flush returns "any errors, if any of previous writes
\* were failed".  A flush answered with success means that every write of its
\* fd that was answered before has reached the child.
FlushTellsErrors ==
    \A q \in Reqs : args[q].fop = "flush" /\ answer[q] = "ok" =>
        \A m \in before[q] : IsWrite(m) /\ args[m].fd = args[q].fd => m \in done

\* A request some activation has in hand has not been freed.
NoDangling ==
    /\ \A t \in Acts :
         \A q \in ToSet(th[t].lies) \cup ToSet(th[t].tasks) \cup ToSet(th[t].liabs)
                  \cup ({th[t].at} \ {None}) :
            req[q].ref > 0
    /\ \A q \in wire : IsWrite(q) =>
         \A p \in ToSet(req[q].winds) \cup {q} : req[p].ref > 0

Quiet == /\ wire = {}
         /\ \A t \in Acts : th[t].pc \in {"none", "over"}

\* wb_process_queue: "make sure we keep processing request queue, till there
\* are no requests left".  When no call is with the child and nobody is at work
\* on the queue, it is empty: there is nothing to wait for.
NoneLeft == Quiet => wb.todo = <<>>
=============================================================================
