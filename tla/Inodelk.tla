------------------------------ MODULE Inodelk ------------------------------
(***************************************************************************)
(* The internal inode locks ("inodelk") of one lock domain of one inode on *)
(* a brick: features/locks/src/inodelk.c, driven by the connections of     *)
(* protocol/server (server.c, server-helpers.c) and by the reference count *)
(* of client_t (libglusterfs/src/client_t.c).                              *)
(*                                                                         *)
(* A request is named by the lock object it creates.  "Threads" are the    *)
(* activations of the code: io-threads, the epoll thread, and each cleanup *)
(* that a failed reply starts from inside STACK_UNWIND.  A critical        *)
(* section of pl_inode->mutex is one step, except the one that walks the   *)
(* blocked list, where the mutex is held over one step per list element.   *)
(***************************************************************************)
EXTENDS Integers, FiniteSets, SequencesExt

CONSTANTS
    Clients,        \* client_t objects: one per connection (lk-heal is off)
    Owners,         \* lk_owner values
    Threads,
    Locks,          \* pl_inode_lock_t objects, each with the frame it answers
    Requests,       \* the requests clients may send, a subset of Request
    LLONG_MAX,
    LocksPerOwner,  \* bound: lock requests an owner has outstanding at once
    NoThread, NoLock, NoClient

Types == {"F_RDLCK", "F_WRLCK", "F_UNLCK"}

Request == [client : Clients, owner : Owners, l_start : 0..LLONG_MAX,
            l_len : 0..LLONG_MAX, fl_type : Types, can_block : BOOLEAN]

ASSUME ConstantsAssumption ==
    /\ LLONG_MAX \in Nat
    /\ LocksPerOwner \in Nat
    /\ Requests \subseteq Request
    /\ NoThread \notin Threads
    /\ NoLock \notin Locks
    /\ NoClient \notin Clients

\* Callers of inodelk lock ranges that end within off_t.
ASSUME RangesFit ==
    \A r \in Requests : r.l_start + r.l_len <= LLONG_MAX + 1

VARIABLES
    req,              \* lock object -> the request it was made for
    queue,            \* requests queued in io-threads, not yet processed
    answers,          \* lock object -> replies its frame has had
    frame,            \* lock->frame is not NULL
    ref,              \* lock->ref; 0: freed
    inodelk_list,     \* dom->inodelk_list: the granted locks, newest first
    blocked_inodelks, \* dom->blocked_inodelks: the waiting locks, in order
    blocked_list,     \* local of __grant_blocked_inode_locks
    lockers,          \* client -> ctx->inodelk_lockers
    mutex,            \* pl_inode->mutex
    ctx_lock,         \* client -> ctx->lock
    inode_ref,        \* references the locks xlator has on the inode
    pc, rq, cl,       \* thread -> where it is, the lock and client it is at
    granted, todo,    \* thread -> local of grant_blocked_inode_locks
    released, unwind, \* thread -> locals of pl_inodelk_client_cleanup
    cstate,           \* client -> "gone", "up" or "down" (disconnected)
    cref,             \* client -> client->ref.count
    pend              \* client -> cleanups about to start

locks   == <<req, queue, answers, frame, ref>>
lists   == <<inodelk_list, blocked_inodelks, blocked_list, lockers>>
mutexes == <<mutex, ctx_lock, inode_ref>>
local   == <<pc, rq, cl, granted, todo, released, unwind>>
clients == <<cstate, cref, pend>>
vars    == <<locks, lists, mutexes, local, clients>>

----------------------------------------------------------------------------
(* Ranges, owners and conflicts.                                           *)

\* Signed 64-bit addition wraps around in the build.
Int64(n) == IF n > LLONG_MAX THEN n - 2 * (LLONG_MAX + 1) ELSE n

fl_start(l) == req[l].l_start
fl_end(l) == IF req[l].l_len = 0 THEN LLONG_MAX
             ELSE Int64(req[l].l_start + req[l].l_len - 1)

\* Mutant: ranges that share only one end do not overlap.
OverlapStrict(l1, l2) == /\ fl_end(l1) > fl_start(l2)
                         /\ fl_end(l2) > fl_start(l1)

inodelk_overlap(l1, l2) == /\ fl_end(l1) >= fl_start(l2)
                           /\ fl_end(l2) >= fl_start(l1)

inodelk_type_conflict(l1, l2) == "F_WRLCK" \in {req[l1].fl_type, req[l2].fl_type}

inodelk_conflict(l1, l2) == /\ inodelk_overlap(l1, l2)
                            /\ inodelk_type_conflict(l1, l2)

same_inodelk_owner(l1, l2) == /\ req[l1].owner = req[l2].owner
                              /\ req[l1].client = req[l2].client

inodelks_equal(l1, l2) == /\ fl_start(l1) = fl_start(l2)
                          /\ fl_end(l1) = fl_end(l2)

----------------------------------------------------------------------------
(* Can the lock be added now?                                              *)

inodelk_grantable(l) ==
    \A m \in ToSet(inodelk_list) :
        inodelk_conflict(l, m) => same_inodelk_owner(l, m)

blocked_lock_conflict(l) ==
    \E m \in ToSet(blocked_inodelks) : inodelk_conflict(l, m)

owner_has_lock(l) ==
    \E m \in ToSet(inodelk_list) \cup ToSet(blocked_inodelks) :
        same_inodelk_owner(m, l)

\* Mutant: the queue of waiting locks is not looked at.
MustWaitNoQueue(l) == ~inodelk_grantable(l)

MustWait(l) == \/ ~inodelk_grantable(l)
               \/ blocked_lock_conflict(l) /\ ~owner_has_lock(l)

----------------------------------------------------------------------------
(* Connections and requests.                                               *)

IsLock(l) == req[l].fl_type # "F_UNLCK"

\* A lock object whose memory is free and whose frame has been destroyed.
Fresh(l) == ref[l] = 0 /\ answers[l] = 1

Outstanding(l) == {m \in Locks : ~Fresh(m) /\ IsLock(m) /\ same_inodelk_owner(l, m)}

Connect(c) ==
    /\ cstate[c] = "gone"
    /\ cstate' = [cstate EXCEPT ![c] = "up"]
    /\ cref' = [cref EXCEPT ![c] = 1]
    /\ UNCHANGED <<locks, lists, mutexes, local, pend>>

\* The transport goes down: server_rpc_notify drops the bind reference after
\* it has cleaned up, so the cleanup inherits that reference.
Disconnect(c) ==
    /\ cstate[c] = "up"
    /\ cstate' = [cstate EXCEPT ![c] = "down"]
    /\ pend' = [pend EXCEPT ![c] = @ + 1]
    /\ UNCHANGED <<locks, lists, mutexes, local, cref>>

\* Mutant: the frame takes no client reference.
SubmitNoRef(l) ==
    LET c == req[l].client IN
    /\ cstate[c] = "up"
    /\ Fresh(l)
    /\ IsLock(l) => Cardinality(Outstanding(l)) < LocksPerOwner
    /\ queue' = queue \cup {l}
    /\ answers' = [answers EXCEPT ![l] = 0]
    /\ UNCHANGED <<req, frame, ref, lists, mutexes, local, clients>>

\* server_alloc_frame: the frame of the request takes a client reference.
Submit(l) ==
    LET c == req[l].client IN
    /\ cstate[c] = "up"
    /\ Fresh(l)
    /\ IsLock(l) => Cardinality(Outstanding(l)) < LocksPerOwner
    /\ queue' = queue \cup {l}
    /\ answers' = [answers EXCEPT ![l] = 0]
    /\ cref' = [cref EXCEPT ![c] = @ + 1]
    /\ UNCHANGED <<req, frame, ref, lists, mutexes, local, cstate, pend>>

\* Mutant: a reply that cannot be sent cleans nothing up.
AnswerNoCleanup(l) ==
    /\ answers' = [answers EXCEPT ![l] = @ + 1]
    /\ cref' = [cref EXCEPT ![req[l].client] = @ - 1]
    /\ UNCHANGED pend

\* STACK_UNWIND of l's frame: on a live transport the reply goes out and the
\* frame's client reference is dropped; if the submission fails the server
\* cleans the connection up first, and drops the reference afterwards.
Answer(l) ==
    LET c == req[l].client IN
    /\ answers' = [answers EXCEPT ![l] = @ + 1]
    /\ IF cstate[c] = "up"
       THEN cref' = [cref EXCEPT ![c] = @ - 1] /\ UNCHANGED pend
       ELSE pend' = [pend EXCEPT ![c] = @ + 1] /\ UNCHANGED cref

----------------------------------------------------------------------------
(* pl_common_inodelk and pl_inode_setlk: one step is the critical section. *)

SetLk(t, l) ==
    /\ pc[t] = "idle"
    /\ l \in queue
    /\ mutex = NoThread
    /\ ctx_lock[req[l].client] = NoThread
    /\ queue' = queue \ {l}
    /\ UNCHANGED <<req, answers, blocked_list, mutex, ctx_lock,
                   cl, granted, todo, released, unwind, clients>>

GoTo(t, where, l) == /\ pc' = [pc EXCEPT ![t] = where]
                     /\ rq' = [rq EXCEPT ![t] = l]

AddLocker(l) == lockers' = [lockers EXCEPT ![req[l].client] = @ \cup {l}]

\* The lock is added to the domain; the thread answers it.
SetLkGranted(t, l) ==
    /\ SetLk(t, l)
    /\ IsLock(l)
    /\ ~MustWait(l)
    /\ inodelk_list' = Cons(l, inodelk_list)
    /\ AddLocker(l)
    /\ ref' = [ref EXCEPT ![l] = 1]
    /\ frame' = [frame EXCEPT ![l] = FALSE]
    /\ inode_ref' = inode_ref + 1
    /\ GoTo(t, "reply", l)
    /\ UNCHANGED blocked_inodelks

\* Mutant: lock->frame is not set.
SetLkBlockedNoFrame(t, l) ==
    /\ SetLk(t, l)
    /\ IsLock(l)
    /\ MustWait(l)
    /\ req[l].can_block
    /\ blocked_inodelks' = Append(blocked_inodelks, l)
    /\ AddLocker(l)
    /\ ref' = [ref EXCEPT ![l] = 1]
    /\ inode_ref' = inode_ref + 1
    /\ UNCHANGED <<frame, inodelk_list, pc, rq>>

\* F_SETLKW: the lock waits, the thread returns without an answer.
SetLkBlocked(t, l) ==
    /\ SetLk(t, l)
    /\ IsLock(l)
    /\ MustWait(l)
    /\ req[l].can_block
    /\ blocked_inodelks' = Append(blocked_inodelks, l)
    /\ AddLocker(l)
    /\ ref' = [ref EXCEPT ![l] = 1]
    /\ frame' = [frame EXCEPT ![l] = TRUE]
    /\ inode_ref' = inode_ref + 1
    /\ UNCHANGED <<inodelk_list, pc, rq>>

\* F_SETLK: the lock object is freed, the thread answers EAGAIN.
SetLkRefused(t, l) ==
    /\ SetLk(t, l)
    /\ IsLock(l)
    /\ MustWait(l)
    /\ ~req[l].can_block
    /\ GoTo(t, "reply", l)
    /\ UNCHANGED <<frame, ref, inodelk_list, blocked_inodelks, lockers, inode_ref>>

Matching(l) == {i \in DOMAIN inodelk_list :
                  /\ inodelks_equal(inodelk_list[i], l)
                  /\ same_inodelk_owner(inodelk_list[i], l)}

\* F_UNLCK: find_matching_inodelk takes the first match of the list.
SetLkUnlock(t, l) ==
    /\ SetLk(t, l)
    /\ ~IsLock(l)
    /\ \E i \in Matching(l) :
         LET conf == inodelk_list[i] IN
         /\ \A j \in Matching(l) : i <= j
         /\ inodelk_list' = RemoveAt(inodelk_list, i)
         /\ lockers' = [lockers EXCEPT ![req[conf].client] = @ \ {conf}]
         /\ ref' = [ref EXCEPT ![conf] = @ - 1]
    /\ inode_ref' = inode_ref - 1
    /\ GoTo(t, "grant", l)
    /\ UNCHANGED <<frame, blocked_inodelks>>

\* F_UNLCK of a lock that is not there: EINVAL.
SetLkBadUnlock(t, l) ==
    /\ SetLk(t, l)
    /\ ~IsLock(l)
    /\ Matching(l) = {}
    /\ GoTo(t, "reply", l)
    /\ UNCHANGED <<frame, ref, inodelk_list, blocked_inodelks, lockers, inode_ref>>

Reply(t) ==
    /\ pc[t] = "reply"
    /\ Answer(rq[t])
    /\ GoTo(t, "idle", NoLock)
    /\ UNCHANGED <<req, queue, frame, ref, lists, mutexes, cl, granted, todo,
                   released, unwind, cstate>>

----------------------------------------------------------------------------
(* grant_blocked_inode_locks                                               *)

GrantStart(t) ==
    /\ pc[t] = "grant"
    /\ mutex = NoThread
    /\ mutex' = t
    /\ blocked_list' = blocked_inodelks
    /\ blocked_inodelks' = <<>>
    /\ pc' = [pc EXCEPT ![t] = "granting"]
    /\ UNCHANGED <<locks, inodelk_list, lockers, ctx_lock, inode_ref, rq, cl,
                   granted, todo, released, unwind, clients>>

\* Mutant: the granted list takes no reference.
GrantOneNoRef(t) ==
    /\ pc[t] = "granting"
    /\ blocked_list # <<>>
    /\ LET bl == Head(blocked_list) IN
         IF MustWait(bl)
         THEN /\ blocked_inodelks' = Append(blocked_inodelks, bl)
              /\ UNCHANGED <<inodelk_list, granted>>
         ELSE /\ inodelk_list' = Cons(bl, inodelk_list)
              /\ granted' = [granted EXCEPT ![t] = @ \cup {bl}]
              /\ UNCHANGED blocked_inodelks
    /\ blocked_list' = Tail(blocked_list)
    /\ UNCHANGED <<req, queue, answers, frame, ref, lockers, mutexes, pc, rq, cl,
                   todo, released, unwind, clients>>

GrantOne(t) ==
    /\ pc[t] = "granting"
    /\ blocked_list # <<>>
    /\ LET bl == Head(blocked_list) IN
         IF MustWait(bl)
         THEN /\ blocked_inodelks' = Append(blocked_inodelks, bl)
              /\ UNCHANGED <<inodelk_list, ref, granted>>
         ELSE /\ inodelk_list' = Cons(bl, inodelk_list)
              /\ ref' = [ref EXCEPT ![bl] = @ + 1]
              /\ granted' = [granted EXCEPT ![t] = @ \cup {bl}]
              /\ UNCHANGED blocked_inodelks
    /\ blocked_list' = Tail(blocked_list)
    /\ UNCHANGED <<req, queue, answers, frame, lockers, mutexes, pc, rq, cl, todo,
                   released, unwind, clients>>

GrantEnd(t) ==
    /\ pc[t] = "granting"
    /\ blocked_list = <<>>
    /\ mutex' = NoThread
    /\ todo' = [todo EXCEPT ![t] = granted[t]]
    /\ pc' = [pc EXCEPT ![t] = "unwind"]
    /\ UNCHANGED <<locks, lists, ctx_lock, inode_ref, rq, cl, granted, released,
                   unwind, clients>>

\* Outside the mutex: unwind a granted lock's frame and clear the pointer.
UnwindGranted(t) ==
    /\ pc[t] = "unwind"
    /\ \E l \in todo[t] :
         /\ Answer(l)
         /\ frame' = [frame EXCEPT ![l] = FALSE]
         /\ todo' = [todo EXCEPT ![t] = @ \ {l}]
    /\ UNCHANGED <<req, queue, ref, lists, mutexes, pc, rq, cl, granted, released,
                   unwind, cstate>>

\* Then drop the list's references and return to pl_inodelk_client_cleanup,
\* pl_inode_setlk or clrlk_clear_inodelk.
UnrefGranted(t) ==
    /\ pc[t] = "unwind"
    /\ todo[t] = {}
    /\ mutex = NoThread
    /\ ref' = [l \in Locks |-> IF l \in granted[t] THEN ref[l] - 1 ELSE ref[l]]
    /\ granted' = [granted EXCEPT ![t] = {}]
    /\ pc' = [pc EXCEPT ![t] = IF cl[t] # NoClient THEN "cl_unref"
                               ELSE IF rq[t] # NoLock THEN "reply" ELSE "idle"]
    /\ UNCHANGED <<req, queue, answers, frame, lists, mutexes, rq, cl, todo,
                   released, unwind, clients>>

----------------------------------------------------------------------------
(* pl_inodelk_client_cleanup, from server_connection_cleanup (the client   *)
(* is disconnected) or from client_destroy (its last reference is gone).   *)

\* Mutant: a cleanup starts whether or not one is due.
CleanupStartAnytime(t, c) ==
    /\ ctx_lock[c] = NoThread
    /\ \/ /\ pc[t] = "idle"
          /\ pend' = [pend EXCEPT ![c] = @ - 1]
          /\ cl' = [cl EXCEPT ![t] = c]
       \/ /\ pc[t] = "destroy"
          /\ cl[t] = c
          /\ UNCHANGED <<pend, cl>>
    /\ ctx_lock' = [ctx_lock EXCEPT ![c] = t]
    /\ pc' = [pc EXCEPT ![t] = "cl_scan"]
    /\ UNCHANGED <<locks, lists, mutex, inode_ref, rq, granted, todo, released,
                   unwind, cstate, cref>>

CleanupStart(t, c) ==
    /\ ctx_lock[c] = NoThread
    /\ \/ /\ pc[t] = "idle"
          /\ pend[c] > 0
          /\ pend' = [pend EXCEPT ![c] = @ - 1]
          /\ cl' = [cl EXCEPT ![t] = c]
       \/ /\ pc[t] = "destroy"
          /\ cl[t] = c
          /\ UNCHANGED <<pend, cl>>
    /\ ctx_lock' = [ctx_lock EXCEPT ![c] = t]
    /\ pc' = [pc EXCEPT ![t] = "cl_scan"]
    /\ UNCHANGED <<locks, lists, mutex, inode_ref, rq, granted, todo, released,
                   unwind, cstate, cref>>

CleanupScan(t) ==
    /\ pc[t] = "cl_scan"
    /\ mutex = NoThread
    /\ \E l \in lockers[cl[t]] :
         /\ lockers' = [lockers EXCEPT ![cl[t]] = @ \ {l}]
         /\ \/ \E i \in DOMAIN inodelk_list :
                 /\ inodelk_list[i] = l
                 /\ inodelk_list' = RemoveAt(inodelk_list, i)
                 /\ released' = [released EXCEPT ![t] = @ \cup {l}]
                 /\ UNCHANGED <<blocked_inodelks, unwind>>
            \/ \E i \in DOMAIN blocked_inodelks :
                 /\ l \notin ToSet(inodelk_list)
                 /\ blocked_inodelks[i] = l
                 /\ blocked_inodelks' = RemoveAt(blocked_inodelks, i)
                 /\ unwind' = [unwind EXCEPT ![t] = @ \cup {l}]
                 /\ UNCHANGED <<inodelk_list, released>>
    /\ UNCHANGED <<locks, blocked_list, mutexes, pc, rq, cl, granted, todo, clients>>

CleanupScanned(t) ==
    /\ pc[t] = "cl_scan"
    /\ lockers[cl[t]] = {}
    /\ ctx_lock' = [ctx_lock EXCEPT ![cl[t]] = NoThread]
    /\ pc' = [pc EXCEPT ![t] = "cl_next"]
    /\ UNCHANGED <<locks, lists, mutex, inode_ref, rq, cl, granted, todo, released,
                   unwind, clients>>

CleanupUnwind(t) ==
    /\ pc[t] = "cl_next"
    /\ \E l \in unwind[t] :
         /\ IF frame[l] THEN Answer(l) ELSE UNCHANGED <<answers, cref, pend>>
         /\ unwind' = [unwind EXCEPT ![t] = @ \ {l}]
         /\ released' = [released EXCEPT ![t] = @ \cup {l}]
    /\ UNCHANGED <<req, queue, frame, ref, lists, mutexes, pc, rq, cl, granted,
                   todo, cstate>>

\* Mutant: nothing is granted after a release.
CleanupNextNoGrant(t) ==
    /\ pc[t] = "cl_next"
    /\ unwind[t] = {}
    /\ \E l \in released[t] :
         /\ released' = [released EXCEPT ![t] = @ \ {l}]
         /\ GoTo(t, "cl_unref", l)
    /\ UNCHANGED <<locks, lists, mutexes, cl, granted, todo, unwind, clients>>

\* The next released lock: grant_blocked_inode_locks, then the unref.
CleanupNext(t) ==
    /\ pc[t] = "cl_next"
    /\ unwind[t] = {}
    /\ \E l \in released[t] :
         /\ released' = [released EXCEPT ![t] = @ \ {l}]
         /\ GoTo(t, "grant", l)
    /\ UNCHANGED <<locks, lists, mutexes, cl, granted, todo, unwind, clients>>

\* Mutant: the inode keeps the reference of the released lock.
CleanupUnrefKeepInode(t) ==
    /\ pc[t] = "cl_unref"
    /\ mutex = NoThread
    /\ ref' = [ref EXCEPT ![rq[t]] = @ - 1]
    /\ GoTo(t, "cl_next", NoLock)
    /\ UNCHANGED <<req, queue, answers, frame, lists, mutexes, cl, granted, todo,
                   released, unwind, clients>>

CleanupUnref(t) ==
    /\ pc[t] = "cl_unref"
    /\ mutex = NoThread
    /\ ref' = [ref EXCEPT ![rq[t]] = @ - 1]
    /\ inode_ref' = inode_ref - 1
    /\ GoTo(t, "cl_next", NoLock)
    /\ UNCHANGED <<req, queue, answers, frame, lists, mutex, ctx_lock, cl, granted,
                   todo, released, unwind, clients>>

\* gf_client_unref; the last reference runs client_destroy, whose callback
\* cleans up once more and frees the context.
CleanupEnd(t) ==
    LET c == cl[t] IN
    /\ pc[t] = "cl_next"
    /\ unwind[t] = {}
    /\ released[t] = {}
    /\ \/ /\ cref[c] > 0
          /\ cref' = [cref EXCEPT ![c] = @ - 1]
          /\ IF cref[c] = 1
             THEN pc' = [pc EXCEPT ![t] = "destroy"] /\ UNCHANGED cl
             ELSE /\ pc' = [pc EXCEPT ![t] = "idle"]
                  /\ cl' = [cl EXCEPT ![t] = NoClient]
          /\ UNCHANGED cstate
       \/ /\ cref[c] = 0
          /\ cstate' = [cstate EXCEPT ![c] = "gone"]
          /\ pc' = [pc EXCEPT ![t] = "idle"]
          /\ cl' = [cl EXCEPT ![t] = NoClient]
          /\ UNCHANGED cref
    /\ UNCHANGED <<locks, lists, mutexes, rq, granted, todo, released, unwind, pend>>

----------------------------------------------------------------------------
Init ==
    /\ req \in [Locks -> Requests]
    /\ queue = {}
    /\ answers = [l \in Locks |-> 1]
    /\ frame = [l \in Locks |-> FALSE]
    /\ ref = [l \in Locks |-> 0]
    /\ inodelk_list = <<>>
    /\ blocked_inodelks = <<>>
    /\ blocked_list = <<>>
    /\ lockers = [c \in Clients |-> {}]
    /\ mutex = NoThread
    /\ ctx_lock = [c \in Clients |-> NoThread]
    /\ inode_ref = 0
    /\ pc = [t \in Threads |-> "idle"]
    /\ rq = [t \in Threads |-> NoLock]
    /\ cl = [t \in Threads |-> NoClient]
    /\ granted = [t \in Threads |-> {}]
    /\ todo = [t \in Threads |-> {}]
    /\ released = [t \in Threads |-> {}]
    /\ unwind = [t \in Threads |-> {}]
    /\ cstate = [c \in Clients |-> "gone"]
    /\ cref = [c \in Clients |-> 0]
    /\ pend = [c \in Clients |-> 0]

pl_inode_setlk(t, l) == \/ SetLkGranted(t, l)
                        \/ SetLkBlocked(t, l)
                        \/ SetLkRefused(t, l)
                        \/ SetLkUnlock(t, l)
                        \/ SetLkBadUnlock(t, l)

SetLkStep(t) == \E l \in Locks : pl_inode_setlk(t, l)

GrantStep(t) == \/ GrantStart(t)
                \/ GrantOne(t)
                \/ GrantEnd(t)
                \/ UnwindGranted(t)
                \/ UnrefGranted(t)

CleanupStep(t) == \/ \E c \in Clients : CleanupStart(t, c)
                  \/ CleanupScan(t)
                  \/ CleanupScanned(t)
                  \/ CleanupUnwind(t)
                  \/ CleanupNext(t)
                  \/ CleanupUnref(t)
                  \/ CleanupEnd(t)

ThreadStep(t) == SetLkStep(t) \/ Reply(t) \/ GrantStep(t) \/ CleanupStep(t)

Next == \/ \E c \in Clients : Connect(c) \/ Disconnect(c)
        \/ \E l \in Locks : Submit(l)
        \/ \E t \in Threads : ThreadStep(t)

Spec == Init /\ [][Next]_vars

\* A thread at work goes on and gets the mutexes it waits for; the io-threads
\* take every queued request; a cleanup that is due starts.
Fairness ==
    /\ \A t \in Threads : SF_vars(pc[t] # "idle" /\ ThreadStep(t))
    /\ \A l \in Locks : SF_vars(\E t \in Threads : pl_inode_setlk(t, l))
    /\ \A c \in Clients : SF_vars(\E t \in Threads : pc[t] = "idle" /\ CleanupStart(t, c))
----------------------------------------------------------------------------
(* Properties.                                                             *)

\* Type invariant: lists hold lock objects, a mutex is free or one thread's, and
\* no cleanup of a client starts without the disconnect or failed reply (pend)
\* that calls for it.
TypeOK ==
    /\ req \in [Locks -> Requests]
    /\ queue \subseteq Locks
    /\ answers \in [Locks -> Nat]
    /\ frame \in [Locks -> BOOLEAN]
    /\ ref \in [Locks -> Int]
    /\ inodelk_list \in Seq(Locks)
    /\ blocked_inodelks \in Seq(Locks)
    /\ blocked_list \in Seq(Locks)
    /\ lockers \in [Clients -> SUBSET Locks]
    /\ mutex \in Threads \cup {NoThread}
    /\ ctx_lock \in [Clients -> Threads \cup {NoThread}]
    /\ inode_ref \in Int
    /\ pc \in [Threads -> {"idle", "reply", "grant", "granting", "unwind",
                           "cl_scan", "cl_next", "cl_unref", "destroy"}]
    /\ rq \in [Threads -> Locks \cup {NoLock}]
    /\ cl \in [Threads -> Clients \cup {NoClient}]
    /\ granted \in [Threads -> SUBSET Locks]
    /\ todo \in [Threads -> SUBSET Locks]
    /\ released \in [Threads -> SUBSET Locks]
    /\ unwind \in [Threads -> SUBSET Locks]
    /\ cstate \in [Clients -> {"gone", "up", "down"}]
    /\ cref \in [Clients -> Int]
    /\ pend \in [Clients -> Nat]

\* The bytes a flock asks for, independently of fl_end and inodelk_overlap.
Covers(l, b) == /\ b >= req[l].l_start
                /\ req[l].l_len = 0 \/ b < req[l].l_start + req[l].l_len

\* Two owners never hold locks on a common byte unless both are read locks,
\* whatever arrivals, unlocks, re-grants and disconnects interleave.
MutualExclusion ==
    \A l, m \in ToSet(inodelk_list) :
        (\E b \in 0..LLONG_MAX : Covers(l, b) /\ Covers(m, b))
            => \/ same_inodelk_owner(l, m)
               \/ ~inodelk_type_conflict(l, m)

\* The lists a lock object can be reached from.  A cleaning thread keeps the
\* reference of the list it took the lock from.
Cleaned(l) == \E t \in Threads : \/ l \in released[t] \cup unwind[t]
                                 \/ cl[t] # NoClient /\ rq[t] = l
Waiting(l) == l \in ToSet(blocked_inodelks) \cup ToSet(blocked_list)

One(p) == IF p THEN 1 ELSE 0

\* lock->ref counts exactly the lists the object is on, so an object on a list
\* is never freed memory and an object on no list is always freed.
RefsExact ==
    \A l \in Locks :
        ref[l] = One(l \in ToSet(inodelk_list) \/ Cleaned(l))
                 + One(Waiting(l) \/ \E t \in Threads : l \in granted[t])

\* Whoever still has to unwind l's frame.
Answerer(l) ==
    \/ l \in queue
    \/ Waiting(l)
    \/ \E t \in Threads : \/ l \in todo[t] \cup unwind[t]
                          \/ pc[t] = "granting" /\ l \in granted[t]
                          \/ cl[t] = NoClient /\ rq[t] = l

\* A frame is unwound once: it has had no reply exactly as long as the request
\* is queued, waits, or is in the hands of a thread that will unwind it.
AnsweredOnce ==
    \A l \in Locks : answers[l] = One(~Answerer(l))

\* Something a waiting lock is waiting for: a conflicting lock of another owner
\* that is granted, or a conflicting lock ahead in the queue.
WaitsFor(i) ==
    LET l == blocked_inodelks[i] IN
    \/ \E m \in ToSet(inodelk_list) : inodelk_conflict(l, m) /\ ~same_inodelk_owner(l, m)
    \/ \E j \in 1..(i - 1) : inodelk_conflict(l, blocked_inodelks[j])

\* A thread that took a lock off a list and has not re-granted since.
WillGrant(t) == \/ pc[t] = "grant"
                \/ released[t] \cup unwind[t] # {}

\* No wake-up is lost: unless a re-grant is still to come, every waiting lock
\* waits for something.
NoLostWakeup ==
    (\A t \in Threads : ~WillGrant(t))
        => \A i \in DOMAIN blocked_inodelks : WaitsFor(i)

\* When a client_t is freed nothing of it is left: no queued request, no lock
\* on a list of the domain, an empty lockers list (the GF_ASSERT in
\* pl_client_destroy_cbk), no cleanup at work or to come.
ClientGone ==
    \A c \in Clients : cstate[c] = "gone" =>
        /\ lockers[c] = {}
        /\ pend[c] = 0
        /\ \A t \in Threads : cl[t] # c
        /\ \A l \in Locks : req[l].client = c =>
              l \notin queue \cup ToSet(inodelk_list) /\ ~Waiting(l)

\* The inode is referenced once for every lock that is on a list of the domain
\* or still to be released, so pl_inode outlives every lock that points to it.
InodeRefExact ==
    inode_ref = Cardinality({l \in Locks : \/ l \in ToSet(inodelk_list)
                                           \/ Waiting(l)
                                           \/ Cleaned(l)})

\* Once no connection lasts for ever, a client that has disconnected is cleaned
\* up and freed, also when requests of it are processed after its cleanup: the
\* failed reply to each of them cleans up again.
DisconnectCompletes ==
    (\A c \in Clients : []<>(cstate[c] # "up"))
        => \A c \in Clients : cstate[c] = "down" ~> cstate[c] = "gone"

\* All the work that the requests and the disconnection of c caused is done.
Quiet(c) ==
    /\ pend[c] = 0
    /\ \A t \in Threads : cl[t] # c
    /\ \A l \in Locks : req[l].client = c =>
          /\ l \notin queue
          /\ \A t \in Threads : l # rq[t] /\ l \notin granted[t]

\* client-handshake.c: the server "cleans up the resources on every disconnect.
\* Otherwise it may lead to stale resources, i.e. ... inode/entry locks".  When
\* the cleanup of a disconnected client is over none of its locks is left.
NoStaleLocks ==
    \A c \in Clients : (cstate[c] = "down" /\ Quiet(c)) => lockers[c] = {}

\* The waiting locks in order, also while __grant_blocked_inode_locks is at work.
WaitQueue == blocked_inodelks \o blocked_list
=============================================================================
