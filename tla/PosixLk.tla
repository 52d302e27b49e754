------------------------------ MODULE PosixLk ------------------------------
(***************************************************************************)
(* The fcntl locks of one file on a brick: features/locks/src, pl_lk,      *)
(* pl_flush, pl_release and pl_migrate_locks of posix.c, the list          *)
(* operations of common.c and clrlk_clear_posixlk of clear.c, driven by    *)
(* the fd cleanup of protocol/server (server-helpers.c).                   *)
(*                                                                         *)
(* Every client has one fd, so an fd also names its client; a lock's owner *)
(* is the pair of its fd and its lk_owner.  A critical section of          *)
(* pl_inode->mutex is one step of a thread.  The second one of each        *)
(* operation, grant_blocked_locks, ends the operation.  A frame that is    *)
(* unwound drops its reference to the fd.  Mandatory locks are not         *)
(* supported by this release, so no read or write waits for a lock.        *)
(***************************************************************************)
EXTENDS Integers, FiniteSets, SequencesExt

CONSTANTS
    Fds,        \* the open fds on the file, one per client
    Owners,     \* lk_owner values
    Threads,
    Frames,     \* the frames of lk requests
    MaxRequests, \* bound: how many requests are sent
    Requests,   \* what clients may ask for, a subset of Request
    LLONG_MAX,
    Migrations, \* pairs <<old fd, new fd>> of a client that switches graphs
    NoThread, NoFd, NoRequest

Types == {"F_RDLCK", "F_WRLCK", "F_UNLCK"}

Request == [fd : Fds, owner : Owners, l_start : 0..LLONG_MAX,
            l_len : 0..LLONG_MAX, l_type : Types, can_block : BOOLEAN]

ASSUME PosixLkAssumption ==
    /\ LLONG_MAX \in Nat /\ MaxRequests \in Nat
    /\ Requests \subseteq Request
    /\ Migrations \subseteq Fds \X Fds
    /\ NoThread \notin Threads
    /\ NoFd \notin Fds
    /\ NoRequest \notin Request

\* The ranges asked for end within off_t.
ASSUME PosixRangesFit ==
    \A r \in Requests : r.l_start + r.l_len <= LLONG_MAX + 1

VARIABLES
    ext_list,  \* pl_inode->ext_list: granted and blocked locks
    mutex,     \* the thread that waits for pl_inode->mutex while it holds it
    sent,      \* requests sent so far
    req,       \* frame -> the request it carries, or NoRequest
    queued,    \* the frames in io-threads that are not processed yet
    answers,   \* frame -> replies it has had
    thr,       \* thread -> what it does once grant_blocked_locks is done
    fd,        \* fd -> its state
    held       \* history: what each owner was last told, per byte

vars == <<ext_list, mutex, sent, req, queued, answers, thr, fd, held>>

Bytes == 0..LLONG_MAX

----------------------------------------------------------------------------
(* Locks.                                                                  *)

fl_end(q) == IF q.l_len = 0 THEN LLONG_MAX ELSE q.l_start + q.l_len - 1

new_posix_lock(f) ==
    [frame |-> f, fd_num |-> req[f].fd, owner |-> req[f].owner,
     fl_type |-> req[f].l_type, fl_start |-> req[f].l_start,
     fl_end |-> fl_end(req[f]), blocked |-> FALSE]

\* Mutant: ranges that share only one end do not overlap.
OverlapStrict(l1, l2) == l1.fl_end > l2.fl_start /\ l2.fl_end > l1.fl_start

locks_overlap(l1, l2) == l1.fl_end >= l2.fl_start /\ l2.fl_end >= l1.fl_start

same_owner(l1, l2) == l1.owner = l2.owner /\ l1.fd_num = l2.fd_num

Granted(list) == {l \in ToSet(list) : ~l.blocked}

first_overlap(list, lock) == \E l \in Granted(list) : locks_overlap(l, lock)

is_lock_grantable(list, lock) ==
    \A l \in Granted(list) :
        (/\ locks_overlap(lock, l)
         /\ "F_WRLCK" \in {l.fl_type, lock.fl_type}
         /\ lock.fl_type # "F_UNLCK") => same_owner(l, lock)

----------------------------------------------------------------------------
(* Splitting and merging.                                                  *)

\* Mutant: what lies behind the subtracted lock is lost.
SubtractNoTail(big, small) ==
    SelectSeq(<<[big EXCEPT !.fl_end = small.fl_start - 1], small>>,
              LAMBDA l : l.fl_start <= l.fl_end)

\* What is left of big at the two sides of small, and small.
subtract_locks(big, small) ==
    LET before == [big EXCEPT !.fl_end = small.fl_start - 1]
        after  == [big EXCEPT !.fl_start = small.fl_end + 1]
    IN CASE small.fl_start = big.fl_start /\ small.fl_end = big.fl_end ->
                <<[big EXCEPT !.fl_type = small.fl_type]>>
         [] small.fl_start > big.fl_start /\ small.fl_end < big.fl_end ->
                <<before, small, after>>
         [] small.fl_start = big.fl_start /\ small.fl_end # big.fl_end ->
                <<after, small>>
         [] OTHER -> <<before, small>>

\* lock, widened to cover conf.
add_locks(lock, conf) ==
    [lock EXCEPT !.fl_start = IF conf.fl_start < @ THEN conf.fl_start ELSE @,
                 !.fl_end   = IF conf.fl_end > @ THEN conf.fl_end ELSE @]

\* The locks at which the walk over the list does something: the owner's own,
\* and the first read lock of another owner when lock is one too.
Stops(list, lock) ==
    {i \in DOMAIN list :
        /\ ~list[i].blocked
        /\ locks_overlap(list[i], lock)
        /\ \/ same_owner(list[i], lock)
           \/ list[i].fl_type = "F_RDLCK" /\ lock.fl_type = "F_RDLCK"}

RECURSIVE insert_and_merge(_, _)
insert_and_merge(list, lock) ==
    LET stops == Stops(list, lock)
        i     == CHOOSE n \in stops : \A m \in stops : n <= m
        conf  == list[i]
        rest  == RemoveAt(list, i)
        sum   == [add_locks(conf, lock) EXCEPT !.fl_type = conf.fl_type]
        Inserted(l, piece) == insert_and_merge(l, piece)
    IN CASE stops = {} ->
                IF lock.fl_type = "F_UNLCK" THEN list ELSE Append(list, lock)
         [] stops # {} /\ ~same_owner(conf, lock) -> Append(list, lock)
         [] stops # {} /\ same_owner(conf, lock) /\ conf.fl_type = lock.fl_type ->
                insert_and_merge(rest, add_locks(lock, conf))
         [] OTHER ->
                SelectSeq(FoldLeft(Inserted, rest, subtract_locks(sum, lock)),
                          LAMBDA l : l.fl_type # "F_UNLCK")

----------------------------------------------------------------------------
(* A critical section works on a record s of the list, the frames it       *)
(* unwinds and the history of the locks.                                   *)

Here == [list |-> ext_list, unwound |-> {}, held |-> held]

\* The owner of lock is told that it now has it.
Told(h, lock) ==
    [h EXCEPT ![lock.fd_num, lock.owner] =
        [b \in Bytes |-> IF lock.fl_start <= b /\ b <= lock.fl_end
                         THEN lock.fl_type ELSE @[b]]]

\* Locks that are granted have no use for their frame.
Add(s, lock) ==
    [s EXCEPT !.list = insert_and_merge(@, [lock EXCEPT !.frame = NoRequest]),
              !.held = Told(@, lock)]

Regrant(s, l) ==
    IF is_lock_grantable(s.list, l)
    THEN [Add(s, l) EXCEPT !.unwound = @ \cup {l.frame}]
    ELSE [s EXCEPT !.list = Append(@, [l EXCEPT !.blocked = TRUE])]

\* First every blocked lock that overlaps no granted one is taken off the
\* list, then each of them is granted or put back.
grant_blocked(s) ==
    LET Free(l) == l.blocked /\ ~first_overlap(s.list, l)
        tmp_list == SelectSeq(s.list, Free)
        kept == SelectSeq(s.list, LAMBDA l : ~Free(l))
    IN FoldLeft(LAMBDA u, l : Regrant(u, [l EXCEPT !.blocked = FALSE]),
                [s EXCEPT !.list = kept], tmp_list)

\* A request that has to wait gives up its range before it does.
send_prelock_unlock(s, lock) ==
    grant_blocked(Add(s, [lock EXCEPT !.fl_type = "F_UNLCK"]))

----------------------------------------------------------------------------
(* Frames, fds and threads.                                                *)

Idle == [op |-> "none", reply |-> {}, fd |-> NoFd]

\* The frames and the threads that hold a reference to the fd.
refs(f) == {x \in Frames : req[x] # NoRequest /\ req[x].fd = f}
           \cup {t \in Threads : thr[t].fd = f}

\* The frames are answered and destroyed.
Unwind(frames) ==
    /\ answers' = [x \in Frames |-> answers[x] + IF x \in frames THEN 1 ELSE 0]
    /\ req' = [x \in Frames |-> IF x \in frames THEN NoRequest ELSE req[x]]

\* An fd whose last reference these frames hold.  Its pl_release needs the
\* mutex, which the thread that unwinds them has.
Relocks(frames) ==
    \E f \in Fds : fd[f] = "put" /\ refs(f) # {} /\ refs(f) \subseteq frames

CanStart(t) == mutex = NoThread /\ thr[t] = Idle

\* The first critical section of an operation, and what is left to do.
Section(t, s, op, reply, f) ==
    /\ ext_list' = s.list
    /\ held' = s.held
    /\ thr' = [thr EXCEPT ![t] = [op |-> op, reply |-> reply, fd |-> f]]

Submit(x, q) ==
    /\ req[x] = NoRequest
    /\ sent < MaxRequests
    /\ fd[q.fd] = "open"
    /\ req' = [req EXCEPT ![x] = q]
    /\ queued' = queued \cup {x}
    /\ answers' = [answers EXCEPT ![x] = 0]
    /\ sent' = sent + 1
    /\ UNCHANGED <<ext_list, mutex, thr, fd, held>>

pl_setlk(t, x) ==
    LET lock == new_posix_lock(x)
        can_block == req[x].can_block
        s == IF can_block /\ ~is_lock_grantable(ext_list, lock)
             THEN send_prelock_unlock(Here, lock) ELSE Here
        ok == is_lock_grantable(s.list, lock)
    IN /\ x \in queued
       /\ CanStart(t)
       /\ queued' = queued \ {x}
       /\ Section(t, CASE ok -> Add(s, lock)
                       [] ~ok /\ can_block ->
                            [s EXCEPT !.list = Append(@, [lock EXCEPT !.blocked = TRUE])]
                       [] OTHER -> s,
                  "lk", IF ok \/ ~can_block THEN {x} ELSE {}, NoFd)
       /\ Unwind(s.unwound)
       /\ mutex' = IF Relocks(s.unwound) THEN t ELSE NoThread
       /\ UNCHANGED <<sent, fd>>

delete_locks_of_fd(s, f) ==
    [s EXCEPT !.list = SelectSeq(@, LAMBDA l : l.fd_num # f),
              !.unwound = {l.frame : l \in {m \in ToSet(s.list) :
                                               m.blocked /\ m.fd_num = f}},
              !.held = [o \in DOMAIN @ |->
                            IF o[1] = f THEN [b \in Bytes |-> "F_UNLCK"] ELSE @[o]]]

\* Mutant: the owner's blocked locks go too, without an answer.
DeleteAllOfOwner(s, f, o) ==
    [s EXCEPT !.list = SelectSeq(@, LAMBDA l : ~(l.fd_num = f /\ l.owner = o)),
              !.held[f, o] = [b \in Bytes |-> "F_UNLCK"]]

delete_locks_of_owner(s, f, o) ==
    [s EXCEPT !.list = SelectSeq(@, LAMBDA l :
                                    l.blocked \/ ~(l.fd_num = f /\ l.owner = o)),
              !.held[f, o] = [b \in Bytes |-> "F_UNLCK"]]

\* An owner closes the file.
pl_flush(t, f, o) ==
    /\ CanStart(t)
    /\ fd[f] = "open"
    /\ Section(t, delete_locks_of_owner(Here, f, o), "flush", {}, f)
    /\ UNCHANGED <<sent, mutex, req, queued, answers, fd>>

\* The client has nothing left on the fd and releases it.
server_release(f) ==
    /\ fd[f] = "open"
    /\ refs(f) = {}
    /\ fd' = [fd EXCEPT ![f] = "put"]
    /\ UNCHANGED <<sent, ext_list, mutex, req, queued, answers, thr, held>>

\* The connection is lost: server_connection_cleanup takes the fd table.
Disconnect(f) ==
    /\ fd[f] = "open"
    /\ fd' = [fd EXCEPT ![f] = "down"]
    /\ UNCHANGED <<sent, ext_list, mutex, req, queued, answers, thr, held>>

\* Both take every lock of the fd: the flush without an lk_owner that
\* do_fd_cleanup sends, and pl_release, which destroys the fd.
DeleteOfFd(t, f, from, to, op) ==
    LET s == delete_locks_of_fd(Here, f)
    IN /\ CanStart(t)
       /\ fd[f] = from
       /\ fd' = [fd EXCEPT ![f] = to]
       /\ Section(t, s, op, {}, f)
       /\ Unwind(s.unwound)
       /\ UNCHANGED <<sent, mutex, queued>>

do_fd_cleanup(t, f) == DeleteOfFd(t, f, "down", "cleaned", "cleanup")

\* Mutant: the flush of the fd is trusted to have taken all its locks.
ReleaseKeeps(t, f) ==
    /\ refs(f) = {}
    /\ CanStart(t)
    /\ fd[f] = "put"
    /\ fd' = [fd EXCEPT ![f] = "released"]
    /\ Section(t, Here, "release", {}, f)
    /\ UNCHANGED <<mutex, sent, req, queued, answers>>

pl_release(t, f) ==
    /\ refs(f) = {}
    /\ DeleteOfFd(t, f, "put", "released", "release")

\* The client that switches graphs hands the locks of its old fd to the new.
pl_migrate_locks(old, new) ==
    /\ mutex = NoThread
    /\ fd[new] = "open"
    /\ ext_list' = [i \in DOMAIN ext_list |->
                      [ext_list[i] EXCEPT !.fd_num = IF @ = old THEN new ELSE @]]
    /\ held' = [o \in DOMAIN held |->
                  CASE o[1] = old -> [b \in Bytes |-> "F_UNLCK"]
                    [] o[1] = new -> [b \in Bytes |->
                          IF held[old, o[2]][b] = "F_UNLCK" THEN held[o][b]
                          ELSE held[old, o[2]][b]]
                    [] OTHER -> held[o]]
    /\ UNCHANGED <<sent, mutex, req, queued, answers, thr, fd>>

\* The command clears blocked locks, granted ones or both; it unwinds the
\* frames with the mutex held.  Where there is nothing to clear it does nothing.
clrlk_clear_posixlk(t, kind) ==
    LET cleared == {l \in ToSet(ext_list) : l.blocked \in kind}
        unwound == {l.frame : l \in {m \in cleared : m.blocked}}
    IN /\ CanStart(t)
       /\ cleared # {}
       /\ ext_list' = SelectSeq(ext_list, LAMBDA l : l \notin cleared)
       /\ held' = IF FALSE \in kind
                  THEN [o \in DOMAIN held |-> [b \in Bytes |-> "F_UNLCK"]] ELSE held
       /\ thr' = [thr EXCEPT ![t] = [op |-> "clear", reply |-> {}, fd |-> NoFd]]
       /\ Unwind(unwound)
       /\ mutex' = IF Relocks(unwound) THEN t ELSE NoThread
       /\ UNCHANGED <<sent, queued, fd>>

\* Mutant: only a request for a lock looks at the waiting ones.
GrantAfterLk(t) ==
    IF thr[t].op = "lk" THEN grant_blocked(Here) ELSE Here

GrantNow(t) == grant_blocked(Here)

\* The second critical section, the replies, and the end of the operation.
grant_blocked_locks(t) ==
    LET s == GrantNow(t)
    IN /\ mutex = NoThread
       /\ thr[t] # Idle
       /\ ext_list' = s.list
       /\ held' = s.held
       /\ Unwind(s.unwound \cup thr[t].reply)
       /\ fd' = CASE thr[t].op = "cleanup" -> [fd EXCEPT ![thr[t].fd] = "put"]
                  [] thr[t].op = "release" -> [fd EXCEPT ![thr[t].fd] = "closed"]
                  [] OTHER -> fd
       /\ thr' = [thr EXCEPT ![t] = Idle]
       /\ UNCHANGED <<sent, mutex, queued>>

Init ==
    /\ ext_list = <<>>
    /\ mutex = NoThread
    /\ req = [x \in Frames |-> NoRequest]
    /\ sent = 0
    /\ queued = {}
    /\ answers = [x \in Frames |-> 1]
    /\ thr = [t \in Threads |-> Idle]
    /\ fd = [f \in Fds |-> "open"]
    /\ held = [o \in Fds \X Owners |-> [b \in Bytes |-> "F_UNLCK"]]

Next ==
    \/ \E f \in Fds : server_release(f) \/ Disconnect(f)
    \/ \E x \in Frames, q \in Requests : Submit(x, q)
    \/ \E t \in Threads, x \in Frames : pl_setlk(t, x)
    \/ \E t \in Threads, f \in Fds, o \in Owners : pl_flush(t, f, o)
    \/ \E t \in Threads, f \in Fds : do_fd_cleanup(t, f) \/ pl_release(t, f)
    \/ \E m \in Migrations : pl_migrate_locks(m[1], m[2])
    \/ \E t \in Threads, kind \in {{TRUE}, {FALSE}, BOOLEAN} :
          clrlk_clear_posixlk(t, kind)
    \/ \E t \in Threads : grant_blocked_locks(t)

Spec == Init /\ [][Next]_vars

----------------------------------------------------------------------------
(* Properties.                                                             *)

Lock == [frame : Frames \cup {NoRequest}, fd_num : Fds, owner : Owners,
         fl_type : {"F_RDLCK", "F_WRLCK"}, fl_start : Bytes, fl_end : Bytes,
         blocked : BOOLEAN]

\* Types: the list never holds an F_UNLCK lock or one whose range is empty,
\* and only blocked locks have a frame.
TypeOK ==
    /\ \A l \in ToSet(ext_list) : /\ l \in Lock
                                  /\ l.fl_start <= l.fl_end
                                  /\ l.blocked <=> l.frame # NoRequest
    /\ mutex \in Threads \cup {NoThread}
    /\ \A x \in Frames : req[x] \in Request \cup {NoRequest}
    /\ sent \in 0..MaxRequests
    /\ queued \subseteq Frames
    /\ answers \in [Frames -> 0..2]
    /\ thr \in [Threads -> [op : {"none", "lk", "flush", "cleanup", "release", "clear"},
                            reply : SUBSET Frames, fd : Fds \cup {NoFd}]]
    /\ fd \in [Fds -> {"closed", "open", "down", "cleaned", "put", "released"}]
    /\ held \in [Fds \X Owners -> [Bytes -> Types]]

Covers(l, b) == l.fl_start <= b /\ b <= l.fl_end

\* Two owners never have granted locks on one byte of which one is a write
\* lock, whatever was split, merged, re-granted and migrated.
Exclusion ==
    \A l, m \in Granted(ext_list) :
        (/\ ~same_owner(l, m)
         /\ \E b \in Bytes : Covers(l, b) /\ Covers(m, b))
        => l.fl_type = "F_RDLCK" /\ m.fl_type = "F_RDLCK"

\* What the list says of an owner on a byte (the strongest lock).
Type(o, b) ==
    LET types == {l.fl_type : l \in {m \in Granted(ext_list) :
                    m.fd_num = o[1] /\ m.owner = o[2] /\ Covers(m, b)}}
    IN CASE "F_WRLCK" \in types -> "F_WRLCK"
         [] types = {"F_RDLCK"} -> "F_RDLCK"
         [] OTHER -> "F_UNLCK"

\* Against a byte by byte account of what the owners were told: a byte that
\* an owner locked is locked for it at least as strongly, and one that it
\* unlocked is not, through every split and merge of __insert_and_merge.
HeldAsTold ==
    \A o \in DOMAIN held, b \in Bytes :
        CASE held[o][b] = "F_UNLCK" -> Type(o, b) = "F_UNLCK"
          [] held[o][b] = "F_RDLCK" -> Type(o, b) # "F_UNLCK"
          [] OTHER -> Type(o, b) = "F_WRLCK"

\* As HeldAsTold, but exactly: a write lock turned into a read lock no longer
\* keeps readers out.
HeldExactly == \A o \in DOMAIN held, b \in Bytes : Type(o, b) = held[o][b]

\* Every request is answered once: one that is not answered is queued, or in
\* the hands of one thread, or its frame is on one blocked lock.
AnsweredOnce ==
    \A x \in Frames :
        Cardinality({i \in DOMAIN ext_list : ext_list[i].frame = x})
        + Cardinality({t \in Threads : x \in thr[t].reply})
        + Cardinality({x} \cap queued) + answers[x] = 1

\* A thread is going to look at the blocked locks.
WillGrant == \E t \in Threads : thr[t] # Idle

\* No lock waits for nothing: unless a thread is about to look at it, a
\* blocked lock overlaps a granted one.
WaitsForLock ==
    \A l \in ToSet(ext_list) :
        l.blocked => WillGrant \/ first_overlap(ext_list, l)

\* As WaitsForLock, but it waits for a lock that conflicts with it.
WaitsForConflict ==
    \A l \in ToSet(ext_list) :
        l.blocked => WillGrant \/ ~is_lock_grantable(ext_list, l)

\* No lock outlives its fd: every lock is of an fd that is still referred to,
\* so that its release is still to come and will find the lock.
FdGone == \A l \in ToSet(ext_list) : fd[l.fd_num] \notin {"closed", "released"}

\* No thread needs the mutex that it holds, when a frame it unwinds has the
\* last reference to an fd.
NoRelock == mutex = NoThread
=============================================================================
