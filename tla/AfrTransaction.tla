--------------------------- MODULE AfrTransaction ---------------------------
(***************************************************************************)
(* The changelog of AFR's data transactions (cluster/afr/src:              *)
(* afr-transaction.c, afr-inode-write.c).  Clients (mounts) write one      *)
(* replicated file through one fd each.  Every write is a transaction:     *)
(* pre-op on the bricks it has locked, the write itself, post-op; a write  *)
(* may inherit the pre-op of an earlier one and its post-op may be         *)
(* delayed.  The writes go to disjoint regions, so that their locks never  *)
(* exclude each other: the most concurrent case.                           *)
(*                                                                         *)
(* A callback is one step, including everything it goes on to do when it   *)
(* is the last of its calls.  A call to a brick that is not connected, and *)
(* every call that is on its way when the connection breaks, fails with    *)
(* ENOTCONN; of the latter the brick may execute any, at any later time.   *)
(***************************************************************************)
EXTENDS Integers, FiniteSets

CONSTANTS
    Clients,
    Txns,
    AFR_QUORUM_AUTO,
    Volumes,          \* the volumes, and what may happen to them
    Volume,           \* volume -> VolumeType
    None

VolumeType ==
    [child_count : Nat \ {0},
     quorum_count : Nat \cup {AFR_QUORUM_AUTO},  \* 0: client quorum is off
     delayed_post_op : BOOLEAN,          \* eager-lock on, post-op-delay-secs not 0
     mount : [Txns -> Clients],          \* the client of a transaction
     errors : SUBSET {"EIO", "short"},   \* replies of a connected brick other than "ok"
     phases : SUBSET {"pre_op", "fop", "fsync", "post_op"},  \* calls that have them
     networks : SUBSET [Clients -> SUBSET Nat],  \* what clients may be connected to
     changes : Nat,                      \* bound: changes of the network
     failures : Nat,                     \* bound: power failures of bricks
     crashing : SUBSET Clients]          \* the clients that may crash

ASSUME AfrAssumption ==
    /\ \A v \in Volumes : Volume[v] \in VolumeType
    /\ \A v \in Volumes : Volume[v].networks \subseteq [Clients -> SUBSET (1..Volume[v].child_count)]
    /\ None \notin Txns

VARIABLES
    vol,      \* the volume; it never changes
    txn,      \* transaction -> its afr_local_t
    fd_ctx,   \* client -> its afr_fd_ctx_t of the file
    brick,    \* brick -> file contents and changelog xattrs
    late,     \* calls that were on their way to a brick when the connection broke
    conn,     \* client -> the bricks it is connected to
    changes, failures

vars == <<vol, txn, fd_ctx, brick, late, conn, changes, failures>>

N == Volume[vol].child_count
Bricks == 1..N
quorum_count == Volume[vol].quorum_count
Mount == Volume[vol].mount
BrickErrors == Volume[vol].errors

\* The part of the state a client's callback works on.
local(c) == [txn |-> txn, fd |-> fd_ctx[c], up |-> conn[c]]

\* STACK_WIND to every brick of the transaction.
wind(s, x, pc) == [s EXCEPT !.txn[x].pc = pc,
                            !.txn[x].todo = s.txn[x].pre_op,
                            !.txn[x].wire = s.txn[x].pre_op \cap s.up]

NewTxn == [pc |-> "idle", pre_op |-> {}, failed |-> {}, pending |-> {},
           dirty |-> 0, dirtied |-> FALSE, inherited |-> FALSE,
           no_uninherit |-> FALSE, uninherit_done |-> FALSE,
           uninherit_value |-> FALSE, todo |-> {}, wire |-> {}, op_ret |-> "none",
           reply |-> [b \in Bricks |-> "none"], answer |-> "none"]

\* The afr_local_t is freed; what the application was answered remains.
freed(pc, answer) == [NewTxn EXCEPT !.pc = pc, !.answer = answer]

nothing_failed(r) == r.failed = {}

----------------------------------------------------------------------------
(* Quorum.                                                                 *)

afr_has_quorum(subvols) ==
    LET n == Cardinality(subvols) IN
    IF quorum_count = AFR_QUORUM_AUTO
    THEN IF N % 2 = 0 /\ n = N \div 2 THEN 1 \in subvols ELSE n >= N \div 2 + 1
    ELSE n >= quorum_count

\* Mutant: the outcome of the fop is not looked at.
HandleQuorumNone(r) == r

\* A write that did not succeed on a quorum of the bricks has failed.
afr_handle_quorum(r) ==
    IF quorum_count = 0 \/ afr_has_quorum(r.pre_op \ r.failed)
    THEN r
    ELSE [r EXCEPT !.failed = @ \cup r.pre_op, !.op_ret = "fail"]

----------------------------------------------------------------------------
(* The changelog counters of the fd: on_disk transactions have marked the  *)
(* bricks dirty, inherited ones rely on one of those marks.                *)

\* Mutant: the mark is taken back while others still rely on it.
TakeMarkFirst(f) == f.on_disk = 0

\* Which of the two counters a finished transaction comes off.
take_inherited(f) == f.inherited > 0

\* Sets uninherit_value: this transaction's post-op need not unmark dirty.
afr_changelog_pre_op_uninherit(s, x) ==
    LET r == s.txn[x]  f == s.fd IN
    IF r.no_uninherit \/ r.uninherit_done THEN s
    ELSE LET match == r.pre_op = f.pre_op_done
             inh   == match /\ take_inherited(f)
             f1    == IF ~match THEN f
                      ELSE IF inh THEN [f EXCEPT !.inherited = @ - 1]
                      ELSE IF f.on_disk > 0 THEN [f EXCEPT !.on_disk = @ - 1]
                      ELSE f
         IN [s EXCEPT !.txn[x].uninherit_done = TRUE,
                      !.txn[x].uninherit_value = IF match THEN inh ELSE ~r.dirtied,
                      !.fd = IF match /\ f1.inherited = 0 /\ f1.on_disk = 0
                             THEN [f1 EXCEPT !.pre_op_done = {}] ELSE f1]

uninherited(r) == ~r.no_uninherit /\ r.uninherit_value

can_inherit(f, subvols) == f.on_disk > 0 /\ subvols = f.pre_op_done

afr_changelog_pre_op_update(s, x) ==
    LET r == s.txn[x]  f == s.fd IN
    IF r.inherited \/ ~r.dirtied \/ ~nothing_failed(r) THEN s
    ELSE IF f.on_disk > 0 /\ f.pre_op_done # r.pre_op
    THEN [s EXCEPT !.txn[x].no_uninherit = TRUE]
    ELSE [s EXCEPT !.fd.on_disk = @ + 1, !.fd.pre_op_done = r.pre_op]

----------------------------------------------------------------------------
(* Post-op.                                                                *)

\* The transaction is over; the write is answered unless it already was.
afr_changelog_post_op_done(s, x) ==
    LET r == s.txn[x] IN
    [s EXCEPT !.txn[x] = freed("done", IF r.answer = "none" THEN r.op_ret ELSE r.answer)]

skip_post_op(r) == r.op_ret = "fail" \/ (nothing_failed(r) /\ uninherited(r))

blame(r) == r.pending \cup r.failed

afr_changelog_post_op_now(s0, x) ==
    LET s1 == [s0 EXCEPT !.txn[x] = afr_handle_quorum(@)]
        s  == afr_changelog_pre_op_uninherit(s1, x)
        r  == s.txn[x]
    IN IF skip_post_op(r)
       THEN afr_changelog_post_op_done(s, x)
       ELSE wind([s EXCEPT !.txn[x].dirty = IF uninherited(r) THEN 0 ELSE -1,
                           !.txn[x].pending = blame(r)], x, "post_op")

\* Mutant: no fsync before the hard post-op.
PostOpSafeNoSync(s0, x) == afr_changelog_post_op_now(s0, x)

\* fsync before a hard post-op, unless no unstable write has been seen since
\* the last one.  The flag is tested and cleared.
afr_changelog_post_op_safe(s0, x) ==
    LET s == afr_changelog_pre_op_uninherit(s0, x)
        r == s.txn[x]
    IN IF (uninherited(r) /\ nothing_failed(r)) \/ ~s.fd.witnessed_unstable_write
       THEN afr_changelog_post_op_now(s, x)
       ELSE wind([s EXCEPT !.fd.witnessed_unstable_write = FALSE], x, "fsync")

\* Mutant: the frame that was delayed is forgotten.
DelayedDropsPrev(s, x) == [s EXCEPT !.fd.delay_frame = x]

\* The frame of x (or None) takes the place of the delayed frame, whose
\* post-op is done now.
afr_delayed_changelog_post_op(s, x) ==
    LET prev == s.fd.delay_frame
        s1   == [s EXCEPT !.fd.delay_frame = x]
    IN IF prev = None THEN s1 ELSE afr_changelog_post_op_now(s1, prev)

afr_delayed_changelog_wake_up(s) == afr_delayed_changelog_post_op(s, None)

afr_changelog_post_op(s, x) ==
    IF Volume[vol].delayed_post_op /\ nothing_failed(s.txn[x])
    THEN afr_delayed_changelog_post_op([s EXCEPT !.txn[x].pc = "delayed"], x)
    ELSE afr_changelog_post_op_safe(s, x)

----------------------------------------------------------------------------
(* The write.                                                              *)

\* Everybody failed in the same way, and not by losing the connection.
symmetric_errors(r) ==
    \A b \in r.pre_op : /\ r.reply[b] \notin {"ok", "short", "ENOTCONN"}
                        /\ \A d \in r.pre_op : r.reply[b] = r.reply[d]

afr_transaction_resume(s, x) ==
    afr_changelog_post_op([s EXCEPT !.txn[x].failed =
                              IF symmetric_errors(s.txn[x]) THEN {} ELSE @], x)

best(r) == CASE \E b \in r.pre_op : r.reply[b] = "ok"    -> "ok"
             [] \A b \in r.pre_op : r.reply[b] # "ok"    ->
                  IF \E b \in r.pre_op : r.reply[b] = "short" THEN "short" ELSE "fail"

\* The last reply to the write: the best result counts, shorter ones have
\* failed; the application has its answer at once only if nothing failed.
writev_all_returned(s, x) ==
    LET r  == s.txn[x]
        r1 == [r EXCEPT !.op_ret = best(r),
                        !.failed = @ \cup {b \in r.pre_op : best(r) = "ok"
                                                            /\ r.reply[b] = "short"}]
        r2 == [r1 EXCEPT !.answer = IF nothing_failed(r1) THEN best(r) ELSE @]
    IN afr_transaction_resume(
          [s EXCEPT !.txn[x] = r2,
                    !.fd.witnessed_unstable_write = @ \/ best(r) # "fail"], x)

afr_transaction_perform_fop(s, x) ==
    wind(afr_delayed_changelog_wake_up(afr_changelog_pre_op_update(s, x)), x, "fop")

----------------------------------------------------------------------------
(* Calls to the bricks.                                                    *)

\* afr_changelog_cbk, afr_writev_wind_cbk, afr_changelog_fsync_cbk: brick b has
\* answered e; the last answer takes the transaction on.
callback(s, x, b, e) ==
    LET r == s.txn[x]
        s1 == [s EXCEPT !.txn[x].todo = @ \ {b},
                        !.txn[x].wire = @ \ {b},
                        !.txn[x].failed = IF e \in {"ok", "short"} THEN @ ELSE @ \cup {b},
                        !.txn[x].reply[b] = IF r.pc = "fop" THEN e ELSE @]
    IN IF r.todo # {b} THEN s1
       ELSE CASE r.pc = "pre_op"  -> afr_transaction_perform_fop(s1, x)
              [] r.pc = "fop"     -> writev_all_returned(s1, x)
              [] r.pc = "fsync"   -> afr_changelog_post_op_now(s1, x)
              [] r.pc = "post_op" -> afr_changelog_post_op_done(s1, x)

\* What a call asks the brick to do.
Call(x, b) == [txn |-> x, brick |-> b, pc |-> txn[x].pc,
               dirty |-> txn[x].dirty, pending |-> txn[x].pending]

Execute(B, m) ==
    CASE m.pc \in {"pre_op", "post_op"} ->
           [B EXCEPT !.dirty = @ + m.dirty,
                     !.pending = [j \in Bricks |-> IF j \in m.pending THEN @[j] + 1
                                                                      ELSE @[j]]]
      [] m.pc = "fop"   -> [B EXCEPT !.data = @ \cup {m.txn}]
      [] m.pc = "fsync" -> [B EXCEPT !.stable = B.data]

Return(x, b, e) ==
    LET c == Mount[x]
        s == callback(local(c), x, b, e)
    IN /\ txn' = s.txn
       /\ fd_ctx' = [fd_ctx EXCEPT ![c] = s.fd]
       /\ UNCHANGED <<vol, conn, changes, failures>>

CallOk(x, b) ==
    /\ b \in txn[x].wire
    /\ Return(x, b, "ok")
    /\ brick' = [brick EXCEPT ![b] = Execute(@, Call(x, b))]
    /\ UNCHANGED late

CallRefused(x, b) ==
    /\ b \in txn[x].wire
    /\ txn[x].pc \in Volume[vol].phases
    /\ \E e \in BrickErrors : /\ e = "short" => txn[x].pc = "fop"
                              /\ Return(x, b, e)
    /\ UNCHANGED <<brick, late>>

CallLost(x, b) ==
    /\ b \in txn[x].todo \ txn[x].wire
    /\ Return(x, b, "ENOTCONN")
    /\ UNCHANGED <<brick, late>>

\* Such a call reached the brick; the ones that did not are never executed.
LateCall(m) ==
    /\ late' = late \ {m}
    /\ brick' = [brick EXCEPT ![m.brick] = Execute(@, m)]
    /\ UNCHANGED <<vol, txn, fd_ctx, conn, changes, failures>>

----------------------------------------------------------------------------
(* Transactions begin.                                                     *)

\* Mutant: nobody is blamed before the write.
NoneAbsent(locked) == {}

absent(locked) == Bricks \ locked

\* locked: the bricks that the lock phase has locked.
afr_changelog_pre_op(s, x, locked) ==
    LET s1 == [s EXCEPT !.txn[x].pre_op = locked]
    IN IF locked = {} \/ (quorum_count # 0 /\ ~afr_has_quorum(locked))
       THEN afr_changelog_post_op_done([s1 EXCEPT !.txn[x].op_ret = "fail"], x)
       ELSE IF can_inherit(s.fd, locked)
       THEN afr_transaction_perform_fop([s1 EXCEPT !.fd.inherited = @ + 1,
                                                   !.txn[x].inherited = TRUE], x)
       ELSE IF N = 1 THEN afr_transaction_perform_fop(s1, x)
       ELSE wind([s1 EXCEPT !.txn[x].pending = absent(locked),
                            !.txn[x].dirty = IF Cardinality(locked) > 1 THEN 1 ELSE 0,
                            !.txn[x].dirtied = Cardinality(locked) > 1], x, "pre_op")

Begin(x) ==
    LET c == Mount[x]
        s == afr_changelog_pre_op(local(c), x, conn[c])
    IN /\ txn[x].pc = "idle"
       /\ txn' = s.txn
       /\ fd_ctx' = [fd_ctx EXCEPT ![c] = s.fd]
       /\ UNCHANGED <<vol, brick, late, conn, changes, failures>>

\* The timer of the delayed post-op fires, or a flush comes.
WakeUp(c) ==
    LET s == afr_delayed_changelog_wake_up(local(c)) IN
    /\ fd_ctx[c].delay_frame # None
    /\ txn' = s.txn
    /\ fd_ctx' = [fd_ctx EXCEPT ![c] = s.fd]
    /\ UNCHANGED <<vol, brick, late, conn, changes, failures>>

----------------------------------------------------------------------------
(* What goes wrong.                                                        *)

Active(x) == txn[x].pc \notin {"idle", "done", "dead"}

OnWire == {m \in {Call(x, b) : x \in Txns, b \in Bricks} : m.brick \in txn[m.txn].wire}

\* A client connects again only while it has no transaction: see the README.
MayReconnect(c) == \A x \in Txns : Mount[x] = c => ~Active(x)

NetworkChange(n) ==
    /\ changes < Volume[vol].changes
    /\ n # conn
    /\ \A c \in Clients : n[c] \subseteq conn[c] \/ MayReconnect(c)
    /\ conn' = n
    /\ txn' = [x \in Txns |-> [txn[x] EXCEPT !.wire = @ \cap n[Mount[x]]]]
    /\ late' = late \cup {m \in OnWire : m.brick \notin n[Mount[m.txn]]}
    /\ changes' = changes + 1
    /\ UNCHANGED <<vol, fd_ctx, brick, failures>>

NewFd == [pre_op_done |-> {}, on_disk |-> 0, inherited |-> 0,
          delay_frame |-> None, witnessed_unstable_write |-> FALSE]

\* The client dies.  Its locks are released by the bricks; any of the calls it
\* was waiting for may have reached its brick.
ClientCrash(c) ==
    /\ \E x \in Txns : Mount[x] = c /\ Active(x)
    /\ txn' = [x \in Txns |-> IF Mount[x] = c /\ txn[x].pc # "done"
                              THEN freed("dead", txn[x].answer)
                              ELSE txn[x]]
    /\ fd_ctx' = [fd_ctx EXCEPT ![c] = NewFd]
    /\ late' = late \cup {m \in OnWire : Mount[m.txn] = c}
    /\ UNCHANGED <<vol, brick, conn, changes, failures>>

\* Brick b loses power: some of the writes that were not synced are gone.
PowerFailure(b) ==
    /\ failures < Volume[vol].failures
    /\ \E kept \in SUBSET (brick[b].data \ brick[b].stable) :
         brick' = [brick EXCEPT ![b].data = brick[b].stable \cup kept,
                                ![b].stable = brick[b].stable \cup kept]
    /\ conn' = [c \in Clients |-> conn[c] \ {b}]
    /\ txn' = [x \in Txns |-> [txn[x] EXCEPT !.wire = @ \ {b}]]
    /\ late' = {m \in late : m.brick # b}
    /\ failures' = failures + 1
    /\ UNCHANGED <<vol, fd_ctx, changes>>

----------------------------------------------------------------------------
Init ==
    /\ vol \in Volumes
    /\ txn = [x \in Txns |-> NewTxn]
    /\ fd_ctx = [c \in Clients |-> NewFd]
    /\ brick = [b \in Bricks |-> [data |-> {}, stable |-> {}, dirty |-> 0,
                                  pending |-> [j \in Bricks |-> 0]]]
    /\ late = {}
    /\ conn \in Volume[vol].networks
    /\ changes = 0
    /\ failures = 0

CallReturns(x) ==
    \E b \in Bricks : CallOk(x, b) \/ CallRefused(x, b) \/ CallLost(x, b)

Next ==
    \/ \E x \in Txns : Begin(x) \/ CallReturns(x)
    \/ \E c \in Clients : WakeUp(c)
    \/ \E c \in Volume[vol].crashing : ClientCrash(c)
    \/ \E m \in late : LateCall(m)
    \/ \E n \in Volume[vol].networks : NetworkChange(n)
    \/ \E b \in Bricks : PowerFailure(b)

Spec == Init /\ [][Next]_vars

\* Weak fairness, with the enabling conditions spelled out.  Every call returns (a
\* lost connection fails it): then its todo or pc changes.
CallsReturn ==
    \A x \in Txns :
        \/ []<>(txn[x].todo = {})
        \/ []<><<txn'[x].todo # txn[x].todo \/ txn'[x].pc # txn[x].pc>>_vars

\* The timer fires: a delayed frame has gone on when another one, or none, is in
\* its place.
TimersFire ==
    \A c \in Clients :
        \/ []<>(fd_ctx[c].delay_frame = None)
        \/ []<><<fd_ctx'[c].delay_frame # fd_ctx[c].delay_frame>>_vars

Fairness == CallsReturn /\ TimersFire

----------------------------------------------------------------------------
(* Properties.                                                             *)

PCs == {"idle", "pre_op", "fop", "fsync", "delayed", "post_op", "done", "dead"}

TxnType ==
    [pc : PCs, pre_op : SUBSET Bricks, failed : SUBSET Bricks,
     pending : SUBSET Bricks, dirty : -1..1, dirtied : BOOLEAN,
     inherited : BOOLEAN, no_uninherit : BOOLEAN, uninherit_done : BOOLEAN,
     uninherit_value : BOOLEAN, todo : SUBSET Bricks, wire : SUBSET Bricks,
     op_ret : {"none", "ok", "short", "fail"},
     reply : [Bricks -> {"none", "ok", "ENOTCONN"} \cup BrickErrors],
     answer : {"none", "ok", "short", "fail"}]

FdType == [pre_op_done : SUBSET Bricks, on_disk : Nat, inherited : Nat,
           delay_frame : Txns \cup {None}, witnessed_unstable_write : BOOLEAN]

BrickType == [data : SUBSET Txns, stable : SUBSET Txns, dirty : Int,
              pending : [Bricks -> Nat]]

CallType == [txn : Txns, brick : Bricks, pc : PCs, dirty : -1..1,
             pending : SUBSET Bricks]

TypeOK ==
    /\ vol \in Volumes
    /\ txn \in [Txns -> TxnType]
    /\ fd_ctx \in [Clients -> FdType]
    /\ brick \in [Bricks -> BrickType]
    /\ late \subseteq CallType
    /\ conn \in [Clients -> SUBSET Bricks]
    /\ changes \in Nat
    /\ failures \in Nat

\* The counters of the fd never reach the branch that
\* afr_changelog_pre_op_uninherit marks "ASSERT": somebody's mark is on disk
\* whenever a set of bricks is remembered as marked, and no transaction relies
\* on a mark that is not there.
CountersOK ==
    \A c \in Clients :
        LET f == fd_ctx[c] IN
        /\ f.pre_op_done # {} <=> f.on_disk > 0
        /\ f.inherited > 0 => f.on_disk > 0

\* The changelog can be trusted: when a write is on one brick and missing on
\* another, some brick is dirty or blames the one that misses it, whatever
\* was piggybacked, delayed, lost or cut short by a crash.
Trustworthy ==
    \A x \in Txns, j \in Bricks :
        (x \notin brick[j].data /\ \E k \in Bricks : x \in brick[k].data)
            => \E k \in Bricks : brick[k].dirty # 0 \/ brick[k].pending[j] # 0

Source(k) == \A i \in Bricks : brick[i].pending[k] = 0

\* There is no split-brain and nothing acknowledged is lost by a heal: a brick
\* that nobody blames holds every write that was answered with success.
SourceHasAll ==
    \E k \in Bricks : /\ Source(k)
                      /\ \A x \in Txns : txn[x].answer = "ok" => x \in brick[k].data

\* afr_handle_quorum: a write without quorum "goes into DIRTY state".  As long as
\* a write that was answered with failure is on some bricks only, a brick is
\* dirty.
FailedStaysDirty ==
    \A x \in Txns :
        (/\ txn[x].pc = "done" /\ txn[x].answer = "fail"
         /\ \E j, k \in Bricks : x \in brick[j].data \ brick[k].data)
            => \E k \in Bricks : brick[k].dirty # 0

\* Without delayed post-ops both hold, whatever calls fail: the changelog can be
\* trusted, and a write without quorum stays dirty.
SoundAtOnce == Volume[vol].delayed_post_op \/ (Trustworthy /\ FailedStaysDirty)

\* Every write is answered, unless its client dies.
Answered ==
    \A x \in Txns : txn[x].pc # "idle" ~> (txn[x].answer # "none" \/ txn[x].pc = "dead")
=============================================================================
