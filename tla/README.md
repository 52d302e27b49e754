# A TLA+ verification of GlusterFS

This directory models parts of GlusterFS in TLA+. TLC checks the models on small
instances, and TLAPS proves some of their properties for every instance. Paths
below are relative to the repository's `src/`.

## 1. The system

A GlusterFS volume is a graph of translators. The client side (mount, `api/`,
NFS server) stacks caching translators over a cluster translator (AFR for
replication, DHT, EC) over `protocol/client`. Each brick stacks
`protocol/server`, `io-threads`, `features/locks` and other features over
`storage/posix`. `glusterd` manages the cluster. A call is a stack of frames; it
is wound down (`STACK_WIND`) and its answer unwinds (`STACK_UNWIND`), in any
thread, often long after the call returned.

| Part | State | Operations | What makes it hard |
|---|---|---|---|
| `features/locks/inodelk.c` | per domain: granted list, blocked list; per client: lockers; reference counts | lock, try, unlock, re-grant, client cleanup, clear-locks | threads interleave at two mutexes; frames are unwound outside them; disconnects race with all of it |
| `protocol/server`, `client_t.c` | client reference count, transports | connect, disconnect, submit a reply, destroy | a request outlives its connection; a failed reply cleans up again |
| `cluster/afr`: `afr-transaction.c`, `afr-inode-write.c` | per transaction: pre-op'ed and failed bricks; per fd: `on_disk`, `inherited`, `pre_op_done`, delayed frame; on the bricks: data, dirty, pending | pre-op, write, fsync, post-op, delay, wake up | writes share one dirty mark; bricks fail in between; clients die; the network splits |
| `afr-lk-common.c` | locks held per brick | lock all bricks, unlock | deadlock, partial failure |
| AFR self-heal | sources, sinks, changelogs | examine, heal, undo pending | races with writers |
| `entrylk.c`, POSIX locks (`posix.c`, `common.c`) | lists of names or ranges | as inodelk; split and merge of ranges | as inodelk; unlock by name only; fds that close with requests queued |
| `write-behind.c` | todo, liability and temptation lists, generations | write, flush, fulfil | ordering of answered but unwritten data |
| glusterd | cluster lock, op and peer state machines | lock, stage, commit, unlock | lost peers, lock left behind |
| `rpc-clnt.c` | saved frames, timers | submit, reply, bail, ping, reconnect | a reply races with the bail-out |
| `io-threads`, `barrier` | priority queues, timers | enqueue, run, time out | limits, timeouts |

`PROJECT.json` lists every component, modelled or not, and under "hazards" what
is hard to test in this code, each at its line.

## 2. The modules

| Module | What it is |
|---|---|
| `Inodelk` | the inode locks of one domain of one inode, with the connections and client references they depend on |
| `InodelkClear` | `Inodelk` with the clear-locks command of `clear.c` |
| `LockService` | what inode locks promise their clients: the abstract specification |
| `InodelkRefinement` | the mapping under which `Inodelk` implements `LockService` |
| `ListLemmas` | lemmas on the list operators (`Cons`, `Append`, `RemoveAt`) and on counters |
| `InodelkProofs` | type correctness of `Inodelk` |
| `InodelkSafety` | exclusion and wake-ups of `Inodelk` |
| `PosixLk` | the fcntl locks of one file |
| `AfrTransaction` | the changelog of AFR's write transactions |
| `AfrHeal` | the data self-heal, over the writers and bricks of `AfrTransaction` |
| `Entrylk` | the entry locks of a directory on one brick, as operators |
| `AfrLock` | the locking of AFR's entry transactions, over `Entrylk` on every brick |
| `WriteBehind` | the queue of one inode in write-behind |
| `GlusterdTxn` | the volume transactions of glusterd, between nodes |
| `RpcClnt` | the client side of one rpc connection |
| `List` | the list operations of `list.h` that `RpcClnt` uses |
| `RpcLists` | lemmas on the operators of `List` |
| `RpcClntProofs` | types, timers and reconnection of `RpcClnt` |
| `RpcClntOnce` | that a request of `RpcClnt` is answered once |
| `MC...` | instances of these for TLC |

Definitions that stand just before another one, under a comment `Mutant`, or
that no other definition uses (such as `UnlockLocalLast`), are broken variants of
the definition after them. `PROJECT.json` pairs each with the property that it
violates.

### 2.1 Inodelk

A lock object stands for `pl_inode_lock_t` together with the request it was made
for and the frame it answers. `inodelk_list`, `blocked_inodelks`, `lockers` and
`ref` are the fields of those names; `blocked_list`, `granted`, `released` and
`unwind` are locals of the functions that use them. `granted`, `released`,
`unwind` and `lockers` are sets: the code walks them in list order, the model in
any order.

A thread is an activation of the code: an io-thread, the epoll thread, or a
cleanup that a failed reply starts from inside `STACK_UNWIND`. The last kind runs
nested on another thread's stack; the model lets it run in any thread, which
allows more interleavings. A critical section of `pl_inode->mutex` is one step.
The one exception is `__grant_blocked_inode_locks`, which holds the mutex over
one step per waiting lock; every other step that needs the mutex waits for it.

| Code | Actions |
|---|---|
| `pl_common_inodelk`, `pl_inode_setlk`, `__lock_inodelk` | `SetLkGranted`, `SetLkBlocked`, `SetLkRefused`, `SetLkUnlock`, `SetLkBadUnlock`, `Reply` |
| `grant_blocked_inode_locks` | `GrantStart`, `GrantOne`, `GrantEnd`, `UnwindGranted`, `UnrefGranted` |
| `pl_inodelk_client_cleanup` | `CleanupStart`, `CleanupScan`, `CleanupScanned`, `CleanupUnwind`, `CleanupNext`, `CleanupUnref` |
| `server_rpc_notify`, `server_submit_reply`, `gf_client_*` | `Connect`, `Disconnect`, `Submit`, `Answer`, `CleanupEnd` |
| `clrlk_clear_inodelk` | the `Clear*` actions of `InodelkClear` |

Assumptions. lk-heal is off (the default), so each connection has its own
`client_t`. `RangesFit`: callers ask for ranges that end within `off_t`; `fl_end`
itself keeps the wrap-around of the code. Memory allocation succeeds.

`InodelkRefinement`. The queue of the abstract service is the blocked list
together with the locks that `__grant_blocked_inode_locks` has taken off it and
not looked at yet; `held` is the granted list; a request counts as answered when
its frame is unwound. Under this mapping each step of a thread is one step of the
service or none: whatever the threads do, clients see grants that respect holders
and earlier waiters, and one answer each.

### 2.2 AfrTransaction

Clients write one replicated file, each through one fd; a transaction is one
write. `txn[x]` holds the fields of its `afr_local_t`, `fd_ctx[c]` those of
`afr_fd_ctx_t`, and `brick[b]` the data, what of it is stable, and the dirty and
pending xattrs. A callback is one step, with everything the last callback goes on
to do: the functions of `afr-transaction.c` are operators of the same names from
state to state. A call on the wire when its connection breaks fails with
`ENOTCONN` for the client, and the brick may still execute it at any later time,
or never (`late`). The record of a transaction that is done, or whose client
died, is reset: its `afr_local_t` is gone.

Abstractions and assumptions:
- pre-op-compat is on (the default), so the pre-op is a call of its own;
- `ensure-durability` is on; writes are unstable and do not append;
- the writes go to disjoint regions, so locking is reduced to its result: the
  bricks locked are the bricks connected;
- xattrs are durable at once; only file data can be lost by a power failure;
- nothing is healed (`AfrHeal` adds that);
- a client reconnects only while it has no transaction (`MayReconnect`).
  Without this, a pre-op that was lost on every brick can be followed by a write
  that arrives, unmarked, and `Trustworthy` fails. The runs say nothing about
  reconnects in the middle of a transaction.

### 2.3 AfrHeal

`heal` holds the locals of `afr_selfheal_data` and of the functions it calls,
with the place it has reached; the rest of the state, and all its actions, are
those of `AfrTransaction`. The healer is a client of its own. It looks at the
changelogs (`afr_selfheal_unlocked_inspect`), locks the whole file, derives
sources and sinks from the changelogs under the lock, truncates the sinks,
unlocks, and copies block by block, each under a lock of its range. Then it syncs
the sinks and undoes the pending and dirty marks it has seen. A write holds the lock
of its own range: it waits for the healer's lock and the healer's for it.

Abstractions and assumptions:
- eager-lock and delayed post-op are off. With eager-lock writers lock the whole
  file, and the heal excludes them for longer;
- a lock is taken on all reachable bricks in one step; there is one healer, so
  its try-lock in the self-heal domain succeeds; the file can be opened;
- a short write to a sink brings some of the block's writes there, not all; like
  the code, the heal goes on after it without the sink, and is given up only when
  the last write of a block returns an error;
- the "diff" algorithm, on a file of a few blocks; no holes, times or metadata;
- the tie-break by ctime is any choice; data not synced is always lost when the
  power fails;
- the healer reconnects only between heals, and its own calls are not executed
  after their connection broke;
- in the passing run, connection losses hit all clients alike and calls that
  missed the lock of the file are never executed (see the counterexamples
  `source` and `overdue` below).

### 2.4 Entrylk and AfrLock

`Entrylk` gives the critical sections of `entrylk.c` as operators from one
directory's lists to the next ones; every lock is `ENTRYLK_WRLCK`, as AFR asks
for. `AfrLock` has several clients run transactions with one or two lockees.
`txn[t]` is the `afr_local_t` with its `internal_lock`; `dom[b][d]` the lists of a
directory on a brick. A transaction sorts its lockees, tries all of them on all
bricks without blocking, gives back what it got if one fails, and takes them one
by one, blocking, in the order of lockees and bricks.

| Code | Actions |
|---|---|
| `afr_nonblocking_entrylk`, `afr_lock_blocking`, `afr_unlock_entrylk` and their callbacks | `Start`, `Callback`, `FopDone` |
| `pl_common_entrylk` on a brick | `BrickLock`, `BrickUnlock`, `BrickUnlockGrant` |
| `pl_entrylk_client_cleanup` | `Cleanup`, `CleanupGrant` |
| connections | `Break`, `Reconnect` |

Abstractions: the fop between lock and unlock is one interval; quorum is off;
`ENOSYS` and missing fd contexts do not occur; a cleanup takes all locks of a
connection in one step and re-grants each directory later. An unlock looks for
the name only, as in the code (`entrylk.c:394`). After a reconnect it can take away
somebody else's lock; `HeldInFop` is therefore stated for bricks that kept their
connections, and `MCAfrLock_name` shows the theft.

### 2.5 PosixLk

`ext_list` is the list of that name, granted and blocked locks in their order.
A critical section of `pl_inode->mutex` is one step; `mutex` records the thread
that holds it over several. `thr[t]` is the activation of a thread that still has
`grant_blocked_locks` to run, or frames to unwind; `fd[f]` follows an fd from open
through flush and release; `queued` are requests the brick has and has not looked
at; `held` is a history variable, what every owner has been told about every byte.
Splitting and merging (`__insert_and_merge`, `subtract_locks`, `add_locks`) are
operators of those names.

| Code | Actions |
|---|---|
| `pl_lk`, `pl_setlk` | `Submit`, `pl_setlk`, `grant_blocked_locks` |
| `pl_flush`, `pl_release` | `pl_flush`, `pl_release` |
| `server_release`, `do_fd_cleanup` | `server_release`, `Disconnect`, `do_fd_cleanup` |
| `pl_migrate_locks` | `pl_migrate_locks` |
| `clrlk_clear_posixlk` | `clrlk_clear_posixlk` |

Abstractions: each client has one fd, open from the start; mandatory locks are
off (`posix.c:2633` does not support them), so `rw_list` is empty; there are no
reserve locks; clear-locks has no range. A request that must wait gives up the
range it asks for first, as the code does. A client sends a release only when
none of its requests on the fd are outstanding. A `pl_release` that runs nested in
an unwind, outside the mutex, is run by any idle thread.

### 2.6 WriteBehind

`wb` is the `wb_inode_t` with its lists `all`, `todo`, `liability`, `temptation`,
`wip`, its window and generations; `req[q]` a `wb_request_t`. Calls arrive in any
order and from any thread; each call and each callback of the child runs
`wb_process_queue` as an activation of its own (`th`), one step per critical
section. The child executes what it has in any order and answers in the same step;
some writes fail. Data is abstracted to which request wrote it.

Abstractions: the lock owner is folded into the fd; the limit on vectors of a
collapsed write is not modelled; allocation succeeds; `create` and `open` do not
pass through the queue. `InOrder` takes the code's word that an append waits only for
other appends (`wb_requests_conflict`). An fsync looks for an error of its fd only
when it arrives, so that only `flush` is required to tell of lost writes.

### 2.7 GlusterdTxn

A command runs `gd_sync_task_begin` at its node: lock at home, list the connected
peers in `conf->xaction_peers`, lock, stage and commit everywhere, unlock. The
list is the linked list of the code, since commands of one node share it. A step
goes from taking `big_lock` to giving it up. A peer's handler, with the state
machine of `glusterd-op-sm.c`, and its answer are one step (`Handle`). A request
whose connection broke is answered with an error and may still be handled later
(`Bail`, `HandleLate`), until its originator reconnects.

Abstractions: all peers are befriended and of the same op-version (3.6 or later);
the volume exists; no brick operations; no node crashes; one connection breaks in
a run. Two broken connections, or two nodes only, allow more: a node whose
connection broke releases the lock of the running command, and `Exclusion` or
`CommitsUnderLock` fails. The passing run does not cover these.

### 2.8 RpcClnt

`conn` is `rpc_clnt_connection_t`: the saved frames (`sf`, and `lk_sf` for requests
that wait for locks), the three timers, the connected flag. Threads are the event
loop, the timer thread, the error thread of `socket_connect`, the owner that
disables the connection, and one for each request; a critical section of
`conn->lock` is one step. Timers fire at any time at which the time-outs could
have passed; a server that is not silent answers a ping before a frame times out.

| Code | Actions |
|---|---|
| `client_submit_request`, `rpc_clnt_submit` | `client_submit_request`, `Work` |
| `socket_event_handler` | `socket_connect_finish`, `socket_event_poll_err`, `rpc_clnt_handle_reply` |
| `rpc_clnt_ping_cbk`, `client_setvolume_cbk` | `Work` |
| `call_bail`, `rpc_clnt_ping_timer_expired`, `rpc_clnt_reconnect` | `gf_timer_proc`, `Work` |
| `rpc_clnt_disable` | `rpc_clnt_disable`, `Work` |

Abstractions: xids are identities; partial writes, SSL and own-thread sockets,
port map queries and the grace timer of lk-heal are left out; setvolume is
accepted; the object is not destroyed; pings are answered in order; a server that
has fallen silent stays silent on that connection, and may be silent or answer
on the next. The reply to setvolume takes `conn->lock` twice, for the lookup of its
frame and in `rpc_clnt_set_connected`; only then does `client_setvolume_cbk` set
`conf->connected`: three steps, between which other threads run.

## 3. The runs

Passing runs:

| Run | Instance | Distinct states | Shows |
|---|---|---|---|
| `inodelk_safety` | 2 clients, 2 owners, 2 threads, 3 lock objects, 5 kinds of requests | 513,269 | the safety of `Inodelk`, and that it implements `LockService` |
| `inodelk_crash` | 2 clients, 2 threads, 2 lock objects, fairness | 16,940 | disconnected clients are freed, waiting requests are served |
| `posix_lk` | 2 fds, 3 reused frames, 4 requests, ranges of up to 3 bytes, 2 threads | 411,090 | exclusion, what owners were told, one answer, no forgotten waiter, nothing outlives an fd |
| `afr_marks` | 2 bricks, 1 client that may crash, 3 writes, 1 network change, delayed post-op | 315,907 | counters and changelog with inherited and delayed marks, lost and late calls |
| `afr_faults` | four volumes: errors with quorum; 3 bricks and a split; delayed post-op with errors; a power failure and a crash; fairness | 183,535 | no acknowledged write on blamed bricks only, marks in time, every write answered |
| `afr_heal` | five volumes: a brick goes and returns, with short writes or a crash; power failure; errors with quorum; three bricks; fairness | 299,030 | marks stay true during a heal, no acknowledged write is healed away, all is equal and clean at last |
| `afr_lock` | 2 bricks, 2 clients, 3 transactions, six programs of creates, renames and rmdirs, two with a broken connection | 505,324 | exclusion, no leaked lock, no deadlock |
| `write_behind` | five programs of 3 calls, a wide and a narrow window, 1 error | 736,527 | order after answered writes, errors told at flush, no use after free |
| `glusterd` | 3 nodes, 2 volumes, 2 or 3 commands, 1 broken connection or a failed phase, fairness | 142,624 | one command at a time, success means all, locks given back, commands end |
| `rpc_client` | six programs: steady, silent server, broken, refused, torn down; fairness | 276,200 | one answer for each request, always a timer for it, reconnects |

Bounds. Three lock objects are enough for a holder, a waiter and a third request
that might overtake; two threads for a re-grant racing a cleanup; three writes
for one that owns the mark, one that inherits it and one that is delayed. Three
bytes are enough to cut a lock out of the middle of another. `MaxChanges`,
`MaxFailures`, `MaxBreaks`, `MaxErrors`, `MaxRequests` bound disturbances and
requests, `LocksPerOwner` the requests one owner has outstanding: an owner that
has a lock bypasses the queue (`__owner_has_lock`), and without the bound could
starve others for ever. Where a run has several programs or volumes, the initial
state chooses one.

The type invariants of the modules other than `Inodelk` (`TypeOK`, `HealTypeOK`) hold
on the same instances; the configurations leave them out, in favour of properties
that say more.

Deadlock is not checked where the calls are finitely many and the system stops
when all are done (all runs but those of `Inodelk`); in `posix_lk` also because of
the self-deadlock described below.

Symmetry is used for lock objects, threads, frames and transactions, only in runs
without liveness properties.

Fairness:
- `inodelk_crash`: threads at work go on, queued requests are taken, due cleanups
  start (io-threads and event loop do so); strong fairness, since a mutex may be
  taken in between. Clients other than c1 do not stay connected for ever; that is
  the scenario, not a property of the code.
- `afr_faults`: every call returns (rpc fails the calls of a broken connection),
  and the timer of a delayed post-op fires.
- `afr_heal`: calls return, and the healer goes on and looks again at files that
  are marked (the daemon crawls periodically).
- `glusterd`: as long as a command can go on some command does; each has finitely
  many steps.
- `rpc_client`: threads go on; a connection that was shut down is polled; a ping
  is answered unless the server is silent; the frame timer, which may be
  cancelled and set again, fires in the end (strong fairness).

In the runs of `Inodelk`, AFR and glusterd, fairness is written with the enabling conditions
spelled out, because TLC evaluates `ENABLED` of these steps slowly.

### Findings

Each is a counterexample of a model, read against the source; none has been
reproduced on a running system. Two are runs in `PROJECT.json` that are expected
to fail:

1. `inodelk_clear`: clear-locks frees a lock that is still on its client's list
   (against `clear.c:255`).
2. `heal_write`: a brick that refused a write of a heal loses its dirty mark all
   the same (`afr-self-heal-common.c:143`, against `afr-self-heal-data.c:171`).

The other configurations, each run with `tlc -config <cfg> <module>`, end in a
counterexample too:

| Configuration | Property | What happens |
|---|---|---|
| `MCInodelk_stale` | `NoStaleLocks` | a request processed after its client's cleanup stays in the queue until it is granted (comment at `client-handshake.c:1302`) |
| `MCAfr_nosync` | `Trustworthy` | a delayed post-op removes the dirty mark without an fsync (comment at `afr-transaction.c:1559`) |
| `MCAfr_fsync` | `Trustworthy` | a failed write comes off the counters before its fsync, and another's post-op removes the mark before the blame is written (`afr-transaction.c:1539`, comment at 1557) |
| `MCAfr_undirty` | `FailedStaysDirty` | a write without quorum that inherited its mark is unmarked when the owner of the mark finishes (comment at `afr-transaction.c:527`) |
| `MCAfrHeal_source` | `SourceHasAll` | a client that cannot reach the source writes to the sink during the copy; the healer does not examine its source again and overwrites the write |
| `MCAfrHeal_overdue` | `Trustworthy` | a write of a dead client arrives on one brick after the heal |
| `MCAfrLock_subvols` | `SameSubvols` | the lockees of one transaction are locked on different bricks (comment in `afr_locked_nodes_get`) |
| `MCAfrLock_name` | `HeldIfConnected` | a client whose connection broke after it locked a name unlocks it after reconnecting, and takes away the lock another client got meanwhile (`entrylk.c:394`) |
| `MCPosixLk_reader` | `WaitsForConflict` | `first_overlap` returns any overlapping lock, so a blocked reader may wait for readers or for its own owner (`common.c:740`, comment at 736) |
| `MCPosixLk_downgrade` | `HeldExactly` | `__insert_and_merge` stops at the first read lock of another owner and leaves the owner's own write lock in place (`common.c:856`) |
| `MCPosixLk_relock` | `NoRelock` | a frame unwound with the mutex held drops the last reference of an fd, and `pl_release` wants the mutex again (`common.c:995`, `clear.c:186`) |
| `MCWriteBehind_left` | `NoneLeft` | a request stays in the queue with nobody to process it (`write-behind.c:951`, comment at 1241) |
| `MCWriteBehind_full` | `InOrder` | with a full window, a write that is collapsed into one not yet in `liability` is answered, and a later read does not wait for it |
| `MCGlusterd_shared` | `NoStaleLock` | two commands of one node share `xaction_peers`; a peer is never sent the unlock (`glusterd-syncop.c:1591`, comments at 1321 and 1332) |
| `MCRpcClnt_setvolume` | `SentAttached` | a request passes the check of `client.c:170` and is sent on the next connection before its setvolume |

They limit what the passing runs can claim. The volumes of `afr_faults` that check
marks have no delayed post-op, `afr_marks` has no brick errors and no power
failure, and the passing heals have the restrictions of 2.3. No run has errors in
the pre-op: `afr_transaction_perform_fop` winds the write also to bricks whose
pre-op failed, so if it failed on all of them the write is done without a mark,
and the model then violates `Trustworthy`. `afr_lock` does not assert
`SameSubvols`, `posix_lk` asserts only that a waiter waits for some overlapping
lock, `write_behind` has no window that is full with collapsible writes, and in
`glusterd` a node runs its commands one after another.

Further observations in `RpcClnt`, all harmless to its properties: a reply with
an unknown xid drops the whole connection; a late failure of an old ping cancels
the ping timer of the new connection; requests sent between CONNECT and setvolume
are watched by no ping.

## 4. The proofs

| Theorem | Statement |
|---|---|
| `InodelkProofs!TypeCorrect` | `Spec => []TypeOK` |
| `InodelkSafety!Exclusion` | `Spec => []MutualExclusion` |
| `InodelkSafety!WakeupsKept` | `Spec => []NoLostWakeup` |
| `RpcClntProofs!TypeCorrect` | `Spec => []TypeOK` |
| `RpcClntProofs!TimersGuard` | `Spec => []Guarded` |
| `RpcClntProofs!Reconnects` | `Spec => []KeepsTrying` |
| `RpcClntOnce!RepliedOnce` | `Spec => []AnsweredOnce` |

Those of `Inodelk` hold for all sets of clients, owners, threads, lock objects and
requests that satisfy `ConstantsAssumption` and, for exclusion, `RangesFit`; those
of `RpcClnt` for all sets of requests, of lock requests among them, and of programs
of which `LocksAssumption`, `ProgramsAssumption` and `NamesAssumption` (a request
has not the name of another frame or thread) hold.

### 4.1 Inodelk

Type correctness goes action by action; its lemmas are grouped as the actions are.

Exclusion. `MutualExclusion` is inductive given `TypeOK` and that `req` never
changes. `OverlapComplete` shows that two ranges with a common byte overlap in
the sense of the code, which compares ends (here `RangesFit` is needed);
`GrantableExclusive` concludes that a grantable lock excludes nobody's byte. Every
step either leaves the granted list, shrinks it, or adds one grantable lock.

Wake-ups. Either some thread will still re-grant (`WillGrant`), or every waiting
lock waits for something. A step that takes a lock off a list leaves its thread
in `WillGrant`; appending to the queue keeps what the others wait for
(`WakeupAppend`), and the appended lock must wait because `MustWait` said so.

### 4.2 RpcClnt

`Guarded` and `KeepsTrying` are not inductive alone. `ClntInv` adds the types; that
a timer which fired was set (`FiredOK`); and `TransOK`: a connection still called
connected whose socket is closed is about to be cleaned up, and
`rpc_clnt_set_connected` never runs for a closed socket. Both hold because all
three are the event thread's work, which it does one after another. `TransOK` is
needed for `KeepsTrying`: the reconnect timer does nothing while the connection is
called connected, so that it may stop only then. Most actions change little of
what the invariant reads; `SmallStepInv` and `QuietInv` state what is enough, and
`EventInv` does the same for the steps of the event thread.

`AnsweredOnce` counts the places of a request. The invariant `RequestsOnce` says it
without counting: no list holds a request twice (`ListsOnce`), at most one thread
is `Busy` with it, none if it is saved or still new, and `answered` is 0 exactly
while one of these is the case (`KeptOnce`). A step either changes nothing for a
request (`SameFor`), answers it (`AnsweredBy`), or moves it from the saved frames
to a thread's list (`MovedOnce`). That removing, moving and splitting lists keeps
their entries apart is shown in `RpcLists`.

### 4.3 Not proved

Only model-checked: `RefsExact`, `AnsweredOnce` of `Inodelk`, `ClientGone`,
`InodeRefExact`, the refinement of `LockService`, everything about the other modules, and all
liveness (out of the prover's reach, like `ENABLED`). `PosixLk` uses a `RECURSIVE`
operator for `__insert_and_merge`, which the prover's SMT backend does not support.

## 5. Plan

In order, most important first.

1. Proofs of `AnsweredOnce` and `RefsExact` of `Inodelk` (they need an invariant on
   which list holds which lock) and of the refinement of `LockService` (needs that
   `mutex` is held while granting).
2. Proofs for `AfrTransaction`: `TypeOK` and `CountersOK`. Expected invariant:
   `pre_op_done` is not empty exactly when `on_disk > 0`, and `inherited > 0`
   implies `on_disk > 0`.
3. Metadata and entry transactions of AFR, and the entry self-heal on top of
   `AfrLock`.
4. The connection life cycle with lk-heal and its grace timer, on both sides.
5. The friend state machine of glusterd; snapshot transactions.
6. io-threads and barrier; the inode table; the duplicate request cache.

## 6. Not modelled

Everything `PROJECT.json` lists as such: DHT, EC, the caching translators other
than write-behind, io-threads, barrier, quota, marker, changelog and index, mounts
and NFS, storage, the command line. They are independent of the replication path,
or mostly system calls or generated code.

The repository has about 600,000 lines, most of them of these kinds: system calls,
marshalling, options, volume files, command line, tests of the build. The modules
cover the code in which several actors race over shared state, a small share of
all lines, and a model of most of the tree is out of reach. Parts of the modelled
components that are left out are named in the notes of `PROJECT.json`.
