------------------------------- MODULE AfrLock -------------------------------
(***************************************************************************)
(* The locking of AFR's entry transactions (afr-lk-common.c) over the      *)
(* entry locks of the bricks (module Entrylk): create, unlink, rename,     *)
(* rmdir lock one or more names, the lockees, on every brick.  A           *)
(* transaction first tries all of them at once without blocking.  If one   *)
(* attempt fails it gives back what it got and locks serially, blocking,   *)
(* in the order of the lockees and of the bricks.                          *)
(*                                                                         *)
(* Clients lose connections to bricks and make new ones.  The client fails *)
(* the calls it waits for with ENOTCONN.  The brick drops the calls of a   *)
(* broken connection that it has not started on, and releases its locks    *)
(* some time later.                                                        *)
(***************************************************************************)
EXTENDS Entrylk, FiniteSets, FiniteSetsExt

CONSTANTS Clients, Txns,
          child_count,    \* number of bricks
          Dirs,           \* directories, numbers in the order of their gfids
          Programs,       \* what is run: the lockees of every transaction, unsorted,
                          \* and the connections <<client, brick>> that may break
          ClientOf,       \* the client of a transaction
          MaxBreaks       \* bound on broken connections

VARIABLES txn,        \* afr_local_t of a transaction, with its internal_lock
          dom,        \* per brick and directory, the entry locks
          up,         \* per client, the bricks it is connected to
          conn,       \* per client and brick, the number of its (next) connection
          dead,       \* per brick, the broken connections not cleaned up yet
          flaky,      \* the connections that may break
          regrant     \* per brick, the directories a cleanup will re-grant

vars == <<txn, dom, up, conn, dead, flaky, regrant>>

Bricks == 0 .. child_count - 1

(***************************************************************************)
(* Lockees.  The cookie of a call stands for a lockee and a brick.         *)
(***************************************************************************)
child_index(cky) == cky % child_count
lockee_no(cky) == (cky \div child_count) + 1

afr_entry_lockee_cmp(l1, l2) ==
  \/ l1.dir < l2.dir
  \/ /\ l1.dir = l2.dir
     /\ \/ l1.basename = NULL
        \/ l2.basename # NULL /\ l1.basename <= l2.basename

Unsorted(lockees) == lockees

Sorted(lockees) == SortSeq(lockees, afr_entry_lockee_cmp)

Cookies(s) == 0 .. Len(s.lockee) * child_count - 1

NoCall == [cmd |-> "none", st |-> "none"]

NewTxn(lockees) ==
  [lockee |-> lockees, phase |-> "idle", child_up |-> {},
   locked |-> [i \in DOMAIN lockees |-> {}],
   lk_call_count |-> 0, lk_expected_count |-> 0, lk_attempted_count |-> 0,
   entrylk_lock_count |-> 0, lock_cbk |-> "none",
   call |-> [cky \in 0 .. Len(lockees) * child_count - 1 |-> NoCall]]

Connection(t, b) == <<ClientOf[t], conn[ClientOf[t]][b]>>

LockOf(t, cky) ==
  [basename |-> txn[t].lockee[lockee_no(cky)].basename, owner |-> t,
   client |-> Connection(t, child_index(cky)), cookie |-> cky]

(***************************************************************************)
(* The functions of afr-lk-common.c and afr-transaction.c, from the record *)
(* s of a transaction to its next one.  online: the bricks its client is   *)
(* connected to; a call wound to another one fails at once.                *)
(***************************************************************************)
wind(s, ckys, cmd, online) ==
  [s EXCEPT !.call = [cky \in Cookies(s) |->
     IF cky \notin ckys THEN s.call[cky]
     ELSE [cmd |-> cmd, st |-> IF child_index(cky) \in online THEN "sent" ELSE "failed"]]]

initialize_entrylk_variables(s) ==
  [s EXCEPT !.entrylk_lock_count = 0,
            !.locked = [i \in DOMAIN s.lockee |-> {}]]

ExpectAll(s) ==
  LET n == Len(s.lockee) * Cardinality(s.child_up)
  IN [s EXCEPT !.lk_call_count = n, !.lk_expected_count = n]

Locked(s) == {cky \in Cookies(s) : child_index(cky) \in s.locked[lockee_no(cky)]}

Done(s) == [NewTxn(s.lockee) EXCEPT !.phase = "done"]

UnlockFirstLockee(s, next, online) ==
  LET first == {cky \in Locked(s) : lockee_no(cky) = 1}
  IN IF first = {} THEN next
     ELSE wind([s EXCEPT !.lk_call_count = Cardinality(first), !.phase = "unlock"],
               first, "unlock", online)

(* With nothing to unlock, lock_cbk is called at once: that is next. *)
afr_unlock_entrylk(s, next, online) ==
  IF Locked(s) = {} THEN next
  ELSE wind([s EXCEPT !.lk_call_count = Cardinality(Locked(s)), !.phase = "unlock"],
            Locked(s), "unlock", online)

UnlockAndDone(s, online) ==
  afr_unlock_entrylk([s EXCEPT !.lock_cbk = "done"], Done(s), online)

(* afr_changelog_pre_op: the fop goes to the bricks where lockee 0 is locked. *)
afr_internal_lock_finish(s, online) ==
  IF s.locked[1] = {} THEN UnlockAndDone(s, online) ELSE [s EXCEPT !.phase = "fop"]

afr_lock_blocking(s, cookie, online) ==
  IF s.lk_expected_count = s.lk_attempted_count
  THEN IF s.entrylk_lock_count = 0 THEN Done(s)
       ELSE afr_internal_lock_finish(s, online)
  ELSE LET wanted == {cky \in Cookies(s) : cky >= cookie /\ child_index(cky) \in s.child_up}
       IN wind(s, {Min(wanted)}, "lock", online)

afr_blocking_lock(s, online) ==
  afr_lock_blocking(
    initialize_entrylk_variables(
      ExpectAll([s EXCEPT !.phase = "blocking", !.lock_cbk = "post_blocking"])),
    0, online)

afr_nonblocking_entrylk(s, online) ==
  LET n == ExpectAll(initialize_entrylk_variables(
             [s EXCEPT !.phase = "nonblocking", !.lock_cbk = "post_nonblocking"]))
  IN wind(n, {cky \in Cookies(n) : child_index(cky) \in n.child_up}, "lock_nb", online)

(* afr_post_nonblocking_entrylk_cbk, or transaction.done, once all is unlocked. *)
CallLockCbk(s, online) ==
  IF s.lock_cbk = "post_nonblocking" THEN afr_blocking_lock(s, online) ELSE Done(s)

CountLocked(s, cky) ==
  IF s.call[cky].st # "ok" THEN s
  ELSE [s EXCEPT !.locked[lockee_no(cky)] = @ \cup {child_index(cky)},
                 !.entrylk_lock_count = @ + 1]

(***************************************************************************)
(* The client.                                                             *)
(***************************************************************************)
TypeOK ==
  /\ \A t \in Txns :
       /\ txn[t].phase \in {"idle", "nonblocking", "blocking", "unlock", "fop", "done"}
       /\ \A i \in DOMAIN txn[t].lockee : txn[t].locked[i] \subseteq txn[t].child_up
       /\ txn[t].lk_call_count \in 0 .. Len(txn[t].lockee) * child_count
       /\ txn[t].lk_attempted_count \in 0 .. txn[t].lk_expected_count
  /\ up \in [Clients -> SUBSET Bricks]
  /\ conn \in [Clients -> [Bricks -> 0 .. MaxBreaks]]
  /\ dead \in [Bricks -> SUBSET (Clients \X (0 .. MaxBreaks))]
  /\ flaky \subseteq Clients \X Bricks
  /\ regrant \in [Bricks -> SUBSET Dirs]

Init ==
  /\ \E p \in Programs :
       /\ txn = [t \in Txns |-> IF p.lockees[t] = <<>> THEN Done(NewTxn(<<>>))
                               ELSE NewTxn(Sorted(p.lockees[t]))]
       /\ flaky = p.flaky
  /\ dom = [b \in Bricks |-> [d \in Dirs |-> EmptyDomain]]
  /\ up = [c \in Clients |-> Bricks]
  /\ conn = [c \in Clients |-> [b \in Bricks |-> 0]]
  /\ dead = [b \in Bricks |-> {}]
  /\ regrant = [b \in Bricks |-> {}]

Online(t) == up[ClientOf[t]]

(* afr_transaction, afr_lock: child_up is a copy taken here. *)
Start(t) ==
  /\ txn[t].phase = "idle"
  /\ txn' = [txn EXCEPT ![t] =
       IF Online(t) = {} THEN Done(@)
       ELSE afr_nonblocking_entrylk([@ EXCEPT !.child_up = Online(t)], Online(t))]
  /\ UNCHANGED <<dom, up, conn, dead, flaky, regrant>>

NonblockingSome(s, cky, online) ==
  LET n == [CountLocked(s, cky) EXCEPT !.lk_call_count = @ - 1, !.call[cky] = NoCall]
  IN IF n.lk_call_count > 0 THEN n
     ELSE IF n.entrylk_lock_count > 0
     THEN afr_internal_lock_finish(n, online)
     ELSE afr_unlock_entrylk(n, afr_blocking_lock(n, online), online)

afr_nonblocking_entrylk_cbk(s, cky, online) ==
  LET n == [CountLocked(s, cky) EXCEPT !.lk_call_count = @ - 1, !.call[cky] = NoCall]
  IN IF n.lk_call_count > 0 THEN n
     ELSE IF n.entrylk_lock_count = n.lk_expected_count
     THEN afr_internal_lock_finish(n, online)
     ELSE afr_unlock_entrylk(n, afr_blocking_lock(n, online), online)

afr_lock_cbk(s, cky, online) ==
  afr_lock_blocking(
    [CountLocked(s, cky) EXCEPT !.lk_attempted_count = @ + 1, !.call[cky] = NoCall],
    cky + 1, online)

(* An unlock that failed is treated as one that succeeded. *)
afr_unlock_entrylk_cbk(s, cky, online) ==
  LET n == [s EXCEPT !.locked[lockee_no(cky)] = @ \ {child_index(cky)},
                     !.lk_call_count = @ - 1, !.call[cky] = NoCall]
  IN IF n.lk_call_count > 0 THEN n ELSE CallLockCbk(n, online)

(* The callback of a call, given its answer. *)
CallbackOf(s, cky, st, online) ==
  LET n == [s EXCEPT !.call[cky].st = st]
  IN CASE n.call[cky].cmd = "lock_nb" -> afr_nonblocking_entrylk_cbk(n, cky, online)
       [] n.call[cky].cmd = "lock"    -> afr_lock_cbk(n, cky, online)
       [] n.call[cky].cmd = "unlock"  -> afr_unlock_entrylk_cbk(n, cky, online)

(* The answer to a request that had to wait, and ENOTCONN. *)
Callback(t, cky) ==
  /\ txn[t].call[cky].st \in {"ok", "failed"}
  /\ txn' = [txn EXCEPT ![t] = CallbackOf(@, cky, @.call[cky].st, Online(t))]
  /\ UNCHANGED <<dom, up, conn, dead, flaky, regrant>>

(* The fop and the post-op are done: afr_changelog_post_op_done. *)
FopDone(t) ==
  /\ txn[t].phase = "fop"
  /\ txn' = [txn EXCEPT ![t] = UnlockAndDone(@, Online(t))]
  /\ UNCHANGED <<dom, up, conn, dead, flaky, regrant>>

(***************************************************************************)
(* The bricks.                                                             *)
(***************************************************************************)
DirOf(t, cky) == txn[t].lockee[lockee_no(cky)].dir

(* pl_common_entrylk, ENTRYLK_LOCK and ENTRYLK_LOCK_NB. *)
BrickLock(t, cky) ==
  LET b == child_index(cky)
      d == DirOf(t, cky)
      c == txn[t].call[cky]
  IN /\ c.st = "sent" /\ c.cmd \in {"lock", "lock_nb"}
     /\ dom' = [dom EXCEPT ![b][d] = lock_entrylk(@, LockOf(t, cky), c.cmd = "lock_nb")]
     /\ txn' = [txn EXCEPT ![t] =
          IF Granted(dom[b][d], LockOf(t, cky)) THEN CallbackOf(@, cky, "ok", Online(t))
          ELSE IF c.cmd = "lock_nb" THEN CallbackOf(@, cky, "failed", Online(t))
          ELSE [@ EXCEPT !.call[cky].st = "blocked"]]
     /\ UNCHANGED <<up, conn, dead, flaky, regrant>>

(* ENTRYLK_UNLOCK: the critical section that takes the lock off the list. *)
BrickUnlock(t, cky) ==
  LET b == child_index(cky)
      d == DirOf(t, cky)
  IN /\ txn[t].call[cky] = [cmd |-> "unlock", st |-> "sent"]
     /\ dom' = [dom EXCEPT ![b][d] = unlock_entrylk(@, LockOf(t, cky).basename)]
     /\ txn' = [txn EXCEPT ![t].call[cky].st = "unlocked"]
     /\ UNCHANGED <<up, conn, dead, flaky, regrant>>

(* The answers to the requests that a re-grant moved to entrylk_list.  One *)
(* whose connection has broken goes nowhere.                               *)
TellGranted(b, old, new) ==
  LET told == {l \in ToSet(old.blocked_entrylks) \cap ToSet(new.entrylk_list) :
                 l.client = Connection(l.owner, b) /\ b \in up[l.client[1]]}
  IN [t \in Txns |->
       [txn[t] EXCEPT !.call = [cky \in DOMAIN @ |->
          IF \E l \in told : l.owner = t /\ l.cookie = cky
          THEN [@[cky] EXCEPT !.st = "ok"] ELSE @[cky]]]]

(* The second half of an unlock: re-grant, then answer. *)
BrickUnlockGrant(t, cky) ==
  LET b == child_index(cky)
      d == DirOf(t, cky)
      new == grant_blocked_entry_locks(dom[b][d])
  IN /\ txn[t].call[cky].st = "unlocked"
     /\ dom' = [dom EXCEPT ![b][d] = new]
     /\ txn' = [TellGranted(b, dom[b][d], new) EXCEPT ![t] = CallbackOf(@, cky, "ok", Online(t))]
     /\ UNCHANGED <<up, conn, dead, flaky, regrant>>

(***************************************************************************)
(* Connections.                                                            *)
(***************************************************************************)
Breaks == FoldFunction(LAMBDA f, n : n + FoldFunction(+, 0, f), 0, conn)

(* The calls of a client that a brick has not answered. *)
Pending(c, b) ==
  {x \in UNION {{t} \X Cookies(txn[t]) : t \in {u \in Txns : ClientOf[u] = c}} :
     child_index(x[2]) = b /\ txn[x[1]].call[x[2]].st \in {"sent", "blocked", "unlocked", "ok"}}

(* The answers of a connection are lost with it: of the calls not answered *)
(* the brick has executed some, done, and not the others.  An unlock that  *)
(* took its lock off the list will still re-grant.                         *)
Executed(b, done) ==
  LET Do(ds, x) ==
        LET c == txn[x[1]].call[x[2]]
            d == DirOf(x[1], x[2])
        IN [ds EXCEPT ![d] = IF c.cmd = "unlock" THEN unlock_entrylk(@, LockOf(x[1], x[2]).basename)
                             ELSE lock_entrylk(@, LockOf(x[1], x[2]), c.cmd = "lock_nb")]
  IN FoldSet(LAMBDA x, ds : Do(ds, x), dom[b], done)

Break(c, b) ==
  LET pending == Pending(c, b)
      st(x) == txn[x[1]].call[x[2]].st
  IN /\ b \in up[c] /\ <<c, b>> \in flaky /\ Breaks < MaxBreaks
     /\ up' = [up EXCEPT ![c] = @ \ {b}]
     /\ conn' = [conn EXCEPT ![c][b] = @ + 1]
     /\ dead' = [dead EXCEPT ![b] = @ \cup {<<c, conn[c][b]>>}]
     /\ txn' = [t \in Txns |-> [txn[t] EXCEPT !.call = [cky \in DOMAIN @ |->
                  IF <<t, cky>> \in pending THEN [@[cky] EXCEPT !.st = "failed"] ELSE @[cky]]]]
     /\ \E done \in SUBSET {x \in pending : st(x) = "sent"} :
          /\ dom' = [dom EXCEPT ![b] = Executed(b, done)]
          /\ regrant' = [regrant EXCEPT ![b] = @ \cup
               {DirOf(x[1], x[2]) : x \in {y \in done : txn[y[1]].call[y[2]].cmd = "unlock"}
                                         \cup {y \in pending : st(y) = "unlocked"}}]
     /\ UNCHANGED flaky

Reconnect(c, b) ==
  /\ b \notin up[c]
  /\ up' = [up EXCEPT ![c] = @ \cup {b}]
  /\ UNCHANGED <<txn, dom, conn, dead, flaky, regrant>>

(* pl_entrylk_client_cleanup: first the locks go, then each directory is   *)
(* re-granted.                                                             *)
Cleanup(b, k) ==
  /\ k \in dead[b]
  /\ dead' = [dead EXCEPT ![b] = @ \ {k}]
  /\ dom' = [dom EXCEPT ![b] = [d \in Dirs |-> pl_entrylk_client_cleanup(@[d], k)]]
  /\ regrant' = [regrant EXCEPT ![b] = @ \cup
                   {d \in Dirs : pl_entrylk_client_cleanup(dom[b][d], k) # dom[b][d]}]
  /\ UNCHANGED <<txn, up, conn, flaky>>

CleanupGrant(b, d) ==
  LET new == grant_blocked_entry_locks(dom[b][d])
  IN /\ d \in regrant[b]
     /\ regrant' = [regrant EXCEPT ![b] = @ \ {d}]
     /\ dom' = [dom EXCEPT ![b][d] = new]
     /\ txn' = TellGranted(b, dom[b][d], new)
     /\ UNCHANGED <<up, conn, dead, flaky>>

Next ==
  \/ \E t \in Txns :
       \/ Start(t)
       \/ FopDone(t)
       \/ \E cky \in Cookies(txn[t]) :
            Callback(t, cky) \/ BrickLock(t, cky) \/ BrickUnlock(t, cky)
            \/ BrickUnlockGrant(t, cky)
  \/ \E b \in Bricks :
       \/ \E c \in Clients : Break(c, b) \/ Reconnect(c, b)
       \/ \E k \in dead[b] : Cleanup(b, k)
       \/ \E d \in Dirs : CleanupGrant(b, d)

Spec == Init /\ [][Next]_vars

(***************************************************************************)
(* Properties.                                                             *)
(***************************************************************************)
Conflict(l1, l2) == l1.dir = l2.dir /\ names_conflict(l1.basename, l2.basename)

(* Two transactions that lock a common name are not in their fops at the   *)
(* same time, as long as one brick keeps all its connections: the locks    *)
(* taken on that brick order them, whatever happens on the others.         *)
Exclusion ==
  \A t, u \in Txns :
    t # u /\ txn[t].phase = "fop" /\ txn[u].phase = "fop" =>
      \A i \in DOMAIN txn[t].lockee, j \in DOMAIN txn[u].lockee :
        ~Conflict(txn[t].lockee[i], txn[u].lockee[j])

Steady(b) == \A c \in Clients : conn[c][b] = 0

Holds(t, cky) ==
  \E l \in ToSet(dom[child_index(cky)][DirOf(t, cky)].entrylk_list) :
    l.owner = t /\ l.cookie = cky

(* A transaction in its fop holds every lock it counts, on every brick     *)
(* that kept its connections: nobody else's unlock, re-grant or cleanup    *)
(* took it away.                                                           *)
HeldInFop ==
  \A t \in Txns : txn[t].phase = "fop" =>
    \A cky \in Cookies(txn[t]) : Steady(child_index(cky)) =>
      cky \in Locked(txn[t]) /\ Holds(t, cky)

(* The same for a transaction whose own connection to the brick lasts,     *)
(* whatever becomes of the others'.  __unlock_entrylk finds a lock by its  *)
(* name (entrylk.c:394), so that this fails.                               *)
HeldIfConnected ==
  \A t \in Txns : txn[t].phase = "fop" =>
    \A cky \in Locked(txn[t]) :
      conn[ClientOf[t]][child_index(cky)] = 0 => Holds(t, cky)

(* A brick holds or queues no lock for a live connection unless the client *)
(* counts it as locked or waits for the answer: no lock is left behind by  *)
(* the retry with blocking locks, a failure half way, or a late answer.    *)
NoLeak ==
  \A b \in Bricks, d \in Dirs :
    \A l \in ToSet(dom[b][d].entrylk_list) \cup ToSet(dom[b][d].blocked_entrylks) :
      l.client = Connection(l.owner, b) =>
        l.cookie \in Locked(txn[l.owner]) \/ txn[l.owner].call[l.cookie] # NoCall

(* Nothing is going on: no transaction can start or is in its fop, no call *)
(* is on its way, no brick has a cleanup to do.                            *)
Quiet ==
  /\ \A t \in Txns :
       /\ txn[t].phase \notin {"idle", "fop"}
       /\ \A cky \in Cookies(txn[t]) : txn[t].call[cky].st \in {"none", "blocked"}
  /\ \A b \in Bricks : dead[b] = {} /\ regrant[b] = {}

(* Transactions never wait for each other for ever: when nothing is going  *)
(* on any more, all are done.                                              *)
NoDeadlock == Quiet => \A t \in Txns : txn[t].phase = "done"

(* afr_locked_nodes_get uses the bricks of the first lockee, "Because same *)
(* set of subvols participate in all lockee entities".                     *)
SameSubvols ==
  \A t \in Txns : txn[t].phase = "fop" =>
    \A i, j \in DOMAIN txn[t].lockee : txn[t].locked[i] = txn[t].locked[j]
==============================================================================
