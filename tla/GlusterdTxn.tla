----------------------------- MODULE GlusterdTxn -----------------------------
(***************************************************************************)
(* Cluster-wide operations of glusterd.  The node a command is given to,   *)
(* the originator, runs gd_sync_task_begin (glusterd-syncop.c): it locks   *)
(* the volume at home and on every connected peer, validates (stage),      *)
(* commits, and unlocks.  A peer handles these requests with the state     *)
(* machine of glusterd-op-sm.c and the lock table of glusterd-locks.c.     *)
(*                                                                         *)
(* All code of a node runs under its big_lock.  A synctask gives it up     *)
(* while it submits a request and while it waits for the answers, so that  *)
(* other commands and handlers of the node run in between.  The list       *)
(* xaction_peers is a field of the node: the commands share it.            *)
(***************************************************************************)
EXTENDS Integers, FiniteSets, SequencesExt

CONSTANTS Nodes, Volumes, Txns,
          NULL,
          HEAD,        \* the list head &conf->xaction_peers
          Programs,    \* what is run: see Program below
          MaxBreaks,   \* bound on broken connections
          MaxCalls     \* bound on the requests of one phase

VARIABLES prog,          \* the program that is run
          txn,           \* locals of gd_sync_task_begin and of the phase it is in
          mgmt_v3_lock,  \* per node and volume, the node that owns the lock
          opinfo,        \* per node and transaction, the state of its state machine
          committed,     \* per node, the transactions committed there
          connected,     \* per node, the peers it has a connection to
          xaction_peers, \* per node, the links of the list of that name
          late,          \* requests that lost their connection and may still arrive
          broken         \* connections <<from, to>> that broke

vars == <<prog, txn, mgmt_v3_lock, opinfo, committed, connected, xaction_peers,
          late, broken>>

(* Node and volume of every transaction, the connections that may break,   *)
(* the <<node, phase>> pairs that may fail, whether a node runs its        *)
(* commands at the same time, and the transactions that are run.           *)
Program == [node: [Txns -> Nodes], vol: [Txns -> Volumes],
            links: SUBSET (Nodes \X Nodes),
            fails: SUBSET (Nodes \X {"stage", "commit"}),
            together: BOOLEAN,
            txns: SUBSET Txns]

node(t) == prog.node[t]
vol(t) == prog.vol[t]

(***************************************************************************)
(* list.h.  The list elements of a node are its peerinfos.                 *)
(***************************************************************************)
INIT_LIST_HEAD(l, h) == [l EXCEPT !.next[h] = h, !.prev[h] = h]

list_add_tail(l, p) ==
  LET last == l.prev[HEAD]
  IN  [next |-> [l.next EXCEPT ![p] = HEAD, ![last] = p],
       prev |-> [l.prev EXCEPT ![p] = last, ![HEAD] = p]]

list_del_init(l, p) ==
  LET before == l.prev[p]
      after == l.next[p]
  IN  [next |-> [[l.next EXCEPT ![before] = after] EXCEPT ![p] = p],
       prev |-> [[l.prev EXCEPT ![after] = before] EXCEPT ![p] = p]]

NoList == [next |-> [p \in Nodes \cup {HEAD} |-> p],
           prev |-> [p \in Nodes \cup {HEAD} |-> p]]

(***************************************************************************)
(* The lock table: it knows the node that owns a lock, not the transaction.*)
(***************************************************************************)
glusterd_mgmt_v3_lock(table, v, n) == [table EXCEPT ![v] = n]

CanLock(table, v) == table[v] = NULL

CanUnlockAny(table, v, n) == table[v] # NULL

CanUnlock(table, v, n) == table[v] = n

glusterd_mgmt_v3_unlock(table, v, n) ==
  IF CanUnlock(table, v, n) THEN [table EXCEPT ![v] = NULL] ELSE table

(***************************************************************************)
(* The originator.  s holds what the code of one transaction reads and     *)
(* writes: its locals (s.t), and the lock table, the list and the commits  *)
(* of its node.                                                            *)
(***************************************************************************)
NewTxn == [phase |-> "idle",
           at |-> HEAD, tmp |-> HEAD,  \* cursors of the loop over the peers
           npeers |-> 0, peers |-> {}, \* what gd_build_peers_list found
           calls |-> {}, peer_cnt |-> 0,
           args_ret |-> 0, op_ret |-> 0]

Outcomes(n, phase) == IF <<n, phase>> \in prog.fails THEN {0, -1} ELSE {0}

(* gd_syncop_mgmt_v3_lock and the like: on a lost connection the callback  *)
(* runs at once, with an error.                                            *)
submit(s, t, p) ==
  LET k == s.t.peer_cnt
      call == [peer |-> p, no |-> k, ignored |-> FALSE]
      up == p \in connected[node(t)]
  IN  [s EXCEPT !.t.at = p, !.t.peer_cnt = k + 1,
                !.t.calls = IF up THEN @ \cup {call} ELSE @,
                !.t.args_ret = IF up THEN @ ELSE -1]

visit(s, t, p) == IF p = HEAD THEN [s EXCEPT !.t.at = HEAD] ELSE submit(s, t, p)

for_each_peer(s, t, phase) ==
  LET first == s.list.next[HEAD]
  IN  visit([s EXCEPT !.t.phase = phase, !.t.peer_cnt = 0, !.t.args_ret = 0,
                      !.t.tmp = s.list.next[first]], t, first)

UnlockLocalLast(s, t) ==
  LET ret == IF CanUnlock(s.lock, vol(t), node(t)) THEN 0 ELSE -1
  IN  [s EXCEPT !.lock = glusterd_mgmt_v3_unlock(@, vol(t), node(t)),
                !.t = [NewTxn EXCEPT !.phase = "done", !.peers = s.t.peers,
                                     !.op_ret = ret]]

UnlockLocal(s, t) ==
  LET ret == IF CanUnlock(s.lock, vol(t), node(t)) THEN 0 ELSE -1
  IN  [s EXCEPT !.lock = glusterd_mgmt_v3_unlock(@, vol(t), node(t)),
                !.t = [NewTxn EXCEPT !.phase = "done", !.peers = s.t.peers,
                                     !.op_ret = IF s.t.op_ret = 0 THEN ret
                                                ELSE s.t.op_ret]]

UnlockPhaseOnSuccess(s, t, ret) ==
  LET s1 == [s EXCEPT !.t.op_ret = ret]
  IN  IF s.t.npeers = 0 \/ ret # 0 THEN UnlockLocal(s1, t)
      ELSE for_each_peer(s1, t, "unlock")

gd_unlock_op_phase(s, t, ret) ==
  LET s1 == [s EXCEPT !.t.op_ret = ret]
  IN  IF s.t.npeers = 0 THEN UnlockLocal(s1, t) ELSE for_each_peer(s1, t, "unlock")

gd_commit_op_phase(s, t, ret) ==
  LET s1 == [s EXCEPT !.done = @ \cup {t}]
  IN  IF ret # 0 THEN gd_unlock_op_phase(s, t, ret)
      ELSE IF s.t.npeers = 0 THEN gd_unlock_op_phase(s1, t, 0)
      ELSE for_each_peer(s1, t, "commit")

(* stage and commit are the outcomes of the originator's own validation    *)
(* and commit.                                                             *)
gd_stage_op_phase(s, t, stage, commit) ==
  IF stage # 0 THEN gd_unlock_op_phase(s, t, stage)
  ELSE IF s.t.npeers = 0 THEN gd_commit_op_phase(s, t, commit)
  ELSE for_each_peer(s, t, "stage")

gd_lock_op_phase(s, t, stage, commit) ==
  IF s.t.npeers = 0 THEN gd_stage_op_phase(s, t, stage, commit)
  ELSE for_each_peer(s, t, "lock")

(* conf->peers, in some order; all of them are befriended. *)
PeersOf(n) == SetToSeq(Nodes \ {n})

gd_build_peers_list(s, t) ==
  LET up == SelectSeq(PeersOf(node(t)), LAMBDA p : p \in connected[node(t)])
  IN  [s EXCEPT !.list = FoldLeft(list_add_tail, INIT_LIST_HEAD(@, HEAD), up),
                !.t.npeers = Len(up), !.t.peers = Range(up)]

State(t) == [t |-> txn[t], lock |-> mgmt_v3_lock[node(t)],
             list |-> xaction_peers[node(t)], done |-> committed[node(t)]]

Become(t, s) ==
  /\ txn' = [txn EXCEPT ![t] = s.t]
  /\ mgmt_v3_lock' = [mgmt_v3_lock EXCEPT ![node(t)] = s.lock]
  /\ xaction_peers' = [xaction_peers EXCEPT ![node(t)] = s.list]
  /\ committed' = [committed EXCEPT ![node(t)] = s.done]
  /\ UNCHANGED <<prog, opinfo, connected, late, broken>>

(***************************************************************************)
(* Steps of the originator, each from taking big_lock to giving it up.     *)
(***************************************************************************)
Init ==
  /\ prog \in Programs
  /\ txn = [t \in Txns |-> NewTxn]
  /\ mgmt_v3_lock = [n \in Nodes |-> [v \in Volumes |-> NULL]]
  /\ opinfo = [n \in Nodes |-> [t \in Txns |-> NULL]]
  /\ committed = [n \in Nodes |-> {}]
  /\ connected = [n \in Nodes |-> Nodes \ {n}]
  /\ xaction_peers = [n \in Nodes |-> NoList]
  /\ late = {}
  /\ broken = {}

Phases == {"lock", "stage", "commit", "unlock"}

Running(t) == txn[t].phase \in Phases

MayBegin(t) ==
  /\ t \in prog.txns
  /\ txn[t].phase = "idle"
  /\ prog.together \/ \A u \in Txns : node(u) = node(t) => ~Running(u)

(* gd_sync_task_begin up to its first request. *)
Begin(t) ==
  /\ MayBegin(t)
  /\ CanLock(mgmt_v3_lock[node(t)], vol(t))
  /\ \E stage \in Outcomes(node(t), "stage"), commit \in Outcomes(node(t), "commit") :
       LET s == [State(t) EXCEPT !.lock = glusterd_mgmt_v3_lock(@, vol(t), node(t))]
       IN  Become(t, gd_lock_op_phase(gd_build_peers_list(s, t), t, stage, commit))

(* "Another transaction is in progress for ..." *)
Refused(t) ==
  /\ MayBegin(t)
  /\ ~CanLock(mgmt_v3_lock[node(t)], vol(t))
  /\ txn' = [txn EXCEPT ![t].phase = "done", ![t].op_ret = -1]
  /\ UNCHANGED <<prog, mgmt_v3_lock, opinfo, committed, connected, xaction_peers,
                 late, broken>>

(* The loop over the peers goes on after a request was submitted. *)
NextPeer(t) ==
  LET s == State(t)
      s1 == [s EXCEPT !.list = list_del_init(@, s.t.at)]
  IN  /\ Running(t)
      /\ s.t.at # HEAD
      /\ s.t.peer_cnt < MaxCalls
      /\ IF s.t.phase = "unlock"
         THEN Become(t, visit([s1 EXCEPT !.t.tmp = s1.list.next[@]], t, s.t.tmp))
         ELSE Become(t, visit(s, t, s.list.next[s.t.at]))

(* gd_synctask_barrier_wait returns: all requests of the phase have been   *)
(* answered.                                                               *)
Wake(t) ==
  LET s == State(t)
      ret == s.t.args_ret
  IN  /\ Running(t)
      /\ s.t.at = HEAD
      /\ s.t.calls = {}
      /\ \/ /\ s.t.phase = "lock"
            /\ ret = 0
            /\ \E stage \in Outcomes(node(t), "stage") :
                 Become(t, gd_stage_op_phase(s, t, stage, 0))
         \/ /\ s.t.phase = "stage"
            /\ ret = 0
            /\ \E commit \in Outcomes(node(t), "commit") :
                 Become(t, gd_commit_op_phase(s, t, commit))
         \/ /\ s.t.phase = "commit" \/ (s.t.phase \in {"lock", "stage"} /\ ret # 0)
            /\ Become(t, gd_unlock_op_phase(s, t, ret))
         \/ /\ s.t.phase = "unlock"
            /\ Become(t, UnlockLocal([s EXCEPT !.t.op_ret = IF @ = 0 THEN ret ELSE @], t))

(***************************************************************************)
(* The peer.  What a request does to the state of the node: its lock       *)
(* table, the state machine of the transaction and its commits; ret is the *)
(* answer, NULL if there is none.                                          *)
(***************************************************************************)
NodeState(p, t) == [lock |-> mgmt_v3_lock[p], state |-> opinfo[p][t],
                    done |-> committed[p], ret |-> NULL]

LockRetLost(s, t) ==
  IF CanLock(s.lock, vol(t))
  THEN [s EXCEPT !.lock = glusterd_mgmt_v3_lock(@, vol(t), node(t)),
                 !.state = "locked", !.ret = 0]
  ELSE [s EXCEPT !.state = "default", !.ret = 0]

glusterd_op_ac_lock(s, t) ==
  IF CanLock(s.lock, vol(t))
  THEN [s EXCEPT !.lock = glusterd_mgmt_v3_lock(@, vol(t), node(t)),
                 !.state = "locked", !.ret = 0]
  ELSE [s EXCEPT !.state = "default", !.ret = -1]

(* A transaction the node does not know is taken for one without locks.    *)
(* It counts as staged whatever the validation says.                       *)
glusterd_op_ac_stage_op(s, ret) ==
  IF s.state \in {NULL, "locked"} THEN [s EXCEPT !.state = "staged", !.ret = ret]
  ELSE s

glusterd_op_ac_commit_op(s, t, ret) ==
  IF s.state = "staged"
  THEN [s EXCEPT !.state = "committed", !.ret = ret,
                 !.done = IF ret = 0 THEN @ \cup {t} ELSE @]
  ELSE s

glusterd_op_ac_unlock(s, t) ==
  IF s.state = NULL THEN s
  ELSE IF CanUnlock(s.lock, vol(t), node(t))
  THEN [s EXCEPT !.lock = glusterd_mgmt_v3_unlock(@, vol(t), node(t)),
                 !.state = NULL, !.ret = 0]
  ELSE [s EXCEPT !.ret = -1]

glusterd_op_sm(p, t, phase, ret) ==
  LET s == NodeState(p, t)
  IN  CASE phase = "lock" -> glusterd_op_ac_lock(s, t)
        [] phase = "stage" -> glusterd_op_ac_stage_op(s, ret)
        [] phase = "commit" -> glusterd_op_ac_commit_op(s, t, ret)
        [] phase = "unlock" -> glusterd_op_ac_unlock(s, t)

NodeBecome(p, t, s) ==
  /\ mgmt_v3_lock' = [mgmt_v3_lock EXCEPT ![p] = s.lock]
  /\ opinfo' = [opinfo EXCEPT ![p][t] = s.state]
  /\ committed' = [committed EXCEPT ![p] = s.done]

PeerOutcomes(p, phase) == IF phase \in {"stage", "commit"} THEN Outcomes(p, phase) ELSE {0}

Answered(x, c, ret) ==
  [x EXCEPT !.calls = @ \ {c}, !.args_ret = IF ret = 0 THEN @ ELSE ret]

(* A peer handles a request, and its answer reaches the callback. *)
Handle(t, c) ==
  /\ c \in txn[t].calls
  /\ ~c.ignored
  /\ \E ret \in PeerOutcomes(c.peer, txn[t].phase) :
       LET s == glusterd_op_sm(c.peer, t, txn[t].phase, ret)
           ignored == (txn[t].calls \ {c}) \cup {[c EXCEPT !.ignored = TRUE]}
       IN  /\ NodeBecome(c.peer, t, s)
           /\ txn' = [txn EXCEPT ![t] = IF s.ret = NULL THEN [@ EXCEPT !.calls = ignored]
                                        ELSE Answered(@, c, s.ret)]
  /\ UNCHANGED <<prog, connected, xaction_peers, late, broken>>

BailRetries(t, c) ==
  /\ c \in txn[t].calls
  /\ c.ignored
  /\ txn' = [txn EXCEPT ![t].calls = (@ \ {c}) \cup {[c EXCEPT !.ignored = FALSE]}]
  /\ UNCHANGED <<prog, mgmt_v3_lock, opinfo, committed, connected, xaction_peers,
                 late, broken>>

(* call_bail: nobody answers. *)
Bail(t, c) ==
  /\ c \in txn[t].calls
  /\ c.ignored
  /\ txn' = [txn EXCEPT ![t] = Answered(@, c, -1)]
  /\ UNCHANGED <<prog, mgmt_v3_lock, opinfo, committed, connected, xaction_peers,
                 late, broken>>

HandleLate(r) ==
  /\ r \in late
  /\ late' = late \ {r}
  /\ \E ret \in PeerOutcomes(r.peer, r.phase) :
       NodeBecome(r.peer, r.txn, glusterd_op_sm(r.peer, r.txn, r.phase, ret))
  /\ UNCHANGED <<prog, txn, connected, xaction_peers, broken>>

(***************************************************************************)
(* __glusterd_peer_rpc_notify at node n, for its connection to peer p.     *)
(***************************************************************************)
CallsOn(t, n, p) == IF node(t) = n THEN {c \in txn[t].calls : c.peer = p} ELSE {}

Disconnect(n, p) ==
  /\ Cardinality(broken) < MaxBreaks
  /\ <<n, p>> \in prog.links
  /\ p \in connected[n]
  /\ connected' = [connected EXCEPT ![n] = @ \ {p}]
  /\ broken' = broken \cup {<<n, p>>}
  /\ mgmt_v3_lock' = [mgmt_v3_lock EXCEPT
       ![n] = [v \in Volumes |-> glusterd_mgmt_v3_unlock(@, v, p)[v]]]
  /\ txn' = [t \in Txns |->
       IF CallsOn(t, n, p) = {} THEN txn[t]
       ELSE [txn[t] EXCEPT !.calls = @ \ CallsOn(t, n, p), !.args_ret = -1]]
  /\ late' = late \cup {[txn |-> t, peer |-> p, phase |-> txn[t].phase] :
                          t \in {u \in Txns : \E c \in CallsOn(u, n, p) : ~c.ignored}}
  /\ UNCHANGED <<prog, opinfo, committed, xaction_peers>>

(* What had not arrived by now is lost. *)
Connect(n, p) ==
  /\ p \in Nodes \ ({n} \cup connected[n])
  /\ connected' = [connected EXCEPT ![n] = @ \cup {p}]
  /\ late' = {r \in late : ~(node(r.txn) = n /\ r.peer = p)}
  /\ UNCHANGED <<prog, txn, mgmt_v3_lock, opinfo, committed, xaction_peers, broken>>

Next ==
  \/ \E t \in Txns :
       \/ Begin(t) \/ Refused(t) \/ NextPeer(t) \/ Wake(t)
       \/ \E c \in txn[t].calls : Handle(t, c) \/ Bail(t, c)
  \/ \E r \in late : HandleLate(r)
  \/ \E n, p \in Nodes : Disconnect(n, p) \/ Connect(n, p)

Spec == Init /\ [][Next]_vars

(***************************************************************************)
(* Properties                                                              *)
(***************************************************************************)
Call == [peer: Nodes, no: 0 .. MaxCalls, ignored: BOOLEAN]

(* The state is well formed: cursors and links of the shared list point to *)
(* the head or to peerinfos, at most one request of a phase waits at each  *)
(* peer, and a lock belongs to a node or to nobody.                        *)
TypeOK ==
  /\ prog \in Program
  /\ \A t \in Txns :
       /\ txn[t].phase \in Phases \cup {"idle", "done"}
       /\ {txn[t].at, txn[t].tmp} \subseteq Nodes \cup {HEAD}
       /\ txn[t].calls \subseteq Call
       /\ \A c, d \in txn[t].calls : c.peer = d.peer => c = d
       /\ txn[t].peer_cnt \in 0 .. txn[t].npeers
       /\ txn[t].args_ret \in {0, -1} /\ txn[t].op_ret \in {0, -1}
  /\ mgmt_v3_lock \in [Nodes -> [Volumes -> Nodes \cup {NULL}]]
  /\ opinfo \in [Nodes -> [Txns -> {NULL, "default", "locked", "staged", "committed"}]]
  /\ committed \in [Nodes -> SUBSET Txns]
  /\ connected \in [Nodes -> SUBSET Nodes]
  /\ late \subseteq [txn: Txns, peer: Nodes, phase: Phases]

Operating(t) == txn[t].phase \in {"stage", "commit"}

(* Two transactions on one volume are never past their lock phase at the   *)
(* same time, wherever they were started: gd_lock_op_phase lets only one   *)
(* through, also when a broken connection made a node release a lock early *)
(* (__glusterd_peer_rpc_notify).                                           *)
Exclusion ==
  \A t, u \in Txns :
    t # u /\ vol(t) = vol(u) => ~(Operating(t) /\ Operating(u))

(* A command that reports success has been committed by its node and by    *)
(* every peer that was connected when it began.                            *)
SuccessMeansAll ==
  \A t \in Txns :
    txn[t].phase = "done" /\ txn[t].op_ret = 0 =>
      \A n \in txn[t].peers \cup {node(t)} : t \in committed[n]

(* gd_unlock_op_phase frees every lock taken: when nothing runs, a lock    *)
(* that is left was taken over a connection that broke.                    *)
NoStaleLock ==
  (\A t \in Txns : ~Running(t)) /\ late = {} =>
    \A p \in Nodes, v \in Volumes :
      mgmt_v3_lock[p][v] # NULL => <<mgmt_v3_lock[p][v], p>> \in broken

(* A peer commits a transaction only while its originator holds the lock   *)
(* of the volume there, unless the peer lost its connection to the         *)
(* originator and gave the lock away.                                      *)
CommitsUnderLock ==
  [][\A p \in Nodes : \A t \in committed'[p] \ committed[p] :
       \/ p = node(t)
       \/ <<p, node(t)>> \in broken
       \/ mgmt_v3_lock[p][vol(t)] = node(t)]_vars

(* Every command ends: the loops over the peers terminate and every        *)
(* request is answered, refused or timed out.                              *)
Ends == \A t \in Txns : Running(t) ~> ~Running(t)

Progress ==
  \E t \in Txns : \/ NextPeer(t) \/ Wake(t)
                  \/ \E c \in txn[t].calls : Handle(t, c) \/ Bail(t, c)

(* A running command can go on: to the next peer, with an answer, or past  *)
(* the barrier.                                                            *)
CanProgress ==
  \E t \in Txns : Running(t) /\ (txn[t].at = HEAD \/ txn[t].peer_cnt < MaxCalls)

(* The synctask scheduler runs what can run, the peers read their sockets, *)
(* and call_bail fires.                                                    *)
FairSpec == Spec /\ ([]<>~CanProgress \/ []<><<Progress>>_vars)
==============================================================================
