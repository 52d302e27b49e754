--------------------------- MODULE InodelkProofs ---------------------------
(* Theorems about Inodelk, for any number of clients, threads and locks,    *)
(* any set of requests and any LLONG_MAX.                                   *)
EXTENDS Inodelk, ListLemmas

\* What unwinding a frame does to the variables it changes.
LEMMA AnswerType ==
    ASSUME TypeOK, NEW l, Answer(l)
    PROVE  /\ answers' \in [Locks -> Nat]
           /\ cref' \in [Clients -> Int]
           /\ pend' \in [Clients -> Nat]
<1> DEFINE c == req[l].client
<1>1. answers' \in [Locks -> Nat]
  BY NatCounterType DEF TypeOK, Answer
<1>2. CASE cstate[c] = "up"
  <2>1. cref' = [cref EXCEPT ![c] = @ - 1] /\ pend' = pend
    BY <1>2 DEF Answer
  <2> QED
    BY <1>1, <2>1, CounterType DEF TypeOK
<1>3. CASE cstate[c] # "up"
  <2>1. pend' = [pend EXCEPT ![c] = @ + 1] /\ cref' = cref
    BY <1>3 DEF Answer
  <2> QED
    BY <1>1, <2>1, NatCounterType DEF TypeOK
<1> QED
  BY <1>2, <1>3

\* The critical section of pl_inode_setlk keeps the types.
LEMMA SetLkType ==
    ASSUME TypeOK, NEW t \in Threads, SetLkStep(t)
    PROVE  TypeOK'
<1> PICK l \in Locks : pl_inode_setlk(t, l)
  BY DEF SetLkStep
<1>1. CASE SetLkGranted(t, l)
  <2>1. inodelk_list' \in Seq(Locks)
    BY <1>1, ConsFacts DEF SetLkGranted, TypeOK
  <2>2. ref' \in [Locks -> Int] /\ inode_ref' \in Int
    BY <1>1 DEF SetLkGranted, TypeOK
  <2>3. lockers' \in [Clients -> SUBSET Locks]
    BY <1>1 DEF SetLkGranted, AddLocker, TypeOK
  <2>4. /\ queue' \subseteq Locks /\ rq' \in [Threads -> Locks \cup {NoLock}]
        /\ pc' = [pc EXCEPT ![t] = "reply"]
    BY <1>1 DEF SetLkGranted, SetLk, GoTo, TypeOK
  <2> QED
    BY <1>1, <2>1, <2>2, <2>3, <2>4 DEF SetLkGranted, SetLk, TypeOK, clients
<1>2. CASE SetLkBlocked(t, l)
  <2>1. blocked_inodelks' \in Seq(Locks)
    BY <1>2, AppendFacts DEF SetLkBlocked, TypeOK
  <2>2. ref' \in [Locks -> Int] /\ inode_ref' \in Int
    BY <1>2 DEF SetLkBlocked, TypeOK
  <2>3. lockers' \in [Clients -> SUBSET Locks]
    BY <1>2 DEF SetLkBlocked, AddLocker, TypeOK
  <2> QED
    BY <1>2, <2>1, <2>2, <2>3 DEF SetLkBlocked, SetLk, TypeOK, clients
<1>3. CASE SetLkRefused(t, l)
  BY <1>3 DEF SetLkRefused, SetLk, GoTo, TypeOK, clients
<1>4. CASE SetLkUnlock(t, l)
  <2> PICK i \in Matching(l) :
         LET conf == inodelk_list[i] IN
         /\ \A j \in Matching(l) : i <= j
         /\ inodelk_list' = RemoveAt(inodelk_list, i)
         /\ lockers' = [lockers EXCEPT ![req[conf].client] = @ \ {conf}]
         /\ ref' = [ref EXCEPT ![conf] = @ - 1]
    BY <1>4 DEF SetLkUnlock
  <2>1. inodelk_list' \in Seq(Locks)
    BY RemoveAtFacts DEF Matching, TypeOK
  <2>2. ref' \in [Locks -> Int] /\ inode_ref' \in Int
    <3>1. ref' \in [Locks -> Int]
      BY CounterType DEF TypeOK
    <3> QED
      BY <1>4, <3>1 DEF SetLkUnlock, TypeOK
  <2>3. lockers' \in [Clients -> SUBSET Locks]
    BY DEF TypeOK
  <2>4. /\ queue' \subseteq Locks /\ rq' \in [Threads -> Locks \cup {NoLock}]
        /\ pc' = [pc EXCEPT ![t] = "grant"]
    BY <1>4 DEF SetLkUnlock, SetLk, GoTo, TypeOK
  <2> QED
    BY <1>4, <2>1, <2>2, <2>3, <2>4 DEF SetLkUnlock, SetLk, TypeOK, clients
<1>5. CASE SetLkBadUnlock(t, l)
  BY <1>5 DEF SetLkBadUnlock, SetLk, GoTo, TypeOK, clients
<1> QED
  BY <1>1, <1>2, <1>3, <1>4, <1>5 DEF pl_inode_setlk

\* So does grant_blocked_inode_locks.
LEMMA GrantType ==
    ASSUME TypeOK, NEW t \in Threads, GrantStep(t)
    PROVE  TypeOK'
<1>1. CASE GrantStart(t)
  BY <1>1 DEF GrantStart, TypeOK, clients, locks
<1>2. CASE GrantOne(t)
  <2> DEFINE bl == Head(blocked_list)
  <2>1. bl \in Locks /\ blocked_list' \in Seq(Locks)
    BY <1>2, HeadTailProperties DEF GrantOne, TypeOK
  <2> HIDE DEF bl
  <2>2. CASE MustWait(bl)
    <3>1. /\ blocked_inodelks' = Append(blocked_inodelks, bl)
          /\ UNCHANGED <<inodelk_list, ref, granted>>
      BY <1>2, <2>2 DEF GrantOne, bl
    <3>2. blocked_inodelks' \in Seq(Locks)
      BY <3>1, <2>1, AppendFacts DEF TypeOK
    <3> QED
      BY <1>2, <2>1, <3>1, <3>2 DEF GrantOne, TypeOK, clients, mutexes
  <2>3. CASE ~MustWait(bl)
    <3>1. /\ inodelk_list' = Cons(bl, inodelk_list)
          /\ ref' = [ref EXCEPT ![bl] = @ + 1]
          /\ granted' = [granted EXCEPT ![t] = @ \cup {bl}]
          /\ UNCHANGED blocked_inodelks
      BY <1>2, <2>3 DEF GrantOne, bl
    <3>2. inodelk_list' \in Seq(Locks)
      BY <3>1, <2>1, ConsFacts DEF TypeOK
    <3>3. ref' \in [Locks -> Int] /\ granted' \in [Threads -> SUBSET Locks]
      BY <3>1, <2>1 DEF TypeOK
    <3>4. UNCHANGED <<req, queue, answers, frame, lockers, mutexes, pc, rq, cl, todo,
                      released, unwind, clients>>
      BY <1>2 DEF GrantOne
    <3> QED
      BY <2>1, <3>1, <3>2, <3>3, <3>4 DEF TypeOK, clients, mutexes
  <2> QED
    BY <2>2, <2>3
<1>3. CASE GrantEnd(t)
  BY <1>3 DEF GrantEnd, TypeOK, clients, locks, lists
<1>4. CASE UnwindGranted(t)
  BY <1>4, AnswerType DEF UnwindGranted, TypeOK, lists, mutexes
<1>5. CASE UnrefGranted(t)
  BY <1>5 DEF UnrefGranted, TypeOK, clients, lists, mutexes
<1> QED
  BY <1>1, <1>2, <1>3, <1>4, <1>5 DEF GrantStep

\* So does pl_inodelk_client_cleanup.
LEMMA CleanupType ==
    ASSUME TypeOK, NEW t \in Threads, CleanupStep(t)
    PROVE  TypeOK'
<1>1. ASSUME NEW c \in Clients, CleanupStart(t, c)
      PROVE  TypeOK'
  <2>1. pend' \in [Clients -> Nat] /\ cl' \in [Threads -> Clients \cup {NoClient}]
    <3>1. CASE pend[c] > 0 /\ pend' = [pend EXCEPT ![c] = @ - 1]
                /\ cl' = [cl EXCEPT ![t] = c]
      <4>1. pend[c] - 1 \in Nat
        BY <3>1 DEF TypeOK
      <4> QED
        BY <3>1, <4>1 DEF TypeOK
    <3>2. CASE UNCHANGED <<pend, cl>>
      BY <3>2 DEF TypeOK
    <3> QED
      BY <1>1, <3>1, <3>2 DEF CleanupStart
  <2> QED
    BY <1>1, <2>1 DEF CleanupStart, TypeOK, locks, lists
<1>2. CASE CleanupScan(t)
  <2> PICK l \in lockers[cl[t]] :
         /\ lockers' = [lockers EXCEPT ![cl[t]] = @ \ {l}]
         /\ \/ \E i \in DOMAIN inodelk_list :
                 /\ inodelk_list[i] = l
                 /\ inodelk_list' = RemoveAt(inodelk_list, i)
                 /\ released' = [released EXCEPT ![t] = @ \cup {l}]
                 /\ UNCHANGED <<blocked_inodelks, unwind>>
            \/ \E i \in DOMAIN blocked_inodelks :
                 /\ l \notin ToSet(inodelk_list)
                 /\ blocked_inodelks[i] = l
                 /\ blocked_inodelks' = RemoveAt(blocked_inodelks, i)
                 /\ unwind' = [unwind EXCEPT ![t] = @ \cup {l}]
                 /\ UNCHANGED <<inodelk_list, released>>
    BY <1>2 DEF CleanupScan
  <2>0. lockers' \in [Clients -> SUBSET Locks]
    BY DEF TypeOK
  <2>1. ASSUME NEW i \in DOMAIN inodelk_list,
               inodelk_list[i] = l,
               inodelk_list' = RemoveAt(inodelk_list, i),
               released' = [released EXCEPT ![t] = @ \cup {l}],
               UNCHANGED <<blocked_inodelks, unwind>>
        PROVE  TypeOK'
    <3>1. inodelk_list' \in Seq(Locks) /\ l \in Locks
      BY <2>1, RemoveAtFacts, ElementOfSeq DEF TypeOK
    <3>2. released' \in [Threads -> SUBSET Locks]
      BY <2>1, <3>1 DEF TypeOK
    <3>3. UNCHANGED <<locks, blocked_list, mutexes, pc, rq, cl, granted, todo, clients>>
      BY <1>2 DEF CleanupScan
    <3> QED
      BY <2>0, <2>1, <3>1, <3>2, <3>3 DEF TypeOK, locks, mutexes, clients
  <2>2. ASSUME NEW i \in DOMAIN blocked_inodelks,
               blocked_inodelks[i] = l,
               blocked_inodelks' = RemoveAt(blocked_inodelks, i),
               unwind' = [unwind EXCEPT ![t] = @ \cup {l}],
               UNCHANGED <<inodelk_list, released>>
        PROVE  TypeOK'
    <3>1. blocked_inodelks' \in Seq(Locks) /\ l \in Locks
      BY <2>2, RemoveAtFacts, ElementOfSeq DEF TypeOK
    <3>2. unwind' \in [Threads -> SUBSET Locks]
      BY <2>2, <3>1 DEF TypeOK
    <3>3. UNCHANGED <<locks, blocked_list, mutexes, pc, rq, cl, granted, todo, clients>>
      BY <1>2 DEF CleanupScan
    <3> QED
      BY <2>0, <2>2, <3>1, <3>2, <3>3 DEF TypeOK, locks, mutexes, clients
  <2> QED
    BY <2>1, <2>2
<1>3. CASE CleanupScanned(t)
  BY <1>3 DEF CleanupScanned, TypeOK, locks, lists, clients
<1>4. CASE CleanupUnwind(t)
  <2> PICK l \in unwind[t] :
         /\ IF frame[l] THEN Answer(l) ELSE UNCHANGED <<answers, cref, pend>>
         /\ unwind' = [unwind EXCEPT ![t] = @ \ {l}]
         /\ released' = [released EXCEPT ![t] = @ \cup {l}]
    BY <1>4 DEF CleanupUnwind
  <2>1. /\ answers' \in [Locks -> Nat]
        /\ cref' \in [Clients -> Int]
        /\ pend' \in [Clients -> Nat]
    BY AnswerType DEF TypeOK
  <2> QED
    BY <1>4, <2>1 DEF CleanupUnwind, TypeOK, lists, mutexes
<1>5. CASE CleanupNext(t)
  BY <1>5 DEF CleanupNext, GoTo, TypeOK, locks, lists, mutexes, clients
<1>6. CASE CleanupUnref(t)
  <2>1. ref' \in [Locks -> Int] /\ inode_ref' \in Int
    <3>1. ref' = [ref EXCEPT ![rq[t]] = @ - 1] /\ inode_ref' = inode_ref - 1
      BY <1>6 DEF CleanupUnref
    <3>2. ref' \in [Locks -> Int]
      BY <3>1, CounterType DEF TypeOK
    <3> QED
      BY <3>1, <3>2 DEF TypeOK
  <2>2. /\ rq' \in [Threads -> Locks \cup {NoLock}]
        /\ pc' = [pc EXCEPT ![t] = "cl_next"]
    BY <1>6 DEF CleanupUnref, GoTo, TypeOK
  <2> QED
    BY <1>6, <2>1, <2>2 DEF CleanupUnref, TypeOK, lists, clients
<1>7. CASE CleanupEnd(t)
  <2>1. cref' \in [Clients -> Int] /\ cstate' \in [Clients -> {"gone", "up", "down"}]
    <3>1. CASE cref' = [cref EXCEPT ![cl[t]] = @ - 1] /\ UNCHANGED cstate
      BY <3>1, CounterType DEF TypeOK
    <3>2. CASE cstate' = [cstate EXCEPT ![cl[t]] = "gone"] /\ UNCHANGED cref
      BY <3>2 DEF TypeOK
    <3> QED
      BY <1>7, <3>1, <3>2 DEF CleanupEnd
  <2>2. /\ cl' \in [Threads -> Clients \cup {NoClient}]
        /\ \/ pc' = [pc EXCEPT ![t] = "destroy"]
           \/ pc' = [pc EXCEPT ![t] = "idle"]
    BY <1>7 DEF CleanupEnd, TypeOK
  <2>3. UNCHANGED <<locks, lists, mutexes, rq, granted, todo, released, unwind, pend>>
    BY <1>7 DEF CleanupEnd
  <2> QED
    BY <2>1, <2>2, <2>3 DEF TypeOK, locks, lists, mutexes
<1> QED
  BY <1>1, <1>2, <1>3, <1>4, <1>5, <1>6, <1>7 DEF CleanupStep

LEMMA NextType ==
    ASSUME TypeOK, [Next]_vars
    PROVE  TypeOK'
<1>1. ASSUME NEW c \in Clients, Connect(c) PROVE TypeOK'
  BY <1>1 DEF Connect, TypeOK, locks, lists, mutexes, local
<1>2. ASSUME NEW c \in Clients, Disconnect(c) PROVE TypeOK'
  <2>1. pend' \in [Clients -> Nat]
    BY <1>2 DEF Disconnect, TypeOK
  <2> QED
    BY <1>2, <2>1 DEF Disconnect, TypeOK, locks, lists, mutexes, local
<1>3. ASSUME NEW l \in Locks, Submit(l) PROVE TypeOK'
  <2>1. cref' \in [Clients -> Int] /\ answers' \in [Locks -> Nat]
    BY <1>3, CounterType DEF Submit, TypeOK
  <2> QED
    BY <1>3, <2>1 DEF Submit, TypeOK, lists, mutexes, local
<1>4. ASSUME NEW t \in Threads, Reply(t) PROVE TypeOK'
  <2>1. Answer(rq[t])
    BY <1>4 DEF Reply
  <2>2. /\ answers' \in [Locks -> Nat]
        /\ cref' \in [Clients -> Int]
        /\ pend' \in [Clients -> Nat]
    BY <2>1, AnswerType
  <2> QED
    BY <1>4, <2>2 DEF Reply, GoTo, TypeOK, lists, mutexes
<1>5. CASE UNCHANGED vars
  BY <1>5 DEF TypeOK, vars, locks, lists, mutexes, local, clients
<1> QED
  BY <1>1, <1>2, <1>3, <1>4, <1>5, SetLkType, GrantType, CleanupType
     DEF Next, ThreadStep

\* Every variable of the lock translator model keeps its type in every
\* reachable state, however requests, replies and cleanups interleave.
THEOREM TypeCorrect == Spec => []TypeOK
<1>1. Init => TypeOK
  BY ConstantsAssumption DEF Init, TypeOK
<1> QED
  BY <1>1, NextType, PTL DEF Spec
=============================================================================
