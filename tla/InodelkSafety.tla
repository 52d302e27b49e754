--------------------------- MODULE InodelkSafety ---------------------------
(* MutualExclusion and NoLostWakeup of Inodelk, for every value of the      *)
(* constants.  Both are inductive together with TypeOK.                     *)
EXTENDS InodelkProofs

\* No step changes what a request asks for.
LEMMA ReqConstant ==
    ASSUME [Next]_vars
    PROVE  req' = req
<1>1. ASSUME NEW c \in Clients, Connect(c) \/ Disconnect(c) PROVE req' = req
  BY <1>1 DEF Connect, Disconnect, locks
<1>2. ASSUME NEW l \in Locks, Submit(l) PROVE req' = req
  BY <1>2 DEF Submit
<1>3. ASSUME NEW t \in Threads, SetLkStep(t) PROVE req' = req
  BY <1>3 DEF SetLkStep, pl_inode_setlk, SetLkGranted, SetLkBlocked, SetLkRefused,
     SetLkUnlock, SetLkBadUnlock, SetLk
<1>4. ASSUME NEW t \in Threads, Reply(t) PROVE req' = req
  BY <1>4 DEF Reply
<1>5. ASSUME NEW t \in Threads, GrantStep(t) PROVE req' = req
  BY <1>5 DEF GrantStep, GrantStart, GrantOne, GrantEnd, UnwindGranted,
     UnrefGranted, locks
<1>6. ASSUME NEW t \in Threads, CleanupStep(t) PROVE req' = req
  BY <1>6 DEF CleanupStep, CleanupStart, CleanupScan, CleanupScanned,
     CleanupUnwind, CleanupNext, CleanupUnref, CleanupEnd, locks
<1>7. CASE UNCHANGED vars
  BY <1>7 DEF vars, locks
<1> QED
  BY <1>1, <1>2, <1>3, <1>4, <1>5, <1>6, <1>7 DEF Next, ThreadStep

----------------------------------------------------------------------------
(* Mutual exclusion.                                                       *)

\* fl_end is the last byte the flock covers: with ranges that end within
\* off_t the addition in new_inode_lock does not wrap around.
LEMMA CoversEnd ==
    ASSUME TypeOK, NEW l \in Locks, NEW b \in 0..LLONG_MAX, Covers(l, b)
    PROVE  fl_start(l) <= b /\ b <= fl_end(l)
<1>1. req[l] \in Requests
  BY DEF TypeOK
<1>2. req[l] \in Request
  BY <1>1, ConstantsAssumption
<1>3. /\ req[l].l_start \in Nat /\ req[l].l_len \in Nat
      /\ LLONG_MAX \in Nat
      /\ req[l].l_start + req[l].l_len <= LLONG_MAX + 1
  BY <1>1, <1>2, ConstantsAssumption, RangesFit DEF Request
<1> QED
  BY <1>3 DEF Covers, fl_start, fl_end, Int64

\* Two requests with a byte in common overlap for inodelk_overlap.
LEMMA OverlapComplete ==
    ASSUME TypeOK, NEW l \in Locks, NEW m \in Locks,
           NEW b \in 0..LLONG_MAX, Covers(l, b), Covers(m, b)
    PROVE  inodelk_overlap(l, m)
<1>1. fl_start(l) <= b /\ b <= fl_end(l) /\ fl_start(m) <= b /\ b <= fl_end(m)
  BY CoversEnd
<1>2. /\ fl_start(l) \in Int /\ fl_end(l) \in Int
      /\ fl_start(m) \in Int /\ fl_end(m) \in Int
  <2>1. ASSUME NEW k \in Locks PROVE fl_start(k) \in Int /\ fl_end(k) \in Int
    <3>1. req[k] \in Request
      BY ConstantsAssumption DEF TypeOK
    <3>2. req[k].l_start \in Nat /\ req[k].l_len \in Nat /\ LLONG_MAX \in Nat
      BY <3>1, ConstantsAssumption DEF Request
    <3> QED
      BY <3>2 DEF fl_start, fl_end, Int64
  <2> QED
    BY <2>1
<1> QED
  BY <1>1, <1>2 DEF inodelk_overlap

\* The condition MutualExclusion puts on a pair of locks.
Exclusive(l, m) ==
    (\E b \in 0..LLONG_MAX : Covers(l, b) /\ Covers(m, b))
        => \/ same_inodelk_owner(l, m)
           \/ ~inodelk_type_conflict(l, m)

\* __inodelk_grantable lets a lock in only if it excludes nobody.
LEMMA GrantableExclusive ==
    ASSUME TypeOK, NEW l \in Locks, NEW m \in ToSet(inodelk_list), m \in Locks,
           inodelk_grantable(l)
    PROVE  Exclusive(l, m) /\ Exclusive(m, l)
<1>1. inodelk_conflict(l, m) => same_inodelk_owner(l, m)
  BY DEF inodelk_grantable
<1>2. (\E b \in 0..LLONG_MAX : Covers(l, b) /\ Covers(m, b)) => inodelk_overlap(l, m)
  BY OverlapComplete
<1>3. Exclusive(l, m)
  BY <1>1, <1>2 DEF Exclusive, inodelk_conflict
<1>4. /\ same_inodelk_owner(l, m) => same_inodelk_owner(m, l)
      /\ inodelk_type_conflict(m, l) => inodelk_type_conflict(l, m)
  BY DEF same_inodelk_owner, inodelk_type_conflict
<1> QED
  BY <1>3, <1>4 DEF Exclusive

\* Adding a grantable lock at the head of inodelk_list keeps the exclusion.
LEMMA GrantKeepsExclusion ==
    ASSUME TypeOK, MutualExclusion, NEW l \in Locks, inodelk_grantable(l),
           req' = req, inodelk_list' = Cons(l, inodelk_list)
    PROVE  MutualExclusion'
<1>1. ToSet(inodelk_list') = ToSet(inodelk_list) \cup {l}
  <2>1. inodelk_list \in Seq(Locks)
    BY DEF TypeOK
  <2>2. ToSet(Cons(l, inodelk_list)) = ToSet(inodelk_list) \cup {l}
    BY <2>1, ConsToSet
  <2> QED
    BY <2>2
<1>2. ToSet(inodelk_list) \subseteq Locks
  BY ElementOfSeq, LenProperties DEF TypeOK, ToSet
<1>3. ASSUME NEW j \in ToSet(inodelk_list'), NEW k \in ToSet(inodelk_list')
      PROVE  Exclusive(j, k)
  <2>1. CASE j # l /\ k # l
    BY <2>1, <1>1 DEF MutualExclusion, Exclusive
  <2>2. CASE j = l /\ k # l
    BY <2>2, <1>1, <1>2, GrantableExclusive
  <2>3. CASE j # l /\ k = l
    BY <2>3, <1>1, <1>2, GrantableExclusive
  <2>4. CASE j = l /\ k = l
    BY <2>4 DEF Exclusive, same_inodelk_owner
  <2> QED
    BY <2>1, <2>2, <2>3, <2>4
<1>4. ASSUME NEW j \in ToSet(inodelk_list'), NEW k \in ToSet(inodelk_list')
      PROVE  Exclusive(j, k)'
  BY <1>3, <1>4 DEF Exclusive, Covers, same_inodelk_owner, inodelk_type_conflict
<1> QED
  BY <1>4 DEF MutualExclusion, Exclusive

\* Taking locks off inodelk_list keeps the exclusion.
LEMMA ReleaseKeepsExclusion ==
    ASSUME MutualExclusion, req' = req,
           ToSet(inodelk_list') \subseteq ToSet(inodelk_list)
    PROVE  MutualExclusion'
  BY DEF MutualExclusion, Covers, same_inodelk_owner, inodelk_type_conflict

\* What one step does to inodelk_list.
LEMMA ListStep ==
    ASSUME TypeOK, [Next]_vars
    PROVE  \/ \E l \in Locks : ~MustWait(l) /\ inodelk_list' = Cons(l, inodelk_list)
           \/ ToSet(inodelk_list') \subseteq ToSet(inodelk_list)
<1>1. ASSUME NEW c \in Clients, Connect(c) \/ Disconnect(c)
      PROVE  inodelk_list' = inodelk_list
  BY <1>1 DEF Connect, Disconnect, lists
<1>2. ASSUME NEW l \in Locks, Submit(l) PROVE inodelk_list' = inodelk_list
  BY <1>2 DEF Submit, lists
<1>3. ASSUME NEW t \in Threads, NEW l \in Locks, SetLkGranted(t, l)
      PROVE  ~MustWait(l) /\ inodelk_list' = Cons(l, inodelk_list)
  BY <1>3 DEF SetLkGranted
<1>4. ASSUME NEW t \in Threads, NEW l \in Locks,
             SetLkBlocked(t, l) \/ SetLkRefused(t, l) \/ SetLkBadUnlock(t, l)
      PROVE  inodelk_list' = inodelk_list
  BY <1>4 DEF SetLkBlocked, SetLkRefused, SetLkBadUnlock
<1>5. ASSUME NEW t \in Threads, NEW l \in Locks, SetLkUnlock(t, l)
      PROVE  ToSet(inodelk_list') \subseteq ToSet(inodelk_list)
  <2>1. PICK i \in Matching(l) : inodelk_list' = RemoveAt(inodelk_list, i)
    BY <1>5 DEF SetLkUnlock
  <2> QED
    BY <2>1, RemoveAtSubset DEF Matching, TypeOK
<1>6. ASSUME NEW t \in Threads, Reply(t) PROVE inodelk_list' = inodelk_list
  BY <1>6 DEF Reply, lists
<1>7. ASSUME NEW t \in Threads, GrantOne(t)
      PROVE  \/ \E l \in Locks : ~MustWait(l) /\ inodelk_list' = Cons(l, inodelk_list)
             \/ inodelk_list' = inodelk_list
  <2>1. Head(blocked_list) \in Locks
    BY <1>7, HeadTailProperties DEF GrantOne, TypeOK
  <2> QED
    BY <1>7, <2>1 DEF GrantOne
<1>8. ASSUME NEW t \in Threads, GrantStart(t) \/ GrantEnd(t) \/ UnwindGranted(t)
                                  \/ UnrefGranted(t)
      PROVE  inodelk_list' = inodelk_list
  BY <1>8 DEF GrantStart, GrantEnd, UnwindGranted, UnrefGranted, lists
<1>9. ASSUME NEW t \in Threads, CleanupScan(t)
      PROVE  ToSet(inodelk_list') \subseteq ToSet(inodelk_list)
  <2>1. CASE inodelk_list' = inodelk_list
    BY <2>1
  <2>2. CASE \E i \in DOMAIN inodelk_list : inodelk_list' = RemoveAt(inodelk_list, i)
    BY <2>2, RemoveAtSubset DEF TypeOK
  <2> QED
    BY <1>9, <2>1, <2>2 DEF CleanupScan
<1>10. ASSUME NEW t \in Threads,
              \/ \E c \in Clients : CleanupStart(t, c)
              \/ CleanupScanned(t) \/ CleanupUnwind(t) \/ CleanupNext(t)
              \/ CleanupUnref(t) \/ CleanupEnd(t)
       PROVE  inodelk_list' = inodelk_list
  BY <1>10 DEF CleanupStart, CleanupScanned, CleanupUnwind, CleanupNext,
     CleanupUnref, CleanupEnd, lists
<1>11. CASE UNCHANGED vars
  BY <1>11 DEF vars, lists
<1> QED
  BY <1>1, <1>2, <1>3, <1>4, <1>5, <1>6, <1>7, <1>8, <1>9, <1>10, <1>11
     DEF Next, ThreadStep, SetLkStep, pl_inode_setlk, GrantStep, CleanupStep

\* Two owners never hold conflicting locks on a common byte, for any requests
\* whose ranges end within off_t (__inodelk_grantable, __lock_inodelk).
THEOREM Exclusion == Spec => []MutualExclusion
<1>1. Init => MutualExclusion
  BY DEF Init, MutualExclusion, ToSet
<1>2. ASSUME TypeOK, MutualExclusion, [Next]_vars PROVE MutualExclusion'
  <2>1. ASSUME NEW l \in Locks, ~MustWait(l), inodelk_list' = Cons(l, inodelk_list)
        PROVE  MutualExclusion'
    BY <1>2, <2>1, ReqConstant, GrantKeepsExclusion DEF MustWait
  <2>2. CASE ToSet(inodelk_list') \subseteq ToSet(inodelk_list)
    BY <1>2, <2>2, ReqConstant, ReleaseKeepsExclusion
  <2> QED
    BY <1>2, <2>1, <2>2, ListStep
<1> QED
  BY <1>1, <1>2, TypeCorrect, PTL DEF Spec

----------------------------------------------------------------------------
(* No lost wake-up.                                                        *)

\* A re-grant that is to come is still to come.
StillGrants == \A t \in Threads : WillGrant(t) => WillGrant(t)'

\* Nothing that a waiting lock waits for goes away without a re-grant to come.
LEMMA WakeupFrame ==
    ASSUME NoLostWakeup, StillGrants, req' = req,
           ToSet(inodelk_list) \subseteq ToSet(inodelk_list'),
           blocked_inodelks' = blocked_inodelks
    PROVE  NoLostWakeup'
<1> SUFFICES ASSUME \A t \in Threads : ~WillGrant(t)',
                    NEW i \in DOMAIN blocked_inodelks'
             PROVE  WaitsFor(i)'
  BY DEF NoLostWakeup
<1>1. WaitsFor(i)
  BY DEF NoLostWakeup, StillGrants
<1> QED
  BY <1>1 DEF WaitsFor, inodelk_conflict, inodelk_overlap, inodelk_type_conflict,
     same_inodelk_owner, fl_start, fl_end, Int64

\* A lock that joins the queue waits for something at that moment.
LEMMA WakeupAppend ==
    ASSUME TypeOK, NoLostWakeup, StillGrants, req' = req,
           inodelk_list' = inodelk_list,
           NEW l \in Locks, MustWait(l),
           blocked_inodelks' = Append(blocked_inodelks, l)
    PROVE  NoLostWakeup'
<1> SUFFICES ASSUME \A t \in Threads : ~WillGrant(t)',
                    NEW i \in DOMAIN blocked_inodelks'
             PROVE  WaitsFor(i)'
  BY DEF NoLostWakeup
<1> DEFINE b == blocked_inodelks
           n == Len(b)
<1>1. b \in Seq(Locks) /\ n \in Nat /\ DOMAIN b = 1..n
  BY LenProperties DEF TypeOK
<1>2. /\ i \in 1..(n + 1)
      /\ b'[n + 1] = l
      /\ \A j \in 1..n : b'[j] = b[j]
  BY <1>1, AppendFacts, LenProperties
<1>3. CASE i \in 1..n
  <2>1. WaitsFor(i)
    BY <1>1, <1>3 DEF NoLostWakeup, StillGrants
  <2>2. b'[i] = b[i] /\ \A j \in 1..(i - 1) : b'[j] = b[j]
    BY <1>1, <1>2, <1>3
  <2>3. CASE \E m \in ToSet(inodelk_list) :
                inodelk_conflict(b[i], m) /\ ~same_inodelk_owner(b[i], m)
    <3>1. PICK m \in ToSet(inodelk_list) :
             inodelk_conflict(b[i], m) /\ ~same_inodelk_owner(b[i], m)
      BY <2>3
    <3>2. inodelk_conflict(b[i], m)'
      BY <2>2, <3>1 DEF inodelk_conflict, inodelk_overlap, inodelk_type_conflict,
         fl_start, fl_end, Int64
    <3>3. ~same_inodelk_owner(b[i], m)'
      BY <2>2, <3>1 DEF same_inodelk_owner
    <3> QED
      BY <3>1, <3>2, <3>3 DEF WaitsFor
  <2>4. CASE \E j \in 1..(i - 1) : inodelk_conflict(b[i], b[j])
    <3>1. PICK j \in 1..(i - 1) : inodelk_conflict(b[i], b[j])
      BY <2>4
    <3>2. inodelk_conflict(b[i], b[j])'
      BY <2>2, <3>1 DEF inodelk_conflict, inodelk_overlap, inodelk_type_conflict,
         fl_start, fl_end, Int64
    <3> QED
      BY <3>2 DEF WaitsFor
  <2> QED
    BY <2>1, <2>3, <2>4 DEF WaitsFor
<1>4. CASE i = n + 1
  <2>1. b'[i] = l /\ \A j \in 1..n : j \in 1..(i - 1) /\ b'[j] = b[j]
    BY <1>1, <1>2, <1>4
  <2>2. CASE ~inodelk_grantable(l)
    <3>1. PICK m \in ToSet(inodelk_list) :
             inodelk_conflict(l, m) /\ ~same_inodelk_owner(l, m)
      BY <2>2 DEF inodelk_grantable
    <3>2. inodelk_conflict(b[i], m)'
      BY <2>1, <3>1 DEF inodelk_conflict, inodelk_overlap, inodelk_type_conflict,
         fl_start, fl_end, Int64
    <3>3. ~same_inodelk_owner(b[i], m)'
      BY <2>1, <3>1 DEF same_inodelk_owner
    <3> QED
      BY <3>1, <3>2, <3>3 DEF WaitsFor
  <2>3. CASE blocked_lock_conflict(l)
    <3>1. PICK j \in 1..n : inodelk_conflict(l, b[j])
      BY <1>1, <2>3 DEF blocked_lock_conflict, ToSet
    <3>2. inodelk_conflict(b[i], b[j])'
      BY <2>1, <3>1 DEF inodelk_conflict, inodelk_overlap, inodelk_type_conflict,
         fl_start, fl_end, Int64
    <3> QED
      BY <2>1, <3>1, <3>2 DEF WaitsFor
  <2> QED
    BY <2>2, <2>3 DEF MustWait
<1> QED
  BY <1>1, <1>2, <1>3, <1>4

\* The request handlers.
LEMMA SetLkWakeup ==
    ASSUME TypeOK, NoLostWakeup, req' = req, NEW t \in Threads, NEW l \in Locks,
           pl_inode_setlk(t, l)
    PROVE  NoLostWakeup'
<1>1. /\ pc[t] = "idle" /\ released' = released /\ unwind' = unwind
      /\ \A u \in Threads \ {t} : pc'[u] = pc[u]
  BY DEF pl_inode_setlk, SetLkGranted, SetLkBlocked, SetLkRefused, SetLkUnlock,
     SetLkBadUnlock, SetLk, GoTo, TypeOK
<1>2. StillGrants
  BY <1>1 DEF StillGrants, WillGrant
<1>3. CASE SetLkGranted(t, l)
  <2>1. ToSet(Cons(l, inodelk_list)) = ToSet(inodelk_list) \cup {l}
    BY ConsToSet DEF TypeOK
  <2>2. /\ ToSet(inodelk_list) \subseteq ToSet(inodelk_list')
        /\ blocked_inodelks' = blocked_inodelks
    BY <1>3, <2>1 DEF SetLkGranted
  <2> QED
    BY <1>2, <2>2, WakeupFrame
<1>4. CASE SetLkBlocked(t, l)
  <2>1. /\ inodelk_list' = inodelk_list /\ MustWait(l)
        /\ blocked_inodelks' = Append(blocked_inodelks, l)
    BY <1>4 DEF SetLkBlocked
  <2> QED
    BY <1>2, <2>1, WakeupAppend
<1>5. CASE SetLkRefused(t, l) \/ SetLkBadUnlock(t, l)
  <2>1. inodelk_list' = inodelk_list /\ blocked_inodelks' = blocked_inodelks
    BY <1>5 DEF SetLkRefused, SetLkBadUnlock
  <2> QED
    BY <1>2, <2>1, WakeupFrame
<1>6. CASE SetLkUnlock(t, l)
  <2>1. WillGrant(t)'
    BY <1>6 DEF SetLkUnlock, GoTo, WillGrant, TypeOK
  <2> QED
    BY <2>1 DEF NoLostWakeup
<1> QED
  BY <1>3, <1>4, <1>5, <1>6 DEF pl_inode_setlk

\* grant_blocked_inode_locks: it starts by emptying the queue.
LEMMA GrantWakeup ==
    ASSUME TypeOK, NoLostWakeup, req' = req, NEW t \in Threads, GrantStep(t)
    PROVE  NoLostWakeup'
<1>1. CASE GrantStart(t)
  <2>1. DOMAIN blocked_inodelks' = {}
    BY <1>1 DEF GrantStart
  <2> QED
    BY <2>1 DEF NoLostWakeup
<1>2. CASE GrantOne(t)
  <2> DEFINE bl == Head(blocked_list)
  <2>1. bl \in Locks
    BY <1>2, HeadTailProperties DEF GrantOne, TypeOK
  <2>2. StillGrants
    BY <1>2 DEF GrantOne, StillGrants, WillGrant
  <2>3. \/ /\ MustWait(bl)
           /\ blocked_inodelks' = Append(blocked_inodelks, bl)
           /\ inodelk_list' = inodelk_list
        \/ /\ inodelk_list' = Cons(bl, inodelk_list)
           /\ blocked_inodelks' = blocked_inodelks
    BY <1>2 DEF GrantOne
  <2> HIDE DEF bl
  <2>4. ToSet(Cons(bl, inodelk_list)) = ToSet(inodelk_list) \cup {bl}
    BY <2>1, ConsToSet DEF TypeOK
  <2>5. CASE inodelk_list' = Cons(bl, inodelk_list) /\ UNCHANGED blocked_inodelks
    <3>1. ToSet(inodelk_list) \subseteq ToSet(inodelk_list')
      BY <2>4, <2>5
    <3> QED
      BY <2>2, <2>5, <3>1, WakeupFrame
  <2>6. CASE /\ MustWait(bl)
             /\ blocked_inodelks' = Append(blocked_inodelks, bl)
             /\ inodelk_list' = inodelk_list
    BY <2>1, <2>2, <2>6, WakeupAppend
  <2> QED
    BY <2>3, <2>5, <2>6
<1>3. CASE GrantEnd(t) \/ UnwindGranted(t) \/ UnrefGranted(t)
  <2>1. inodelk_list' = inodelk_list /\ blocked_inodelks' = blocked_inodelks
    BY <1>3 DEF GrantEnd, UnwindGranted, UnrefGranted, lists
  <2>2. /\ pc[t] # "grant" /\ released' = released /\ unwind' = unwind
        /\ \A u \in Threads \ {t} : pc'[u] = pc[u]
    BY <1>3 DEF GrantEnd, UnwindGranted, UnrefGranted, TypeOK
  <2>3. StillGrants
    BY <2>2 DEF StillGrants, WillGrant
  <2> QED
    BY <2>1, <2>3, WakeupFrame
<1> QED
  BY <1>1, <1>2, <1>3 DEF GrantStep

\* pl_inodelk_client_cleanup: what it takes off a list it re-grants for.
LEMMA CleanupWakeup ==
    ASSUME TypeOK, NoLostWakeup, req' = req, NEW t \in Threads, CleanupStep(t)
    PROVE  NoLostWakeup'
<1>1. CASE CleanupScan(t)
  <2>1. WillGrant(t)'
    <3>1. PICK l \in lockers[cl[t]] :
             \/ released' = [released EXCEPT ![t] = @ \cup {l}]
             \/ unwind' = [unwind EXCEPT ![t] = @ \cup {l}]
      BY <1>1 DEF CleanupScan
    <3>2. l \in released'[t] \/ l \in unwind'[t]
      BY <3>1 DEF TypeOK
    <3> QED
      BY <3>2 DEF WillGrant
  <2> QED
    BY <2>1 DEF NoLostWakeup
<1>2. CASE CleanupUnwind(t)
  <2>1. PICK l \in unwind[t] : released' = [released EXCEPT ![t] = @ \cup {l}]
    BY <1>2 DEF CleanupUnwind
  <2>2. l \in released'[t]
    BY <2>1 DEF TypeOK
  <2>3. WillGrant(t)'
    BY <2>2 DEF WillGrant
  <2> QED
    BY <2>3 DEF NoLostWakeup
<1>3. CASE CleanupNext(t)
  <2>1. WillGrant(t)'
    BY <1>3 DEF CleanupNext, GoTo, WillGrant, TypeOK
  <2> QED
    BY <2>1 DEF NoLostWakeup
<1>4. CASE \/ \E c \in Clients : CleanupStart(t, c)
           \/ CleanupScanned(t) \/ CleanupUnref(t) \/ CleanupEnd(t)
  <2>1. inodelk_list' = inodelk_list /\ blocked_inodelks' = blocked_inodelks
    BY <1>4 DEF CleanupStart, CleanupScanned, CleanupUnref, CleanupEnd, lists
  <2>2. pc[t] # "grant" /\ released' = released /\ unwind' = unwind
    BY <1>4 DEF CleanupStart, CleanupScanned, CleanupUnref, CleanupEnd
  <2>3. \A u \in Threads \ {t} : pc'[u] = pc[u]
    BY <1>4 DEF CleanupStart, CleanupScanned, CleanupUnref, CleanupEnd, GoTo, TypeOK
  <2>4. StillGrants
    BY <2>2, <2>3 DEF StillGrants, WillGrant
  <2> QED
    BY <2>1, <2>4, WakeupFrame
<1> QED
  BY <1>1, <1>2, <1>3, <1>4 DEF CleanupStep

\* No wake-up is lost: unless a thread is about to run
\* grant_blocked_inode_locks, every waiting lock waits for something.
THEOREM WakeupsKept == Spec => []NoLostWakeup
<1>1. Init => NoLostWakeup
  BY DEF Init, NoLostWakeup
<1>2. ASSUME TypeOK, NoLostWakeup, [Next]_vars PROVE NoLostWakeup'
  <2>0. req' = req
    BY <1>2, ReqConstant
  <2>1. CASE \/ \E c \in Clients : Connect(c) \/ Disconnect(c)
             \/ \E l \in Locks : Submit(l)
             \/ UNCHANGED vars
    <3>1. /\ inodelk_list' = inodelk_list /\ blocked_inodelks' = blocked_inodelks
          /\ pc' = pc /\ released' = released /\ unwind' = unwind
      BY <2>1 DEF Connect, Disconnect, Submit, vars, lists, local
    <3>2. StillGrants
      BY <3>1 DEF StillGrants, WillGrant
    <3> QED
      BY <1>2, <2>0, <3>1, <3>2, WakeupFrame
  <2>2. ASSUME NEW t \in Threads, Reply(t) PROVE NoLostWakeup'
    <3>1. /\ inodelk_list' = inodelk_list /\ blocked_inodelks' = blocked_inodelks
          /\ released' = released /\ unwind' = unwind /\ pc[t] = "reply"
      BY <2>2 DEF Reply, lists
    <3>2. \A u \in Threads \ {t} : pc'[u] = pc[u]
      BY <1>2, <2>2 DEF Reply, GoTo, TypeOK
    <3>3. StillGrants
      BY <3>1, <3>2 DEF StillGrants, WillGrant
    <3> QED
      BY <1>2, <2>0, <3>1, <3>3, WakeupFrame
  <2> QED
    BY <1>2, <2>0, <2>1, <2>2, SetLkWakeup, GrantWakeup, CleanupWakeup
       DEF Next, ThreadStep, SetLkStep
<1> QED
  BY <1>1, <1>2, TypeCorrect, PTL DEF Spec
=============================================================================
