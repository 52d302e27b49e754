---------------------------- MODULE InodelkClear ----------------------------
(***************************************************************************)
(* Inodelk with the administrator's clear-locks command,                   *)
(* clrlk_clear_inodelk in features/locks/src/clear.c: it takes locks off   *)
(* the domain's lists whoever owns them, and re-grants.                    *)
(***************************************************************************)
EXTENDS Inodelk

VARIABLE sel  \* thread -> the locks that match the command's range

\* The locks the command asks for: all of them, or those of one exact range.
Selections == {Locks} \cup
    {{m \in Locks : /\ req[m].l_start = req[l].l_start
                    /\ req[m].l_len = req[l].l_len} : l \in Locks}

\* The command's options are parsed before a list is looked at.
ClearStart(t, kind) ==
    /\ pc[t] = "idle"
    /\ sel' \in {[sel EXCEPT ![t] = S] : S \in Selections}
    /\ pc' = [pc EXCEPT ![t] = kind]
    /\ UNCHANGED <<locks, lists, mutexes, rq, cl, granted, todo, released, unwind,
                   clients>>

\* kind=blocked or kind=all: the waiting locks that match, in one critical
\* section.
ClearBlocked(t) ==
    /\ pc[t] \in {"blocked", "all"}
    /\ mutex = NoThread
    /\ blocked_inodelks' = SelectSeq(blocked_inodelks, LAMBDA l : l \notin sel[t])
    /\ unwind' = [unwind EXCEPT ![t] = ToSet(blocked_inodelks) \cap sel[t]]
    /\ pc' = [pc EXCEPT ![t] = IF @ = "all" THEN "clr_all" ELSE "clr_blocked"]
    /\ UNCHANGED <<locks, inodelk_list, blocked_list, lockers, mutexes, rq, cl,
                   granted, todo, released, clients>>

\* Unwind one of them with EAGAIN and drop a reference, without the mutex.
ClearUnwind(t) ==
    /\ pc[t] \in {"clr_blocked", "clr_all"}
    /\ \E l \in unwind[t] :
         /\ Answer(l)
         /\ ref' = [ref EXCEPT ![l] = @ - 1]
         /\ unwind' = [unwind EXCEPT ![t] = @ \ {l}]
    /\ UNCHANGED <<req, queue, frame, lists, mutexes, pc, rq, cl, granted, todo,
                   released, cstate>>

\* kind=granted, or the second half of kind=all.
ClearGranted(t) ==
    /\ \/ pc[t] = "granted"
       \/ pc[t] = "clr_all" /\ unwind[t] = {}
    /\ mutex = NoThread
    /\ inodelk_list' = SelectSeq(inodelk_list, LAMBDA l : l \notin sel[t])
    /\ released' = [released EXCEPT ![t] = ToSet(inodelk_list) \cap sel[t]]
    /\ pc' = [pc EXCEPT ![t] = "clr_granted"]
    /\ UNCHANGED <<locks, blocked_inodelks, blocked_list, lockers, mutexes, rq, cl,
                   granted, todo, unwind, clients>>

ClearUnref(t) ==
    /\ pc[t] = "clr_granted"
    /\ \E l \in released[t] :
         /\ ref' = [ref EXCEPT ![l] = @ - 1]
         /\ released' = [released EXCEPT ![t] = @ \ {l}]
    /\ UNCHANGED <<req, queue, answers, frame, lists, mutexes, pc, rq, cl, granted,
                   todo, unwind, clients>>

\* At the end of the function: grant_blocked_inode_locks.
ClearGrant(t) ==
    /\ pc[t] \in {"clr_blocked", "clr_granted"}
    /\ released[t] \cup unwind[t] = {}
    /\ pc' = [pc EXCEPT ![t] = "grant"]
    /\ UNCHANGED <<locks, lists, mutexes, rq, cl, granted, todo, released, unwind,
                   clients>>

ClearStep(t) ==
    \/ \E kind \in {"blocked", "granted", "all"} : ClearStart(t, kind)
    \/ /\ UNCHANGED sel
       /\ \/ ClearBlocked(t)
          \/ ClearUnwind(t)
          \/ ClearGranted(t)
          \/ ClearUnref(t)
          \/ ClearGrant(t)

ClearInit == Init /\ sel = [t \in Threads |-> {}]

ClearNext == \/ Next /\ UNCHANGED sel
             \/ \E t \in Threads : ClearStep(t)

ClearSpec == ClearInit /\ [][ClearNext]_<<vars, sel>>

----------------------------------------------------------------------------
\* clear.c, at both unrefs: "No need to take lock as the locks are only in one
\* list".  A lock that the command has taken off its list is on no other list:
\* neither its client's list of lockers nor a thread's list of granted locks.
OnlyInOneList ==
    \A t \in Threads : pc[t] \in {"clr_blocked", "clr_all", "clr_granted"} =>
        \A l \in released[t] \cup unwind[t] :
            /\ \A c \in Clients : l \notin lockers[c]
            /\ \A u \in Threads : l \notin granted[u]
=============================================================================
