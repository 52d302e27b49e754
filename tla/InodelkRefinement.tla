------------------------- MODULE InodelkRefinement -------------------------
(***************************************************************************)
(* Inodelk implements LockService.  The queue of the abstract service is   *)
(* the blocked list together with what __grant_blocked_inode_locks has     *)
(* taken off it and not looked at yet.                                     *)
(***************************************************************************)
EXTENDS Inodelk

Service == INSTANCE LockService WITH
    up      <- {c \in Clients : cstate[c] = "up"},
    asked   <- queue,
    waiting <- WaitQueue,
    held    <- ToSet(inodelk_list),
    replied <- {l \in Locks : answers[l] = 1}

\* Every behaviour of inodelk.c is one of the lock service: nobody is granted
\* past a conflicting holder or an earlier conflicting waiter, an unlock takes
\* only a lock of its owner, a lock is dropped only with its connection, and a
\* request is answered once, after it is decided.
ImplementsLockService == Service!Spec
=============================================================================
