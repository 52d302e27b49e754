---------------------------- MODULE LockService ----------------------------
(***************************************************************************)
(* What the inode locks of a domain promise their clients, without lists,  *)
(* threads, reference counts or cleanups: a lock is granted only when      *)
(* nobody else holds a conflicting one and not past a conflicting lock     *)
(* that waits longer, unless its owner is already in; only its owner, or   *)
(* the loss of its connection, takes a lock away.                          *)
(***************************************************************************)
EXTENDS Integers, SequencesExt

CONSTANTS Clients, Locks, Requests, LLONG_MAX

VARIABLES
    req,      \* lock -> the request
    up,       \* connected clients
    asked,    \* requests made and not looked at yet
    waiting,  \* locks that wait, in order
    held,     \* locks that are held
    replied   \* requests that have their answer

vars == <<req, up, asked, waiting, held, replied>>

IsLock(l) == req[l].fl_type # "F_UNLCK"

Bytes(l) == {b \in 0..LLONG_MAX : /\ b >= req[l].l_start
                                  /\ req[l].l_len = 0 \/ b < req[l].l_start + req[l].l_len}

SameOwner(l, m) == req[l].owner = req[m].owner /\ req[l].client = req[m].client

Conflict(l, m) == /\ Bytes(l) \cap Bytes(m) # {}
                  /\ "F_WRLCK" \in {req[l].fl_type, req[m].fl_type}

\* May l be granted, with the locks "ahead" waiting longer?
Free(l, ahead) ==
    /\ \A m \in held : Conflict(l, m) => SameOwner(l, m)
    /\ \/ \A m \in ahead : ~Conflict(l, m)
       \/ \E m \in held \cup ahead : SameOwner(l, m)

Init == /\ req \in [Locks -> Requests]
        /\ up = {} /\ asked = {} /\ waiting = <<>> /\ held = {} /\ replied = Locks

Connection(c) ==
    /\ \/ c \notin up /\ up' = up \cup {c}
       \/ c \in up /\ up' = up \ {c}
    /\ UNCHANGED <<req, asked, waiting, held, replied>>

Ask(l) ==
    /\ req[l].client \in up
    /\ l \in replied \ held
    /\ asked' = asked \cup {l}
    /\ replied' = replied \ {l}
    /\ UNCHANGED <<req, up, waiting, held>>

Take(l) == l \in asked /\ asked' = asked \ {l} /\ UNCHANGED <<req, up, replied>>

Grant(l) ==
    /\ Take(l)
    /\ IsLock(l) /\ Free(l, ToSet(waiting))
    /\ held' = held \cup {l}
    /\ UNCHANGED waiting

Block(l) ==
    /\ Take(l)
    /\ IsLock(l) /\ ~Free(l, ToSet(waiting)) /\ req[l].can_block
    /\ waiting' = Append(waiting, l)
    /\ UNCHANGED held

Refuse(l) ==
    /\ Take(l)
    /\ IsLock(l) /\ ~Free(l, ToSet(waiting)) /\ ~req[l].can_block
    /\ UNCHANGED <<waiting, held>>

\* Locks an unlock request is about: the same owner and the same bytes.
Target(l) == {m \in held : SameOwner(l, m) /\ Bytes(l) = Bytes(m)}

Unlock(l) ==
    /\ Take(l)
    /\ ~IsLock(l)
    /\ IF Target(l) = {} THEN UNCHANGED held
       ELSE \E m \in Target(l) : held' = held \ {m}
    /\ UNCHANGED waiting

GrantWaiting(i) ==
    /\ Free(waiting[i], {waiting[j] : j \in 1..(i - 1)})
    /\ held' = held \cup {waiting[i]}
    /\ waiting' = RemoveAt(waiting, i)
    /\ UNCHANGED <<req, up, asked, replied>>

\* The client has lost its connection, and with it its locks.
Drop(l) ==
    /\ req[l].client \notin up
    /\ \/ /\ l \in held
          /\ held' = held \ {l}
          /\ UNCHANGED waiting
       \/ \E i \in DOMAIN waiting : /\ waiting[i] = l
                                    /\ waiting' = RemoveAt(waiting, i)
                                    /\ UNCHANGED held
    /\ UNCHANGED <<req, up, asked, replied>>

\* Nobody is answered before it is decided, and nobody twice.
Reply(l) ==
    /\ l \notin asked \cup ToSet(waiting) \cup replied
    /\ replied' = replied \cup {l}
    /\ UNCHANGED <<req, up, asked, waiting, held>>

Next == \/ \E c \in Clients : Connection(c)
        \/ \E l \in Locks : \/ Ask(l) \/ Grant(l) \/ Block(l) \/ Refuse(l)
                            \/ Unlock(l) \/ Drop(l) \/ Reply(l)
        \/ \E i \in DOMAIN waiting : GrantWaiting(i)

Spec == Init /\ [][Next]_vars
=============================================================================
