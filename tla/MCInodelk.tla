----------------------------- MODULE MCInodelk -----------------------------
(* Small instances of Inodelk for TLC.                                      *)
EXTENDS InodelkRefinement, TLC

CONSTANTS c1, c2, o1, o2

R(c, o, start, len, type, block) ==
    [client |-> c, owner |-> o, l_start |-> start, l_len |-> len,
     fl_type |-> type, can_block |-> block]

\* Two clients write-lock the whole file, one of them also without waiting;
\* the other one unlocks.
WholeFile ==
    {R(c, o1, 0, 0, "F_WRLCK", TRUE) : c \in {c1, c2}}
        \cup {R(c1, o1, 0, 0, "F_UNLCK", FALSE),
              R(c2, o1, 0, 0, "F_WRLCK", FALSE)}

\* Ranges that touch, nest and run to the end of the file, read and write
\* locks, two owners on one connection, a try-lock of the whole file.
Ranges ==
    {R(c1, o1, 0, 2, "F_WRLCK", TRUE), R(c1, o1, 0, 2, "F_UNLCK", FALSE),
     R(c1, o2, 1, 0, "F_RDLCK", TRUE), R(c2, o1, 1, 1, "F_RDLCK", TRUE),
     R(c2, o2, 0, 0, "F_WRLCK", FALSE)}

\* Everyone asks for the whole file and never unlocks; the connections other
\* than c1's do not last for ever.
Crashing == {R(c, o1, 0, 0, "F_WRLCK", TRUE) : c \in Clients}

CrashInit == Init /\ \A l, m \in Locks : l # m => req[l].client # req[m].client

CrashSpec ==
    /\ CrashInit
    /\ [][Next]_vars
    /\ Fairness
    /\ \A c \in Clients \ {c1} : WF_vars(Disconnect(c))

\* While the others connect, take the lock and crash again and again, a request
\* of c1 is answered: no wake-up is lost and nobody overtakes it for ever.
RequestServed ==
    \A l \in Locks : (req[l].client = c1 /\ l \in queue) ~> answers[l] = 1

Perms == Permutations(Locks) \cup Permutations(Threads)
=============================================================================
