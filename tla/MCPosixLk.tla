----------------------------- MODULE MCPosixLk -----------------------------
EXTENDS PosixLk, TLC

CONSTANTS f1, f2, o1, o2, t1, t2, x1, x2, x3

R(f, o, type, start, len, wait) ==
    [fd |-> f, owner |-> o, l_type |-> type, l_start |-> start,
     l_len |-> len, can_block |-> wait]

\* Two processes of one client and one of another lock ranges that nest, touch
\* and run to the end of the file, upgrade, downgrade and unlock in the middle.
Ranges ==
    {R(f1, o1, "F_WRLCK", 0, 0, TRUE), R(f1, o1, "F_UNLCK", 1, 1, FALSE),
     R(f1, o2, "F_RDLCK", 1, 2, FALSE),
     R(f2, o1, "F_RDLCK", 0, 2, TRUE), R(f2, o1, "F_WRLCK", 1, 1, TRUE)}

\* A reader waits for a writer and overlaps another reader.
NextToReader ==
    {R(f1, o1, "F_WRLCK", 0, 1, FALSE), R(f1, o1, "F_UNLCK", 0, 1, FALSE),
     R(f1, o2, "F_RDLCK", 1, 1, FALSE), R(f2, o1, "F_RDLCK", 0, 2, TRUE)}

\* A writer turns its lock into a read lock that overlaps another reader's.
Downgrade ==
    {R(f2, o1, "F_RDLCK", 0, 1, FALSE), R(f1, o1, "F_WRLCK", 1, 2, FALSE),
     R(f1, o1, "F_RDLCK", 0, 0, FALSE)}

Switch == {<<f1, f2>>}
NoSwitch == {}

Symmetric == Permutations({t1, t2}) \cup Permutations({x1, x2, x3})
=============================================================================
