------------------------------ MODULE MCAfrLock ------------------------------
(* Instances of AfrLock.  Directory 2 is entry 3 of directory 1. *)
EXTENDS AfrLock

L(d, n) == [dir |-> d, basename |-> n]

Create(d, n) == <<L(d, n)>>
Rename(d1, n1, d2, n2) == <<L(d2, n2), L(d1, n1)>>
Rmdir2 == <<L(1, 3), L(2, NULL)>>

Run(a, b, c, f) == [lockees |-> [t1 |-> a, t2 |-> b, t3 |-> c], flaky |-> f]

Users == [t1 |-> "c1", t2 |-> "c2", t3 |-> "c2"]

(* Without faults: deadlock, starvation, names against whole directories. *)
Sound ==
  {Run(Rename(1, 1, 2, 2), Rename(2, 2, 1, 1), <<>>, {}),
   Run(Rename(1, 1, 2, 2), Rmdir2, <<>>, {}),
   Run(Rename(2, 1, 2, 2), Rmdir2, <<>>, {}),
   Run(Rmdir2, Create(2, 1), Create(2, 2), {})}

(* One connection to brick 0 breaks; brick 1 is steady. *)
Broken ==
  {Run(Rename(1, 1, 2, 2), Create(1, 1), <<>>, {<<"c1", 0>>}),
   Run(Rename(1, 1, 2, 2), Create(1, 1), <<>>, {<<"c2", 0>>})}

All == Sound \cup Broken
==============================================================================
