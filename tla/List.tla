-------------------------------- MODULE List --------------------------------
(***************************************************************************)
(* The lists of libglusterfs (libglusterfs/src/list.h) as sequences, from  *)
(* the entry after the head to the last one.  list_add_tail is Append, the *)
(* entries of l are Range(l).                                              *)
(*                                                                         *)
(* SequencesExt has operators like these, but it extends Bags and through  *)
(* it the theorems about finite sets and sequences, which every obligation *)
(* of a proof would carry along.                                           *)
(***************************************************************************)
EXTENDS Integers, Sequences, Functions

\* list_del and list_del_init of the i-th entry.
list_del(l, i) == SubSeq(l, 1, i - 1) \o SubSeq(l, i + 1, Len(l))

\* list_for_each_entry up to the first entry e, which is deleted.
IsFirst(l, e, i) == l[i] = e /\ \A j \in 1..(i - 1) : l[j] # e

find_del(l, e) ==
    IF \E i \in DOMAIN l : IsFirst(l, e, i)
    THEN list_del(l, CHOOSE i \in DOMAIN l : IsFirst(l, e, i))
    ELSE l

\* list_add of every entry, in order, to a list that was empty.
moved(l) == [i \in 1..Len(l) |-> l[Len(l) - i + 1]]
=============================================================================
