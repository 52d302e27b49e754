------------------------------- MODULE Entrylk -------------------------------
(***************************************************************************)
(* The entry locks of one domain of one directory (features/locks,         *)
(* entrylk.c): what a critical section of pl_inode->mutex does to the      *)
(* domain.  A domain is a record of the lists entrylk_list and             *)
(* blocked_entrylks.  A lock has the fields basename (NULL for all names), *)
(* owner and client, and cookie, the request its frame answers.  Every     *)
(* caller asks for ENTRYLK_WRLCK, so the type of a lock is left out.       *)
(***************************************************************************)
EXTENDS Naturals, Sequences, SequencesExt

CONSTANT NULL    \* the basename of a lock on all names

EmptyDomain == [entrylk_list |-> <<>>, blocked_entrylks |-> <<>>]

names_conflict(n1, n2) == n1 = NULL \/ n2 = NULL \/ n1 = n2

same_entrylk_owner(l1, l2) == l1.owner = l2.owner /\ l1.client = l2.client

GrantableByName(dom, lock) ==
  \A l \in ToSet(dom.entrylk_list) : l.basename # lock.basename

(* A held lock on a conflicting name stands in the way, its owner's too. *)
entrylk_grantable(dom, lock) ==
  \A l \in ToSet(dom.entrylk_list) : ~names_conflict(l.basename, lock.basename)

blocked_entrylk_conflict(dom, lock) ==
  \E l \in ToSet(dom.blocked_entrylks) : names_conflict(l.basename, lock.basename)

owner_has_lock(dom, newlock) ==
  \E l \in ToSet(dom.entrylk_list) \cup ToSet(dom.blocked_entrylks) :
    same_entrylk_owner(l, newlock)

Granted(dom, lock) ==
  /\ entrylk_grantable(dom, lock)
  /\ blocked_entrylk_conflict(dom, lock) => owner_has_lock(dom, lock)

lock_entrylk(dom, lock, nonblock) ==
  IF Granted(dom, lock) THEN [dom EXCEPT !.entrylk_list = <<lock>> \o @]
  ELSE IF nonblock THEN dom
  ELSE [dom EXCEPT !.blocked_entrylks = Append(@, lock)]

(* The held locks on exactly this name; find_most_matching_lock keeps the *)
(* last one it meets.  Neither owner nor client is compared.              *)
Matching(dom, basename) ==
  {i \in DOMAIN dom.entrylk_list : dom.entrylk_list[i].basename = basename}

unlock_entrylk(dom, basename) ==
  LET found == Matching(dom, basename)
  IN IF found = {} THEN dom
     ELSE [dom EXCEPT !.entrylk_list =
             RemoveAt(@, CHOOSE i \in found : \A j \in found : j <= i)]

(* Every blocked lock is tried again, in the order of the queue. *)
grant_blocked_entry_locks(dom) ==
  FoldLeft(LAMBDA d, l : lock_entrylk(d, l, FALSE),
           [dom EXCEPT !.blocked_entrylks = <<>>], dom.blocked_entrylks)

(* What pl_entrylk_client_cleanup takes off the lists. *)
pl_entrylk_client_cleanup(dom, client) ==
  LET others(list) == SelectSeq(list, LAMBDA l : l.client # client)
  IN [entrylk_list |-> others(dom.entrylk_list),
      blocked_entrylks |-> others(dom.blocked_entrylks)]
==============================================================================
