------------------------------- MODULE MCAfr --------------------------------
(* Small instances of AfrTransaction for TLC.                               *)
EXTENDS AfrTransaction, TLC

CONSTANTS c1, c2, x1, x2, x3

\* One mount; two, as in the scenario of the comment in afr_handle_quorum:
\* mounts on the machines of the bricks.
OneMount == [x \in Txns |-> c1]
TwoMounts == [x \in Txns |-> IF x = x1 THEN c1 ELSE c2]

AllUp(n) == {[c \in Clients |-> 1..n]}

\* The first client may lose brick 2.
OneLost == AllUp(2) \cup {[c \in Clients |-> IF c = c1 THEN {1} ELSE 1..2]}

\* The machine of the first brick is cut off.
CutOff == AllUp(3) \cup {[c \in Clients |-> IF c = c1 THEN {1} ELSE {2, 3}]}

\* A volume on which nothing happens but writes.
Calm(n, quorum, delayed, mounts) ==
    [child_count |-> n, quorum_count |-> quorum, delayed_post_op |-> delayed,
     mount |-> mounts, errors |-> {}, phases |-> {}, networks |-> AllUp(n),
     changes |-> 0, failures |-> 0, crashing |-> {}]

AnyVolume(v) ==
    CASE v = "piggyback" ->  \* delayed post-ops, a lost connection, a crash
           [Calm(2, 0, TRUE, OneMount) EXCEPT !.networks = OneLost, !.changes = 1,
                                              !.crashing = {c1}]
      [] v = "power" ->      \* no delay, a power failure and a crash
           [Calm(2, 0, FALSE, OneMount) EXCEPT !.failures = 1, !.crashing = {c1}]
      [] v = "errors" ->     \* quorum, errors of the bricks, perhaps no connection
           [Calm(2, AFR_QUORUM_AUTO, FALSE, TwoMounts) EXCEPT
               !.errors = {"EIO", "short"}, !.phases = {"fop", "fsync", "post_op"},
               !.networks = OneLost]
      [] v = "split" ->      \* three bricks, quorum, the network splits
           [Calm(3, AFR_QUORUM_AUTO, FALSE, TwoMounts) EXCEPT
               !.networks = CutOff, !.changes = 1]
      [] v = "delayed" ->    \* quorum, delayed post-ops, errors, lost connections
           [Calm(2, AFR_QUORUM_AUTO, TRUE, OneMount) EXCEPT
               !.errors = {"EIO"}, !.phases = {"fop"}, !.networks = OneLost,
               !.changes = 1]
      [] v = "undirty" ->    \* quorum, delayed post-ops, errors
           [Calm(2, AFR_QUORUM_AUTO, TRUE, OneMount) EXCEPT
               !.errors = {"EIO"}, !.phases = {"fop"}]
      [] v = "fsync" ->      \* delayed post-ops, errors
           [Calm(2, 0, TRUE, OneMount) EXCEPT !.errors = {"EIO"}, !.phases = {"fop"}]
      [] v = "nosync" ->     \* delayed post-ops, a power failure
           [Calm(2, 0, TRUE, OneMount) EXCEPT !.failures = 1]

Chosen == [v \in Volumes |-> AnyVolume(v)]

FairSpec == Spec /\ Fairness

Perms == Permutations(Txns)
=============================================================================
