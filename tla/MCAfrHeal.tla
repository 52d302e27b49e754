----------------------------- MODULE MCAfrHeal ------------------------------
(* Small instances of AfrHeal for TLC.                                      *)
EXTENDS AfrHeal

CONSTANTS c1, c2, shd, x1, x2

OneMount == [x \in Txns |-> c1]
TwoMounts == [x \in Txns |-> IF x = x1 THEN c1 ELSE c2]

AllUp(n) == [c \in Clients |-> 1..n]

\* Some clients cannot reach brick 2.
Cut(n, who) == [c \in Clients |-> IF c \in who THEN (1..n) \ {2} ELSE 1..n]

Calm(n) ==
    [child_count |-> n, quorum_count |-> 0, delayed_post_op |-> FALSE,
     mount |-> OneMount, errors |-> {}, phases |-> {}, networks |-> {AllUp(n)},
     changes |-> 0, failures |-> 0, crashing |-> {}]

\* Only x1 is written: the other client reaches no brick.
Alone(n) == {[AllUp(n) EXCEPT ![c2] = {}]}

AnyVolume(v) ==
    CASE v = "cut" ->     \* a brick goes and comes back
           [Calm(2) EXCEPT !.networks = {AllUp(2), Cut(2, Clients)}, !.changes = 2]
      [] v = "crash" ->   \* the same, and a client crashes
           [Calm(2) EXCEPT !.mount = TwoMounts, !.crashing = {c2},
                           !.networks = {AllUp(2), Cut(2, Clients)}, !.changes = 2]
      [] v = "power" ->   \* a brick loses power and comes back
           [Calm(2) EXCEPT !.failures = 1, !.changes = 1]
      [] v = "errors" ->  \* quorum, one write that fails on a brick
           [Calm(2) EXCEPT !.quorum_count = AFR_QUORUM_AUTO, !.mount = TwoMounts,
                           !.networks = Alone(2), !.errors = {"EIO"},
                           !.phases = {"fop", "fsync", "post_op"}]
      [] v \in {"three", "write"} ->  \* one write to three bricks, the client crashes
           [Calm(3) EXCEPT !.mount = TwoMounts, !.networks = Alone(3), !.crashing = {c1}]
      [] v = "source" ->  \* a client cannot reach a brick that the healer reaches
           [Calm(2) EXCEPT !.networks = {AllUp(2), Cut(2, {c1})}, !.changes = 1]
      [] v = "overdue" -> \* a client crashes
           [Calm(2) EXCEPT !.mount = TwoMounts, !.networks = Alone(2), !.crashing = {c1}]

Apart == [x \in Txns |-> IF x = x1 THEN 1 ELSE 2]
Together == [x \in Txns |-> 1]

Plain == [block |-> Together, refusals |-> {}, errors |-> 0, deaths |-> 0,
          overdue |-> FALSE]

AnyHeal(v) ==
    CASE v = "cut" -> [Plain EXCEPT !.deaths = 1, !.refusals = {"short"}, !.errors = 1]
      [] v = "crash" -> [Plain EXCEPT !.block = Apart, !.refusals = {"truncate", "write", "fsync"},
                                      !.errors = 1]
      [] v = "write" -> [Plain EXCEPT !.refusals = {"write"}, !.errors = 1]
      [] v = "overdue" -> [Plain EXCEPT !.overdue = TRUE]
      [] OTHER -> Plain

Chosen == [v \in Volumes |-> AnyVolume(v)]
ChosenHeal == [v \in Volumes |-> AnyHeal(v)]

FairHealSpec == HealSpec /\ HealFairness
=============================================================================
