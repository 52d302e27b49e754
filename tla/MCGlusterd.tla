------------------------------ MODULE MCGlusterd ------------------------------
(* Instances of GlusterdTxn: three nodes, two volumes. *)
EXTENDS GlusterdTxn

(* Two commands, at nodes a and b. *)
Pair(a, b, links, fails) ==
  [node |-> [t1 |-> a, t2 |-> b, t3 |-> b],
   vol |-> [t1 |-> "v1", t2 |-> "v1", t3 |-> "v1"],
   links |-> links, fails |-> fails, together |-> FALSE, txns |-> {"t1", "t2"}]

(* Three, at nodes a, b and c, two of them on one volume. *)
Three(a, b, c, together) ==
  [node |-> [t1 |-> a, t2 |-> b, t3 |-> c],
   vol |-> [t1 |-> "v1", t2 |-> "v2", t3 |-> "v1"],
   links |-> {}, fails |-> {}, together |-> together, txns |-> Txns]

Links == {l \in Nodes \X Nodes : l[1] # l[2]}

(* Rivals for one volume; a connection breaks or a phase fails. *)
Rivals ==
  {Pair("n1", "n2", {l}, {}) : l \in Links}
    \cup {Pair("n1", "n2", {}, {<<n, ph>>}) : n \in Nodes, ph \in {"stage", "commit"}}

(* A node that tries again. *)
Again == {Pair("n1", "n1", {l}, {<<"n1", "stage">>}) : l \in {<<"n1", "n2">>, <<"n2", "n1">>}}

Sound == Rivals \cup Again \cup {Three("n1", "n2", "n3", FALSE)}

(* One node, two commands on two volumes at the same time. *)
Shared == {[Three("n1", "n1", "n2", TRUE) EXCEPT !.txns = {"t1", "t2"}]}
===============================================================================
