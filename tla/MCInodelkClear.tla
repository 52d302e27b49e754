--------------------------- MODULE MCInodelkClear ---------------------------
(* A small instance of InodelkClear for TLC.                                *)
EXTENDS InodelkClear

CONSTANTS c1, c2, o1

WholeFile == {[client |-> c, owner |-> o1, l_start |-> 0, l_len |-> 0,
               fl_type |-> "F_WRLCK", can_block |-> TRUE] : c \in {c1, c2}}
=============================================================================
