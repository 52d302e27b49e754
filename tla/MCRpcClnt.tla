----------------------------- MODULE MCRpcClnt -----------------------------
(* Instances of RpcClnt for TLC.                                            *)
EXTENDS RpcClnt

Case(requests, ready, breaks, early, hang, slow, disable) ==
    [requests |-> requests, attached |-> ready, breaks |-> breaks,
     early |-> early, hang |-> hang, slow |-> slow, disable |-> disable]

\* Two requests on a connection that lasts.
Steady == Case({"f1", "l1"}, TRUE, 0, 0, FALSE, FALSE, FALSE)

\* The handshake; the server may be slow and may fall silent.
Silent == Case({"f1"}, FALSE, 0, 0, TRUE, TRUE, FALSE)

\* A waiting lock on a connection that breaks, and whose server may fall silent.
Broken == Case({"l1"}, TRUE, 1, 0, TRUE, FALSE, FALSE)

\* A connect that fails before there is a socket.
Early == Case({"l1"}, FALSE, 0, 1, FALSE, FALSE, FALSE)

\* The graph is torn down: with a lost connection, with requests that time out.
DownBroken == Case({"l1"}, TRUE, 1, 0, FALSE, FALSE, TRUE)
DownSlow == Case({"f1"}, TRUE, 0, 0, FALSE, TRUE, TRUE)

AllCases == {Steady, Silent, Broken, Early, DownBroken, DownSlow}

OnlySilent == {Silent}
=============================================================================
