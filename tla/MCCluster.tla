------------------------------- MODULE MCCluster -------------------------------
(* Small instances of Cluster: two nodes; "a" is a service of node 1, "b" and *)
(* "c" are services of node 2.                                               *)
EXTENDS Cluster

TwoNodes == {1, 2}
ABC == {"a", "b", "c"}
TheEndpoints == [a |-> <<1>>, b |-> <<2>>, c |-> <<2>>]

\* Node 1 sends to two services behind one endpoint, node 2 sends back.
Three == {1, 2, 3}
TheNodes == <<1, 1, 2>>
TheNames == <<"b", "c", "a">>
FirstOnly == {1}
=============================================================================
