----------------------------- MODULE MCCluster -----------------------------
(***************************************************************************)
(* Clusters the membership specification is checked on.                    *)
(***************************************************************************)
EXTENDS ClusterMembership, TLC

CONSTANTS n1, n2

\* n1 is the seed: the other nodes list it as their peer, it lists nobody.
SeedPeers == [i \in Nodes |-> IF i = n1 THEN {} ELSE {n1}]

\* Every node advertises the address it can be reached at.
OwnBind == [i \in Nodes |-> i]
=============================================================================
