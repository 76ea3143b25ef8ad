----------------------------- MODULE MCCluster ------------------------------
(* Instances of Cluster for TLC.                                           *)
EXTENDS Cluster

\* All together, one cut off, or none reaching another.
MCNetworks ==
  {[n \in Nodes |-> IF n \in cut THEN n ELSE 0] : cut \in {{}, Nodes} \cup {{m} : m \in Nodes}}
MCLsns == {[n \in Nodes |-> 0]}
MCOrders == {<<3, 2, 1>>}
=============================================================================
