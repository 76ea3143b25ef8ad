-------------------------- MODULE MCClusterMonitor --------------------------
(* Instances of ClusterMonitor for TLC, without a main thread.             *)
EXTENDS ClusterMonitor

Both == [remote |-> {1, 3}, observers |-> {}, warnOnly |-> TRUE]
MCOne == {Both}
MCTwo == {Both, [Both EXCEPT !.remote = {1}], [Both EXCEPT !.remote = {3}]}
MCSameLsn == {[n \in Nodes |-> 0]}
=============================================================================
