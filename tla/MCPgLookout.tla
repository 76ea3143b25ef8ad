---------------------------- MODULE MCPgLookout -----------------------------
(***************************************************************************)
(* Instances of PgLookout and ClusterMonitor for TLC.  Each set of         *)
(* configurations below belongs to one run.                                *)
(***************************************************************************)
EXTENDS PgLookout

Pair == [remote |-> {1, 3}, observers |-> {}, gone |-> {}, never |-> {},
         onDisconnect |-> TRUE, warnOnly |-> FALSE, autofollow |-> FALSE]

MCWarnOnly == {[Pair EXCEPT !.warnOnly = TRUE, !.observers = {3}]}
MCObservers == {[Pair EXCEPT !.observers = {1}]}
MCReload == {[Pair EXCEPT !.autofollow = TRUE, !.onDisconnect = FALSE, !.warnOnly = TRUE],
             [Pair EXCEPT !.autofollow = TRUE, !.remote = {1, 2}]}

MCSameLsn == {[n \in Nodes |-> 0]}
=============================================================================
