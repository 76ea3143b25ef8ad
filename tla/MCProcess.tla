----------------------------- MODULE MCProcess ------------------------------
(***************************************************************************)
(* Instances of Process for TLC: the other node moves, autofollow is       *)
(* turned on or off, or no node is left and the log level may be wrong.    *)
(***************************************************************************)
EXTENDS Process, TLC

MCConfigs ==
  {[autofollow |-> TRUE, logLevel |-> TRUE, address |-> (1 :> "b" @@ 2 :> "b")],
   [autofollow |-> FALSE, logLevel |-> TRUE, address |-> (1 :> "b" @@ 2 :> "c")],
   [autofollow |-> TRUE, logLevel |-> TRUE, address |-> [n \in {} |-> "b"]],
   [autofollow |-> TRUE, logLevel |-> FALSE, address |-> [n \in {} |-> "b"]]}
=============================================================================
