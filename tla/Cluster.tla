------------------------------ MODULE Cluster -------------------------------
(***************************************************************************)
(* Several pglookouts, one beside each standby, over one set of databases  *)
(* and one network that may be cut and healed.  Each decides alone, by     *)
(* FailoverDecision and NodeMap, on what its own monitor has polled.       *)
(*                                                                         *)
(* A daemon is reduced to the steps at which others can overtake it: a     *)
(* poll, the check that asks for a refresh, the decision after it, and the *)
(* end of failover_command.  The refresh is what CheckHandshake promises:  *)
(* every node polled after the request.  Since it takes less than the 20   *)
(* seconds of get_replication_positions, entries keep no fetch time here.  *)
(* Contact is an age, 0 for the present, counted down to -FailoverLag:     *)
(* the clock never ends and the states are finite.                         *)
(***************************************************************************)
EXTENDS Integers, Sequences, FiniteSets

CONSTANTS Nodes,          \* names of database nodes, numbers ordered as names
          Daemons,        \* those with a pglookout that takes decisions
          None,
          Networks,       \* the networks there may be: nodes to their part
          InitPrimary,    \* the primary at first
          InitLsns,       \* how far the nodes may be at first
          Orders,         \* orders in which the first polls may have come in
          FailoverLag,    \* max_failover_replication_time_lag
          MaxLsn,         \* bound on WAL positions
          MaxFaults       \* bound on deaths and changes of the network

ASSUME NodesAssumption ==
  Nodes \subseteq Nat /\ IsFiniteSet(Nodes) /\ Daemons \subseteq Nodes /\ InitPrimary \in Nodes

\* Python's None is no number: no contact is not a contact long ago.
ASSUME NoneAssumption == None \notin Int

\* A dictionary lists each of its keys, in the order of their insertion.
ASSUME OrdersAssumption ==
  \A keys \in Orders : keys \in Seq(Nodes) /\ Nodes \subseteq {keys[i] : i \in 1..Len(keys)}

ASSUME BoundsAssumption ==
  FailoverLag \in Nat /\ MaxLsn \in Nat /\ MaxFaults \in Nat /\ InitLsns \subseteq [Nodes -> 0..MaxLsn]

VARIABLES
  alive, primary, lsn,    \* external: the databases
  network,                \* external: nodes in the same part reach each other
  faults,
  \* Of every daemon: cluster_state, the order of its keys, current_master.
  view, order, currentMaster,
  \* "idle", "refreshing" (in the get() of consider_failover) or "promoting"
  \* (running failover_command).
  phase,
  \* The nodes not polled since the request of a daemon that is refreshing.
  unpolled,
  \* History: who ran failover_command; and from a daemon's request to the end
  \* of its check, the nodes in its part that changed neither role, position
  \* nor part; and the daemons since whose last request (their last one
  \* before promoting themselves) a standby has received WAL while they decided;
  \* and whose positions those that promote themselves have compared.
  promoted, steady, raced, rivals

world == <<alive, primary, lsn, network, faults>>
daemons == <<view, order, currentMaster, phase, unpolled>>
history == <<promoted, steady, raced, rivals>>
vars == <<world, daemons, history>>

Daemon(d) == INSTANCE FailoverDecision WITH Own <- d, PollInterval <- 1, FreshLimit <- 1

Reached(d) == {n \in alive : network[n] = network[d]}

Reading(n) ==
  IF n \in primary
  THEN [conn |-> TRUE, role |-> "primary", fetched |-> 0, contact |-> 0, lsn |-> 0]
  ELSE [conn |-> TRUE, role |-> "standby", fetched |-> 0, contact |-> None, lsn |-> lsn[n]]

Ages == -FailoverLag..0

Entries == [conn : BOOLEAN, role : {"standby", "primary", "unknown"}, fetched : {0},
            contact : Ages \cup {None}, lsn : 0..MaxLsn]

TypeOK ==
  /\ alive \subseteq Nodes /\ primary \subseteq Nodes /\ promoted \subseteq Daemons /\ raced \subseteq Daemons
  /\ lsn \in [Nodes -> 0..MaxLsn]
  /\ network \in Networks
  /\ faults \in 0..MaxFaults
  /\ view \in [Daemons -> [Nodes -> Entries]]
  /\ order \in [Daemons -> Orders]
  /\ currentMaster \in [Daemons -> Nodes \cup {None}]
  /\ phase \in [Daemons -> {"idle", "refreshing", "promoting"}]
  /\ unpolled \in [Daemons -> SUBSET Nodes] /\ steady \in [Daemons -> SUBSET Nodes]
  /\ rivals \in [Daemons -> SUBSET Nodes]

\* Every daemon has polled everybody and seen the master.
Init ==
  /\ alive = Nodes /\ primary = {InitPrimary} /\ lsn \in InitLsns
  /\ network \in Networks /\ \A m, n \in Nodes : network[m] = network[n]
  /\ faults = 0
  /\ view = [d \in Daemons |-> [n \in Nodes |-> Reading(n)]]
  /\ order \in [Daemons -> Orders]
  /\ currentMaster = [d \in Daemons |-> InitPrimary]
  /\ phase = [d \in Daemons |-> "idle"]
  /\ unpolled = [d \in Daemons |-> {}] /\ steady = [d \in Daemons |-> {}]
  /\ promoted = {} /\ raced = {} /\ rivals = [d \in Daemons |-> {}]
-----------------------------------------------------------------------------
(* The daemons.                                                            *)

\* update_cluster_member_state: a failure is merged over the last success.
Polled(d, n) == IF n \in Reached(d) THEN Reading(n) ELSE [view[d][n] EXCEPT !.conn = FALSE]

\* main_monitoring_loop, outside a refresh: a decision does not rest on it, so
\* it is one step.
Round(d) ==
  /\ phase[d] # "refreshing"
  /\ view' = [view EXCEPT ![d] = [n \in Nodes |-> Polled(d, n)]]
  /\ UNCHANGED <<world, order, currentMaster, phase, unpolled, history>>

\* A worker of the round that answers the request of d.
Poll(d, n) ==
  /\ phase[d] = "refreshing"
  /\ n \in unpolled[d]
  /\ view' = [view EXCEPT ![d][n] = Polled(d, n)]
  /\ unpolled' = [unpolled EXCEPT ![d] = @ \ {n}]
  /\ UNCHANGED <<world, order, currentMaster, phase, history>>

Map(d) == Daemon(d)!CreateNodeMap(view[d], order[d], [o \in {} |-> 0], <<>>)

\* No maintenance file, no node that must never be promoted, no observer.
Promotes(d, pick) ==
  Daemon(d)!PromotesItself(Map(d), pick, [o \in {} |-> 0], {}, FALSE, 0)

\* Faulty variant: the decision rests on the polls there are.
RefreshesNobody == {}

\* A requested round polls every node.
Refreshed == Nodes

\* check_cluster_state and consider_failover up to the request.
Check(d) ==
  /\ phase[d] = "idle"
  /\ \E pick \in Daemon(d)!MasterPicks(Map(d)) :
       LET master == IF pick.instance = None THEN currentMaster[d] ELSE pick.instance
           considers == /\ master # d /\ DOMAIN Map(d).standbys # {}
                        /\ pick.seen # "connected"
       IN /\ currentMaster' = [currentMaster EXCEPT ![d] = master]
          /\ IF considers
             THEN /\ phase' = [phase EXCEPT ![d] = "refreshing"]
                  /\ unpolled' = [unpolled EXCEPT ![d] = Refreshed]
                  /\ steady' = [steady EXCEPT ![d] = Reached(d)]
                  /\ raced' = raced \ ({d} \ promoted)
             ELSE UNCHANGED <<phase, unpolled, steady, raced>>
  /\ UNCHANGED <<world, view, order, promoted, rivals>>

\* The decision after the refresh.  The configuration is old enough for it.
Recheck(d) ==
  /\ phase[d] = "refreshing"
  /\ unpolled[d] = {}
  /\ \E pick \in Daemon(d)!MasterPicks(Map(d)) :
       IF pick.seen # "connected" /\ Promotes(d, pick)
       THEN /\ phase' = [phase EXCEPT ![d] = "promoting"]
            /\ rivals' = [rivals EXCEPT ![d] = Daemon(d)!Candidates(Map(d).standbys, {}, 0)]
            /\ UNCHANGED steady
       ELSE /\ phase' = [phase EXCEPT ![d] = "idle"]
            /\ steady' = [steady EXCEPT ![d] = {}]
            /\ UNCHANGED rivals
  /\ UNCHANGED <<world, view, order, currentMaster, unpolled, promoted, raced>>

\* failover_command promotes the own database, if that is still there.
RunFailoverCommand(d) ==
  /\ phase[d] = "promoting"
  /\ phase' = [phase EXCEPT ![d] = "idle"]
  /\ primary' = IF d \in alive THEN primary \cup {d} ELSE primary
  /\ promoted' = promoted \cup {d}
  /\ steady' = [e \in Daemons |-> IF e = d THEN {} ELSE steady[e] \ {d}]
  /\ UNCHANGED <<alive, lsn, network, faults, view, order, currentMaster, unpolled, raced, rivals>>
-----------------------------------------------------------------------------
(* External: the databases, the network, the clock.                        *)

NodeDies(n) ==
  /\ faults < MaxFaults /\ faults' = faults + 1
  /\ n \in alive
  /\ alive' = alive \ {n}
  /\ steady' = [d \in Daemons |-> steady[d] \ {n}]
  /\ UNCHANGED <<primary, lsn, network, daemons, promoted, raced, rivals>>

\* The network is cut, cut elsewhere, or healed.
Partition(parts) ==
  /\ faults < MaxFaults /\ faults' = faults + 1
  /\ network' = parts
  /\ network' # network
  /\ steady' = [d \in Daemons |-> {n \in steady[d] : parts[n] = parts[d]}]
  /\ UNCHANGED <<alive, primary, lsn, daemons, promoted, raced, rivals>>

\* A standby receives WAL from the primary it has followed from the start.
Replicate(n) ==
  /\ n \in alive \ primary
  /\ InitPrimary \in alive /\ network[InitPrimary] = network[n]
  /\ lsn[n] < MaxLsn
  /\ lsn' = [lsn EXCEPT ![n] = @ + 1]
  /\ steady' = [d \in Daemons |-> steady[d] \ {n}]
  /\ raced' = raced \cup {d \in Daemons : phase[d] # "idle"}
  /\ UNCHANGED <<alive, primary, network, faults, daemons, promoted, rivals>>

\* Faulty variant: ages beyond the timeout are told apart.
OlderForever(entry) == [entry EXCEPT !.contact = IF @ = None THEN None ELSE @ - 1]

Older(entry) ==
  IF entry.contact \in Ages \ {-FailoverLag} THEN [entry EXCEPT !.contact = @ - 1] ELSE entry

\* Nothing keeps a refresh short here: whatever a timeout would cut off is
\* among the behaviours too.
Tick ==
  /\ view' = [d \in Daemons |-> [n \in Nodes |-> Older(view[d][n])]]
  /\ UNCHANGED <<world, order, currentMaster, phase, unpolled, history>>

DaemonStep(d) ==
  Round(d) \/ (\E n \in Nodes : Poll(d, n)) \/ Check(d) \/ Recheck(d) \/ RunFailoverCommand(d)

Next ==
  \/ \E d \in Daemons : DaemonStep(d)
  \/ \E n \in Nodes : NodeDies(n) \/ Replicate(n)
  \/ \E parts \in Networks : Partition(parts)
  \/ Tick

Spec == Init /\ [][Next]_vars
-----------------------------------------------------------------------------
(* Properties.                                                             *)

\* pglookout.py:646-653, "to make sure pglookouts running on all standbys make
\* the same decision".  Of two standbys, both promote themselves for the same
\* loss of a master only if one of them received WAL while they were deciding,
\* as when the master comes back between the polls of a refresh; or if the later
\* one knows of the earlier one's promotion and has lost it too.  Whatever
\* deaths, cuts and returns of the network come in between.  (A third standby
\* that first one and then the other of them can reach makes a majority for
\* each: with more than three nodes this does not hold.)
OneSuccessor ==
  \A d, e \in Daemons :
    phase[d] = "promoting" /\ (phase[e] = "promoting" \/ e \in promoted)
      => d = e \/ view[d][e].role = "primary" \/ {d, e} \cap raced # {}

\* pglookout.py:646-653.  However many nodes there are: two daemons of which each
\* had the other's standby among those whose positions it compared do not both
\* promote themselves, unless a standby received WAL while they were deciding;
\* whatever happened between the one decision and the other.
RivalsAgree ==
  \A d, e \in Daemons :
    /\ phase[d] = "promoting" /\ (phase[e] = "promoting" \/ e \in promoted)
    /\ e \in rivals[d] /\ d \in rivals[e]
    => d = e \/ {d, e} \cap raced # {}

\* pglookout.py:659-688.  Both sides of a cut do not have enough nodes, although
\* half of the nodes is enough: as long as nobody else has promoted itself, two
\* daemons, of which the later one does not know of the earlier one's promotion,
\* promote themselves only if there is a standby that both of them have reached.
MajoritiesMeet ==
  \A d, e \in Daemons :
    /\ phase[d] = "promoting" /\ (phase[e] = "promoting" \/ e \in promoted)
    /\ promoted \subseteq {e} /\ view[d][e].role # "primary"
    => rivals[d] \cap rivals[e] # {}

\* pglookout.py:588-653: the instance never promotes itself over a standby that
\* it could reach all along and that holds more WAL, or as much and a higher
\* name.
NoLaggardPromoted ==
  \A d \in Daemons : phase[d] = "promoting" =>
    \A n \in steady[d] \ primary : lsn[n] < lsn[d] \/ (lsn[n] = lsn[d] /\ n <= d)

\* d has polled everybody, and has had no contact with a master for long enough.
Settled(d) ==
  \A n \in Nodes :
    /\ Polled(d, n) = view[d][n]
    /\ view[d][n].contact \in {-FailoverLag, None}

\* pglookout.py:659-688.  When no primary is left and those that are reach each
\* other and are half of the cluster or more, the daemons' caution must not add
\* up to a stalemate: once they have seen what there is, one of them, and one
\* only, would promote itself.
ExactlyOneStepsIn ==
  LET left == alive \cap Daemons IN
  /\ primary \cap alive = {}
  /\ \A m, n \in left : network[m] = network[n]
  /\ 2 * Cardinality(left) >= Cardinality(Nodes)
  /\ \A d \in left : Settled(d)
  => \E d \in left : \A e \in left : \A pick \in Daemon(e)!MasterPicks(Map(e)) :
       Promotes(e, pick) <=> e = d

\* pglookout.py:612-626, 635-640: "last contact was still within failover timeout
\* (%ss), not failing over".  With several lost masters the code asks the first
\* key of the dictionary only.
WaitsAfterContact ==
  [][\A d \in Daemons : phase[d] # "promoting" /\ phase'[d] = "promoting" =>
       \A n \in DOMAIN Map(d).disconnected : view[d][n].contact = -FailoverLag]_vars
=============================================================================
