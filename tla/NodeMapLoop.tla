---------------------------- MODULE NodeMapLoop -----------------------------
(***************************************************************************)
(* create_node_map as it is written: one loop over cluster_state, then one *)
(* over the observers and, inside it, over the instances each reports, all *)
(* of them filling the same dictionaries.  TLC runs it on every bounded    *)
(* view and compares the outcome with CreateNodeMap, the form the other    *)
(* modules use, in which an observer is heard in one go.                   *)
(***************************************************************************)
EXTENDS NodeMap

CONSTANTS Names,          \* of nodes there may be in cluster_state
          Clusters,       \* the values of cluster_state to try
          Order,          \* the order of its keys
          Reports         \* what the observers may report, one after the other

\* An entry has a known role or none, and is connected or not; observers may
\* report nodes that nobody else knows.
ASSUME ViewsAssumption ==
  /\ Order \in Seq(Names) /\ Names \subseteq {Order[i] : i \in 1..Len(Order)}
  /\ \A view \in Clusters :
       DOMAIN view \subseteq Names /\ view \in [DOMAIN view -> Entry(Names, Int, Int)]
  /\ \A all \in Reports :
       /\ Len(all) \in Nat
       /\ \A i \in 1..Len(all) : all[i] \in [DOMAIN all[i] -> Entry(Names, Int, Int)]

VARIABLES cluster, reports,          \* the arguments; reports is a sequence
          standbys, connected,       \* standby_nodes, connected_master_nodes
          disconnected, downKeys,    \* disconnected_master_nodes and its keys in order
          masterNode,                \* what master_node says to its reader
          turn,                      \* 0 in the first loop, then the observer heard
          left                       \* instances this loop has not visited

vars == <<cluster, reports, standbys, connected, disconnected, downKeys, masterNode,
          turn, left>>

Empty == [n \in {} |-> 0]

Init ==
  /\ cluster \in Clusters
  /\ reports \in Reports
  /\ standbys = Empty /\ connected = Empty /\ disconnected = Empty /\ downKeys = <<>>
  /\ masterNode = "none"
  /\ turn = 0
  /\ left = DOMAIN cluster

Put(f, n, e) == [m \in DOMAIN f \cup {n} |-> IF m = n THEN e ELSE f[m]]

\* Faulty variant: a key that is set again moves to the end.
PutDownLast(n, e) ==
  /\ disconnected' = Put(disconnected, n, e)
  /\ downKeys' = Append(SelectSeq(downKeys, LAMBDA m : m # n), n)

\* The dictionary remembers when a key came, not when its value changed.
PutDown(n, e) ==
  /\ disconnected' = Put(disconnected, n, e)
  /\ downKeys' = IF n \in DOMAIN disconnected THEN downKeys ELSE Append(downKeys, n)

\* One turn of `for instance, state in cluster_state.items()', in key order.
OwnEntry ==
  LET n == Head(InOrder(Order, left))
      state == cluster[n]
  IN /\ turn = 0 /\ left # {}
     /\ left' = left \ {n}
     /\ standbys' = IF state.role = "standby" THEN Put(standbys, n, state) ELSE standbys
     /\ connected' = IF state.role = "primary" /\ state.conn
                     THEN Put(connected, n, state) ELSE connected
     /\ IF state.role = "primary" /\ ~state.conn THEN PutDown(n, state)
        ELSE UNCHANGED <<disconnected, downKeys>>
     /\ UNCHANGED <<cluster, reports, masterNode, turn>>

NextObserver ==
  /\ left = {} /\ turn < Len(reports)
  /\ turn' = turn + 1
  /\ left' = DOMAIN reports[turn + 1]
  /\ UNCHANGED <<cluster, reports, standbys, connected, disconnected, downKeys, masterNode>>

\* Faulty variant: a connected standby's entry is replaced as well.
StandbyOverruled(n, state) ==
  /\ standbys' = IF state.fetched >= cluster[n].fetched /\ n # Own
                 THEN Put(standbys, n, state) ELSE standbys
  /\ UNCHANGED <<connected, disconnected, downKeys, masterNode>>

StandbyReported(n, state) ==
  /\ standbys' = IF /\ state.fetched >= cluster[n].fetched /\ n # Own
                    /\ (n \in DOMAIN standbys => ~standbys[n].conn)
                 THEN Put(standbys, n, state) ELSE standbys
  /\ UNCHANGED <<connected, disconnected, downKeys, masterNode>>

\* Faulty variant: both the observer and this instance must be connected.
MasterSeenByBoth(n, state) ==
  LET known == n \in DOMAIN connected /\ connected[n].conn IN
  /\ masterNode' = IF known THEN "connected" ELSE "none"
  /\ IF Near(state.fetched, cluster[n].fetched) /\ n # Own
     THEN IF known /\ state.conn
          THEN connected' = Put(connected, n, state) /\ UNCHANGED <<disconnected, downKeys>>
          ELSE PutDown(n, state) /\ UNCHANGED connected
     ELSE UNCHANGED <<connected, disconnected, downKeys>>
  /\ UNCHANGED standbys

MasterReported(n, state) ==
  LET known == n \in DOMAIN connected /\ connected[n].conn IN
  /\ masterNode' = IF n \notin DOMAIN connected THEN "none"
                   ELSE IF connected[n].conn THEN "connected" ELSE "disconnected"
  /\ IF Near(state.fetched, cluster[n].fetched) /\ n # Own
     THEN IF known \/ state.conn
          THEN connected' = Put(connected, n, state) /\ UNCHANGED <<disconnected, downKeys>>
          ELSE PutDown(n, state) /\ UNCHANGED connected
     ELSE UNCHANGED <<connected, disconnected, downKeys>>
  /\ UNCHANGED standbys

\* One turn of `for instance, db_state in state.items()'.
ReportEntry(n) ==
  LET state == reports[turn][n] IN
  /\ turn > 0 /\ n \in left
  /\ left' = left \ {n}
  /\ \/ /\ n \notin DOMAIN cluster \/ state.role = "unknown"
        /\ UNCHANGED <<standbys, connected, disconnected, downKeys, masterNode>>
     \/ n \in DOMAIN cluster /\ state.role = "standby" /\ StandbyReported(n, state)
     \/ n \in DOMAIN cluster /\ state.role = "primary" /\ MasterReported(n, state)
  /\ UNCHANGED <<cluster, reports, turn>>

Done == turn = Len(reports) /\ left = {}

Next == OwnEntry \/ NextObserver \/ \E n \in left : ReportEntry(n)

Spec == Init /\ [][Next]_vars
-----------------------------------------------------------------------------
(* Properties.                                                             *)

\* What create_node_map returns.
Returned ==
  LET seen(e) == IF e.conn THEN "connected" ELSE "disconnected"
      only == CHOOSE n \in DOMAIN connected : TRUE
  IN IF connected = Empty /\ downKeys # <<>>
     THEN [instance |-> Head(downKeys), seen |-> seen(disconnected[Head(downKeys)])]
     ELSE IF Cardinality(DOMAIN connected) = 1
     THEN [instance |-> only, seen |-> seen(connected[only])]
     ELSE [instance |-> None, seen |-> masterNode]

\* observer_state, and the order of its keys.
Observers == [i \in 1..Len(reports) |-> [db |-> reports[i]]]
InTurn == [i \in 1..Len(reports) |-> i]

\* pglookout.py:240-351.  The closed form and the loop agree on every view.
LoopMatchesMap ==
  Done =>
    LET map == CreateNodeMap(cluster, Order, Observers, InTurn)
    IN /\ map.standbys = standbys
       /\ map.connected = connected
       /\ map.disconnected = disconnected
       /\ downKeys # <<>> => Head(downKeys) \in map.first
       /\ Returned \in MasterPicks(map)

\* pglookout.py:299-314.  A master that this instance, or one observer at about
\* the same time, is connected to stays connected, whatever the others report
\* before or after.
OneContactIsEnough ==
  Done =>
    \A n \in DOMAIN cluster :
      \/ cluster[n].role = "primary" /\ cluster[n].conn
      \/ /\ n # Own
         /\ \E i \in 1..Len(reports) :
              /\ n \in DOMAIN reports[i]
              /\ reports[i][n].role = "primary" /\ reports[i][n].conn
              /\ Near(reports[i][n].fetched, cluster[n].fetched)
      => n \in DOMAIN connected

\* pglookout.py:294-298, "we always trust ourselves the most for localhost, and
\* in case we are actually connected to the other node".
OwnViewTrusted ==
  Done =>
    /\ \A n \in DOMAIN cluster :
         cluster[n].role = "standby" /\ cluster[n].conn
           => n \in DOMAIN standbys /\ standbys[n] = cluster[n]
    /\ \A roles \in {standbys, connected, disconnected} :
         Own \in DOMAIN roles => roles[Own] = cluster[Own]
=============================================================================
