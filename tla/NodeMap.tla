------------------------------ MODULE NodeMap -------------------------------
(***************************************************************************)
(* create_node_map: what one pglookout makes of its own view of the        *)
(* cluster (cluster_state) and of the views it fetched from observers      *)
(* (observer_state).                                                       *)
(*                                                                         *)
(* Both dictionaries are functions whose domain is the set of keys.  The   *)
(* insertion order of Python's dictionaries decides which disconnected     *)
(* master comes first and in which order observers are heard, so it is     *)
(* kept beside them as a sequence.  Only the order of the instances INSIDE *)
(* one observer's JSON is left open.                                       *)
(*                                                                         *)
(* An entry is what a poll leaves behind:                                  *)
(*   conn     "connection"                                                 *)
(*   role     "pg_is_in_recovery": standby, primary, or unknown when the   *)
(*            key is missing because no query ever succeeded               *)
(*   fetched  "fetch_time"                                                 *)
(*   contact  "db_time" of an entry whose role is primary, None otherwise  *)
(*            (nothing reads it of a standby)                              *)
(*   lsn      the receive location, else the replay location, else 0, of   *)
(*            a standby; 0 otherwise (nothing reads it of a primary)       *)
(***************************************************************************)
EXTENDS Integers, Sequences, FiniteSets

CONSTANTS Own,            \* own_db
          None,           \* Python's None
          PollInterval    \* db_poll_interval

Entry(names, times, lsns) ==
  [conn : BOOLEAN, role : {"standby", "primary", "unknown"}, fetched : times,
   contact : times \cup {None}, lsn : lsns]

\* f with the entries of g for the keys in S.
Update(f, g, S) ==
  [n \in DOMAIN f \cup S |-> IF n \in S THEN g[n] ELSE f[n]]
Keep(f, S) == [n \in DOMAIN f \cap S |-> f[n]]

\* What seq has of S.  Written as a function, so that it can be proved about.
InOrder(seq, S) ==
  LET taken[i \in 0..Len(seq)] ==
        IF i = 0 THEN <<>>
        ELSE IF seq[i] \in S THEN Append(taken[i - 1], seq[i]) ELSE taken[i - 1]
  IN taken[Len(seq)]

\* "fetch time close enough": less than db_poll_interval apart.
Near(t, u) == t - u < PollInterval /\ u - t < PollInterval

-----------------------------------------------------------------------------
\* The first loop: what the instance's own polls say.
OwnMap(cluster, order) ==
  LET with(role) == {n \in DOMAIN cluster : cluster[n].role = role}
      up == {n \in with("primary") : cluster[n].conn}
      down == with("primary") \ up
  IN [standbys     |-> Keep(cluster, with("standby")),
      connected    |-> Keep(cluster, up),
      disconnected |-> Keep(cluster, down),
      first        |-> IF down = {} THEN {} ELSE {Head(InOrder(order, down))},
      leak         |-> {"none"}]

\* What a value of master_node says to `not master_node or not connection'.
Seen(masters, n) ==
  IF n \notin DOMAIN masters THEN "none"
  ELSE IF masters[n].conn THEN "connected" ELSE "disconnected"

\* One turn of the second loop: hear one observer.  "first" is the set of keys
\* that may be the first of disconnected_master_nodes; "leak" is what the
\* variable master_node may be left at when the loop ends.
Hear(cluster, map, reports) ==
  LET known == DOMAIN reports \cap DOMAIN cluster
      standby ==
        {n \in known \ {Own} : /\ reports[n].role = "standby"
                               /\ reports[n].fetched >= cluster[n].fetched
                               /\ Seen(map.standbys, n) # "connected"}
      primary == {n \in known : reports[n].role = "primary"}
      trusted == {n \in primary \ {Own} : Near(reports[n].fetched, cluster[n].fetched)}
      up == {n \in trusted : Seen(map.connected, n) = "connected" \/ reports[n].conn}
      down == trusted \ up
  IN [standbys     |-> Update(map.standbys, reports, standby),
      connected    |-> Update(map.connected, reports, up),
      disconnected |-> Update(map.disconnected, reports, down),
      first        |-> IF map.first = {} THEN down ELSE map.first,
      leak         |-> IF primary = {} THEN map.leak
                       ELSE {Seen(map.connected, n) : n \in primary}]

\* observers[o] is [conn |-> ..., fetched |-> ..., db |-> reports].
CreateNodeMap(cluster, order, observers, obsOrder) ==
  LET heard[i \in 0..Len(obsOrder)] ==
        IF i = 0 THEN OwnMap(cluster, order)
        ELSE Hear(cluster, heard[i - 1], observers[obsOrder[i]].db)
  IN heard[Len(obsOrder)]

\* master_instance and master_node, as create_node_map may return them.
MasterPicks(map) ==
  LET up == DOMAIN map.connected IN
  IF up = {} THEN
       IF map.first = {} THEN {[instance |-> None, seen |-> "none"]}
       ELSE {[instance |-> n, seen |-> "disconnected"] : n \in map.first}
  ELSE IF Cardinality(up) = 1 THEN
       {[instance |-> n, seen |-> Seen(map.connected, n)] : n \in up}
  ELSE {[instance |-> None, seen |-> s] : s \in map.leak}

\* More than one connected master: the multiple_master_warning alert.
MultipleMasters(map) == Cardinality(DOMAIN map.connected) > 1
=============================================================================
