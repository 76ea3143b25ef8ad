-------------------------- MODULE FailoverDecision --------------------------
(***************************************************************************)
(* do_failover_decision and what it calls: may this instance promote the   *)
(* database it stands beside?  Pure functions of the node map, the time    *)
(* and the configuration; PgLookout.tla decides when they are asked.       *)
(***************************************************************************)
EXTENDS NodeMap

CONSTANTS FreshLimit,     \* the 20 seconds of get_replication_positions
          FailoverLag     \* max_failover_replication_time_lag

\* get_replication_positions: the standbys whose position is known.
Candidates(standbys, never, now) ==
  {n \in DOMAIN standbys : /\ standbys[n].conn
                           /\ now - standbys[n].fetched < FreshLimit
                           /\ n \notin never}

\* Faulty variant: of the standbys equally far each believes to be the furthest.
IsAsFar(n, candidates, pos) ==
  n \in candidates /\ \A m \in candidates : pos[m] <= pos[n]

\* Faulty variant: between candidates equally far none is chosen.
IsFurthestAlone(n, candidates, pos) ==
  n \in candidates /\ \A m \in candidates \ {n} : pos[m] < pos[n]

\* No candidate is further along, and of those equally far n has the highest
\* name (names are numbers here, ordered as the strings are).
IsFurthest(n, candidates, pos) ==
  /\ n \in candidates
  /\ \A m \in candidates : \/ pos[m] < pos[n]
                           \/ pos[m] = pos[n] /\ m <= n

\* Faulty variant: the master is not counted among the nodes.
KnowsHalf(known, standbys, never, observers, connectedObservers) ==
  2 * (known + connectedObservers) >= standbys - never + observers

\* +1 is the master.  `0.5 *' is multiplied out.
KnowsEnough(known, standbys, never, observers, connectedObservers) ==
  2 * (known + connectedObservers) >= standbys + 1 - never + observers

\* _been_in_contact_with_master_within_failover_timeout looks at the first
\* disconnected master only.
RecentContact(map, pick, now) ==
  /\ DOMAIN map.disconnected # {}
  /\ now - map.disconnected[pick.instance].contact < FailoverLag

\* TRUE when do_failover_decision goes on to run failover_command.
PromotesItself(map, pick, observers, never, maintenance, now) ==
  LET candidates == Candidates(map.standbys, never, now)
      position == [n \in DOMAIN map.standbys |-> map.standbys[n].lsn]
  IN /\ DOMAIN map.connected = {}
     /\ ~RecentContact(map, pick, now)
     /\ IsFurthest(Own, candidates, position)
     /\ ~maintenance
     /\ KnowsEnough(Cardinality(candidates), Cardinality(DOMAIN map.standbys),
                    Cardinality(never), Cardinality(DOMAIN observers),
                    Cardinality({o \in DOMAIN observers : observers[o].conn}))
=============================================================================
