--------------------------- MODULE ClusterMonitor ---------------------------
(***************************************************************************)
(* The ClusterMonitor thread with its worker pool, the databases and the   *)
(* observers it polls, and the clock.  The main thread, which shares the   *)
(* variables of the first two groups with it, is in PgLookout.tla; the     *)
(* last section closes this module with the least that any main thread     *)
(* does to them.                                                           *)
(***************************************************************************)
EXTENDS NodeMap

CONSTANTS Nodes,          \* names of database nodes: numbers, ordered as names
          Observers,      \* names of observers (a node may run one)
          Observed,       \* the nodes observers poll
          Configs,        \* the configurations a config file may hold
          InitPrimary,    \* the nodes that are primary at first
          InitLsns,       \* how far the nodes may be at first
          Environment,    \* the kinds of event that happen around pglookout
          MaxTime,        \* bound on the clock
          MaxLsn,         \* bound on WAL positions
          MaxFaults,      \* bound on the number of events of Environment
          MaxRequests     \* bound on requests and tokens outstanding

ASSUME NodesAssumption == Nodes \subseteq Nat /\ Own \in Nodes /\ Observed \subseteq Nodes
ASSUME ConfigAssumption ==
  \A c \in Configs : c.remote \subseteq Nodes /\ c.observers \subseteq Observers
ASSUME WorldAssumption == InitPrimary \subseteq Nodes /\ InitLsns \subseteq [Nodes -> 0..MaxLsn]
ASSUME BoundsAssumption ==
  {MaxTime, MaxLsn, MaxFaults} \subseteq Nat /\ MaxRequests \in Nat \ {0}

VARIABLES
  \* self.config of both threads: load_config hands the monitor a copy.
  config,
  \* Lengths of cluster_monitor_check_queue and failover_decision_queue.
  pending, tokens,
  \* replication_lag_over_warning_limit, read through the callback.
  overWarning,
  \* cluster_state and observer_state, each with the order of its keys.
  cluster, order, observers, obsOrder,
  \* What only the own entry needs: lag is replication_time_lag, min is
  \* min_replication_time_lag, receiving whether the receive location is set,
  \* start is replication_start_time.
  ownLag

shared == <<config, pending, tokens, overWarning, cluster, order, observers, obsOrder, ownLag>>

VARIABLES
  \* "starting", "waiting" on the queue or "polling" in main_monitoring_loop.
  monitor,
  \* requested_check of the round in progress.
  answering,
  \* The futures of the round that have not completed.
  toPoll, toFetch,
  \* db_conns: "open", "null", or "broken" when the server has gone away but
  \* psycopg2 has not noticed.
  dbConns

monitorVars == <<monitor, answering, toPoll, toFetch, dbConns>>

VARIABLES
  \* External: who answers, who is primary, WAL positions, the commit time of
  \* what the own database last replayed (None after its restart) and whether
  \* it has received WAL since.
  alive, primary, lsn, replayed, streaming,
  \* External: what the observers' web servers would say.
  obsView,
  \* The clock, and how many events of Environment happened.
  now, faults

world == <<alive, primary, lsn, replayed, streaming, obsView, now, faults>>

VARIABLES
  \* History, from a request of the main thread to the end of its check: the
  \* configured nodes not polled since; and (until failover_command ends) the
  \* nodes that have answered ever since in an unchanged role, at the same WAL
  \* position if they are standbys.
  unpolled, steady

history == <<unpolled, steady>>

Empty == [n \in {} |-> 0]
Answering == IF answering THEN 1 ELSE 0
Outstanding == pending + Answering + tokens
Times == 0..MaxTime
Entries == Entry(Nodes, Times, 0..MaxLsn)

NoLag == [lag |-> None, min |-> None, receiving |-> FALSE, start |-> None]

MonitorTypeOK ==
  /\ config \in Configs
  /\ pending \in Nat /\ tokens \in Nat
  /\ overWarning \in BOOLEAN
  /\ DOMAIN cluster \subseteq Nodes /\ \A n \in DOMAIN cluster : cluster[n] \in Entries
  /\ order \in Seq(Nodes)
  /\ DOMAIN observers \subseteq Observers
  /\ \A o \in DOMAIN observers :
       /\ observers[o].conn \in BOOLEAN
       /\ observers[o].fetched \in Times
       /\ \A n \in DOMAIN observers[o].db : observers[o].db[n] \in Entries
  /\ obsOrder \in Seq(Observers)
  /\ ownLag \in [lag : Times \cup {None}, min : Times \cup {None},
                 receiving : BOOLEAN, start : Times \cup {None}]
  /\ monitor \in {"starting", "waiting", "polling"}
  /\ answering \in BOOLEAN
  /\ toPoll \subseteq DOMAIN dbConns /\ toFetch \subseteq Observers
  /\ DOMAIN dbConns \subseteq Nodes
  /\ \A n \in DOMAIN dbConns : dbConns[n] \in {"open", "null", "broken"}
  /\ alive \subseteq Nodes /\ primary \subseteq Nodes
  /\ lsn \in [Nodes -> 0..MaxLsn]
  /\ replayed \in Times \cup {None} /\ streaming \in BOOLEAN
  /\ now \in Times /\ faults \in 0..MaxFaults
  /\ unpolled \subseteq Nodes /\ steady \subseteq Nodes

\* A fresh process, with the request that load_config puts in the constructor,
\* in front of databases that are all up.
MonitorInit ==
  /\ config \in Configs
  /\ pending = 1 /\ tokens = 0 /\ overWarning = FALSE
  /\ monitor = "starting" /\ answering = FALSE
  /\ toPoll = {} /\ toFetch = {} /\ dbConns = Empty
  /\ cluster = Empty /\ order = <<>> /\ observers = Empty /\ obsOrder = <<>>
  /\ ownLag = NoLag
  /\ unpolled = {} /\ steady = {}
  /\ alive = Nodes /\ primary = InitPrimary /\ lsn \in InitLsns
  /\ replayed = 0 /\ streaming = TRUE
  /\ obsView = [o \in Observers |-> Empty]
  /\ now = 0 /\ faults = 0
-----------------------------------------------------------------------------
\* One of the events that TLC is to try happens.
Happens(kind) == kind \in Environment /\ faults < MaxFaults /\ faults' = faults + 1

(* The monitor thread.                                                     *)

\* Faulty variant: what belongs to a dropped node is kept.
RoundWithoutCleanup(requested) ==
  LET connection(n) == IF n \in DOMAIN dbConns /\ dbConns[n] # "null" THEN dbConns[n]
                       ELSE IF n \in alive THEN "open" ELSE "null"
  IN /\ dbConns' = [n \in config.remote |-> connection(n)]
     /\ toPoll' = config.remote
     /\ toFetch' = IF ~config.warnOnly \/ overWarning THEN config.observers ELSE {}
     /\ monitor' = "polling"
     /\ answering' = requested
     /\ UNCHANGED <<config, tokens, overWarning, cluster, order, observers, obsOrder,
                    ownLag, world, history>>

\* connect_to_cluster_nodes_and_cleanup_old_nodes, then the submission of one
\* job per connection and, unless they are polled on warning only, one per
\* observer.  A connection that is open, or believed to be, is kept.
StartRound(requested) ==
  LET gone == DOMAIN dbConns \ config.remote
      connection(n) == IF n \in DOMAIN dbConns /\ dbConns[n] # "null" THEN dbConns[n]
                       ELSE IF n \in alive THEN "open" ELSE "null"
  IN /\ dbConns' = [n \in config.remote |-> connection(n)]
     /\ cluster' = Keep(cluster, DOMAIN cluster \ gone)
     /\ order' = InOrder(order, DOMAIN cluster \ gone)
     /\ observers' = Keep(observers, DOMAIN observers \ gone)
     /\ obsOrder' = InOrder(obsOrder, DOMAIN observers \ gone)
     /\ toPoll' = config.remote
     /\ toFetch' = IF ~config.warnOnly \/ overWarning THEN config.observers ELSE {}
     /\ monitor' = "polling"
     /\ answering' = requested
     /\ UNCHANGED <<config, tokens, overWarning, ownLag, world, history>>

StartRequested ==
  /\ monitor = "waiting"
  /\ pending > 0
  /\ pending' = pending - 1
  /\ StartRound(TRUE)

\* The first round of run(), or db_poll_interval without a request.
StartPeriodic ==
  /\ monitor = "starting" \/ (monitor = "waiting" /\ pending = 0)
  /\ pending' = pending
  /\ StartRound(FALSE)

\* What a query that succeeds finds out about n.
Reading(n) ==
  IF n \in primary
  THEN [conn |-> TRUE, role |-> "primary", fetched |-> now, contact |-> now, lsn |-> 0]
  ELSE [conn |-> TRUE, role |-> "standby", fetched |-> now, contact |-> None, lsn |-> lsn[n]]

\* Faulty variant: a failing query does not touch the connection flag.
FailingUnnoticed(entries, n) ==
  IF n \in DOMAIN entries
  THEN [entries[n] EXCEPT !.fetched = now]
  ELSE [conn |-> FALSE, role |-> "unknown", fetched |-> now, contact |-> None, lsn |-> 0]

\* A query that fails only brings fetch_time and connection: merged over the
\* entry of an earlier query, they leave its role and position in place.
Failing(entries, n) ==
  IF n \in DOMAIN entries
  THEN [entries[n] EXCEPT !.conn = FALSE, !.fetched = now]
  ELSE [conn |-> FALSE, role |-> "unknown", fetched |-> now, contact |-> None, lsn |-> 0]

\* Faulty variant: the difference of the two times with the wrong sign.
MeasureSignedLag(n) ==
  IF n # Own THEN ownLag
  ELSE IF n \in primary THEN [ownLag EXCEPT !.lag = None, !.receiving = FALSE]
  ELSE [lag       |-> IF replayed = None THEN ownLag.lag ELSE replayed - now,
        min       |-> IF replayed = None THEN ownLag.min
                      ELSE IF ownLag.min = None THEN replayed - now
                      ELSE IF ownLag.min < replayed - now THEN ownLag.min ELSE replayed - now,
        receiving |-> streaming,
        start     |-> IF n \notin DOMAIN cluster /\ streaming THEN now ELSE ownLag.start]

\* The own entry's lag.  Without a replay timestamp the result has no lag, and
\* the merge keeps the old one.  replication_start_time lands in the entry
\* only when the entry is new: later it is set on a result already merged.
MeasureLag(n) ==
  IF n # Own THEN ownLag
  ELSE IF n \in primary THEN [ownLag EXCEPT !.lag = None, !.receiving = FALSE]
  ELSE [lag       |-> IF replayed = None THEN ownLag.lag ELSE now - replayed,
        min       |-> IF replayed = None THEN ownLag.min
                      ELSE IF ownLag.min = None THEN now - replayed
                      ELSE IF ownLag.min < now - replayed THEN ownLag.min ELSE now - replayed,
        receiving |-> streaming,
        start     |-> IF n \notin DOMAIN cluster /\ streaming THEN now ELSE ownLag.start]

\* Faulty variant: the connection is kept after an error.
ConnectionKept(n, answers) == IF answers THEN {"open"} ELSE {dbConns[n]}

\* A connection is closed after an error.  Of a primary the later statements
\* (slots, txid_current) may fail when its state is known already: the entry
\* counts, the connection is closed.
ConnectionAfter(n, answers) ==
  IF ~answers THEN {"null"} ELSE IF n \in primary THEN {"open", "null"} ELSE {"open"}

\* update_cluster_member_state in a worker.  A node without a connection is
\* tried once more, unless the configuration has dropped it meanwhile.  Every error
\* of psycopg2 is an answer that did not come; a worker that raises something else
\* stores nothing, which is not modelled.
PollNode(n) ==
  LET usable == dbConns[n] = "open" \/ (dbConns[n] = "null" /\ n \in config.remote)
      answers == usable /\ n \in alive
  IN /\ monitor = "polling"
     /\ n \in toPoll
     /\ toPoll' = toPoll \ {n}
     /\ cluster' = Update(cluster, [m \in {n} |-> IF answers THEN Reading(n)
                                                  ELSE Failing(cluster, n)], {n})
     /\ order' = IF n \in DOMAIN cluster THEN order ELSE Append(order, n)
     /\ ownLag' = IF answers THEN MeasureLag(n) ELSE ownLag
     /\ \E c \in ConnectionAfter(n, answers) : dbConns' = [dbConns EXCEPT ![n] = c]
     /\ unpolled' = unpolled \ {n}
     /\ UNCHANGED <<config, pending, tokens, overWarning, observers, obsOrder,
                    monitor, answering, toFetch, world, steady>>

\* fetch_observer_state in a worker: the observer's JSON merged over what it
\* said before, no answer, or a response that is ignored for its clock.
FetchObserver(o) ==
  LET old == IF o \in DOMAIN observers THEN observers[o].db ELSE Empty
      put(conn, db) ==
        /\ observers' = Update(observers,
                               [p \in {o} |-> [conn |-> conn, fetched |-> now, db |-> db]], {o})
        /\ obsOrder' = IF o \in DOMAIN observers THEN obsOrder ELSE Append(obsOrder, o)
  IN /\ monitor = "polling"
     /\ o \in toFetch
     /\ toFetch' = toFetch \ {o}
     /\ \/ put(TRUE, Update(old, obsView[o], DOMAIN obsView[o])) /\ UNCHANGED faults
        \/ Happens("unheard") /\ (put(FALSE, old) \/ UNCHANGED <<observers, obsOrder>>)
     /\ UNCHANGED <<config, pending, tokens, overWarning, cluster, order, ownLag, monitor,
                    answering, toPoll, dbConns, alive, primary, lsn, replayed, streaming,
                    obsView, now, history>>

\* as_completed has returned every future.
FinishRound ==
  /\ monitor = "polling"
  /\ toPoll = {} /\ toFetch = {}
  /\ monitor' = "waiting"
  /\ answering' = FALSE
  /\ tokens' = tokens + Answering
  /\ UNCHANGED <<config, pending, overWarning, cluster, order, observers, obsOrder,
                 ownLag, toPoll, toFetch, dbConns, world, history>>

Monitor ==
  \/ StartRequested \/ StartPeriodic
  \/ \E n \in Nodes : PollNode(n)
  \/ \E o \in Observers : FetchObserver(o)
  \/ FinishRound
-----------------------------------------------------------------------------
(* External: the databases, the observers and the clock.                   *)

\* A server that goes away leaves the connection to it broken.  The own
\* database forgets its replay timestamp and stops streaming.
NodeDown(n) ==
  /\ n \in alive
  /\ Happens("down")
  /\ alive' = alive \ {n}
  /\ dbConns' = IF n \in DOMAIN dbConns /\ dbConns[n] = "open"
                THEN [dbConns EXCEPT ![n] = "broken"] ELSE dbConns
  /\ replayed' = IF n = Own THEN None ELSE replayed
  /\ streaming' = IF n = Own THEN FALSE ELSE streaming
  /\ steady' = steady \ {n}
  /\ UNCHANGED <<shared, monitor, answering, toPoll, toFetch, primary, lsn,
                 obsView, now, unpolled>>

NodeUp(n) ==
  /\ n \in Nodes \ alive
  /\ Happens("up")
  /\ alive' = alive \cup {n}
  /\ UNCHANGED <<shared, monitorVars, primary, lsn, replayed, streaming,
                 obsView, now, history>>

\* An operator, or another pglookout's failover_command, promotes n; a demoted
\* node comes back as a standby.
ChangeRole(n) ==
  /\ n \in alive
  /\ IF n \in primary THEN Happens("demote") ELSE Happens("promote")
  /\ primary' = IF n \in primary THEN primary \ {n} ELSE primary \cup {n}
  /\ steady' = steady \ {n}
  /\ UNCHANGED <<shared, monitorVars, alive, lsn, replayed, streaming,
                 obsView, now, unpolled>>

\* A standby receives and replays WAL from some primary; what it replays last
\* may have been committed a while ago.
Replicate(n, position) ==
  /\ "replicate" \in Environment
  /\ n \in alive \ primary
  /\ primary \cap alive # {}
  /\ position >= lsn[n]
  /\ lsn' = [lsn EXCEPT ![n] = position]
  /\ \E committed \in (IF replayed = None THEN 0 ELSE replayed)..now :
       replayed' = IF n = Own THEN committed ELSE replayed
  /\ streaming' = IF n = Own THEN TRUE ELSE streaming
  /\ steady' = IF position = lsn[n] THEN steady ELSE steady \ {n}
  /\ UNCHANGED <<shared, monitorVars, alive, primary, obsView, now, faults,
                 unpolled>>

\* The observer is another pglookout: its monitor polls the nodes as ours does,
\* over a network of its own; once per unit of time.
ObserverRound(o) ==
  /\ \A n \in DOMAIN obsView[o] : obsView[o][n].fetched < now
  /\ \E reached \in SUBSET (Observed \cap alive) :
       /\ IF reached = Observed \cap alive THEN UNCHANGED faults ELSE Happens("partition")
       /\ obsView' = [obsView EXCEPT ![o] =
            [n \in Observed |-> IF n \in reached THEN Reading(n) ELSE Failing(@, n)]]
  /\ UNCHANGED <<shared, monitorVars, alive, primary, lsn, replayed, streaming, now,
                 history>>

Tick ==
  /\ now < MaxTime
  /\ now' = now + 1
  /\ UNCHANGED <<shared, monitorVars, alive, primary, lsn, replayed, streaming, obsView,
                 faults, history>>

Events ==
  \/ \E n \in Nodes : NodeDown(n) \/ NodeUp(n) \/ ChangeRole(n)
  \/ \E n \in Nodes, position \in 0..MaxLsn : Replicate(n, position)
  \/ \E o \in Observers : ObserverRound(o)
-----------------------------------------------------------------------------
(* What any main thread and web server may do to the shared state.         *)

LoadConfig ==
  /\ "sighup" \in Environment
  /\ Outstanding < MaxRequests
  /\ config' \in Configs
  /\ pending' = pending + 1
  /\ UNCHANGED <<tokens, overWarning, cluster, order, observers, obsOrder, ownLag,
                 monitorVars, world, history>>

Ask ==
  /\ Outstanding < MaxRequests
  /\ pending' = pending + 1
  /\ unpolled' = config.remote
  /\ UNCHANGED <<config, tokens, overWarning, cluster, order, observers, obsOrder, ownLag,
                 monitorVars, world, steady>>

TakeTokens ==
  /\ tokens > 0
  /\ tokens' = 0
  /\ UNCHANGED <<config, pending, overWarning, cluster, order, observers, obsOrder, ownLag,
                 monitorVars, world, history>>

SetWarning ==
  /\ overWarning' = ~overWarning
  /\ UNCHANGED <<config, pending, tokens, cluster, order, observers, obsOrder, ownLag,
                 monitorVars, world, history>>

MonitorNext == Monitor \/ Events \/ Tick \/ LoadConfig \/ Ask \/ TakeTokens \/ SetWarning

monitorSpecVars == <<shared, monitorVars, world, history>>

MonitorSpec == MonitorInit /\ [][MonitorNext]_monitorSpecVars

\* The monitor thread never stops by itself: every query and every fetch has a
\* timeout, and the get() on the request queue has one too.
MonitorFairSpec == MonitorSpec /\ WF_monitorSpecVars(Monitor)
-----------------------------------------------------------------------------
(* Properties.                                                             *)

\* cluster_monitor.py:192-201, 337-340.  Cleaning up looks at the keys of
\* db_conns only, so no entry may outlive its key; and when a round has ended
\* every connection has an entry.  A reload in the middle of a round, or a
\* worker that stores its result late, must not break either.
EntriesFollowConnections ==
  /\ DOMAIN cluster \subseteq DOMAIN dbConns
  /\ monitor = "waiting" => DOMAIN cluster = DOMAIN dbConns

\* cluster_monitor.py:288-296.  A node that stays away is reported as
\* disconnected, even though psycopg2 still holds a connection to it.
DeadNodeNoticed ==
  \A n \in Nodes :
    n \in DOMAIN cluster /\ n \notin alive
      ~> n \notin DOMAIN cluster \/ n \in alive \/ ~cluster[n].conn

\* cluster_monitor.py:107-141, 232-235, 295-296.  A node that stays reachable
\* is connected again, although the first query after its return runs into the
\* old connection and fails.
LiveNodeReconnected ==
  \A n \in Nodes :
    n \in config.remote \cap alive
      ~> n \notin config.remote \cap alive \/ (n \in DOMAIN cluster /\ cluster[n].conn)

\* cluster_monitor.py:192-198.  A node that a reload drops is forgotten, although
\* the round in progress may still poll it and store its entry again.
DroppedNodeForgotten ==
  \A n \in Nodes :
    n \in DOMAIN cluster \ config.remote ~> n \notin DOMAIN cluster \ config.remote
=============================================================================
