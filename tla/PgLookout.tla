----------------------------- MODULE PgLookout ------------------------------
(***************************************************************************)
(* One pglookout process: the main thread (main_loop, check_cluster_state, *)
(* consider_failover, check_replication_lag, do_failover_decision) beside  *)
(* the ClusterMonitor thread and the web server, over the databases and    *)
(* observers of ClusterMonitor.tla.                                        *)
(*                                                                         *)
(* A check copies cluster_state and observer_state and then computes; here *)
(* both happen in one step.  The steps at which the main thread blocks,    *)
(* and the monitor therefore overtakes it, are steps of their own: waiting *)
(* for a token (twice) and running failover_command.                       *)
(***************************************************************************)
EXTENDS ClusterMonitor, FailoverDecision

CONSTANTS WarnLag,         \* warning_replication_time_lag
          MasterTimeout,   \* missing_master_from_config_timeout
          CatchupTimeout,  \* replication_catchup_timeout
          ObserverWait     \* 5 * db_poll_interval

\* load_config lowers a warning boundary that is above the failover timeout.
ASSUME BoundaryAssumption == WarnLag \in Nat /\ FailoverLag \in Nat /\ WarnLag <= FailoverLag
ASSUME TimeoutAssumption == MasterTimeout \in Nat

VARIABLES
  \* Where the main thread is: "top" of main_loop, about to "check", "awaiting"
  \* the answer to its own request, "refreshed" by a token, running the
  \* "failover" command, or at the "tail" of main_loop.
  main,
  \* What made it run failover_command: "refreshed" (the master is missing
  \* after a refresh), "stale" (the same, but answers were due before its own
  \* request), "unseen" (no master was ever seen), "lag".
  reason,
  \* When the get() of consider_failover gives up; 0 when not in it.
  deadline,
  currentMaster,
  \* observer_state_newer_than; Always stands for datetime.min.
  newerThan,
  \* cluster_nodes_change_time.
  changeTime,
  \* _config_version_applied = _config_version, and config_reload_pending.
  applied, reloadPending,
  \* The alert files.
  alerts,
  \* External: maintenance_mode_file exists.
  maintenance,
  \* History: answers due before the main thread asked, while it waits; and the
  \* alert files that the process found when it started.
  ahead, found

decisionVars == <<currentMaster, newerThan, alerts>>
configVars == <<changeTime, applied, reloadPending, found>>
mainVars == <<main, reason, deadline, decisionVars, configVars, maintenance, ahead>>
vars == <<monitorSpecVars, mainVars>>

Always == 0 - ObserverWait

TypeOK ==
  /\ MonitorTypeOK
  /\ main \in {"top", "check", "awaiting", "refreshed", "failover", "tail"}
  /\ reason \in {"refreshed", "stale", "unseen", "lag", None}
  /\ deadline \in Nat
  /\ currentMaster \in Nodes \cup {None}
  /\ newerThan \in Times \cup {Always}
  /\ changeTime \in Times
  /\ applied \in BOOLEAN /\ reloadPending \in BOOLEAN
  /\ alerts \subseteq {"multiple_master_warning", "replication_delay_warning",
                       "failover_has_happened"}
  /\ found \subseteq {"multiple_master_warning", "replication_delay_warning",
                      "failover_has_happened"}
  /\ maintenance \in BOOLEAN
  /\ ahead \in Nat

\* What __init__ and its load_config leave behind.
Init ==
  /\ MonitorInit
  /\ main = "top" /\ reason = None /\ deadline = 0
  /\ currentMaster = None /\ newerThan = Always
  /\ changeTime = now
  /\ applied = FALSE /\ reloadPending = FALSE
  /\ ahead = 0
  /\ alerts = {} /\ found = {} /\ maintenance = FALSE
-----------------------------------------------------------------------------
(* start_following_new_master.                                             *)

\* AutoFollow.tla has its steps.  A check only notices whether it raised, as it
\* always does for a master that is not in remote_conns.
FollowRaises(master) ==
  IF master \notin config.remote THEN {TRUE}
  ELSE IF "followFails" \in Environment THEN BOOLEAN ELSE {FALSE}
-----------------------------------------------------------------------------
(* main_loop, before and after the check.                                  *)

\* A pending SIGHUP: the new configuration replaces the old one in both
\* threads, and the iteration goes straight to its end.
Reload(c) ==
  /\ main = "top"
  /\ reloadPending
  /\ Outstanding + 1 < MaxRequests
  /\ reloadPending' = FALSE
  /\ config' = c
  /\ changeTime' = IF c.remote = config.remote THEN changeTime ELSE now
  /\ applied' = FALSE
  /\ pending' = pending + 1
  /\ main' = "tail"
  /\ UNCHANGED <<tokens, overWarning, cluster, order, observers, obsOrder, ownLag,
                 monitorVars, world, history, reason, deadline, decisionVars, maintenance,
                 ahead, found>>

\* _apply_latest_config_version: whether autofollow is on is not asked.
ApplyConfig ==
  /\ main = "top"
  /\ ~reloadPending /\ ~applied
  /\ main' = "check"
  /\ IF currentMaster \notin {None, Own}
     THEN \E raised \in FollowRaises(currentMaster) : applied' = ~raised
     ELSE applied' = TRUE
  /\ UNCHANGED <<shared, monitorVars, world, history, reason, deadline, decisionVars,
                 changeTime, reloadPending, maintenance, ahead, found>>

\* One token ends the wait; the others in the queue are thrown away.
TailToken ==
  /\ main = "tail"
  /\ tokens > 0
  /\ tokens' = 0
  /\ main' = "top"
  /\ UNCHANGED <<config, pending, overWarning, cluster, order, observers, obsOrder, ownLag,
                 monitorVars, world, history, reason, deadline, decisionVars, configVars,
                 maintenance, ahead>>

TailTimeout ==
  /\ main = "tail"
  /\ tokens = 0
  /\ main' = "top"
  /\ UNCHANGED <<shared, monitorVars, world, history, reason, deadline, decisionVars,
                 configVars, maintenance, ahead>>
-----------------------------------------------------------------------------
(* check_cluster_state and consider_failover.                              *)

Complete ==
  Cardinality(DOMAIN cluster) = Cardinality(config.remote) /\ cluster # Empty

\* is_master_observer_new_enough.
MasterObserverNewEnough ==
  \/ ~overWarning
  \/ currentMaster = None \/ currentMaster \notin config.observers
  \/ now - newerThan < ObserverWait
  \/ /\ currentMaster \in DOMAIN observers
     /\ observers[currentMaster].fetched >= newerThan

\* With nothing to apply the first statement of the iteration does nothing.
AtCheck == main = "check" \/ (main = "top" /\ applied /\ ~reloadPending)

GoodEnough == Complete /\ (config.warnOnly => MasterObserverNewEnough)

CheckSkipped ==
  /\ AtCheck
  /\ ~GoodEnough
  /\ main' = "tail"
  /\ UNCHANGED <<shared, monitorVars, world, history, reason, deadline, decisionVars,
                 configVars, maintenance, ahead>>

\* Every map that is computed warns of several masters.
AlertsAfter(map) ==
  alerts \cup (IF MultipleMasters(map) THEN {"multiple_master_warning"} ELSE {})

\* do_failover_decision.
FailoverDecided(map, pick, why) ==
  IF PromotesItself(map, pick, observers, config.never, maintenance, now)
  THEN main' = "failover" /\ reason' = why
  ELSE main' = "tail" /\ reason' = None

\* is_restoring_or_catching_up_normally, of the own entry.
CatchingUp ==
  /\ ~(ownLag.start # None /\ now - ownLag.start > CatchupTimeout)
  /\ \/ ~ownLag.receiving
     \/ ownLag.min = None \/ ownLag.min >= WarnLag

\* `not replication_lag' holds of None and of 0.0.
LagKnown == ownLag.lag # None /\ ownLag.lag # 0

\* Faulty variant: a lag that is critical already is not warned of.
JustOverWarningOnly == ownLag.lag \in WarnLag..FailoverLag - 1 /\ ~overWarning

JustOverWarning == ownLag.lag >= WarnLag /\ ~overWarning

\* check_replication_lag: crossing the boundary only warns; the failover is
\* left to the next check.
CheckReplicationLag(map, pick) ==
  IF CatchingUp \/ ~LagKnown
  THEN /\ main' = "tail" /\ reason' = None
       /\ alerts' = AlertsAfter(map)
       /\ UNCHANGED <<overWarning, newerThan>>
  ELSE IF JustOverWarning
  THEN /\ main' = "tail" /\ reason' = None
       /\ overWarning' = TRUE
       /\ newerThan' = IF config.warnOnly THEN now ELSE newerThan
       /\ alerts' = AlertsAfter(map) \cup {"replication_delay_warning"}
  ELSE /\ IF ownLag.lag >= FailoverLag
          THEN FailoverDecided(map, pick, "lag")
          ELSE main' = "tail" /\ reason' = None
       /\ IF ownLag.lag < WarnLag /\ overWarning
          THEN /\ overWarning' = FALSE
               /\ newerThan' = Always
               /\ alerts' = AlertsAfter(map) \ {"replication_delay_warning"}
          ELSE /\ alerts' = AlertsAfter(map)
               /\ UNCHANGED <<overWarning, newerThan>>

Finished(map) ==
  /\ main' = "tail" /\ reason' = None
  /\ alerts' = AlertsAfter(map)
  /\ UNCHANGED <<overWarning, newerThan>>

\* "Master is missing, ask for immediate state check".
AskForCheck(map) ==
  /\ Outstanding < MaxRequests
  /\ pending' = pending + 1
  /\ main' = "awaiting"
  /\ deadline' = now + MasterTimeout
  /\ ahead' = Outstanding
  /\ unpolled' = config.remote
  /\ steady' = {n \in config.remote \cap alive : n \in DOMAIN dbConns => dbConns[n] # "broken"}
  /\ alerts' = AlertsAfter(map)
  /\ UNCHANGED <<reason, overWarning, newerThan>>

\* What is left of a check that does not ask.
NoAsk == UNCHANGED <<pending, deadline, ahead, history>>

\* The history of a request ends with its check.
Answered ==
  /\ ahead' = 0 /\ unpolled' = {}
  /\ steady' = IF main' = "failover" THEN steady ELSE {}

\* The rest of check_cluster_state once the master of this round is known.  An
\* exception (following failed, or there is no own entry) ends the check.
ConsiderFailover(map, pick, master, raised) ==
  LET stops == raised \/ Own \notin DOMAIN cluster
               \/ master = Own \/ DOMAIN map.standbys = {}
      missing == pick.seen # "connected"
      ignored == ~config.onDisconnect /\ pick.seen = "disconnected"
  IN \/ stops /\ Finished(map) /\ NoAsk
     \/ ~stops /\ (missing => ignored) /\ CheckReplicationLag(map, pick) /\ NoAsk
     \/ ~stops /\ missing /\ ~ignored /\ master # None /\ AskForCheck(map)
     \/ /\ ~stops /\ missing /\ ~ignored /\ master = None
        /\ FailoverDecided(map, pick, "unseen")
        /\ alerts' = AlertsAfter(map)
        /\ UNCHANGED <<overWarning, newerThan>>
        /\ NoAsk

CheckClusterState ==
  LET map == CreateNodeMap(cluster, order, observers, obsOrder) IN
  /\ AtCheck
  /\ GoodEnough
  /\ \E pick \in MasterPicks(map) :
       LET master == IF pick.instance = None THEN currentMaster ELSE pick.instance
           follow == master \notin {currentMaster, Own} /\ config.autofollow
       IN \E raised \in (IF follow THEN FollowRaises(master) ELSE {FALSE}) :
            /\ currentMaster' = master
            /\ ConsiderFailover(map, pick, master, raised)
  /\ UNCHANGED <<config, tokens, cluster, order, observers, obsOrder, ownLag, monitorVars,
                 world, configVars, maintenance>>

\* Faulty variant: the request is put but its answer is not waited for.
AwaitNothing ==
  /\ main = "awaiting"
  /\ main' = "refreshed"
  /\ deadline' = 0
  /\ UNCHANGED <<shared, monitorVars, world, history, reason, decisionVars, configVars,
                 maintenance, ahead>>

\* failover_decision_queue.get(timeout=...) returns the first token.
AwaitToken ==
  /\ main = "awaiting"
  /\ tokens > 0
  /\ tokens' = tokens - 1
  /\ main' = "refreshed"
  /\ deadline' = 0
  /\ UNCHANGED <<config, pending, overWarning, cluster, order, observers, obsOrder, ownLag,
                 monitorVars, world, history, reason, decisionVars, configVars,
                 maintenance, ahead>>

\* queue.Empty ends the check.
AwaitTimeout ==
  /\ main = "awaiting"
  /\ tokens = 0
  /\ now >= deadline
  /\ main' = "tail"
  /\ deadline' = 0
  /\ Answered
  /\ UNCHANGED <<shared, monitorVars, world, reason, decisionVars, configVars, maintenance>>

\* The second half of the branch: a new map, the same current_master.
Recheck ==
  LET map == CreateNodeMap(cluster, order, observers, obsOrder)
      decided == \/ currentMaster \in config.gone
                 \/ now - changeTime >= MasterTimeout
  IN /\ main = "refreshed"
     /\ \E pick \in MasterPicks(map) :
          \/ pick.seen = "connected" /\ Finished(map)
          \/ /\ pick.seen # "connected" /\ decided
             /\ FailoverDecided(map, pick, IF ahead = 0 THEN "refreshed" ELSE "stale")
             /\ alerts' = AlertsAfter(map)
             /\ UNCHANGED <<overWarning, newerThan>>
          \/ pick.seen # "connected" /\ ~decided /\ CheckReplicationLag(map, pick)
     /\ Answered
     /\ UNCHANGED <<config, pending, tokens, cluster, order, observers, obsOrder, ownLag,
                    monitorVars, world, deadline, configVars, maintenance, currentMaster>>

\* Faulty variant: the warning is taken back without regard to the return code.
AlertsAfterAttempt(outcome) ==
  IF outcome = "raised" THEN alerts
  ELSE (alerts \ {"replication_delay_warning"}) \cup {"failover_has_happened"}

\* Faulty variant: a failover clears the flag and leaves the alert.
AlertStays(outcome) ==
  IF outcome = "raised" THEN alerts ELSE alerts \cup {"failover_has_happened"}

AlertsAfterFailover(outcome) ==
  CASE outcome = "ok" -> (alerts \ {"replication_delay_warning"}) \cup {"failover_has_happened"}
    [] outcome = "failed" -> alerts \cup {"failover_has_happened"}
    [] outcome = "raised" -> alerts

\* failover_command returns 0, returns something else, or cannot be run.
RunFailoverCommand(outcome) ==
  /\ main = "failover"
  /\ main' = "tail"
  /\ reason' = None
  /\ primary' = IF outcome = "ok" THEN primary \cup {Own} ELSE primary
  /\ overWarning' = (overWarning /\ outcome # "ok")
  /\ alerts' = AlertsAfterFailover(outcome)
  /\ steady' = {}
  /\ UNCHANGED <<config, pending, tokens, cluster, order, observers, obsOrder, ownLag,
                 monitorVars, alive, lsn, replayed, streaming, obsView, now, faults,
                 unpolled, deadline, currentMaster, newerThan, configVars,
                 maintenance, ahead>>
-----------------------------------------------------------------------------
(* Around the main thread.                                                 *)

\* POST /check, from anybody.
WebCheck ==
  /\ "web" \in Environment
  /\ Outstanding + 1 < MaxRequests
  /\ pending' = pending + 1
  /\ UNCHANGED <<config, tokens, overWarning, cluster, order, observers, obsOrder, ownLag,
                 monitorVars, world, history, mainVars>>

\* The signal handler only sets a flag.
Sighup ==
  /\ "sighup" \in Environment
  /\ ~reloadPending
  /\ reloadPending' = TRUE
  /\ UNCHANGED <<shared, monitorVars, world, history, main, reason, deadline, decisionVars,
                 changeTime, applied, maintenance, ahead, found>>

MaintenanceFile ==
  /\ Happens("maintenance")
  /\ maintenance' = ~maintenance
  /\ UNCHANGED <<shared, monitorVars, alive, primary, lsn, replayed, streaming,
                 obsView, now, history, main, reason, deadline, decisionVars, configVars,
                 ahead>>

\* The process ends and is started again, with whatever the config file says
\* by then: files survive, memory does not.
Restart(c) ==
  /\ Happens("restart")
  /\ config' = c
  /\ pending' = 1 /\ tokens' = 0
  /\ monitor' = "starting" /\ answering' = FALSE
  /\ toPoll' = {} /\ toFetch' = {} /\ dbConns' = Empty
  /\ cluster' = Empty /\ order' = <<>> /\ observers' = Empty /\ obsOrder' = <<>>
  /\ ownLag' = NoLag
  /\ unpolled' = {} /\ steady' = {} /\ ahead' = 0
  /\ main' = "top" /\ reason' = None /\ deadline' = 0
  /\ currentMaster' = None /\ newerThan' = Always /\ overWarning' = FALSE
  /\ changeTime' = now
  /\ applied' = FALSE /\ reloadPending' = FALSE
  /\ found' = alerts
  /\ UNCHANGED <<alive, primary, lsn, replayed, streaming, obsView, now,
                 alerts, maintenance>>

\* Nothing blocks between a token and the decision taken on it, and get() does
\* not overstay its timeout.
ClockTicks ==
  /\ main # "refreshed"
  /\ main = "awaiting" => now < deadline
  /\ Tick
  /\ UNCHANGED mainVars

Main ==
  \/ \E c \in Configs : Reload(c)
  \/ ApplyConfig
  \/ CheckSkipped \/ CheckClusterState
  \/ AwaitToken \/ AwaitTimeout \/ Recheck
  \/ \E outcome \in {"ok", "failed", "raised"} : RunFailoverCommand(outcome)
  \/ TailToken \/ TailTimeout

Next ==
  \/ Main
  \/ Monitor /\ UNCHANGED mainVars
  \/ Events /\ UNCHANGED mainVars
  \/ ClockTicks
  \/ WebCheck \/ Sighup \/ MaintenanceFile
  \/ \E c \in Configs : Restart(c)

Spec == Init /\ [][Next]_vars
-----------------------------------------------------------------------------
(* PgLookout implements CheckHandshake.                                    *)

HandshakeMain == IF main = "check" THEN "top"
                 ELSE IF main = "failover" THEN "tail" ELSE main

Handshake == INSTANCE CheckHandshake
  WITH Configs <- {c.remote : c \in Configs}, conns <- config.remote, main <- HandshakeMain

\* pglookout.py:496-501, 869-906 and cluster_monitor.py:355-382.  Whatever the
\* databases, the clock, the web and a reload do, the two threads exchange
\* requests and tokens as CheckHandshake says, so its theorems hold here.
ImplementsHandshake == Handshake!Spec
-----------------------------------------------------------------------------
(* Properties.                                                             *)

\* The main thread has decided to promote after a refresh that nothing queued
\* before its own request could have answered.
PromotesOnFreshData == main = "failover" /\ reason = "refreshed"

\* pglookout.py:496-518, "check that we still don't have a master node": no
\* primary that answered from the request on (and whose connection was sound)
\* is overlooked by the decision, through any interleaving of polls, role
\* changes, reloads and reports of observers.
NoFailoverOverLiveMaster == PromotesOnFreshData => steady \cap primary = {}

\* pglookout.py:548-567, "force looping one more time since we just passed the
\* warning limit": no failover for lag before the warning of an earlier check.
LagFailoverWasAnnounced ==
  main = "failover" /\ reason = "lag" =>
    overWarning /\ "replication_delay_warning" \in alerts

\* pglookout.py:549-571, 708-710: the alert file is there as long as the lag is
\* held to be over the limit, through failovers, reloads and restarts.
WarningHasAlert == overWarning => "replication_delay_warning" \in alerts

\* pglookout.py:549-571, 708-710: nor does the alert outlive the warning: a file
\* is there without the flag only if the process found it when it started, which
\* is when a predecessor ended while the lag was over the limit.
AlertHasWarning == "replication_delay_warning" \in alerts \ found => overWarning
-----------------------------------------------------------------------------
(* What a message of the code says and the code does not do, refuted by a  *)
(* run of its own.                                                         *)

\* pglookout.py:394-397: the check goes on without news of the master from its
\* observer only "because 5 db_poll_intervals have passed".
WaitsForObserver ==
  [][config.warnOnly /\ overWarning
     /\ currentMaster \in config.observers \ DOMAIN observers
     /\ CheckClusterState => now - newerThan >= ObserverWait]_vars
=============
