# pglookout: specification, model checking and proofs

pglookout watches a PostgreSQL replication cluster and promotes a standby when
its primary is gone.  One daemon runs beside every database, and others, called
observers, run where there is no database; they share nothing but what they can
read over HTTP.  A wrong decision loses data or yields two primaries.

This directory holds TLA+ models of the daemon, runs of the model checker TLC
on small instances, and proofs checked by TLAPS for instances of any size.

    tlc -workers 2 -config PgLookoutReload.cfg MCPgLookout     (a run)
    tlapm PgLookoutProofs.tla                                  (the proofs)

`PROJECT.json` lists the runs, the source lines behind every definition, the
hazards and which property answers each, and, for each property of a run, a
faulty variant of a definition under which that property is violated.  The
faulty variants stand in the modules, before the definition they are variants of
and with a comment that says so; nothing else uses them.

## The system

| Component | State | Operations | Interacts through |
|---|---|---|---|
| Main loop (`pglookout.py`, main thread) | `current_master`, `replication_lag_over_warning_limit`, `observer_state_newer_than`, `cluster_nodes_change_time`, config version | `main_loop`, `check_cluster_state`, `consider_failover`, `check_replication_lag` | copies `cluster_state` and `observer_state`; puts requests and takes tokens |
| Cluster monitor (`cluster_monitor.py`, a thread and a worker pool per round) | `db_conns`, `cluster_state`, `observer_state` | `run`, `main_monitoring_loop`, `update_cluster_member_state`, `fetch_observer_state`, clean-up | takes requests, puts tokens; reads `config` and, by a callback, the warning flag |
| Queues | `cluster_monitor_check_queue`, `failover_decision_queue` | put, get with a timeout, emptying | all threads |
| Node map (`create_node_map`) | the maps of connected and disconnected masters and observers | pure but for those and an alert | main loop |
| Failover decision (`do_failover_decision`) | none | majority, last contact, positions, `failover_command` | databases |
| Configuration (`load_config`, `_apply_latest_config_version`) | `config` of both threads | SIGHUP, reload | both threads, queue |
| Following a master (`start_following_new_master`) | `recovery.conf` or `postgresql.auto.conf` | rewrite, rename, stop and start PostgreSQL | file system |
| Alert files | three files | create, delete | operators |
| Web server (`webserver.py`) | none | `GET /state.json`, `POST /check` | observers' monitors, queue |
| Process life cycle | `running` flags | start, `quit`, SIGHUP | all threads |
| JSON state file, `current_master` command | a file | write and rename; read | file system |
| Helpers: `pgutil`, `common`, `statsd`, `logutil` | none | | |

What is hard here:

* **Two threads and a pool share dictionaries without locks**, and talk over two
  queues nobody looks into: a token does not say which request it answers.
* **Stale data is kept on purpose.**  A failed poll is merged over the last good
  one, psycopg2 believes in connections whose server has gone, observers report
  old entries, and nodes that a reload drops may be in the middle of a poll.
* **Each daemon decides alone**, at its own time and on its own view.
* **State survives in some places only**: alert files and `recovery.conf` outlive
  the process, the flags that go with them do not.

What makes each component correct:

* queues: a request is answered, the answer is not lost, and it is fresh;
* monitor: entries belong to the configured nodes, dead nodes are noticed and
  live ones reconnected, whatever the timing of reloads;
* node map: own contact with a node outweighs what others report, and one
  trustworthy contact with a master is enough;
* main loop: no failover over a master that was there all along, none by a
  standby with less WAL than another it could see, none for lag that was not
  announced; flag and alert file agree, but for
  a file that a predecessor has left behind;
* failover decision: two daemons with compatible views do not both promote, and
  one of those that are left does;
* timing: while the master is missing, decisions go on and requests do not pile up;
* following and life cycle: `recovery.conf` is always complete and PostgreSQL does
  what it says, no reload is lost, SIGTERM ends the process, and the state file
  names the current master.

## Modules

| Module | Models |
|---|---|
| `CheckHandshake` | What the two queues promise: the abstract specification |
| `CheckHandshakeProofs` | Proofs: types, freshness, and that no answer is lost |
| `CheckTiming` | The same exchange in seconds: rounds and waits that take time |
| `CheckTimingProofs` | Proofs: types, requests do not pile up, decisions are recent, who goes ahead |
| `NodeMap` | `create_node_map` as a function of the two dictionaries |
| `NodeMapProofs` | Lemmas on that function, for any views; the induction they rest on |
| `NodeMapLoop`, `MCNodeMapLoop` | The loops of `create_node_map` as written, compared with `NodeMap` |
| `NodeMapLoopProofs` | Proofs: the two agree on every view; own and observed contact count |
| `FailoverDecision` | `do_failover_decision` and its helpers as functions |
| `ClusterMonitor`, `MCClusterMonitor` | The monitor thread, the databases, observers and clock around it |
| `PgLookout`, `MCPgLookout` | The main thread beside the monitor: one daemon that takes decisions, and the refinement of `CheckHandshake` |
| `PgLookoutProofs` | Proofs: of the monitor, that the dictionaries' keys follow the connections; of the daemon, types, the three warning properties, the refinement, no failover over a live master |
| `Cluster`, `MCCluster` | Several daemons over one set of databases and a network that is cut and healed |
| `ClusterProofs` | Proofs: types, laggards wait, one successor, majorities meet, no stalemate; two theorems on two daemons that decide |
| `AutoFollow` | `start_following_new_master`, step by step, with failures and kills |
| `Process`, `MCProcess` | The life of the process: threads, signals, configuration file, following, state file |
| `ProcessProofs` | Proofs: types, and what `recovery.conf`, the applied configuration and the state file promise |
| `ConnInfo`, `MCConnInfo` | The parser of connection strings, and the line pglookout reads back |
| `ConnInfoProofs` | Proofs: what is quoted is understood, and the own line is read back |

`NodeMap` is at the bottom; `FailoverDecision` and `ClusterMonitor` extend it;
`PgLookout` extends both and instantiates `CheckHandshake` under the mapping
`conns <- config.remote`, `main <- HandshakeMain`.  `Cluster` instantiates
`FailoverDecision` once per daemon (`Daemon(d)`).  `Process` extends
`AutoFollow`.  A module of proofs extends the module it is about;
`PgLookoutProofs` also extends `NodeMapProofs` and instantiates
`CheckHandshakeProofs` under the mapping above.

`PgLookout` and `Process` are two views of the same main thread.  `PgLookout` has
what a check reads and decides and takes following a master as one step that may
raise; `Process` lets a check find any master and has everything that happens to
the threads and the files.  Both have `_apply_latest_config_version` and the
reload, since both sides depend on them.

### How state and actions correspond to the code

`cluster` and `observers` are `cluster_state` and `observer_state` with `order`
and `obsOrder` beside them for the insertion order of the dictionaries, which
decides which disconnected master comes first.  An entry keeps what a decision
reads: connection, role, fetch time, time of the last contact with a primary,
and the position of a standby.  Lag is kept of the own entry only (`ownLag`).
`dbConns` tells an open connection from a `None` and from one that is broken
without psycopg2's knowledge.  A queue is a counter: all its messages are alike.
A configuration is a record of the settings that vary between the members of
`Configs`; the numeric settings are CONSTANTS.

The main thread blocks at three places: in the `get()` of `consider_failover`
(`main = "awaiting"`), in that at the end of `main_loop` (`"tail"`) and in
`failover_command` (`"failover"`).  What it does between two of them is one
action, because it works on copies: the two `deepcopy`s and all that is
computed from them are a single step.  The exception is the step from "awaiting"
to "refreshed", which is kept apart from the decision (`Recheck`) so that workers
of a round still in progress can store results in between.
The monitor's round is split at each result a worker stores.  Connecting and
cleaning up at the start of a round are one step; the second connection attempt
in the worker, after a first one that failed, is part of the poll.

| Code | Actions |
|---|---|
| `main_loop` 868-884 | `Reload`, `ApplyConfig` |
| `check_cluster_state`, `consider_failover`, `check_replication_lag` | `CheckSkipped`, `CheckClusterState`, `AwaitToken`, `AwaitTimeout`, `Recheck` |
| `do_failover_decision` | `FailoverDecided`, `RunFailoverCommand` |
| `main_loop` 896-906 | `TailToken`, `TailTimeout` |
| `ClusterMonitor.run`, `main_monitoring_loop` | `StartRequested`, `StartPeriodic`, `FinishRound` |
| jobs of the pool | `PollNode`, `FetchObserver` |
| `sighup`, `do_POST`, the process | `Sighup`, `WebCheck`, `Restart` |
| databases, observers, operators, time (external) | `NodeDown`, `NodeUp`, `ChangeRole`, `Replicate`, `ObserverRound`, `MaintenanceFile`, `ClockTicks` |

`Cluster` reduces each daemon to the steps between which another can overtake it.
`view[d]`, `order[d]` and `currentMaster[d]` are `cluster_state`, the order of its
keys and `current_master` of the daemon beside `d`; `phase[d]` is the place where
its main thread blocks.  `Round` is a monitor round outside a refresh, `Poll` one
poll of the round that answers a request, `Check` is `check_cluster_state` up to
the request, `Recheck` the decision after the answer, `RunFailoverCommand` the
command.  That the answer stands for a poll of every node after the request is
what `CheckHandshake` promises.  The last contact is an age that is no longer
counted beyond the failover timeout.  `promoted`, `steady`, `raced` and `rivals`
are history: the properties speak of them, no guard does.

`CheckTiming` has timers that count down: `mainTimer` is what is left of the
`get()` of the main thread, `monitorTimer` of that of the monitor or of its round.
`RoundTimes` follows `connect_to_cluster_nodes_and_cleanup_old_nodes`, which tries
one host after the other for 5 seconds (`wait_select`), and the workers, which try
once more side by side.  A host that refuses a connection costs no time, and neither
does the main thread's own work.  `WebCheck` and `Reload` put the requests of others,
at any time and at the top of an iteration.  `foreign` counts these since nothing was
outstanding, and `fresh` says that a round has ended in this very second; both are
history.

| Code | Actions of `Process` and `AutoFollow` |
|---|---|
| `__init__`, `run` | `InitLoads`, `StartMonitor`, `StartWeb`, `LoopEnds` |
| `WebServer.run`, `close` | `WebServes`, `WebEnds`, `CloseReturns` |
| `quit`, `sighup` and the file it announces | `Quit`, `Reconfigure` |
| `ClusterMonitor.run`, its end | `MonitorEnds` |
| `main_loop` 868-877, `load_config` | `BeginReload`, `ReadConfig`, `FinishReload` |
| `_apply_latest_config_version` | `Apply`, `NothingToApply` |
| `check_cluster_state` | `CheckFindsNothing`, `CheckFinds` |
| `modify_recovery_conf_to_point_at_new_master` | `NothingToModify`, `Modify`, `WriteTemp`, `Rename`, `IOFails` |
| `start_following_new_master`, `execute_external_command` | `StopServer`, `StartServer`, `FollowRaises` |
| `write_cluster_state_to_json_file`, `main_loop` 896-906 | `WriteState`, `WaitEnds` |
| supervisor, other restarts of PostgreSQL (external) | `Killed`, `Start`, `ServerRestarts` |

In `Process`, `main` names the place between two steps of the main thread at which
a signal handler may run; `closing` stands for the handler of SIGTERM that waits in
`webserver.close()`, during which the main thread takes no other step.  Of
`recovery.conf` and of the temporary file beside it the model keeps the address in
`primary_conninfo` (`conf`, `temp`), or that the file is torn: opening the temporary
file empties it, a kill or a full disk may come before it is written to its end, and
what is renamed is what is there.  Of PostgreSQL it keeps the address it replicates
from (`server`).  A configuration says whether autofollow is on, with a template that
can be parsed (one that cannot turns it off), and whether its `log_level` exists (one
that does not raises in `load_config`, when the settings read so far are in use
already).  `cut` and `lost` are
history: the restart after a rename was cut short, and the check could not follow
the master it recorded.  `ConnInfo` has one action, a turn of the parser's loop
(`parse_connection_string_libpq`); its initial states are the strings.  A string is
a sequence of characters of which five matter: white space, the quote, the
backslash, `=`, and everything else.  The loops within a turn, and those that write
the string, are functions over sequences: `Loop(s, effect, start)` applies
`effect[s[i]]` for one character after the other.  `quotes` is how each value
stands in the string: an operator may leave a value bare that needs no quotes, and
psycopg2 does.  The literal that `adapt` makes of the own line is the one PostgreSQL
reads with `standard_conforming_strings`.

Simplifications a reader should know: fetch times are taken when a poll ends
rather than when it begins; an observer makes at most one round per unit of time;
the order of the instances inside one observer's JSON is open; a command that
ends well with `ok` has promoted the own database; a lag is never negative, as
`abs` makes it; a node's name is a number, ordered as the strings are; the
positions compared are the receive positions of standbys.  Failures outside the
daemon are limited per run by `Environment` (which kinds) and `MaxFaults` (how
many).

## Runs

| Run (`cfg`) | Bounds | Shows |
|---|---|---|
| `CheckHandshake` | 3 names, 3 configurations, 4 outstanding requests | `RefreshIsFresh`, `AnswerNotLost` and `AwaitEnds` |
| `CheckTiming` | the default settings in seconds, 0 or 1 silent hosts, 3 requests of others since nothing was outstanding, no bound on time | `DecisionsGoOn`, `DecisionsAreRecent`, `OnlyOthersGoAhead`, `RequestsDoNotPileUp` |
| `NodeMapLoop` | all views of two nodes, two observers, two fetch times | the closed form equals the loop; `OneContactIsEnough`, `OwnViewTrusted` |
| `ClusterMonitor` | 2 nodes, either of them configured or not, 2 events, one request at a time | `EntriesFollowConnections`; dead nodes noticed, live ones reconnected, dropped ones forgotten |
| `PgLookoutSwitchover` | 2 nodes and an observer, 2 role changes, lost reports or partitions | `NoFailoverOverLiveMaster` |
| `PgLookoutReload` | 3 nodes, two configurations of two, reloads at any moment, one death, restart or maintenance, 1 unit of time, requests from the web | `ImplementsHandshake`, `LagFailoverWasAnnounced`, `WarningHasAlert`, `AlertHasWarning` |
| `Cluster` | a primary and two standbys with a daemon each, 2 deaths or changes of the network, one WAL position to receive, no bound on time | `OneSuccessor`, `RivalsAgree`, `MajoritiesMeet`, `NoLaggardPromoted`, `ExactlyOneStepsIn` |
| `Process` | 2 nodes, three configurations, one that raises, and an unreadable file, 2 changes of it, 2 failures or kills, any number of restarts and signals | `ConfIsWhole`, `ServerFollowsConf`, `AppliedIsFollowed`, `PrintsCurrentMaster`, `ReloadNotLost`, `QuitEndsProcess` |
| `ConnInfo` | two keys, all values of up to two of five kinds of characters, with quotes or without where they can be left out | `UnderstandsQuoting`, `ReadsOwnLine` |

Why the bounds are enough to be interesting.  Three names give a node that is
polled, one that is dropped and one that is added within one request; four
outstanding requests let two foreign answers stand before the own one.  Two
events make a master disappear and come back, or a standby be dropped while its
master dies.  In the reload run one other event is enough because reloads have
no limit but the flag that they set, and exchange the nodes again and again; one of
the two configurations ignores a disconnected master, so that the lag fails over.
There the lag is unknown or critical: how a flag once set is taken back by a lag
below the limit is left to the theorems, which hold for all limits.
`MaxRequests` bounds the queues; an action that would put another request is not
taken at the bound, and the guards of the environment's requests leave room for one
of the main thread's own.  In the switchover run the own node
has the highest name: only then can it be the furthest along beside a standby at
the same position, and so fail over at all.  In the reload run both configurations
have the same number of nodes, because `check_cluster_state` compares numbers only:
the first check after a reload then works on entries of the old nodes.
`FreshLimit` exceeds `MasterTimeout` as 20 s exceeds the default of 15 s.
In the cluster run three nodes are the smallest cluster in which two standbys
compete, and in which a cut can leave one of them with less than half of the nodes;
two changes of the network cut one off and bring it back.  In the process run the
three configurations move the other node, turn autofollow off, and remove all
nodes, so two changes lead from any to any by way of a third, of one that raises after
it is in use, or of a file that cannot be read.  In the timing run three requests of
others are one for each place: queued, being answered, and answered; or three before
the check's own.  Two characters are enough for each pair the parser's loop treats
by its first member, and two keys for a value that runs into the next.

A failing poll of a primary may close the connection after the entry was stored
(slots, `txid_current`); that is a choice in `ConnectionAfter`.

Three more runs each refute what a message or the manual says:

* `WaitsForObserver` - the comparison at 394 is the inverse of its message.
* `WaitsAfterContact` - "last contact was still within failover timeout ...
  not failing over" (635-640) is said of the first disconnected master only (615).
  After one failover whose old master stays away, the contact with the new one is
  not looked at, and the remaining standby promotes itself as soon as it loses
  sight of it.
* `AutofollowIsOff` - `_apply_latest_config_version` follows the current master
  whether `autofollow` is on or not (199).

Noted while modelling, without a run of its own:

* The refresh before a failover (comment at 497) may rest on a round begun before
  the request, when an answer to something else was due.  `RefreshIsFresh` says when
  it does not, `OnlyOthersGoAhead` that with quick rounds only the web or a reload can
  be the cause, and `DecisionsAreRecent` what holds all the same: a round has ended in
  the very second of the decision.  With a silent host rounds take about as long as a
  check waits, so the monitor may answer no more than the checks ask for, and after a
  single `POST /check` the decisions can be one answer behind for as long as the host
  stays silent; without one the backlog goes away.  (Both are TLC's results on
  variants of the run in which nobody asks any more, with one and with three requests
  outstanding at the start.)
* 661 subtracts the length of `never_promote_these_nodes` without looking whether its
  nodes are standbys.  With a master on that list that has gone, each of two standbys
  that see nobody knows enough to fail over (`ListedMasterSplits`).
* A standby to which the daemon is connected, and which an observer still reports as a
  master, is put among the masters too, beside its place among the standbys
  (`OwnViewTrusted` speaks of that place only).
* The comment at 520-522 speaks of a timeout for a master that was never seen; the
  code compares no time on that branch, so a daemon restarted on the wrong side of
  a partition decides in its first complete check.
* `failover_on_disconnect = false` falls through to the lag check (527), and the lag
  grows while the master is away.
* `cluster_monitor.py:344` sets `replication_start_time` on a result that has been
  merged already: a standby that starts to replicate after its first poll never
  gets one.
* With two silent hosts a round takes at least 16 seconds, more than
  `missing_master_from_config_timeout`: `CheckTiming` with `SilentHosts = {2}`
  violates `DecisionsGoOn`, and with three `RequestsDoNotPileUp` says nothing, since
  requests do pile up.
* A standby can receive WAL while two are deciding, as when the master comes back
  between two polls of a refresh: then both can take themselves for the furthest.
  `OneSuccessor` names the case (`raced`) and excludes every other.
* A restart of PostgreSQL that was cut short after the rename, by a crash or a
  failing command, is not made up for: the next call finds the file as it should
  be.  PostgreSQL stays down, or with the old master.  `ServerFollowsConf` names
  this case (`cut`) too.
* A master that the check has recorded and could not follow is not followed by the
  next check either, only after a reload: `AppliedIsFollowed` names this case (`lost`).
* A configuration that cannot be read, or whose `log_level` does not exist, ends, at a
  reload, the main thread only;
  monitor and web server go on until SIGTERM.  SIGTERM before the web server's
  thread has made its server does not close it, and a second one is needed.
  SIGTERM does not stop a failover that has been decided.
* After a reload to no nodes and no observers `ThreadPoolExecutor(0)` raises, and the
  monitor is not started again.  A connection string that is neither a URL nor a list
  of `key=value` has the same effect: `mask_connection_info` raises in
  `connect_to_cluster_nodes_and_cleanup_old_nodes` (`cluster_monitor.py:114`).
* Values with a quote or a backslash, and no space for which they would be enclosed
  in quotes, are not read back from `primary_conninfo`, so
  every reload restarts PostgreSQL, and 200 ("no-op if the config-file doesn't
  change") is wrong for them: `make_dsn` escapes without enclosing, and the parser
  takes backslashes literally outside of quotes.  The comment at 744 also asks for
  `recovery_target_timeline`, which is not compared.
* `current_master.py:47` subtracts a time since the epoch from the monotonic clock,
  so a state file is never too old.
* `cluster_monitor.py:133` looks for the text of an exception in `message`, which
  exceptions do not have: there is never an `authentication_error` alert.
* A lag of exactly 0.0 counts as "no lag" (538) and does not take the warning back;
  nor does a restarted daemon remove the alert of its predecessor.
* The comment at 878 speaks of waiting for the requested check, but the `get()` at
  897 has a timeout and takes any token, so a check may run before a new node has
  been polled once.

### Fairness

`CheckHandshake` and `ClusterMonitor` assume weak fairness of the monitor's own
steps: a query has a timeout in `wait_select`, a fetch one of 5 seconds, and the
`get()` on the request queue one too, so the thread always comes round again.
In `CheckHandshake` a `get()` with a token in the queue returns.  Timeouts of the
main thread, events, reloads and requests are never assumed to happen.  The
liveness properties are about nodes that stay as they are, so no strong fairness
is needed.  `CheckTiming` assumes that the program does something as long as it can:
the threads run and time passes; which of two possible steps comes first is left
open.  Nobody is assumed to ask over HTTP or to reload, and both may go on for ever:
`DecisionsGoOn` excepts a configuration that is reloaded again and again, each time
instead of a check.  `Process` assumes weak fairness of the main thread, of the end of
a monitor that has been told to end (or has raised), and of the web server's thread; signals,
kills, restarts and changes of files are never assumed to happen.  A main thread
that waits in `shutdown()` is not assumed to go on before `serve_forever` has
returned.  The runs of `PgLookout` and `Cluster` check safety only.

## Proofs

Every invariant and every safety property that a passing run checks is proved for
all values of the constants; two properties of `Cluster` under a hypothesis on the
nodes, without which they do not hold.

| Module | Theorem | Says |
|---|---|---|
| `CheckHandshakeProofs` | `TypeCorrect`, `FreshnessHolds`, `Freshness`, `NeverLost` | `TypeOK`, the inductive invariant `FreshnessInv`, `RefreshIsFresh`, `AnswerNotLost` |
| `CheckTimingProofs` | `TypeCorrect`, `NoPile` | `TypeOK`, `RequestsDoNotPileUp` |
| | `DecidesOnRecent`, `OnlyForeignAhead` | `DecisionsAreRecent`, `OnlyOthersGoAhead` |
| `NodeMapLoopProofs` | `ClosedForm`, `ContactCounts`, `OwnCounts` | `LoopMatchesMap`, `OneContactIsEnough`, `OwnViewTrusted` |
| `PgLookoutProofs` | `EntriesFollow` | `EntriesFollowConnections` of `ClusterMonitor` |
| | `TypeCorrect`, `EntriesFollowHere` | `TypeOK`, and `EntriesFollowConnections` beside the main thread |
| | `LagFailoverIsAnnounced`, `WarningIsAlerted`, `AlertIsWarned` | `LagFailoverWasAnnounced`, `WarningHasAlert`, `AlertHasWarning` |
| | `Implements` | `ImplementsHandshake`: a behaviour of the daemon is one of the abstract handshake |
| | `LiveMasterSpared` | `NoFailoverOverLiveMaster` |
| `ClusterProofs` | `TypeCorrect`, `LaggardsWait` | `TypeOK`, `NoLaggardPromoted` |
| | `OneOfRivals`, `MajoritiesAlwaysMeet` | `RivalsAgree`, `MajoritiesMeet`, for any number of nodes |
| | `OneOfTwo` | `OneSuccessor`, for at most three nodes, from the two before it |
| | `NoStalemate` | `ExactlyOneStepsIn`, when every node but the first primary has a daemon |
| | `NeverBothPromote` | two daemons that see each other as candidates at the same positions do not both promote |
| | `OneSidePromotes` | two sides that know the same standbys and observers, but reach disjoint parts of them, both fail over only if `never_promote_these_nodes` lists a node that is no standby |
| | `ListedMasterSplits` | and with the lost master on that list two isolated standbys both know enough |
| `ProcessProofs` | `TypeCorrect`, `ServerFollows`, `ConfAlwaysWhole` | `TypeOK`, `ServerFollowsConf`, `ConfIsWhole` |
| | `AppliedMeansFollowed`, `ReloadIsNotLost`, `StateFileIsCurrent` | `AppliedIsFollowed`, `ReloadNotLost`, `PrintsCurrentMaster` |
| `ConnInfoProofs` | `QuotingUnderstood`, `OwnLineReadBack` | `UnderstandsQuoting`, `ReadsOwnLine`, for any number of keywords and values of any length |

### Assumptions

They stand in the modules, with a name each, and TLC evaluates them in the runs.
Most give constants their types, and say that a bound is a number.  Those that say
more:

* `ConfigAssumption`: a configuration names nodes and observers that exist.  Whether
  the own node is one of them, nothing in `load_config` looks at, and nothing here
  assumes; the monitor run has a configuration without it.
* `BoundaryAssumption`: the warning boundary is no higher than the failover limit;
  `load_config` lowers it where it is.
* `OrdersAssumption`, `ViewsAssumption`: the order of a dictionary lists all of its
  keys.
* `NoneAssumption`: Python's `None` is no number.
* `CharactersAssumption`, `KeysAssumption`: white space, quote, backslash and `=`
  are different characters; keywords are words without white space and `=`, and
  none stands twice in a dictionary.
* `AddressAssumption`: no address is called "torn" or "down", which are words of the model.
* In `CheckTiming`, a round that answers somebody can take several lengths of time,
  but not unboundedly many: there is a longest one (`Slowest`).

### Arguments

**Freshness.**  `RefreshIsFresh` is not inductive: it says nothing while the main
thread waits.  `FreshnessInv` adds what happens meanwhile.  Queues are first in,
first out, so the answer to the request is token number `ahead + 1`, where
`ahead` is what was due when it was put.  If the running round is the one that
will put that token, what is still unpolled is still to be polled by it
(`OwnRoundCoversRequest`, which needs that the round started after the request
and so took its nodes from the same configuration, `AskedAboutConfigured`); if
the token is in the queue, everything has been polled (`OwnAnswerIsFresh`).
`AnswerNotLost` counts: what is outstanding does not fall below `ahead + 1` until
the wait ends.

**Time.**  `RoundInv` says that a token not yet taken was put in this very second,
and no periodic round has begun since; `DecisionsAreRecent` follows, because no time
passes between a token and what it allows.  `RequestsDoNotPileUp` needs to know how
long what is due may still take.  `PileInv` compares the two timers: the token
after those of others comes no later than the wait for it ends, also where a request
found a periodic round in progress, which answers nobody (`Behind`).  `QuickInv` is the
same with room for two rounds in the wait: then nothing of the checks is due when a
check asks, and the token that makes up for its own request is on time.  Both
count what is outstanding against `foreign`, which falls only when nothing is.

**Monitor.**  `KeysInv` relates the keys of four structures: `order` lists
`cluster_state`, whose keys have a connection, and a connection without an entry
belongs to a node that this round has yet to poll.  Only the start of a round
removes keys, and from all of them at once, which is why a reload in the middle of
a round leaves no entry behind for good.

**Node map.**  `CreateNodeMap` and `InOrder` recur over sequences.  The library's
induction theorems cannot be instantiated here, since they take a predicate; but
induction over a set of numbers can be had without: `UpTo` says that a set which
has 0, and i + 1 with every i below N, has all up to N, because otherwise
i |-> i - 1 would map the counterexamples up to one of them into fewer
(`FS_PigeonHole`).  With it the recursive functions exist and satisfy their
equations (`HeardSteps`, `InOrderSteps`), and what they keep can be proved
(`CreateNodeMapInv`).  `LoopInv` of `NodeMapLoopProofs` says that halfway through
a loop the dictionaries hold what the closed form adds for the instances visited;
the one delicate part is which disconnected master comes first
(`FirstOfFewer`: the first of a sequence that is in a set, if it is in a subset
too, is the first in that).  What an observer reports of an instance is looked up
in `connected_master_nodes` as the observers before left it, because no other
instance of the same observer touches that key.

**Refinement.**  Under the mapping, a step of the monitor is a step of the abstract
monitor, a step of the main thread is its abstract namesake, and everything else
stutters: a worker's result changes `unpolled` and nothing else that the abstract
specification sees.  What carries over is `FreshnessInv`, by way of the
instance of `CheckHandshakeProofs`.

**Live master.**  `SeenWhileWaiting` says that a master which has been up, in the
configuration and soundly connected since the request was put (`steady`), and
which has been polled since, is in `cluster_state` as a connected primary.  When
the wait ends and nothing was due before, `FreshnessInv` says that everything has
been polled; by `CreateNodeMapInv` such an entry makes the master a connected one,
whatever observers report; and with a connected master `do_failover_decision`
does not promote.

**Lag.**  The three warning theorems share an invariant: a failover for lag is only
decided with the flag set, the flag is only set with the alert, and both are cleared
together; `found`, a history variable, has the alert files of a predecessor, which
nothing else explains.  What needs care is that the lag is a number whenever it is
compared, which is part of `TypeOK`, and `BoundaryAssumption`: without it a lag
between the two limits would clear the flag and fail over in one go.

**Laggards.**  `LagInv`: nobody is believed to be further than it is, since
positions only grow, and a refreshing daemon knows the very position of every
steady standby that it has polled, since a position grows only by receiving, which
is done by standbys beside a primary that is up; one that receives meanwhile is no longer
counted as steady.

**One successor.**  `OneSuccessor` is true of three nodes and false of four, and TLC
finds how: a third standby that first the one and then the other can reach makes a
majority for each.  What holds of any number of nodes are its two halves.
`RivalsAgree`: two that compared themselves with each other (`rivals`, a history
variable: the standbys whose positions a daemon compared when it decided to promote
itself) do not both promote themselves.  `MajoritiesMeet`: two that do had both
reached some standby.  So what is left for a split is a standby in the middle, which
may be one of the two, that the other one has not reached in return.

`RivalsAgree` is about decisions taken at different times, so `SuccessorInv` keeps
what the first one leaves behind for the second: a daemon that still takes for a
standby who has promoted itself finds it ahead of itself or of a higher name, if
that one had compared itself with it (`Outranked`), and who promotes itself saw its
rivals at their true positions (`Current`, `Ahead`), which is `OneFurthest`, the
core of `NeverBothPromote`.  `Majority` adds how many rivals there are: more than
half of the nodes that were not known as primaries, which is where the master
counted by `+1` (660) comes in; without it, each of two standbys is half, and TLC
refutes the property.  With three nodes a majority of the standbys is both of them, so
`OneSuccessor` follows (`TwoStandbys`).

**No stalemate.**  When everybody has polled everybody that is left, and these are
half of the cluster, there is a furthest one among them (`Highest`, an induction
over positions), all maps name the same standbys at the same positions
(`SettledDecision`), and exactly that one decides to promote.  The hypothesis that
every standby has its daemon is needed: one without is the furthest for everybody
else, and nobody promotes it.

**Two daemons.**  `NeverBothPromote` and `OneSidePromotes` are about the
functions, with their hypotheses in the statement; they assume nothing of how
the views came about.  They say when a split decision is impossible, and so what
must have gone wrong if it occurs: the two did not see each other, or did not see
the same positions, counted different standbys, or were told never to promote a
node that is no standby.  The last is no slip of the theorem: `ListedMasterSplits`
shows that line 661 then gives both enough.

**Process.**  `FollowInv` ties each step of `start_following_new_master` to its
caller: when the temporary file is to be renamed it has been written to its end,
whatever an earlier attempt had left in it;
while a call is under way neither `config` nor `current_master` changes,
because a reload waits for the next iteration (`InCall`), so the address that was
renamed into place is still the right one when the server starts; between the stop
and the start the server is down, unless a command failed (`cut`).
`LoopInv` follows one iteration: the configuration in use is the one last
signalled or the flag is set, which needs that the flag is cleared before the file
is read; a configuration counts as applied only after `conf` has been compared or
renamed; and the check, the only step that changes `current_master`, comes before
the write of the state file in the same iteration, whatever raises in between.

**Connection strings.**  What a parser computes is a fold, and the provers cannot
instantiate a fold's operator parameter; over `Loop`, which takes a function, the
two equations of a fold (`LoopEmpty`, `LoopAppend`) follow from the existence of
the recursive function, and induction over sequences from induction over their
lengths, both as in `NodeMapProofs`.  Three lemmas say that a loop that reads undoes
the loop that wrote: doubled quotes are paired again (`DoubledIsRead`), what is
escaped and enclosed is scanned to its end and no further, whatever comes behind
(`EscapedIsRead`, `EnclosedIsRead`), and a bare value ends at the next white space
(`BareIsRead`).  `ParserInv` says that after every turn there is an m such that the
dictionary has the first m keywords with their values and what is left is the
string written for the others, up to white space at its ends (`ReadUpTo`): the
values read before do not matter, the characters within the values still to be
read neither.  Both properties follow, since at the end nothing is left and m is the
number of keywords.

Of the inductive invariants TLC checked these as well, before they were proved:
`FreshnessInv` on the instance of `CheckHandshake`; `KeysInv`, `WorldInv` and
`SeenWhileWaiting` on the instances of `PgLookoutReload` and
`PgLookoutSwitchover` (839 158 and 2 960 612 states); `LagInv`, `SuccessorInv` and
`Majority` on that of `Cluster` (1 273 611 states); `ParserInv` on that of
`ConnInfo`.
`RivalsAgree` and `MajoritiesMeet` were checked on four nodes too, with three deaths
or changes of the network and a daemon beside each of the two standbys of the
highest names, and no time to wait (6 612 572 states), where `OneSuccessor` fails.

### Left to TLC

Liveness under fairness (`AwaitEnds`, `DeadNodeNoticed`, `LiveNodeReconnected`,
`DroppedNodeForgotten`, `DecisionsGoOn`, `QuitEndsProcess`) and anything with ENABLED
are out of the prover's reach.

## Limits of what is shown

`NoFailoverOverLiveMaster` speaks of masters whose connection was sound when the
main thread asked.  One whose server was restarted under an open connection
fails its next poll although it is up, because the poll finds the old
connection and gives up after closing it (`cluster_monitor.py:288-296`); a refresh
can therefore miss it, and the model shows that it does.  Likewise
`NoLaggardPromoted` speaks of standbys that were reachable all along.
It is about decisions after a refresh that nothing outstanding could have
answered, as is every failover of `Cluster`.  Failover for lag and failover with a
master never seen do not refresh at all.

`Cluster` starts when every daemon has polled everybody and seen the master, the state
after a first round and check and not that of `__init__`; a
daemon that restarts inside a partition, observers, and nodes that must never be
promoted are in `PgLookout` only.  That a successor steps in is stated as what the
daemons would decide once they have seen what there is (`ExactlyOneStepsIn`), not
as liveness.  In `Process` a failure of the file system or of a command leaves what
the code would find afterwards, but the machine does not crash: nothing is synced
before the rename, so a crash could leave an empty `recovery.conf` (774).

`ClusterMonitor` has every error of psycopg2 and every time-out, which the code
catches.  A worker that raises anything else ends without an entry
(`cluster_monitor.py:366-368` logs it); that is not modelled, and
`EntriesFollowConnections` would not hold of a first poll that did so.

`ConnInfo` has the strings of operators who write values bare or escaped and in
quotes.  libpq also takes spaces around `=` and backslashes in bare values; the parser
makes a part of the key of the former and takes the latter literally.

## Not modelled

Next would come connection URLs, if more than a listing of `urlparse`'s results is
ever done.

Left out for good: statistics, logging, packaging, and the conversions in
`common.py`; they hold no state that a decision reads.
