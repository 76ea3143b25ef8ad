------------------------------ MODULE Process -------------------------------
(***************************************************************************)
(* The life of a pglookout process: configuration, signals and the three   *)
(* threads, with everything the main thread writes outside the process,    *)
(* which outlives it: recovery.conf (AutoFollow.tla) and the JSON state    *)
(* file.  What a check finds and decides is in PgLookout.tla; here it may  *)
(* find any master.  A signal's handler runs in the main thread between    *)
(* any two of its steps, also when it waits for the other threads to end.  *)
(***************************************************************************)
EXTENDS AutoFollow

CONSTANTS Nodes, Own, None,
          Configs,       \* configurations: autofollow (with a template that can be
                         \* parsed), a log_level that exists, addresses of remote_conns
          Broken,        \* a file that is not JSON, or is not there
          MaxReloads     \* bound on changes of the configuration file

ASSUME ProcessAssumption ==
  /\ Own \in Nodes /\ None \notin Nodes /\ Broken \notin Configs
  /\ \A c \in Configs : c.autofollow \in BOOLEAN /\ c.logLevel \in BOOLEAN
  /\ MaxReloads \in Nat

VARIABLES
  configFile,      \* external: the configuration file
  reloads,         \* how often it was changed
  config, template,   \* self.config; primary_conninfo_template is set
  applied,         \* _config_version_applied = _config_version
  reloadPending,   \* config_reload_pending
  currentMaster,   \* current_master
  \* The main thread: in __init__ ("init"), about to start the monitor or the
  \* web server ("ready", "started"), in main_loop ("top", "loading", "loaded",
  \* "check", "write", "tail"), in start_following_new_master called from
  \* _apply_latest_config_version ("applying") or check_cluster_state
  \* ("following"), or "ended".
  main,
  running, monitorRunning,
  closing,         \* in webserver.close()
  monitor, web,    \* the other threads: "none", "starting" (web), "running", "ended"
  stateFile,       \* current_master in the JSON state file
  written,         \* history: the last write of stateFile, by this process, succeeded
  lost             \* history: the check could not make PostgreSQL follow currentMaster

configVars == <<configFile, reloads, config, template, applied, reloadPending>>
threads == <<running, monitorRunning, closing, monitor, web>>
stateVars == <<stateFile, written>>
vars == <<followVars, configVars, currentMaster, main, threads, stateVars, lost>>

Addresses == UNION {{c.address[n] : n \in DOMAIN c.address} : c \in Configs}

ASSUME AddressAssumption == Torn \notin Addresses /\ Down \notin Addresses

TypeOK ==
  /\ conf \in Addresses \cup {Torn} /\ temp \in Addresses \cup {Torn, Absent}
  /\ server \in Addresses \cup {Down}
  /\ step \in {"no", "write", "rename", "stop", "start"}
  /\ configFile \in Configs \cup {Broken} /\ reloads \in 0..MaxReloads
  /\ config \in Configs \cup {Broken} /\ (config = Broken => main \in {"init", "ended"})
  /\ currentMaster \in Nodes \cup {None} /\ stateFile \in Nodes \cup {None}
  /\ main \in {"init", "ready", "started", "top", "loading", "loaded", "applying", "check",
               "following", "write", "tail", "ended"}
  /\ (step # "no") => main \in {"applying", "following"}
  /\ monitor \in {"none", "running", "ended"}
  /\ web \in {"none", "starting", "running", "ended"}
  /\ {cut, template, applied, reloadPending, running, monitorRunning, closing, written, lost}
       \subseteq BOOLEAN

Ended == main = "ended" /\ monitor # "running" /\ web \notin {"starting", "running"}

Fresh ==
  /\ config' = Broken /\ template' = FALSE /\ applied' = FALSE /\ reloadPending' = FALSE
  /\ currentMaster' = None
  /\ running' = TRUE /\ monitorRunning' = TRUE /\ closing' = FALSE
  /\ monitor' = "none" /\ web' = "none"
  /\ written' = FALSE /\ lost' = FALSE

Init ==
  /\ FollowInit(Addresses)
  /\ configFile \in Configs /\ reloads = 0
  /\ config = Broken /\ template = FALSE /\ applied = FALSE /\ reloadPending = FALSE
  /\ currentMaster = None
  /\ main = "init"
  /\ running = TRUE /\ monitorRunning = TRUE /\ closing = FALSE
  /\ monitor = "none" /\ web = "none"
  /\ stateFile = None /\ written = FALSE /\ lost = FALSE
-----------------------------------------------------------------------------
(* Start, signals and end.                                                 *)

\* Faulty variant: load_config logs the error and returns.
InitGoesOn ==
  /\ main = "init"
  /\ main' = "ready"
  /\ config' = configFile /\ template' = (configFile # Broken /\ configFile.autofollow)
  /\ UNCHANGED <<followVars, configFile, reloads, applied, reloadPending, currentMaster, threads,
                 stateVars, lost>>

\* load_config, until something may raise: what it has read by then is in use.  A
\* template once set is kept; one that cannot be parsed turns autofollow off.
Read ==
  IF configFile = Broken THEN UNCHANGED <<config, template>>
  ELSE config' = configFile /\ template' = (template \/ configFile.autofollow)

Loads == configFile # Broken /\ configFile.logLevel

\* A file that does not load ends the process before there is another thread.
InitLoads ==
  /\ main = "init"
  /\ Read
  /\ main' = IF Loads THEN "ready" ELSE "ended"
  /\ UNCHANGED <<followVars, configFile, reloads, applied, reloadPending, currentMaster, threads,
                 stateVars, lost>>

StartMonitor ==
  /\ main = "ready"
  /\ main' = "started"
  /\ monitor' = "running"
  /\ UNCHANGED <<followVars, configVars, currentMaster, running, monitorRunning, closing, web,
                 stateVars, lost>>

StartWeb ==
  /\ main = "started"
  /\ main' = "top"
  /\ web' = "starting"
  /\ UNCHANGED <<followVars, configVars, currentMaster, running, monitorRunning, closing, monitor,
                 stateVars, lost>>

\* The web server's thread makes its server, or fails to bind the port.
WebServes ==
  /\ web = "starting"
  /\ \/ web' = "running" /\ UNCHANGED faults
     \/ web' = "ended" /\ Fault
  /\ UNCHANGED <<conf, temp, server, step, cut, configVars, currentMaster, main, running,
                 monitorRunning, closing, monitor, stateVars, lost>>

\* serve_forever returns after shutdown().
WebEnds ==
  /\ web = "running" /\ closing
  /\ web' = "ended"
  /\ UNCHANGED <<followVars, configVars, currentMaster, main, running, monitorRunning, closing,
                 monitor, stateVars, lost>>

\* Faulty variant: the monitor is not told.
QuitMain ==
  /\ main # "init" /\ ~Ended /\ ~closing
  /\ running' = FALSE
  /\ closing' = (web = "running")
  /\ UNCHANGED <<followVars, configVars, currentMaster, main, monitorRunning, monitor, web,
                 stateVars, lost>>

\* quit, on SIGTERM or SIGINT.  The server is asked to shut down if it exists.
Quit ==
  /\ main # "init" /\ ~Ended /\ ~closing
  /\ running' = FALSE /\ monitorRunning' = FALSE
  /\ closing' = (web = "running")
  /\ UNCHANGED <<followVars, configVars, currentMaster, main, monitor, web, stateVars, lost>>

\* shutdown() has waited for serve_forever.
CloseReturns ==
  /\ closing /\ web = "ended"
  /\ closing' = FALSE
  /\ UNCHANGED <<followVars, configVars, currentMaster, main, running, monitorRunning, monitor,
                 web, stateVars, lost>>

\* ClusterMonitor.run, after a round; or a round without a node or an observer,
\* for which ThreadPoolExecutor(0) raises.
MonitorEnds ==
  /\ monitor = "running"
  /\ ~monitorRunning \/ DOMAIN config.address = {}
  /\ monitor' = "ended"
  /\ UNCHANGED <<followVars, configVars, currentMaster, main, running, monitorRunning, closing,
                 web, stateVars, lost>>

\* Signals without a handler: SIGKILL, and SIGTERM in __init__.
Killed ==
  /\ ~Ended
  /\ FollowKilled
  /\ main' = "ended"
  /\ Fresh
  /\ UNCHANGED <<configFile, reloads, stateFile>>

\* The service is started again.
Start ==
  /\ Ended
  /\ main' = "init"
  /\ Fresh
  /\ UNCHANGED <<followVars, configFile, reloads, stateFile>>

\* External: an operator changes the configuration file and sends SIGHUP, if
\* there is a process; one in __init__ would be killed by it.
Reconfigure(c) ==
  /\ reloads < MaxReloads /\ reloads' = reloads + 1
  /\ configFile' = c
  /\ reloadPending' = (main # "init" /\ ~Ended)
  /\ UNCHANGED <<followVars, config, template, applied, currentMaster, main, threads, stateVars,
                 lost>>
-----------------------------------------------------------------------------
(* main_loop.                                                              *)

LoopEnds ==
  /\ main = "top" /\ ~running
  /\ main' = "ended"
  /\ UNCHANGED <<followVars, configVars, currentMaster, threads, stateVars, lost>>

BeginReload ==
  /\ main = "top" /\ running
  /\ reloadPending
  /\ reloadPending' = FALSE
  /\ main' = "loading"
  /\ UNCHANGED <<followVars, configFile, reloads, config, template, applied, currentMaster,
                 threads, stateVars, lost>>

\* A file that does not load ends the main thread, and only that one: sys.exit, or
\* the AttributeError of a log_level that does not exist.
ReadConfig ==
  /\ main = "loading"
  /\ Read
  /\ IF Loads THEN main' = "loaded" /\ UNCHANGED reloadPending
     ELSE main' = "ended" /\ reloadPending' = TRUE
  /\ UNCHANGED <<followVars, configFile, reloads, applied, currentMaster, threads, stateVars,
                 lost>>

\* Faulty variant: the request to reload is taken back when it has been met.
FinishAndReset ==
  /\ main = "loaded"
  /\ main' = "tail"
  /\ applied' = FALSE
  /\ reloadPending' = FALSE
  /\ UNCHANGED <<followVars, configFile, reloads, config, template, currentMaster, threads,
                 stateVars, lost>>

\* The new version is counted; the iteration goes straight to its end.
FinishReload ==
  /\ main = "loaded"
  /\ main' = "tail"
  /\ applied' = FALSE
  /\ UNCHANGED <<followVars, configFile, reloads, config, template, reloadPending, currentMaster,
                 threads, stateVars, lost>>

\* What makes start_following_new_master raise at once: no template was ever
\* configured, or the master is not in remote_conns.
CannotFollow(master) == ~template \/ master \notin DOMAIN config.address

\* _apply_latest_config_version.  It does not ask for autofollow.
Apply ==
  /\ main = "top" /\ running
  /\ ~reloadPending /\ ~applied
  /\ IF currentMaster \in {None, Own}
     THEN applied' = TRUE /\ main' = "check" /\ UNCHANGED <<followVars, lost>>
     ELSE \/ CannotFollow(currentMaster) /\ main' = "check" /\ UNCHANGED <<followVars, applied, lost>>
          \/ IOFails /\ main' = "check" /\ UNCHANGED <<applied, lost>>
          \/ /\ ~CannotFollow(currentMaster)
             /\ \/ /\ NothingToModify(config.address[currentMaster])
                   /\ main' = "check" /\ applied' = TRUE /\ lost' = FALSE
                \/ /\ Modify(config.address[currentMaster])
                   /\ main' = "applying" /\ UNCHANGED <<applied, lost>>
  /\ UNCHANGED <<configFile, reloads, config, template, reloadPending, currentMaster, threads,
                 stateVars>>

NothingToApply ==
  /\ main = "top" /\ running
  /\ ~reloadPending /\ applied
  /\ main' = "check"
  /\ UNCHANGED <<followVars, configVars, currentMaster, threads, stateVars, lost>>

\* check_cluster_state finds the master it knows, or none, or raises.
CheckFindsNothing ==
  /\ main = "check"
  /\ main' = "write"
  /\ UNCHANGED <<followVars, configVars, currentMaster, threads, stateVars, lost>>

\* check_cluster_state finds a new master, for which it needs a configured node.
CheckFinds(master) ==
  /\ main = "check"
  /\ DOMAIN config.address # {}
  /\ master # currentMaster
  /\ currentMaster' = master
  /\ IF master = Own \/ ~config.autofollow
     THEN main' = "write" /\ UNCHANGED <<followVars, lost>>
     ELSE \/ CannotFollow(master) /\ main' = "write" /\ lost' = TRUE /\ UNCHANGED followVars
          \/ IOFails /\ main' = "write" /\ lost' = TRUE
          \/ /\ ~CannotFollow(master)
             /\ \/ /\ NothingToModify(config.address[master])
                   /\ main' = "write" /\ lost' = FALSE
                \/ /\ Modify(config.address[master])
                   /\ main' = "following" /\ UNCHANGED lost
  /\ UNCHANGED <<configVars, threads, stateVars>>

FollowStep ==
  /\ \/ WriteTemp(config.address[currentMaster]) /\ UNCHANGED <<main, applied, lost>>
     \/ (Rename \/ StopServer) /\ UNCHANGED <<main, applied, lost>>
     \/ /\ StartServer
        /\ main' = IF main = "applying" THEN "check" ELSE "write"
        /\ applied' = (applied \/ main = "applying")
        /\ lost' = FALSE
  /\ UNCHANGED <<configFile, reloads, config, template, reloadPending, currentMaster, threads,
                 stateVars>>

\* Faulty variant: the version counts as applied whatever came of it.
AppliedAnyway ==
  /\ FollowRaises
  /\ main' = IF main = "applying" THEN "check" ELSE "write"
  /\ applied' = (applied \/ main = "applying")
  /\ lost' = (lost \/ main = "following")
  /\ UNCHANGED <<configFile, reloads, config, template, reloadPending, currentMaster, threads,
                 stateVars>>

\* Faulty variant: what a check raises ends the iteration.
IterationRaises ==
  /\ FollowRaises
  /\ main' = IF main = "applying" THEN "check" ELSE "tail"
  /\ lost' = (lost \/ main = "following")
  /\ UNCHANGED <<configVars, currentMaster, threads, stateVars>>

\* main_loop catches what either caller raises.
FollowStepRaises ==
  /\ FollowRaises
  /\ main' = IF main = "applying" THEN "check" ELSE "write"
  /\ lost' = (lost \/ main = "following")
  /\ UNCHANGED <<configVars, currentMaster, threads, stateVars>>

\* write_cluster_state_to_json_file: a temporary file, and the rename that counts.
WriteState ==
  /\ main = "write"
  /\ main' = "tail"
  /\ \/ stateFile' = currentMaster /\ written' = TRUE /\ UNCHANGED followVars
     \/ IOFails /\ written' = FALSE /\ UNCHANGED stateFile
  /\ UNCHANGED <<configVars, currentMaster, threads, lost>>

\* A token of the monitor, or replication_state_check_interval is over.
WaitEnds ==
  /\ main = "tail"
  /\ main' = "top"
  /\ UNCHANGED <<followVars, configVars, currentMaster, threads, stateVars, lost>>

\* pglookout_current_master.  The age of the file is compared with a clock that
\* never gets that far.
PrintedMaster == IF configFile = Broken THEN "error" ELSE stateFile
-----------------------------------------------------------------------------
MainStep ==
  \/ InitLoads
  \/ /\ ~closing
     /\ \/ StartMonitor \/ StartWeb \/ LoopEnds
        \/ BeginReload \/ ReadConfig \/ FinishReload
        \/ Apply \/ NothingToApply
        \/ CheckFindsNothing \/ (\E master \in Nodes : CheckFinds(master))
        \/ FollowStep \/ FollowStepRaises
        \/ WriteState \/ WaitEnds
  \/ CloseReturns

WebStep == WebServes \/ WebEnds

Next ==
  \/ MainStep \/ MonitorEnds \/ WebStep
  \/ Quit \/ Killed \/ Start
  \/ \E c \in Configs \cup {Broken} : Reconfigure(c)
  \/ ServerRestarts /\ UNCHANGED <<configVars, currentMaster, main, threads, stateVars, lost>>

\* The threads run.  None waits for ever: the waits for queues have timeouts.
Spec == Init /\ [][Next]_vars /\ WF_vars(MainStep) /\ WF_vars(MonitorEnds) /\ WF_vars(WebStep)
-----------------------------------------------------------------------------
(* Properties.                                                             *)

\* pglookout.py:190-203.  A configuration counts as applied only when recovery.conf
\* has the address it gives for the current master, after reloads, failed attempts
\* and restarts; unless it was the check that tried, which does not try again.
AppliedIsFollowed ==
  /\ main = "tail" /\ applied /\ ~lost
  /\ config.autofollow /\ currentMaster \notin {None, Own}
  => conf = config.address[currentMaster]

\* pglookout.py:888-895, current_master.py:42-55.  The helper command prints the
\* master of the check that the main thread has just finished, even if that check
\* ended in an exception.
PrintsCurrentMaster ==
  main = "tail" /\ written /\ configFile # Broken => PrintedMaster = currentMaster

\* pglookout.py:868-877.  A SIGHUP is not lost, whenever it comes: as long as the
\* main thread lives, the configuration in use is the one last signalled or will
\* be read again.
ReloadNotLost ==
  main \in {"init", "loading", "ended"} \/ reloadPending \/ config = configFile

\* pglookout.py:103-108.  Once the web server is there (or has failed), SIGTERM
\* ends the process, also one of which other threads have died before.
QuitEndsProcess == ~running /\ (closing \/ web = "ended") ~> Ended

\* README.rst:203-210, "Do you want pglookout to try to start following the new
\* primary": recovery.conf is left alone without autofollow.
AutofollowIsOff == [][conf' # conf => config.autofollow]_vars
=============================================================================
