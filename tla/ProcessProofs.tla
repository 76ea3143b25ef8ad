--------------------------- MODULE ProcessProofs ----------------------------
(***************************************************************************)
(* Process, for every set of nodes and configurations and any number of    *)
(* failures and reloads.                                                   *)
(***************************************************************************)
EXTENDS Process, TLAPS

-----------------------------------------------------------------------------
(* PostgreSQL follows recovery.conf.  The invariant ties each step of      *)
(* start_following_new_master to its caller, whose configuration and       *)
(* master do not change under it, and says what is in <name>_temp when it  *)
(* is about to be renamed, and what the server may be doing between the    *)
(* stop command and the start command.                                     *)

InUse == main \notin {"init", "ended"} => config \in Configs

InCall ==
  /\ step \in {"no", "write", "rename", "stop", "start"}
  /\ main \in {"applying", "following"} <=> step # "no"
  /\ step # "no" => currentMaster \in DOMAIN config.address

FollowInv ==
  /\ configFile \in Configs \cup {Broken}
  /\ InUse
  /\ InCall
  /\ conf \in Addresses
  /\ temp \in Addresses \cup {Torn, Absent}
  /\ step = "rename" => temp = config.address[currentMaster]
  /\ step \in {"stop", "start"} => conf = config.address[currentMaster]
  /\ step = "start" => cut \/ server = Down \/ server = conf
  /\ ServerFollowsConf

LEMMA AddressIn ==
  ASSUME NEW c \in Configs, NEW n \in DOMAIN c.address PROVE c.address[n] \in Addresses
<1>1. c.address[n] \in {c.address[m] : m \in DOMAIN c.address}
  OBVIOUS
<1> QED
  BY <1>1 DEF Addresses

LEMMA FollowInitial == Init => FollowInv
  BY DEF Init, FollowInit, FollowInv, InUse, InCall, ServerFollowsConf

\* The actions that do not touch PostgreSQL, its configuration or ours.
LEMMA ElsewhereFollows ==
  ASSUME FollowInv,
         UNCHANGED <<conf, temp, server, step, cut, configFile, config, currentMaster>>,
         main' = main \/ (step = "no" /\ main' \notin {"applying", "following"}
                          /\ (main = "init" => main' \in {"init", "ended"})
                          /\ (main = "ended" => main' \in {"init", "ended"}))
  PROVE  FollowInv'
  BY DEF FollowInv, InUse, InCall, ServerFollowsConf

LEMMA FollowInvStep == FollowInv /\ [Next]_vars => FollowInv'
<1> SUFFICES ASSUME FollowInv, [Next]_vars PROVE FollowInv'
  OBVIOUS
<1> USE DEF followVars, configVars, threads, stateVars, ServerFollowsConf
<1>1. CASE InitLoads
  BY <1>1 DEF InitLoads, Read, Loads, FollowInv, InUse, InCall
<1>2. CASE \/ StartMonitor \/ StartWeb \/ LoopEnds \/ BeginReload \/ FinishReload
           \/ NothingToApply \/ CheckFindsNothing \/ WaitEnds
  <2>1. step = "no"
    BY <1>2 DEF FollowInv, InCall, StartMonitor, StartWeb, LoopEnds, BeginReload, FinishReload,
                NothingToApply, CheckFindsNothing, WaitEnds
  <2> QED
    BY <1>2, <2>1, ElsewhereFollows
       DEF StartMonitor, StartWeb, LoopEnds, BeginReload, FinishReload, NothingToApply,
           CheckFindsNothing, WaitEnds
<1>3. CASE ReadConfig
  BY <1>3 DEF ReadConfig, Read, Loads, FollowInv, InUse, InCall
<1>4. CASE WriteState
  <2>1. step = "no"
    BY <1>4 DEF FollowInv, InCall, WriteState
  <2> QED
    BY <1>4, <2>1, ElsewhereFollows DEF WriteState, IOFails
<1>5. ASSUME NEW c \in Configs \cup {Broken}, Reconfigure(c) PROVE FollowInv'
  BY <1>5 DEF Reconfigure, FollowInv, InUse, InCall
<1>6. CASE Start
  BY <1>6 DEF Start, Ended, Fresh, FollowInv, InUse, InCall
<1>7. CASE Killed
  BY <1>7 DEF Killed, FollowKilled, Fresh, FollowInv, InUse, InCall
<1>8. CASE Apply
  <2>1. step = "no" /\ config \in Configs
    BY <1>8 DEF Apply, FollowInv, InUse, InCall
  <2> QED
    BY <1>8, <2>1 DEF Apply, CannotFollow, NothingToModify, Modify, IOFails, FollowInv, InUse,
                      InCall
<1>9. ASSUME NEW master \in Nodes, CheckFinds(master) PROVE FollowInv'
  <2>1. step = "no" /\ config \in Configs
    BY <1>9 DEF CheckFinds, FollowInv, InUse, InCall
  <2> QED
    BY <1>9, <2>1 DEF CheckFinds, CannotFollow, NothingToModify, Modify, IOFails, FollowInv,
                      InUse, InCall
<1>10. CASE FollowStep
  <2>1. step # "no" /\ config \in Configs /\ config.address[currentMaster] \in Addresses
    <3>1. step # "no" /\ config \in Configs /\ currentMaster \in DOMAIN config.address
      BY <1>10 DEF FollowStep, WriteTemp, Rename, StopServer, StartServer, FollowInv, InUse, InCall
    <3> QED
      BY <3>1, AddressIn
  <2>2. CASE WriteTemp(config.address[currentMaster]) /\ UNCHANGED main
    BY <1>10, <2>1, <2>2 DEF FollowStep, WriteTemp, FollowInv, InUse, InCall
  <2>3. CASE Rename /\ UNCHANGED main
    BY <1>10, <2>1, <2>3 DEF FollowStep, Rename, FollowInv, InUse, InCall
  <2>4. CASE StopServer /\ UNCHANGED main
    BY <1>10, <2>4 DEF FollowStep, StopServer, FollowInv, InUse, InCall
  <2>5. CASE StartServer /\ main' = IF main = "applying" THEN "check" ELSE "write"
    BY <1>10, <2>5 DEF FollowStep, StartServer, FollowInv, InUse, InCall
  <2> QED
    BY <1>10, <2>2, <2>3, <2>4, <2>5 DEF FollowStep
<1>11. CASE FollowStepRaises
  BY <1>11 DEF FollowStepRaises, FollowRaises, FollowInv, InUse, InCall
<1>12. CASE ServerRestarts /\ UNCHANGED <<configVars, currentMaster, main, threads, stateVars, lost>>
  BY <1>12, AddressAssumption DEF ServerRestarts, AddressAssumption, FollowInv, InUse, InCall
<1>13. CASE CloseReturns \/ MonitorEnds \/ WebStep \/ Quit \/ UNCHANGED vars
  BY <1>13, ElsewhereFollows DEF CloseReturns, MonitorEnds, WebStep, WebServes, WebEnds, Quit, vars
<1> QED
  BY <1>1, <1>2, <1>3, <1>4, <1>5, <1>6, <1>7, <1>8, <1>9, <1>10, <1>11, <1>12, <1>13
     DEF Next, MainStep

LEMMA FollowAlways == Spec => []FollowInv
  BY FollowInitial, FollowInvStep, PTL DEF Spec

\* pglookout.py:777-801: at rest, and unless the last restart was cut short,
\* PostgreSQL replicates from where recovery.conf says.
THEOREM ServerFollows == Spec => []ServerFollowsConf
<1>1. FollowInv => ServerFollowsConf
  BY DEF FollowInv
<1> QED
  BY <1>1, FollowAlways, PTL

\* pglookout.py:771-774: recovery.conf is complete in every state.  It is renamed
\* over only when <name>_temp was written to its end in the same call: neither a
\* kill nor a full disk before that leads to the rename, and what they leave is
\* emptied by the next attempt.
THEOREM ConfAlwaysWhole == Spec => []ConfIsWhole
<1>1. FollowInv => ConfIsWhole
  BY AddressAssumption DEF AddressAssumption, FollowInv, ConfIsWhole
<1> QED
  BY <1>1, FollowAlways, PTL
-----------------------------------------------------------------------------
(* Types.                                                                  *)

\* The part of TypeOK that FollowInv does not have already: the flags, ...
FlagsOK ==
  /\ cut \in BOOLEAN /\ template \in BOOLEAN /\ applied \in BOOLEAN /\ reloadPending \in BOOLEAN
  /\ running \in BOOLEAN /\ monitorRunning \in BOOLEAN /\ closing \in BOOLEAN
  /\ written \in BOOLEAN /\ lost \in BOOLEAN

\* ... and the others.
PlacesOK ==
  /\ server \in Addresses \cup {Down}
  /\ reloads \in 0..MaxReloads
  /\ config \in Configs \cup {Broken}
  /\ currentMaster \in Nodes \cup {None} /\ stateFile \in Nodes \cup {None}
  /\ main \in {"init", "ready", "started", "top", "loading", "loaded", "applying", "check",
               "following", "write", "tail", "ended"}
  /\ monitor \in {"none", "running", "ended"}
  /\ web \in {"none", "starting", "running", "ended"}

LEMMA TypeInitial == Init => FlagsOK /\ PlacesOK
<1>1. Init => FlagsOK
  BY DEF Init, FollowInit, FlagsOK
<1>2. Init => PlacesOK
  BY ProcessAssumption DEF ProcessAssumption, Init, FollowInit, PlacesOK
<1> QED
  BY <1>1, <1>2

LEMMA FlagsStep == ASSUME FollowInv, FlagsOK, [Next]_vars PROVE FlagsOK'
<1> USE DEF FlagsOK, followVars, configVars, threads, stateVars
<1>1. \A c \in Configs : c.autofollow \in BOOLEAN
  BY ProcessAssumption DEF ProcessAssumption
<1>2. CASE InitLoads
  BY <1>1, <1>2 DEF InitLoads, Read, Loads, FollowInv
<1>3. CASE StartMonitor \/ StartWeb \/ LoopEnds
  BY <1>3 DEF StartMonitor, StartWeb, LoopEnds
<1>4. CASE BeginReload \/ FinishReload
  BY <1>4 DEF BeginReload, FinishReload
<1>5. CASE NothingToApply \/ CheckFindsNothing \/ WaitEnds
  BY <1>5 DEF NothingToApply, CheckFindsNothing, WaitEnds
<1>6. CASE ReadConfig
  BY <1>1, <1>6 DEF ReadConfig, Read, Loads, FollowInv
<1>7. CASE Apply
  BY <1>7 DEF Apply, NothingToModify, Modify, IOFails
<1>8. ASSUME NEW master \in Nodes, CheckFinds(master) PROVE FlagsOK'
  BY <1>8 DEF CheckFinds, NothingToModify, Modify, IOFails
<1>9. CASE FollowStep
  <2>1. cut' \in BOOLEAN
    BY <1>9 DEF FollowStep, WriteTemp, Rename, StopServer, StartServer
  <2>2. applied' \in BOOLEAN /\ lost' \in BOOLEAN
    BY <1>9 DEF FollowStep
  <2>3. UNCHANGED <<template, reloadPending, threads, written>>
    BY <1>9 DEF FollowStep
  <2> QED
    BY <2>1, <2>2, <2>3
<1>10. CASE FollowStepRaises
  BY <1>10 DEF FollowStepRaises, FollowRaises
<1>11. CASE WriteState
  BY <1>11 DEF WriteState, IOFails
<1>12. CASE CloseReturns
  BY <1>12 DEF CloseReturns
<1>13. CASE MonitorEnds \/ WebServes \/ WebEnds
  BY <1>13 DEF MonitorEnds, WebServes, WebEnds
<1>14. CASE Quit
  BY <1>14 DEF Quit
<1>15. CASE Killed \/ Start
  BY <1>15 DEF Killed, Start, Fresh, FollowKilled
<1>16. ASSUME NEW c \in Configs \cup {Broken}, Reconfigure(c) PROVE FlagsOK'
  BY <1>16 DEF Reconfigure
<1>17. CASE ServerRestarts /\ UNCHANGED <<configVars, currentMaster, main, threads, stateVars, lost>>
  BY <1>17 DEF ServerRestarts
<1>18. CASE UNCHANGED vars
  BY <1>18 DEF vars
<1> QED
  BY <1>2, <1>3, <1>4, <1>5, <1>6, <1>7, <1>8, <1>9, <1>10, <1>11, <1>12, <1>13, <1>14, <1>15,
     <1>16, <1>17, <1>18 DEF Next, MainStep, WebStep

LEMMA PlacesStep == ASSUME FollowInv, PlacesOK, [Next]_vars PROVE PlacesOK'
<1> USE DEF PlacesOK, followVars, configVars, threads, stateVars
<1>1. CASE InitLoads
  BY <1>1 DEF InitLoads, Read, Loads, FollowInv
<1>2. CASE StartMonitor \/ StartWeb \/ LoopEnds
  BY <1>2 DEF StartMonitor, StartWeb, LoopEnds
<1>3. CASE BeginReload \/ ReadConfig \/ FinishReload
  BY <1>3 DEF BeginReload, ReadConfig, Read, Loads, FinishReload, FollowInv
<1>4. CASE NothingToApply \/ CheckFindsNothing \/ WaitEnds
  BY <1>4 DEF NothingToApply, CheckFindsNothing, WaitEnds
<1>5. CASE Apply
  BY <1>5 DEF Apply, NothingToModify, Modify, IOFails
<1>6. ASSUME NEW master \in Nodes, CheckFinds(master) PROVE PlacesOK'
  BY <1>6 DEF CheckFinds, NothingToModify, Modify, IOFails
<1>7. CASE FollowStep
  <2>1. server' \in {server, Down, conf}
    BY <1>7 DEF FollowStep, WriteTemp, Rename, StopServer, StartServer
  <2>2. server' \in Addresses \cup {Down}
    BY <2>1 DEF FollowInv
  <2>3. main' \in {main, "check", "write"}
    BY <1>7 DEF FollowStep
  <2>4. UNCHANGED <<reloads, config, currentMaster, threads, stateVars>>
    BY <1>7 DEF FollowStep
  <2> QED
    BY <2>2, <2>3, <2>4
<1>8. CASE FollowStepRaises
  BY <1>8 DEF FollowStepRaises, FollowRaises
<1>9. CASE WriteState
  BY <1>9 DEF WriteState, IOFails
<1>10. CASE CloseReturns \/ MonitorEnds
  BY <1>10 DEF CloseReturns, MonitorEnds
<1>11. CASE WebServes \/ WebEnds \/ Quit
  BY <1>11 DEF WebServes, WebEnds, Quit
<1>12. CASE Killed \/ Start
  BY <1>12 DEF Killed, Start, Fresh, FollowKilled
<1>13. ASSUME NEW c \in Configs \cup {Broken}, Reconfigure(c) PROVE PlacesOK'
  <2>1. reloads' \in 0..MaxReloads
    BY <1>13, ProcessAssumption DEF ProcessAssumption, Reconfigure
  <2> QED
    BY <1>13, <2>1 DEF Reconfigure
<1>14. CASE ServerRestarts /\ UNCHANGED <<configVars, currentMaster, main, threads, stateVars, lost>>
  BY <1>14 DEF ServerRestarts, FollowInv
<1>15. CASE UNCHANGED vars
  BY <1>15 DEF vars
<1> QED
  BY <1>1, <1>2, <1>3, <1>4, <1>5, <1>6, <1>7, <1>8, <1>9, <1>10, <1>11, <1>12, <1>13, <1>14, <1>15
     DEF Next, MainStep, WebStep

\* Every variable keeps its type, and a process past __init__ always has a
\* configuration it could read (pglookout.py:118-133).
THEOREM TypeCorrect == Spec => []TypeOK
<1>1. FollowInv /\ FlagsOK /\ PlacesOK => TypeOK
  <2> SUFFICES ASSUME FollowInv, FlagsOK, PlacesOK PROVE TypeOK
    OBVIOUS
  <2>1. config = Broken => main \in {"init", "ended"}
    BY ProcessAssumption DEF ProcessAssumption, FollowInv, InUse
  <2> QED
    BY <2>1 DEF FollowInv, InCall, FlagsOK, PlacesOK, TypeOK
<1> QED
  BY <1>1, FollowAlways, TypeInitial, FlagsStep, PlacesStep, PTL DEF Spec
-----------------------------------------------------------------------------
(* What main_loop keeps from one iteration to the next.                    *)

\* An applied version is what recovery.conf says, from the moment the version
\* is counted until the next one is read.
AppliedInv ==
  /\ main = "applying" => ~applied
  /\ /\ main \in {"top", "loading", "applying", "check", "write", "tail"}
     /\ applied /\ ~lost
     /\ config.autofollow /\ currentMaster \notin {None, Own}
     => conf = config.address[currentMaster]

\* Between the write of an iteration and the check of the next one the state
\* file has the master of the former.
PrintInv ==
  main \in {"tail", "top", "loading", "loaded", "applying", "check"} /\ written
    => stateFile = currentMaster

\* A process starts out knowing nothing and having written nothing.
StartInv == main \in {"init", "ready", "started"} => currentMaster = None /\ ~written

LoopInv == ReloadNotLost /\ AppliedInv /\ PrintInv /\ StartInv

LEMMA LoopInitial == Init => LoopInv
  BY DEF Init, LoopInv, ReloadNotLost, AppliedInv, PrintInv, StartInv

LEMMA LoopInvStep == FollowInv /\ LoopInv /\ [Next]_vars => LoopInv'
<1> SUFFICES ASSUME FollowInv, LoopInv, [Next]_vars PROVE LoopInv'
  OBVIOUS
<1> USE DEF followVars, configVars, threads, stateVars, LoopInv, ReloadNotLost, AppliedInv,
            PrintInv, StartInv
<1>1. CASE InitLoads \/ StartMonitor \/ StartWeb \/ LoopEnds
  BY <1>1 DEF InitLoads, Read, Loads, StartMonitor, StartWeb, LoopEnds
<1>2. CASE BeginReload \/ ReadConfig \/ FinishReload
  BY <1>2 DEF BeginReload, ReadConfig, Read, Loads, FinishReload
<1>3. CASE NothingToApply \/ CheckFindsNothing \/ WaitEnds
  BY <1>3 DEF NothingToApply, CheckFindsNothing, WaitEnds
<1>4. CASE WriteState
  BY <1>4 DEF WriteState, IOFails
<1>5. ASSUME NEW c \in Configs \cup {Broken}, Reconfigure(c) PROVE LoopInv'
  BY <1>5 DEF Reconfigure, Ended
<1>6. CASE Start \/ Killed
  BY <1>6 DEF Start, Killed, Fresh, FollowKilled
<1>7. CASE Apply
  BY <1>7 DEF Apply, NothingToModify, Modify, IOFails
<1>8. ASSUME NEW master \in Nodes, CheckFinds(master) PROVE LoopInv'
  BY <1>8 DEF CheckFinds, NothingToModify, Modify, IOFails
<1>9. CASE FollowStep
  <2>1. main \in {"applying", "following"} /\ step \in {"write", "rename", "stop", "start"}
    BY <1>9 DEF FollowStep, WriteTemp, Rename, StopServer, StartServer, FollowInv, InCall
  <2>2. CASE UNCHANGED <<main, applied, lost>>
    BY <1>9, <2>1, <2>2 DEF FollowStep
  <2>3. CASE StartServer /\ main' = IF main = "applying" THEN "check" ELSE "write"
    <3>1. conf' = config.address[currentMaster]
      BY <2>3 DEF StartServer, FollowInv
    <3> QED
      BY <1>9, <2>1, <2>3, <3>1 DEF FollowStep
  <2> QED
    BY <1>9, <2>2, <2>3 DEF FollowStep
<1>10. CASE FollowStepRaises
  <2>1. main \in {"applying", "following"}
    BY <1>10 DEF FollowStepRaises, FollowRaises, FollowInv, InCall
  <2> QED
    BY <1>10, <2>1 DEF FollowStepRaises, FollowRaises
<1>11. CASE ServerRestarts /\ UNCHANGED <<configVars, currentMaster, main, threads, stateVars, lost>>
  BY <1>11 DEF ServerRestarts
<1>12. CASE CloseReturns \/ MonitorEnds \/ WebStep \/ Quit \/ UNCHANGED vars
  BY <1>12 DEF CloseReturns, MonitorEnds, WebStep, WebServes, WebEnds, Quit, vars
<1> QED
  BY <1>1, <1>2, <1>3, <1>4, <1>5, <1>6, <1>7, <1>8, <1>9, <1>10, <1>11, <1>12
     DEF Next, MainStep

LEMMA LoopAlways == Spec => []LoopInv
  BY FollowAlways, LoopInitial, LoopInvStep, PTL DEF Spec

\* pglookout.py:868-877: whenever a SIGHUP comes, also while load_config reads
\* the version before, the version it announces is read in the end.
THEOREM ReloadIsNotLost == Spec => []ReloadNotLost
<1>1. LoopInv => ReloadNotLost
  BY DEF LoopInv
<1> QED
  BY <1>1, LoopAlways, PTL

\* pglookout.py:190-203: no failure and no order of reloads makes a version count
\* as applied that recovery.conf does not follow.
THEOREM AppliedMeansFollowed == Spec => []AppliedIsFollowed
<1>1. LoopInv => AppliedIsFollowed
  BY DEF LoopInv, AppliedInv, AppliedIsFollowed
<1> QED
  BY <1>1, LoopAlways, PTL

\* pglookout.py:888-895, current_master.py:42-55: the helper command prints the
\* master of the last finished check, whatever that check raised.
THEOREM StateFileIsCurrent == Spec => []PrintsCurrentMaster
<1>1. LoopInv => PrintsCurrentMaster
  BY DEF LoopInv, PrintInv, PrintsCurrentMaster, PrintedMaster
<1> QED
  BY <1>1, LoopAlways, PTL
=============================================================================
