-------------------------- MODULE PgLookoutProofs ---------------------------
(***************************************************************************)
(* ClusterMonitor and PgLookout, for every set of nodes, observers,        *)
(* configurations and timeouts.  First the monitor by itself, with an      *)
(* invariant whose steps are proved one by one, because they are steps of  *)
(* PgLookout too; then the main thread around it.                          *)
(***************************************************************************)
EXTENDS PgLookout, NodeMapProofs

-----------------------------------------------------------------------------
(* The monitor.                                                            *)

\* What an observer's JSON may say, ours or theirs.
Reports(db) == \A n \in DOMAIN db : db[n] \in Entries

\* The own database has replayed nothing from the future; every observer has
\* something to say, if only that it knows of no node.
WorldInv ==
  /\ replayed # None => replayed <= now
  /\ DOMAIN obsView = Observers
  /\ \A o \in Observers : Reports(obsView[o])

\* Between the keys of the dictionaries: db_conns, cluster_state with its
\* insertion order, and what the round in progress has yet to poll.
KeysInv ==
  /\ Listed(order) = DOMAIN cluster
  /\ DOMAIN cluster \subseteq DOMAIN dbConns
  /\ DOMAIN dbConns \subseteq DOMAIN cluster \cup toPoll
  /\ monitor # "polling" => toPoll = {}

MonitorInv == MonitorTypeOK /\ WorldInv /\ KeysInv

-----------------------------------------------------------------------------
(* What one poll finds out.                                                *)

LEMMA ReadingType ==
  ASSUME MonitorTypeOK, NEW n \in Nodes PROVE Reading(n) \in Entries
<1>1. now \in Times /\ lsn[n] \in 0..MaxLsn /\ 0 \in 0..MaxLsn
  BY BoundsAssumption DEF MonitorTypeOK, BoundsAssumption
<1> QED
  BY <1>1 DEF Reading, Entries, Entry

LEMMA FailingType ==
  ASSUME MonitorTypeOK, NEW entries, NEW n, n \in DOMAIN entries => entries[n] \in Entries
  PROVE  Failing(entries, n) \in Entries
<1>1. now \in Times /\ 0 \in 0..MaxLsn
  BY BoundsAssumption DEF MonitorTypeOK, BoundsAssumption
<1> QED
  BY <1>1 DEF Failing, Entries, Entry

OwnLags == [lag : Times \cup {None}, min : Times \cup {None},
            receiving : BOOLEAN, start : Times \cup {None}]

\* A lag is never negative, so it is a time that has passed.
LEMMA MeasureLagType ==
  ASSUME MonitorTypeOK, WorldInv, NEW n PROVE MeasureLag(n) \in OwnLags
<1>1. ownLag \in OwnLags /\ now \in Times /\ streaming \in BOOLEAN
  BY DEF MonitorTypeOK, OwnLags
<1>2. replayed # None => now - replayed \in Times
  BY BoundsAssumption DEF BoundsAssumption, MonitorTypeOK, WorldInv, Times
<1>3. CASE n # Own
  BY <1>1, <1>3 DEF MeasureLag
<1>4. CASE n = Own /\ n \in primary
  BY <1>1, <1>4 DEF MeasureLag, OwnLags
<1>5. CASE n = Own /\ n \notin primary
  <2> DEFINE start == IF n \notin DOMAIN cluster /\ streaming THEN now ELSE ownLag.start
  <2>1. start \in Times \cup {None}
    BY <1>1 DEF OwnLags
  <2>2. CASE replayed = None
    BY <1>1, <1>5, <2>1, <2>2 DEF MeasureLag, OwnLags
  <2>3. CASE replayed # None
    BY <1>1, <1>2, <1>5, <2>1, <2>3 DEF MeasureLag, OwnLags
  <2> QED
    BY <2>2, <2>3
<1> QED
  BY <1>3, <1>4, <1>5

-----------------------------------------------------------------------------
(* The steps of the monitor thread.                                        *)

LEMMA MonitorInvInit == MonitorInit => MonitorInv
<1> SUFFICES ASSUME MonitorInit PROVE MonitorInv
  OBVIOUS
<1>1. 0 \in Times /\ 0 \in 0..MaxFaults
  BY BoundsAssumption DEF BoundsAssumption, Times
<1>2. primary \subseteq Nodes /\ lsn \in [Nodes -> 0..MaxLsn]
  BY WorldAssumption DEF WorldAssumption, MonitorInit
<1>3. DOMAIN Empty = {} /\ <<>> \in Seq(Nodes) /\ <<>> \in Seq(Observers)
  BY DEF Empty
<1>4. MonitorTypeOK
  BY <1>1, <1>2, <1>3 DEF MonitorInit, MonitorTypeOK, NoLag
<1>5. WorldInv
  BY <1>1, <1>3 DEF MonitorInit, WorldInv, Reports, Times
<1>6. Listed(<<>>) = {}
  BY DEF Listed
<1>7. KeysInv
  BY <1>3, <1>6 DEF MonitorInit, KeysInv
<1> QED
  BY <1>4, <1>5, <1>7 DEF MonitorInv

LEMMA StartRoundStep ==
  ASSUME MonitorInv, NEW requested \in BOOLEAN, StartRound(requested), pending' \in Nat
  PROVE  MonitorInv'
<1> DEFINE gone == DOMAIN dbConns \ config.remote
           connection(n) == IF n \in DOMAIN dbConns /\ dbConns[n] # "null" THEN dbConns[n]
                            ELSE IF n \in alive THEN "open" ELSE "null"
<1> USE DEF MonitorInv
<1>1. /\ dbConns' = [n \in config.remote |-> connection(n)]
      /\ cluster' = Keep(cluster, DOMAIN cluster \ gone)
      /\ order' = InOrder(order, DOMAIN cluster \ gone)
      /\ observers' = Keep(observers, DOMAIN observers \ gone)
      /\ obsOrder' = InOrder(obsOrder, DOMAIN observers \ gone)
      /\ toPoll' = config.remote
      /\ toFetch' = IF ~config.warnOnly \/ overWarning THEN config.observers ELSE {}
      /\ monitor' = "polling"
      /\ answering' = requested
      /\ UNCHANGED <<config, tokens, overWarning, ownLag, world, history>>
  BY DEF StartRound
<1>2. config \in Configs /\ config.remote \subseteq Nodes /\ config.observers \subseteq Observers
  BY ConfigAssumption DEF ConfigAssumption, MonitorTypeOK
<1>3. /\ DOMAIN dbConns' = config.remote
      /\ \A n \in DOMAIN dbConns' : dbConns'[n] \in {"open", "null", "broken"}
  BY <1>1 DEF MonitorTypeOK
<1>4. /\ DOMAIN cluster' = DOMAIN cluster \ gone
      /\ \A n \in DOMAIN cluster' : cluster'[n] = cluster[n]
      /\ DOMAIN observers' = DOMAIN observers \ gone
      /\ \A o \in DOMAIN observers' : observers'[o] = observers[o]
  BY <1>1 DEF Keep
<1>5. order' \in Seq(Nodes) /\ Listed(order') = DOMAIN cluster'
  <2>1. order \in Seq(Nodes) /\ Listed(order) = DOMAIN cluster
    BY DEF MonitorTypeOK, KeysInv
  <2>2. order' \in Seq(Nodes \cap (DOMAIN cluster \ gone))
        /\ Listed(order') = Listed(order) \cap (DOMAIN cluster \ gone)
    BY <1>1, <2>1, InOrderKeeps
  <2> HIDE DEF gone
  <2> QED
    BY <1>4, <2>1, <2>2
<1>6. obsOrder' \in Seq(Observers)
  <2>1. obsOrder' \in Seq(Observers \cap (DOMAIN observers \ gone))
    BY <1>1, InOrderKeeps DEF MonitorTypeOK
  <2> HIDE DEF gone
  <2> QED
    BY <2>1
<1>7. MonitorTypeOK'
  <2> HIDE DEF gone, connection
  <2>1. DOMAIN cluster' \subseteq Nodes /\ \A n \in DOMAIN cluster' : cluster'[n] \in Entries
    BY <1>4 DEF MonitorTypeOK
  <2>2. /\ DOMAIN observers' \subseteq Observers
        /\ \A o \in DOMAIN observers' :
             /\ observers'[o].conn \in BOOLEAN
             /\ observers'[o].fetched \in Times
             /\ \A n \in DOMAIN observers'[o].db : observers'[o].db[n] \in Entries
    BY <1>4 DEF MonitorTypeOK
  <2>3. toPoll' \subseteq DOMAIN dbConns' /\ DOMAIN dbConns' \subseteq Nodes
        /\ toFetch' \subseteq Observers
    BY <1>1, <1>2, <1>3
  <2> QED
    BY <1>1, <1>3, <1>5, <1>6, <2>1, <2>2, <2>3 DEF MonitorTypeOK, world, history
<1>8. WorldInv'
  BY <1>1 DEF WorldInv, Reports, world
<1>9. KeysInv'
  BY <1>1, <1>3, <1>4, <1>5 DEF KeysInv
<1> QED
  BY <1>7, <1>8, <1>9

LEMMA PollNodeStep ==
  ASSUME MonitorInv, NEW n \in Nodes, PollNode(n) PROVE MonitorInv'
<1> DEFINE usable == dbConns[n] = "open" \/ (dbConns[n] = "null" /\ n \in config.remote)
           answers == usable /\ n \in alive
           result == IF answers THEN Reading(n) ELSE Failing(cluster, n)
<1> USE DEF MonitorInv
<1>1. /\ monitor = "polling"
      /\ n \in toPoll
      /\ toPoll' = toPoll \ {n}
      /\ cluster' = Update(cluster, [m \in {n} |-> result], {n})
      /\ order' = IF n \in DOMAIN cluster THEN order ELSE Append(order, n)
      /\ ownLag' = IF answers THEN MeasureLag(n) ELSE ownLag
      /\ unpolled' = unpolled \ {n}
      /\ UNCHANGED <<config, pending, tokens, overWarning, observers, obsOrder,
                     monitor, answering, toFetch, world, steady>>
  BY DEF PollNode
<1>2. PICK c \in {"open", "null"} : dbConns' = [dbConns EXCEPT ![n] = c]
  <2>1. PICK c \in ConnectionAfter(n, answers) : dbConns' = [dbConns EXCEPT ![n] = c]
    BY DEF PollNode
  <2> QED
    BY <2>1 DEF ConnectionAfter
<1>3. result \in Entries
  <2>1. n \in DOMAIN cluster => cluster[n] \in Entries
    BY DEF MonitorTypeOK
  <2> QED
    BY <2>1, ReadingType, FailingType
<1> HIDE DEF result
<1>4. /\ DOMAIN cluster' = DOMAIN cluster \cup {n}
      /\ \A m \in DOMAIN cluster' : cluster'[m] = IF m = n THEN result ELSE cluster[m]
  BY <1>1 DEF Update
<1>5. order' \in Seq(Nodes) /\ Listed(order') = DOMAIN cluster'
  <2>1. order \in Seq(Nodes) /\ Listed(order) = DOMAIN cluster
    BY DEF MonitorTypeOK, KeysInv
  <2>2. Append(order, n) \in Seq(Nodes) /\ Listed(Append(order, n)) = Listed(order) \cup {n}
    BY <2>1, AppendLists
  <2> QED
    BY <1>1, <1>4, <2>1, <2>2
<1>6. /\ DOMAIN dbConns' = DOMAIN dbConns
      /\ \A m \in DOMAIN dbConns' : dbConns'[m] \in {"open", "null", "broken"}
  BY <1>2 DEF MonitorTypeOK
<1>7. ownLag' \in OwnLags
  BY <1>1, MeasureLagType DEF MonitorTypeOK, OwnLags
<1>8. MonitorTypeOK'
  <2> HIDE DEF answers
  <2>1. DOMAIN cluster' \subseteq Nodes /\ \A m \in DOMAIN cluster' : cluster'[m] \in Entries
    BY <1>3, <1>4 DEF MonitorTypeOK
  <2>2. toPoll' \subseteq DOMAIN dbConns' /\ DOMAIN dbConns' \subseteq Nodes
        /\ unpolled' \subseteq Nodes
    BY <1>1, <1>6 DEF MonitorTypeOK
  <2> QED
    BY <1>1, <1>5, <1>6, <1>7, <2>1, <2>2 DEF MonitorTypeOK, OwnLags, world
<1>9. WorldInv'
  BY <1>1 DEF WorldInv, Reports, world
<1>10. KeysInv'
  BY <1>1, <1>4, <1>5, <1>6 DEF KeysInv, MonitorTypeOK
<1> QED
  BY <1>8, <1>9, <1>10

\* What an observer is remembered to have said.
LEMMA ReportsMerge ==
  ASSUME NEW old, NEW new, Reports(old), Reports(new)
  PROVE  Reports(Update(old, new, DOMAIN new))
  BY DEF Reports, Update

LEMMA FetchObserverStep ==
  ASSUME MonitorInv, NEW o \in Observers, FetchObserver(o) PROVE MonitorInv'
<1> DEFINE old == IF o \in DOMAIN observers THEN observers[o].db ELSE Empty
           heard == Update(old, obsView[o], DOMAIN obsView[o])
           put(conn, db) ==
             /\ observers' = Update(observers,
                                    [p \in {o} |-> [conn |-> conn, fetched |-> now, db |-> db]], {o})
             /\ obsOrder' = IF o \in DOMAIN observers THEN obsOrder ELSE Append(obsOrder, o)
           typed == /\ DOMAIN observers' \subseteq Observers
                    /\ \A p \in DOMAIN observers' :
                         /\ observers'[p].conn \in BOOLEAN
                         /\ observers'[p].fetched \in Times
                         /\ \A n \in DOMAIN observers'[p].db : observers'[p].db[n] \in Entries
                    /\ obsOrder' \in Seq(Observers)
<1> USE DEF MonitorInv
<1>1. /\ toFetch' = toFetch \ {o}
      /\ UNCHANGED <<config, pending, tokens, overWarning, cluster, order, ownLag, monitor,
                     answering, toPoll, dbConns, alive, primary, lsn, replayed, streaming,
                     obsView, now, history>>
      /\ faults' \in 0..MaxFaults
  BY BoundsAssumption DEF FetchObserver, Happens, MonitorTypeOK, BoundsAssumption
<1>2. \/ put(TRUE, heard) \/ put(FALSE, old)
      \/ UNCHANGED <<observers, obsOrder>>
  BY DEF FetchObserver
<1>3. Reports(old) /\ Reports(heard)
  <2>1. Reports(old)
    BY DEF MonitorTypeOK, Reports, Empty
  <2> HIDE DEF old
  <2> QED
    BY <2>1, ReportsMerge DEF WorldInv
<1>4. typed
  <2>1. ASSUME NEW conn \in BOOLEAN, NEW db, Reports(db), put(conn, db) PROVE typed
    <3>1. /\ DOMAIN observers' = DOMAIN observers \cup {o}
          /\ \A p \in DOMAIN observers' :
               observers'[p] = IF p = o THEN [conn |-> conn, fetched |-> now, db |-> db]
                               ELSE observers[p]
      BY <2>1 DEF Update
    <3>2. obsOrder' \in Seq(Observers)
      BY <2>1, AppendLists DEF MonitorTypeOK
    <3>3. \A p \in DOMAIN observers' : p # o => p \in DOMAIN observers /\ observers'[p] = observers[p]
      BY <3>1
    <3>4. observers'[o].conn = conn /\ observers'[o].fetched = now /\ observers'[o].db = db
      BY <3>1
    <3>5. ASSUME NEW p \in DOMAIN observers'
          PROVE  /\ observers'[p].conn \in BOOLEAN
                 /\ observers'[p].fetched \in Times
                 /\ \A n \in DOMAIN observers'[p].db : observers'[p].db[n] \in Entries
      <4>1. CASE p = o
        BY <2>1, <3>4, <4>1 DEF MonitorTypeOK, Reports
      <4>2. CASE p # o
        BY <3>3, <4>2 DEF MonitorTypeOK
      <4> QED
        BY <4>1, <4>2
    <3>6. DOMAIN observers' \subseteq Observers
      BY <3>1 DEF MonitorTypeOK
    <3> QED
      BY <3>2, <3>5, <3>6
  <2>2. CASE UNCHANGED <<observers, obsOrder>>
    BY <2>2 DEF MonitorTypeOK
  <2> HIDE DEF put, old, heard
  <2> QED
    BY <1>2, <1>3, <2>1, <2>2
<1>5. MonitorTypeOK'
  BY <1>1, <1>4 DEF MonitorTypeOK, history
<1>6. WorldInv'
  BY <1>1 DEF WorldInv, Reports
<1>7. KeysInv'
  BY <1>1 DEF KeysInv
<1> QED
  BY <1>5, <1>6, <1>7

LEMMA FinishRoundStep == ASSUME MonitorInv, FinishRound PROVE MonitorInv'
<1> USE DEF MonitorInv
<1>1. tokens' \in Nat
  BY DEF FinishRound, Answering, MonitorTypeOK
<1>2. MonitorTypeOK'
  BY <1>1 DEF FinishRound, MonitorTypeOK, world, history
<1>3. WorldInv' /\ KeysInv'
  BY DEF FinishRound, WorldInv, Reports, KeysInv, world
<1> QED
  BY <1>2, <1>3

LEMMA MonitorStep == ASSUME MonitorInv, Monitor PROVE MonitorInv'
<1>1. ASSUME StartRequested PROVE MonitorInv'
  <2>1. pending > 0 /\ pending' = pending - 1 /\ pending \in Nat
    BY <1>1 DEF StartRequested, MonitorInv, MonitorTypeOK
  <2>2. StartRound(TRUE) /\ pending' \in Nat
    <3>1. pending' \in Nat
      BY <2>1
    <3> QED
      BY <1>1, <3>1 DEF StartRequested
  <2> QED
    BY <2>2, StartRoundStep
<1>2. ASSUME StartPeriodic PROVE MonitorInv'
  <2>1. StartRound(FALSE) /\ pending' \in Nat
    BY <1>2 DEF StartPeriodic, MonitorInv, MonitorTypeOK
  <2> QED
    BY <2>1, StartRoundStep
<1> QED
  BY <1>1, <1>2, PollNodeStep, FetchObserverStep, FinishRoundStep DEF Monitor

-----------------------------------------------------------------------------
(* What happens around it.                                                 *)

\* The events that TLC counts stay within their bound.
LEMMA HappensType == ASSUME MonitorTypeOK, NEW kind, Happens(kind) PROVE faults' \in 0..MaxFaults
<1>1. MaxFaults \in Nat /\ faults \in 0..MaxFaults
  BY BoundsAssumption DEF BoundsAssumption, MonitorTypeOK
<1> QED
  BY <1>1 DEF Happens

\* The keys are the monitor's: an event that leaves them alone keeps KeysInv.
LEMMA KeysKept ==
  ASSUME KeysInv, UNCHANGED <<order, cluster, toPoll, monitor>>, DOMAIN dbConns' = DOMAIN dbConns
  PROVE  KeysInv'
  BY DEF KeysInv

LEMMA NodeEventStep ==
  ASSUME MonitorInv, NEW n \in Nodes, NodeDown(n) \/ NodeUp(n) \/ ChangeRole(n)
  PROVE  MonitorInv'
<1> USE DEF MonitorInv
<1>1. faults' \in 0..MaxFaults
  BY HappensType DEF NodeDown, NodeUp, ChangeRole
<1>2. CASE NodeDown(n)
  <2>1. /\ DOMAIN dbConns' = DOMAIN dbConns
        /\ \A m \in DOMAIN dbConns' : dbConns'[m] \in {"open", "null", "broken"}
    BY <1>2 DEF NodeDown, MonitorTypeOK
  <2>2. /\ replayed' \in Times \cup {None}
        /\ replayed' # None => replayed' = replayed
        /\ streaming' \in BOOLEAN
    BY <1>2 DEF NodeDown, MonitorTypeOK
  <2>3. /\ alive' \subseteq Nodes /\ steady' \subseteq Nodes
        /\ UNCHANGED <<shared, monitor, answering, toPoll, toFetch, primary, lsn,
                       obsView, now, unpolled>>
    BY <1>2 DEF NodeDown, MonitorTypeOK
  <2>4. MonitorTypeOK'
    BY <1>1, <2>1, <2>2, <2>3 DEF MonitorTypeOK, shared
  <2>5. WorldInv'
    BY <2>2, <2>3 DEF WorldInv, Reports
  <2>6. KeysInv'
    BY <2>1, <2>3, KeysKept DEF shared
  <2> QED
    BY <2>4, <2>5, <2>6
<1>3. CASE NodeUp(n)
  <2>1. MonitorTypeOK'
    BY <1>1, <1>3 DEF NodeUp, MonitorTypeOK, shared, monitorVars, history
  <2>2. WorldInv' /\ KeysInv'
    BY <1>3, KeysKept DEF NodeUp, WorldInv, Reports, shared, monitorVars
  <2> QED
    BY <2>1, <2>2
<1>4. CASE ChangeRole(n)
  <2>1. primary' \subseteq Nodes /\ steady' \subseteq Nodes
    BY <1>4 DEF ChangeRole, MonitorTypeOK
  <2>2. MonitorTypeOK'
    BY <1>1, <1>4, <2>1 DEF ChangeRole, MonitorTypeOK, shared, monitorVars
  <2>3. WorldInv' /\ KeysInv'
    BY <1>4, KeysKept DEF ChangeRole, WorldInv, Reports, shared, monitorVars
  <2> QED
    BY <2>2, <2>3
<1> QED
  BY <1>2, <1>3, <1>4

LEMMA ReplicateStep ==
  ASSUME MonitorInv, NEW n \in Nodes, NEW position \in 0..MaxLsn, Replicate(n, position)
  PROVE  MonitorInv'
<1> USE DEF MonitorInv
<1>1. PICK committed \in (IF replayed = None THEN 0 ELSE replayed)..now :
        replayed' = IF n = Own THEN committed ELSE replayed
  BY DEF Replicate
<1>2. now \in 0..MaxTime /\ MaxTime \in Nat /\ replayed \in 0..MaxTime \cup {None}
  BY BoundsAssumption DEF BoundsAssumption, MonitorTypeOK, Times
<1>3. committed \in 0..MaxTime /\ committed <= now
  <2>1. CASE replayed = None
    BY <1>1, <1>2, <2>1
  <2>2. CASE replayed # None
    BY <1>1, <1>2, <2>2
  <2> QED
    BY <2>1, <2>2
<1>4. replayed' \in Times \cup {None} /\ (replayed' # None => replayed' <= now)
  BY <1>1, <1>3 DEF Times, MonitorTypeOK, WorldInv
<1>5. /\ lsn' \in [Nodes -> 0..MaxLsn]
      /\ streaming' \in BOOLEAN
      /\ steady' \subseteq Nodes
      /\ UNCHANGED <<shared, monitorVars, alive, primary, obsView, now, faults, unpolled>>
  BY DEF Replicate, MonitorTypeOK
<1>6. MonitorTypeOK'
  BY <1>4, <1>5 DEF MonitorTypeOK, shared, monitorVars
<1>7. WorldInv' /\ KeysInv'
  BY <1>4, <1>5, KeysKept DEF WorldInv, Reports, shared, monitorVars
<1> QED
  BY <1>6, <1>7

LEMMA ObserverRoundStep ==
  ASSUME MonitorInv, NEW o \in Observers, ObserverRound(o) PROVE MonitorInv'
<1> USE DEF MonitorInv
<1>1. PICK reached :
        /\ IF reached = Observed \cap alive THEN UNCHANGED faults ELSE Happens("partition")
        /\ obsView' = [obsView EXCEPT ![o] =
             [n \in Observed |-> IF n \in reached THEN Reading(n) ELSE Failing(obsView[o], n)]]
  BY DEF ObserverRound
<1>2. faults' \in 0..MaxFaults
  BY <1>1, HappensType DEF MonitorTypeOK
<1>3. UNCHANGED <<shared, monitorVars, alive, primary, lsn, replayed, streaming, now, history>>
  BY DEF ObserverRound
<1> DEFINE view == [n \in Observed |->
                      IF n \in reached THEN Reading(n) ELSE Failing(obsView[o], n)]
<1>4. Reports(view)
  <2>1. ASSUME NEW n \in Observed PROVE Reading(n) \in Entries /\ Failing(obsView[o], n) \in Entries
    <3>1. n \in Nodes
      BY NodesAssumption DEF NodesAssumption
    <3>2. n \in DOMAIN obsView[o] => obsView[o][n] \in Entries
      BY DEF WorldInv, Reports
    <3> QED
      BY <3>1, <3>2, ReadingType, FailingType
  <2> QED
    BY <2>1 DEF Reports
<1>5. obsView' = [obsView EXCEPT ![o] = view]
  BY <1>1
<1> HIDE DEF view
<1>6. /\ DOMAIN obsView' = Observers
      /\ \A p \in Observers : obsView'[p] = IF p = o THEN view ELSE obsView[p]
  BY <1>5 DEF WorldInv
<1>7. MonitorTypeOK'
  BY <1>2, <1>3 DEF MonitorTypeOK, shared, monitorVars, history
<1>8. \A p \in Observers : Reports(obsView'[p])
  BY <1>4, <1>6 DEF WorldInv
<1>9. WorldInv'
  BY <1>3, <1>6, <1>8 DEF WorldInv, Reports
<1>10. KeysInv'
  BY <1>3, KeysKept DEF shared, monitorVars
<1> QED
  BY <1>7, <1>9, <1>10

LEMMA EventsStep == ASSUME MonitorInv, Events PROVE MonitorInv'
  BY NodeEventStep, ReplicateStep, ObserverRoundStep DEF Events

LEMMA TickStep == ASSUME MonitorInv, Tick PROVE MonitorInv'
<1> USE DEF MonitorInv
<1>1. now' \in Times /\ now \in Int /\ now' = now + 1
  BY BoundsAssumption DEF BoundsAssumption, Tick, MonitorTypeOK, Times
<1>2. UNCHANGED <<shared, monitorVars, alive, primary, lsn, replayed, streaming, obsView,
                  faults, history>>
  BY DEF Tick
<1>3. MonitorTypeOK'
  BY <1>1, <1>2 DEF MonitorTypeOK, shared, monitorVars, history
<1>4. replayed' # None => replayed' <= now'
  BY <1>1, <1>2 DEF WorldInv, MonitorTypeOK, Times
<1>5. WorldInv'
  BY <1>2, <1>4 DEF WorldInv, Reports
<1>6. KeysInv'
  BY <1>2, KeysKept DEF shared, monitorVars
<1> QED
  BY <1>3, <1>5, <1>6

-----------------------------------------------------------------------------
(* The monitor beside any main thread.                                     *)

LEMMA MonitorInvStep == ASSUME MonitorInv, [MonitorNext]_monitorSpecVars PROVE MonitorInv'
<1>1. CASE LoadConfig
  BY <1>1 DEF LoadConfig, MonitorInv, MonitorTypeOK, WorldInv, Reports, KeysInv, monitorVars,
     world, history
<1>2. CASE Ask
  <2>1. config.remote \subseteq Nodes
    BY ConfigAssumption DEF ConfigAssumption, MonitorInv, MonitorTypeOK
  <2> QED
    BY <1>2, <2>1 DEF Ask, MonitorInv, MonitorTypeOK, WorldInv, Reports, KeysInv, monitorVars, world
<1>3. CASE TakeTokens
  BY <1>3 DEF TakeTokens, MonitorInv, MonitorTypeOK, WorldInv, Reports, KeysInv, monitorVars,
     world, history
<1>4. CASE SetWarning
  BY <1>4 DEF SetWarning, MonitorInv, MonitorTypeOK, WorldInv, Reports, KeysInv, monitorVars,
     world, history
<1>5. CASE UNCHANGED monitorSpecVars
  BY <1>5 DEF monitorSpecVars, MonitorInv, MonitorTypeOK, WorldInv, Reports, KeysInv, shared,
     monitorVars, world, history
<1> QED
  BY <1>1, <1>2, <1>3, <1>4, <1>5, MonitorStep, EventsStep, TickStep DEF MonitorNext

\* The dictionaries, connections and databases keep their types, and every key
\* that the monitor works on is there (cluster_monitor.py:327-372), through
\* whatever rounds, polls, reloads and events there are.
THEOREM MonitorInvHolds == MonitorSpec => []MonitorInv
  BY MonitorInvInit, MonitorInvStep, PTL DEF MonitorSpec

LEMMA KeysFollow == ASSUME MonitorInv PROVE EntriesFollowConnections
  BY DEF MonitorInv, KeysInv, EntriesFollowConnections

\* cluster_monitor.py:192-201, 337-340.  No entry of cluster_state outlives its
\* connection, and a round leaves an entry for each: whatever the main thread
\* reloads in the middle of the round, whatever the databases do.
THEOREM EntriesFollow == MonitorSpec => []EntriesFollowConnections
  BY MonitorInvHolds, KeysFollow, PTL

-----------------------------------------------------------------------------
(* Types.  What the monitor and the world do is proved above; what is left *)
(* are the steps of the main thread.                                       *)

MainTypeOK ==
  /\ main \in {"top", "check", "awaiting", "refreshed", "failover", "tail"}
  /\ reason \in {"refreshed", "stale", "unseen", "lag", None}
  /\ deadline \in Nat
  /\ currentMaster \in Nodes \cup {None}
  /\ newerThan \in Times \cup {Always}
  /\ changeTime \in Times
  /\ applied \in BOOLEAN /\ reloadPending \in BOOLEAN
  /\ alerts \subseteq {"multiple_master_warning", "replication_delay_warning",
                       "failover_has_happened"}
  /\ found \subseteq {"multiple_master_warning", "replication_delay_warning",
                      "failover_has_happened"}
  /\ maintenance \in BOOLEAN
  /\ ahead \in Nat

TypeInv == MonitorInv /\ MainTypeOK

\* The current master is always a node that some configuration names.
LEMMA MasterKnown ==
  ASSUME MonitorInv, NEW pick \in MasterPicks(CreateNodeMap(cluster, order, observers, obsOrder))
  PROVE  pick.instance \in Nodes \cup {None}
<1> DEFINE map == CreateNodeMap(cluster, order, observers, obsOrder)
<1>1. order \in Seq(Nodes) /\ Len(obsOrder) \in Nat /\ DOMAIN cluster \subseteq Nodes
      /\ DOMAIN cluster \subseteq Listed(order)
  BY DEF MonitorInv, MonitorTypeOK, KeysInv
<1>2. MapInv(cluster, map)
  BY <1>1, CreateNodeMapInv
<1> HIDE DEF map
<1>3. pick \in MasterPicks(map)
  BY DEF map
<1> QED
  BY <1>1, <1>2, <1>3, PicksKnown

\* What a check leaves of the state the monitor shares with it.
LEMMA CheckKeeps ==
  ASSUME MonitorInv,
         UNCHANGED <<config, tokens, cluster, order, observers, obsOrder, ownLag, monitorVars,
                     world>>,
         overWarning' \in BOOLEAN, pending' \in Nat, unpolled' \subseteq Nodes,
         steady' \subseteq Nodes
  PROVE  MonitorInv'
<1> USE DEF MonitorInv, monitorVars, world
<1>1. MonitorTypeOK'
  BY DEF MonitorTypeOK
<1>2. WorldInv' /\ KeysInv'
  BY DEF WorldInv, Reports, KeysInv
<1> QED
  BY <1>1, <1>2

\* The shapes in which a check may end, with the types of what they assign.
LEMMA EndsType ==
  ASSUME TypeInv, NEW map, NEW pick, NEW why \in {"refreshed", "stale", "unseen", "lag"},
         \/ Finished(map) \/ CheckReplicationLag(map, pick)
         \/ /\ FailoverDecided(map, pick, why)
            /\ alerts' = AlertsAfter(map)
            /\ UNCHANGED <<overWarning, newerThan>>
  PROVE  /\ main' \in {"failover", "tail"}
         /\ reason' \in {"refreshed", "stale", "unseen", "lag", None}
         /\ overWarning' \in BOOLEAN
         /\ newerThan' \in Times \cup {Always}
         /\ alerts' \subseteq {"multiple_master_warning", "replication_delay_warning",
                               "failover_has_happened"}
<1> USE DEF TypeInv, MonitorInv, MonitorTypeOK, MainTypeOK
<1>1. AlertsAfter(map) \subseteq {"multiple_master_warning", "replication_delay_warning",
                                  "failover_has_happened"}
  BY DEF AlertsAfter
<1>2. CASE Finished(map)
  BY <1>1, <1>2 DEF Finished
<1>3. CASE FailoverDecided(map, pick, why) /\ alerts' = AlertsAfter(map)
           /\ UNCHANGED <<overWarning, newerThan>>
  BY <1>1, <1>3 DEF FailoverDecided
<1>4. CASE CheckReplicationLag(map, pick)
  <2>1. main' \in {"failover", "tail"} /\ reason' \in {"lag", None}
    BY <1>4 DEF CheckReplicationLag, FailoverDecided
  <2>2. overWarning' \in BOOLEAN /\ newerThan' \in Times \cup {Always}
    BY <1>4 DEF CheckReplicationLag
  <2>3. alerts' \subseteq AlertsAfter(map) \cup {"replication_delay_warning"}
    BY <1>4 DEF CheckReplicationLag
  <2> QED
    BY <1>1, <2>1, <2>2, <2>3
<1> QED
  BY <1>2, <1>3, <1>4

LEMMA TypeInvInit == Init => TypeInv
<1> SUFFICES ASSUME Init PROVE TypeInv
  OBVIOUS
<1>1. MonitorInv
  BY MonitorInvInit DEF Init
<1>2. now \in Times
  BY <1>1 DEF MonitorInv, MonitorTypeOK
<1>3. MainTypeOK
  BY <1>2 DEF Init, MainTypeOK
<1> QED
  BY <1>1, <1>3 DEF TypeInv

LEMMA CheckClusterStateType == ASSUME TypeInv, CheckClusterState PROVE TypeInv'
<1> DEFINE map == CreateNodeMap(cluster, order, observers, obsOrder)
<1>1. PICK pick \in MasterPicks(map), raised \in BOOLEAN :
        LET master == IF pick.instance = None THEN currentMaster ELSE pick.instance
        IN  currentMaster' = master /\ ConsiderFailover(map, pick, master, raised)
  BY DEF CheckClusterState, FollowRaises
<1>2. currentMaster' \in Nodes \cup {None}
  BY <1>1, MasterKnown DEF TypeInv, MainTypeOK
<1>3. UNCHANGED <<config, tokens, cluster, order, observers, obsOrder, ownLag, monitorVars,
                  world, configVars, maintenance>>
  BY DEF CheckClusterState
<1> HIDE DEF map
<1>4. \/ AskForCheck(map)
      \/ /\ UNCHANGED <<pending, deadline, ahead, history>>
         /\ \/ Finished(map) \/ CheckReplicationLag(map, pick)
            \/ /\ FailoverDecided(map, pick, "unseen")
               /\ alerts' = AlertsAfter(map)
               /\ UNCHANGED <<overWarning, newerThan>>
  BY <1>1 DEF ConsiderFailover, NoAsk
<1>5. CASE AskForCheck(map)
  <2>1. Outstanding \in Nat /\ pending' \in Nat
    BY <1>5 DEF AskForCheck, Outstanding, Answering, TypeInv, MonitorInv, MonitorTypeOK
  <2>2. now + MasterTimeout \in Nat
    BY TimeoutAssumption DEF TimeoutAssumption, Times, TypeInv, MonitorInv, MonitorTypeOK
  <2>3. config.remote \subseteq Nodes
    BY ConfigAssumption DEF ConfigAssumption, TypeInv, MonitorInv, MonitorTypeOK
  <2>4. MonitorInv'
    BY <1>3, <1>5, <2>1, <2>3, CheckKeeps DEF AskForCheck, TypeInv, MonitorInv, MonitorTypeOK
  <2>5. MainTypeOK'
    BY <1>2, <1>3, <1>5, <2>1, <2>2
       DEF AskForCheck, AlertsAfter, TypeInv, MainTypeOK, configVars
  <2> QED
    BY <2>4, <2>5 DEF TypeInv
<1>6. CASE /\ UNCHANGED <<pending, deadline, ahead, history>>
           /\ \/ Finished(map) \/ CheckReplicationLag(map, pick)
              \/ /\ FailoverDecided(map, pick, "unseen")
                 /\ alerts' = AlertsAfter(map)
                 /\ UNCHANGED <<overWarning, newerThan>>
  <2>1. /\ main' \in {"failover", "tail"}
        /\ reason' \in {"refreshed", "stale", "unseen", "lag", None}
        /\ overWarning' \in BOOLEAN
        /\ newerThan' \in Times \cup {Always}
        /\ alerts' \subseteq {"multiple_master_warning", "replication_delay_warning",
                              "failover_has_happened"}
    BY <1>6, EndsType
  <2>2. MonitorInv'
    BY <1>3, <1>6, <2>1, CheckKeeps DEF TypeInv, MonitorInv, MonitorTypeOK, history
  <2>3. MainTypeOK'
    BY <1>2, <1>3, <1>6, <2>1 DEF TypeInv, MainTypeOK, configVars
  <2> QED
    BY <2>2, <2>3 DEF TypeInv
<1> QED
  BY <1>4, <1>5, <1>6

LEMMA RecheckType == ASSUME TypeInv, Recheck PROVE TypeInv'
<1> DEFINE why == IF ahead = 0 THEN "refreshed" ELSE "stale"
<1>1. PICK map, pick :
        \/ Finished(map) \/ CheckReplicationLag(map, pick)
        \/ /\ FailoverDecided(map, pick, why)
           /\ alerts' = AlertsAfter(map)
           /\ UNCHANGED <<overWarning, newerThan>>
  BY DEF Recheck
<1>2. /\ main' \in {"failover", "tail"}
      /\ reason' \in {"refreshed", "stale", "unseen", "lag", None}
      /\ overWarning' \in BOOLEAN
      /\ newerThan' \in Times \cup {Always}
      /\ alerts' \subseteq {"multiple_master_warning", "replication_delay_warning",
                            "failover_has_happened"}
  BY <1>1, EndsType
<1>3. ahead' = 0 /\ unpolled' \subseteq Nodes /\ steady' \subseteq Nodes
  BY DEF Recheck, Answered, TypeInv, MonitorInv, MonitorTypeOK
<1>4. UNCHANGED <<config, pending, tokens, cluster, order, observers, obsOrder, ownLag,
                  monitorVars, world, deadline, configVars, maintenance, currentMaster>>
  BY DEF Recheck
<1>5. MonitorInv'
  BY <1>2, <1>3, <1>4, CheckKeeps DEF TypeInv, MonitorInv, MonitorTypeOK
<1>6. MainTypeOK'
  BY <1>2, <1>3, <1>4 DEF TypeInv, MainTypeOK, configVars
<1> QED
  BY <1>5, <1>6 DEF TypeInv

LEMMA MainType == ASSUME TypeInv, Main PROVE TypeInv'
<1> USE DEF TypeInv
<1>1. ASSUME NEW c \in Configs, Reload(c) PROVE TypeInv'
  <2>1. MonitorInv'
    BY <1>1 DEF Reload, MonitorInv, MonitorTypeOK, WorldInv, Reports, KeysInv, monitorVars,
       world, history
  <2>2. MainTypeOK'
    BY <1>1 DEF Reload, MainTypeOK, MonitorInv, MonitorTypeOK, decisionVars
  <2> QED
    BY <2>1, <2>2
<1>2. CASE CheckSkipped \/ AwaitToken \/ AwaitTimeout \/ TailToken \/ TailTimeout
  <2>1. tokens' \in Nat
    BY <1>2 DEF CheckSkipped, AwaitToken, AwaitTimeout, TailToken, TailTimeout, MonitorInv,
       MonitorTypeOK, shared
  <2>2. unpolled' \subseteq Nodes /\ steady' \subseteq Nodes
    BY <1>2 DEF CheckSkipped, AwaitToken, AwaitTimeout, Answered, TailToken, TailTimeout,
       MonitorInv, MonitorTypeOK, history
  <2>3. UNCHANGED <<config, pending, overWarning, cluster, order, observers, obsOrder, ownLag,
                    monitorVars, world>>
    BY <1>2 DEF CheckSkipped, AwaitToken, AwaitTimeout, TailToken, TailTimeout, shared
  <2>4. MonitorInv'
    BY <2>1, <2>2, <2>3 DEF MonitorInv, MonitorTypeOK, WorldInv, Reports, KeysInv, monitorVars,
       world
  <2>5. main' \in {"refreshed", "tail", "top"} /\ deadline' \in {0, deadline} /\ ahead' \in {0, ahead}
    BY <1>2 DEF CheckSkipped, AwaitToken, AwaitTimeout, Answered, TailToken, TailTimeout
  <2>6. UNCHANGED <<reason, decisionVars, configVars, maintenance>>
    BY <1>2 DEF CheckSkipped, AwaitToken, AwaitTimeout, TailToken, TailTimeout
  <2>7. MainTypeOK'
    BY <2>5, <2>6 DEF MainTypeOK, decisionVars, configVars
  <2> QED
    BY <2>4, <2>7
<1>3. CASE ApplyConfig
  <2>1. MonitorInv'
    BY <1>3 DEF ApplyConfig, MonitorInv, MonitorTypeOK, WorldInv, Reports, KeysInv, shared,
       monitorVars, world, history
  <2>2. applied' \in BOOLEAN
    BY <1>3 DEF ApplyConfig
  <2>3. MainTypeOK'
    BY <1>3, <2>2 DEF ApplyConfig, MainTypeOK, decisionVars
  <2> QED
    BY <2>1, <2>3
<1>4. ASSUME NEW outcome \in {"ok", "failed", "raised"}, RunFailoverCommand(outcome)
      PROVE  TypeInv'
  <2>1. primary' \subseteq Nodes
    BY <1>4, NodesAssumption DEF NodesAssumption, RunFailoverCommand, MonitorInv, MonitorTypeOK
  <2>2. overWarning' \in BOOLEAN
    BY <1>4 DEF RunFailoverCommand
  <2>3. MonitorInv'
    BY <1>4, <2>1, <2>2 DEF RunFailoverCommand, MonitorInv, MonitorTypeOK, WorldInv, Reports,
       KeysInv, monitorVars
  <2>4. MainTypeOK'
    BY <1>4 DEF RunFailoverCommand, AlertsAfterFailover, MainTypeOK, configVars
  <2> QED
    BY <2>3, <2>4
<1> QED
  BY <1>1, <1>2, <1>3, <1>4, CheckClusterStateType, RecheckType DEF Main

LEMMA RestartType == ASSUME TypeInv, NEW c \in Configs, Restart(c) PROVE TypeInv'
<1>1. DOMAIN Empty = {} /\ <<>> \in Seq(Nodes) /\ <<>> \in Seq(Observers) /\ Listed(<<>>) = {}
  BY DEF Empty, Listed
<1>2. faults' \in 0..MaxFaults
  BY HappensType DEF Restart, TypeInv, MonitorInv
<1>3. MonitorTypeOK'
  BY <1>1, <1>2 DEF Restart, TypeInv, MonitorInv, MonitorTypeOK, NoLag
<1>4. WorldInv' /\ KeysInv'
  BY <1>1 DEF Restart, TypeInv, MonitorInv, WorldInv, Reports, KeysInv
<1>5. MainTypeOK'
  BY DEF Restart, TypeInv, MonitorInv, MonitorTypeOK, MainTypeOK
<1> QED
  BY <1>3, <1>4, <1>5 DEF TypeInv, MonitorInv

LEMMA TypeInvStep == ASSUME TypeInv, [Next]_vars PROVE TypeInv'
<1> USE DEF TypeInv
<1>1. CASE UNCHANGED mainVars /\ MonitorInv'
  BY <1>1 DEF mainVars, decisionVars, configVars, MainTypeOK
<1>2. CASE WebCheck
  <2>1. MonitorInv'
    BY <1>2 DEF WebCheck, MonitorInv, MonitorTypeOK, WorldInv, Reports, KeysInv, monitorVars,
       world, history
  <2> QED
    BY <1>1, <1>2, <2>1 DEF WebCheck
<1>3. CASE Sighup
  <2>1. MonitorInv'
    BY <1>3 DEF Sighup, MonitorInv, MonitorTypeOK, WorldInv, Reports, KeysInv, shared,
       monitorVars, world, history
  <2>2. MainTypeOK'
    BY <1>3 DEF Sighup, MainTypeOK, decisionVars
  <2> QED
    BY <2>1, <2>2
<1>4. CASE MaintenanceFile
  <2>1. faults' \in 0..MaxFaults
    BY <1>4, HappensType DEF MaintenanceFile, MonitorInv
  <2>2. MonitorInv'
    BY <1>4, <2>1 DEF MaintenanceFile, MonitorInv, MonitorTypeOK, WorldInv, Reports, KeysInv,
       shared, monitorVars, history
  <2>3. MainTypeOK'
    BY <1>4 DEF MaintenanceFile, MainTypeOK, decisionVars, configVars
  <2> QED
    BY <2>2, <2>3
<1>5. CASE UNCHANGED vars
  <2>1. MonitorInv'
    BY <1>5 DEF vars, MonitorInv, MonitorTypeOK, WorldInv, Reports, KeysInv, monitorSpecVars,
       shared, monitorVars, world, history
  <2> QED
    BY <1>1, <1>5, <2>1 DEF vars
<1>6. CASE Monitor /\ UNCHANGED mainVars
  BY <1>1, <1>6, MonitorStep
<1>7. CASE Events /\ UNCHANGED mainVars
  BY <1>1, <1>7, EventsStep
<1>8. CASE ClockTicks
  BY <1>1, <1>8, TickStep DEF ClockTicks
<1> QED
  BY <1>2, <1>3, <1>4, <1>5, <1>6, <1>7, <1>8, MainType, RestartType DEF Next

\* The types of the main thread, and all that is proved of the monitor, hold of
\* the two together: main_loop (pglookout.py:867-906) does not disturb it.
THEOREM TypeInvHolds == Spec => []TypeInv
  BY TypeInvInit, TypeInvStep, PTL DEF Spec

\* Both threads, the databases and the observers keep their types, through
\* every reload, restart, promotion and report of an observer; in particular
\* the current master (pglookout.py:316-351, 459) is None or a configured name.
THEOREM TypeCorrect == Spec => []TypeOK
<1>1. TypeInv => TypeOK
  BY DEF TypeInv, MonitorInv, MainTypeOK, TypeOK
<1> QED
  BY <1>1, TypeInvHolds, PTL

\* cluster_monitor.py:192-201, 337-340.  With the real main thread around it,
\* the monitor keeps its entries and connections together all the same.
THEOREM EntriesFollowHere == Spec => []EntriesFollowConnections
<1>1. TypeInv => EntriesFollowConnections
  BY KeysFollow DEF TypeInv
<1> QED
  BY <1>1, TypeInvHolds, PTL

-----------------------------------------------------------------------------
(* A failover for lag is always announced by the alert of an earlier check, *)
(* which is there as long as the flag is up.                                *)

WarningInv == WarningHasAlert /\ AlertHasWarning /\ LagFailoverWasAnnounced

\* Of the ways a check ends, only check_replication_lag touches the flag.
LEMMA LagCheckAnnounces ==
  ASSUME TypeInv, WarningInv, NEW map, NEW pick, CheckReplicationLag(map, pick), found' = found
  PROVE  WarningInv'
<1> USE DEF WarningInv, WarningHasAlert, AlertHasWarning, LagFailoverWasAnnounced, AlertsAfter, JustOverWarning
<1>1. CASE CatchingUp \/ ~LagKnown
  BY <1>1 DEF CheckReplicationLag
<1>2. CASE ~(CatchingUp \/ ~LagKnown) /\ ownLag.lag >= WarnLag /\ ~overWarning
  BY <1>2 DEF CheckReplicationLag
<1>3. CASE ~(CatchingUp \/ ~LagKnown) /\ ~(ownLag.lag >= WarnLag /\ ~overWarning)
  <2>1. ownLag.lag \in Int
    BY <1>3 DEF LagKnown, TypeInv, MonitorInv, MonitorTypeOK, Times
  <2>2. CASE ownLag.lag < WarnLag
    <3>1. ~(ownLag.lag >= FailoverLag)
      BY <2>1, <2>2, BoundaryAssumption DEF BoundaryAssumption
    <3>2. main' = "tail"
      BY <1>3, <3>1 DEF CheckReplicationLag
    <3>3. CASE overWarning
      BY <1>3, <2>2, <3>2, <3>3 DEF CheckReplicationLag
    <3>4. CASE ~overWarning
      BY <1>3, <3>2, <3>4 DEF CheckReplicationLag
    <3> QED
      BY <3>3, <3>4
  <2>3. CASE ~(ownLag.lag < WarnLag)
    <3>1. overWarning
      BY <1>3, <2>1, <2>3, BoundaryAssumption DEF BoundaryAssumption
    <3>2. overWarning' = overWarning /\ alerts \subseteq alerts'
      BY <1>3, <2>3 DEF CheckReplicationLag
    <3> QED
      BY <3>1, <3>2
  <2> QED
    BY <2>2, <2>3
<1> QED
  BY <1>1, <1>2, <1>3

LEMMA WarningStep == TypeInv /\ WarningInv /\ [Next]_vars => WarningInv'
<1> SUFFICES ASSUME TypeInv, WarningInv, [Next]_vars PROVE WarningInv'
  OBVIOUS
<1> USE DEF WarningInv, WarningHasAlert, AlertHasWarning, LagFailoverWasAnnounced
<1>1. ASSUME NEW c \in Configs, Reload(c) PROVE WarningInv'
  BY <1>1 DEF Reload, decisionVars, configVars
<1>2. CASE ApplyConfig
  BY <1>2 DEF ApplyConfig, decisionVars, configVars, shared
<1>3. CASE CheckSkipped \/ AwaitToken \/ AwaitTimeout \/ TailToken \/ TailTimeout
  BY <1>3 DEF CheckSkipped, AwaitToken, AwaitTimeout, TailToken, TailTimeout, decisionVars, configVars,
              shared
<1>4. CASE CheckClusterState
  <2>1. (\E map, pick, master, raised : ConsiderFailover(map, pick, master, raised)) /\ found' = found
    BY <1>4 DEF CheckClusterState, configVars
  <2> PICK map, pick, master, raised : ConsiderFailover(map, pick, master, raised)
    BY <2>1
  <2>2. \/ Finished(map) \/ CheckReplicationLag(map, pick) \/ AskForCheck(map)
        \/ /\ FailoverDecided(map, pick, "unseen")
           /\ alerts' = AlertsAfter(map)
           /\ UNCHANGED overWarning
    BY DEF ConsiderFailover
  <2>3. CASE CheckReplicationLag(map, pick)
    BY <2>1, <2>3, LagCheckAnnounces
  <2>4. CASE Finished(map)
    BY <2>1, <2>4 DEF Finished, AlertsAfter
  <2>5. CASE AskForCheck(map)
    BY <2>1, <2>5 DEF AskForCheck, AlertsAfter
  <2>6. CASE /\ FailoverDecided(map, pick, "unseen")
             /\ alerts' = AlertsAfter(map)
             /\ UNCHANGED overWarning
    BY <2>1, <2>6 DEF FailoverDecided, AlertsAfter
  <2> QED
    BY <2>2, <2>3, <2>4, <2>5, <2>6
<1>5. CASE Recheck
  <2>0. found' = found
    BY <1>5 DEF Recheck, configVars
  <2>1. PICK map, pick :
          \/ Finished(map) \/ CheckReplicationLag(map, pick)
          \/ /\ FailoverDecided(map, pick, IF ahead = 0 THEN "refreshed" ELSE "stale")
             /\ alerts' = AlertsAfter(map)
             /\ UNCHANGED overWarning
    BY <1>5 DEF Recheck
  <2>2. CASE CheckReplicationLag(map, pick)
    BY <2>2, <2>0, LagCheckAnnounces
  <2>3. CASE Finished(map)
    BY <2>3, <2>0 DEF Finished, AlertsAfter
  <2>4. CASE /\ FailoverDecided(map, pick, IF ahead = 0 THEN "refreshed" ELSE "stale")
             /\ alerts' = AlertsAfter(map)
             /\ UNCHANGED overWarning
    BY <2>4, <2>0 DEF FailoverDecided, AlertsAfter
  <2> QED
    BY <2>1, <2>2, <2>3, <2>4
<1>6. ASSUME NEW outcome \in {"ok", "failed", "raised"}, RunFailoverCommand(outcome)
      PROVE  WarningInv'
  BY <1>6 DEF RunFailoverCommand, AlertsAfterFailover, configVars
<1>7. CASE Monitor /\ UNCHANGED mainVars
  <2>1. overWarning' = overWarning
    BY <1>7 DEF Monitor, StartRequested, StartPeriodic, StartRound, PollNode, FetchObserver,
                FinishRound
  <2> QED
    BY <1>7, <2>1 DEF mainVars, decisionVars, configVars
<1>8. CASE Events /\ UNCHANGED mainVars
  <2>1. overWarning' = overWarning
    BY <1>8 DEF Events, NodeDown, NodeUp, ChangeRole, Replicate,
                ObserverRound, shared
  <2> QED
    BY <1>8, <2>1 DEF mainVars, decisionVars, configVars
<1>9. CASE ClockTicks
  BY <1>9 DEF ClockTicks, Tick, shared, mainVars, decisionVars, configVars
<1>10. CASE WebCheck \/ Sighup \/ MaintenanceFile
  BY <1>10 DEF WebCheck, Sighup, MaintenanceFile, shared, mainVars, decisionVars, configVars
<1>11. ASSUME NEW c \in Configs, Restart(c) PROVE WarningInv'
  BY <1>11 DEF Restart
<1>12. CASE UNCHANGED vars
  BY <1>12 DEF vars, monitorSpecVars, shared, mainVars, decisionVars, configVars
<1> QED
  BY <1>1, <1>2, <1>3, <1>4, <1>5, <1>6, <1>7, <1>8, <1>9, <1>10, <1>11, <1>12
     DEF Next, Main

\* pglookout.py:548-567.  No failover for lag without the warning of an earlier
\* check, whatever the boundaries are, through reloads and restarts.
THEOREM LagFailoverIsAnnounced == Spec => []LagFailoverWasAnnounced
<1>1. Init => WarningInv
  BY DEF Init, MonitorInit, WarningInv, WarningHasAlert, AlertHasWarning, LagFailoverWasAnnounced
<1>2. WarningInv => LagFailoverWasAnnounced
  BY DEF WarningInv
<1> QED
  BY <1>1, <1>2, TypeInvHolds, WarningStep, PTL DEF Spec

\* pglookout.py:549-571, 708-710.  Without the flag there is no alert file but one
\* that the process found when it started.
THEOREM AlertIsWarned == Spec => []AlertHasWarning
<1>1. Init => WarningInv
  BY DEF Init, MonitorInit, WarningInv, WarningHasAlert, AlertHasWarning, LagFailoverWasAnnounced
<1>2. WarningInv => AlertHasWarning
  BY DEF WarningInv
<1> QED
  BY <1>1, <1>2, TypeInvHolds, WarningStep, PTL DEF Spec

\* pglookout.py:549-571, 708-710.  The flag is never up without the alert file.
THEOREM WarningIsAlerted == Spec => []WarningHasAlert
<1>1. Init => WarningInv
  BY DEF Init, MonitorInit, WarningInv, WarningHasAlert, AlertHasWarning, LagFailoverWasAnnounced
<1>2. WarningInv => WarningHasAlert
  BY DEF WarningInv
<1> QED
  BY <1>1, <1>2, TypeInvHolds, WarningStep, PTL DEF Spec

-----------------------------------------------------------------------------
(* PgLookout implements CheckHandshake: every step is one of the           *)
(* handshake's, or leaves its variables alone.                             *)

\* It sees the queues, the round and the request; of the main thread, its place.
LEMMA Stutters ==
  ASSUME UNCHANGED <<config, pending, tokens, monitor, answering, toPoll, unpolled, ahead>>,
         HandshakeMain' = HandshakeMain
  PROVE  UNCHANGED Handshake!vars
  BY DEF Handshake!vars

LEMMA RoomForOne ==
  ASSUME TypeInv PROVE /\ Outstanding + 1 < MaxRequests => Outstanding < MaxRequests
                       /\ Outstanding = Handshake!Outstanding
<1>1. Outstanding \in Nat /\ MaxRequests \in Nat
  BY BoundsAssumption DEF BoundsAssumption, Outstanding, Answering, TypeInv, MonitorInv,
     MonitorTypeOK
<1>2. Outstanding = Handshake!Outstanding
  BY DEF Outstanding, Answering, Handshake!Outstanding, Handshake!Answering
<1>3. Outstanding + 1 < MaxRequests => Outstanding < MaxRequests
  BY <1>1
<1> QED
  BY <1>2, <1>3

LEMMA HandshakeInit == Init => Handshake!Init
  BY DEF Init, MonitorInit, HandshakeMain, Handshake!Init

LEMMA HandshakeMainStep == ASSUME TypeInv, Main PROVE [Handshake!Next]_Handshake!vars
<1> USE DEF HandshakeMain, shared, monitorVars, history, Handshake!monitorVars,
            Handshake!askVars
<1>1. ASSUME NEW c \in Configs, Reload(c) PROVE Handshake!Reload(c.remote)
  BY <1>1, RoomForOne DEF Reload, Handshake!Reload
<1>2. ASSUME ApplyConfig PROVE UNCHANGED Handshake!vars
  BY <1>2, Stutters DEF ApplyConfig
<1>3. ASSUME CheckSkipped PROVE Handshake!SkipAsk
  BY <1>3 DEF CheckSkipped, AtCheck, Handshake!SkipAsk
<1>4. ASSUME CheckClusterState PROVE Handshake!AskForCheck \/ Handshake!SkipAsk
  <2>1. HandshakeMain = "top" /\ UNCHANGED <<config, tokens, monitorVars>>
    BY <1>4 DEF CheckClusterState, AtCheck
  <2>2. PICK map, pick :
          \/ AskForCheck(map)
          \/ /\ UNCHANGED <<pending, deadline, ahead, history>>
             /\ \/ Finished(map) \/ CheckReplicationLag(map, pick)
                \/ FailoverDecided(map, pick, "unseen")
    BY <1>4 DEF CheckClusterState, ConsiderFailover, NoAsk
  <2>3. CASE AskForCheck(map)
    BY <2>1, <2>3, RoomForOne DEF AskForCheck, Handshake!AskForCheck
  <2>4. CASE UNCHANGED <<pending, deadline, ahead, history>>
             /\ main' \in {"failover", "tail"}
    BY <2>1, <2>4 DEF Handshake!SkipAsk
  <2> QED
    BY <2>2, <2>3, <2>4 DEF Finished, CheckReplicationLag, FailoverDecided
<1>5. ASSUME AwaitToken PROVE Handshake!AwaitToken
  BY <1>5 DEF AwaitToken, Handshake!AwaitToken
<1>6. ASSUME AwaitTimeout PROVE Handshake!AwaitTimeout
  BY <1>6 DEF AwaitTimeout, Answered, Handshake!AwaitTimeout
<1>7. ASSUME Recheck PROVE Handshake!Decide
  <2>1. main = "refreshed" /\ Answered /\ UNCHANGED <<config, pending, tokens, monitorVars>>
    BY <1>7 DEF Recheck
  <2>2. main' \in {"failover", "tail"}
    BY <1>7 DEF Recheck, Finished, CheckReplicationLag, FailoverDecided
  <2> QED
    BY <2>1, <2>2 DEF Answered, Handshake!Decide
<1>8. ASSUME NEW outcome, RunFailoverCommand(outcome) PROVE UNCHANGED Handshake!vars
  BY <1>8, Stutters DEF RunFailoverCommand
<1>9. ASSUME TailToken PROVE Handshake!TailToken
  BY <1>9 DEF TailToken, Handshake!TailToken
<1>10. ASSUME TailTimeout PROVE Handshake!TailTimeout
  BY <1>10 DEF TailTimeout, Handshake!TailTimeout
<1> QED
  BY <1>1, <1>2, <1>3, <1>4, <1>5, <1>6, <1>7, <1>8, <1>9, <1>10 DEF Main, Handshake!Next

LEMMA HandshakeStep == ASSUME TypeInv, [Next]_vars PROVE [Handshake!Next]_Handshake!vars
<1> USE DEF shared, monitorVars, history, mainVars, Handshake!monitorVars, Handshake!askVars
<1>1. ASSUME UNCHANGED main PROVE HandshakeMain' = HandshakeMain
  BY <1>1 DEF HandshakeMain
<1>2. ASSUME StartRequested, UNCHANGED mainVars PROVE Handshake!StartRequested
  BY <1>1, <1>2 DEF StartRequested, StartRound, Handshake!StartRequested
<1>3. ASSUME StartPeriodic, UNCHANGED mainVars PROVE Handshake!StartPeriodic
  BY <1>1, <1>3 DEF StartPeriodic, StartRound, Handshake!StartPeriodic
<1>4. ASSUME NEW n \in Nodes, PollNode(n), UNCHANGED mainVars PROVE Handshake!PollNode(n)
  BY <1>1, <1>4 DEF PollNode, Handshake!PollNode
<1>5. ASSUME NEW o \in Observers, FetchObserver(o), UNCHANGED mainVars
      PROVE  UNCHANGED Handshake!vars
  BY <1>1, <1>5, Stutters DEF FetchObserver
<1>6. ASSUME FinishRound, UNCHANGED mainVars PROVE Handshake!FinishRound
  <2>1. Answering = Handshake!Answering
    BY DEF Answering, Handshake!Answering
  <2> QED
    BY <1>1, <1>6, <2>1 DEF FinishRound, Handshake!FinishRound
<1>7. ASSUME Monitor, UNCHANGED mainVars PROVE [Handshake!Next]_Handshake!vars
  BY <1>2, <1>3, <1>4, <1>5, <1>6, <1>7 DEF Monitor, Handshake!Next
<1>8. ASSUME Events, UNCHANGED mainVars PROVE UNCHANGED Handshake!vars
  <2>1. UNCHANGED <<config, pending, tokens, monitor, answering, toPoll, unpolled>>
    BY <1>8 DEF Events, NodeDown, NodeUp, ChangeRole, Replicate, ObserverRound
  <2> QED
    BY <1>1, <1>8, <2>1, Stutters
<1>9. ASSUME ClockTicks PROVE UNCHANGED Handshake!vars
  BY <1>1, <1>9, Stutters DEF ClockTicks, Tick
<1>10. ASSUME WebCheck PROVE Handshake!WebCheck
  BY <1>1, <1>10, RoomForOne DEF WebCheck, Handshake!WebCheck
<1>11. ASSUME Sighup \/ MaintenanceFile PROVE UNCHANGED Handshake!vars
  BY <1>1, <1>11, Stutters DEF Sighup, MaintenanceFile
<1>12. ASSUME NEW c \in Configs, Restart(c) PROVE Handshake!Restart(c.remote)
  BY <1>12 DEF Restart, HandshakeMain, Handshake!Restart
<1>13. ASSUME UNCHANGED vars PROVE UNCHANGED Handshake!vars
  BY <1>1, <1>13, Stutters DEF vars, monitorSpecVars
<1> QED
  BY <1>7, <1>8, <1>9, <1>10, <1>11, <1>12, <1>13, HandshakeMainStep DEF Next, Handshake!Next

\* pglookout.py:496-501, 869-906 and cluster_monitor.py:355-382.  Whatever the
\* databases, the observers, the clock, the web server and a reload do, and
\* wherever a check ends, the two threads exchange requests and tokens as
\* CheckHandshake says.
THEOREM Implements == Spec => ImplementsHandshake
  BY HandshakeInit, HandshakeStep, TypeInvHolds, PTL DEF Spec, ImplementsHandshake, Handshake!Spec

-----------------------------------------------------------------------------
(* So the theorems about CheckHandshake hold here.                         *)

HandshakeProofs == INSTANCE CheckHandshakeProofs
  WITH Configs <- {c.remote : c \in Configs}, conns <- config.remote, main <- HandshakeMain

LEMMA RemoteNodes == {c.remote : c \in Configs} \subseteq SUBSET Nodes
  BY ConfigAssumption DEF ConfigAssumption

\* One specification, reached through two instances.
LEMMA SameHandshake == Handshake!Spec <=> HandshakeProofs!Spec
<1>1. Handshake!Init <=> HandshakeProofs!Init
  BY DEF Handshake!Init, HandshakeProofs!Init
<1>2. [Handshake!Next]_Handshake!vars <=> [HandshakeProofs!Next]_HandshakeProofs!vars
  BY DEF Handshake!Next, HandshakeProofs!Next, Handshake!vars, HandshakeProofs!vars,
         Handshake!monitorVars, HandshakeProofs!monitorVars,
         Handshake!askVars, HandshakeProofs!askVars,
         Handshake!Answering, HandshakeProofs!Answering,
         Handshake!Outstanding, HandshakeProofs!Outstanding,
         Handshake!WebCheck, HandshakeProofs!WebCheck,
         Handshake!Reload, HandshakeProofs!Reload,
         Handshake!AskForCheck, HandshakeProofs!AskForCheck,
         Handshake!SkipAsk, HandshakeProofs!SkipAsk,
         Handshake!AwaitToken, HandshakeProofs!AwaitToken,
         Handshake!AwaitTimeout, HandshakeProofs!AwaitTimeout,
         Handshake!Decide, HandshakeProofs!Decide,
         Handshake!TailToken, HandshakeProofs!TailToken,
         Handshake!TailTimeout, HandshakeProofs!TailTimeout,
         Handshake!StartRequested, HandshakeProofs!StartRequested,
         Handshake!StartPeriodic, HandshakeProofs!StartPeriodic,
         Handshake!PollNode, HandshakeProofs!PollNode,
         Handshake!FinishRound, HandshakeProofs!FinishRound,
         Handshake!Restart, HandshakeProofs!Restart
<1> QED
  BY <1>1, <1>2, PTL DEF Handshake!Spec, HandshakeProofs!Spec

LEMMA FreshHandshake == HandshakeProofs!Spec => []HandshakeProofs!FreshnessInv
  BY HandshakeProofs!FreshnessHolds, RemoteNodes, BoundsAssumption DEF BoundsAssumption

-----------------------------------------------------------------------------
(* No failover on fresh data while a live master was there all along.      *)

\* While the main thread waits for a refresh: the nodes that have been up since
\* it asked are still asked for and can be asked, and those of them that have
\* been asked and are primary stand in cluster_state as connected masters.
SeenWhileWaiting ==
  main \in {"awaiting", "refreshed"} =>
    /\ steady \subseteq config.remote \cap alive
    /\ \A n \in steady \cap DOMAIN dbConns : dbConns[n] # "broken"
    /\ \A n \in (steady \ unpolled) \cap primary :
         n \in DOMAIN cluster /\ cluster[n].role = "primary" /\ cluster[n].conn

LiveMasterInv == SeenWhileWaiting /\ NoFailoverOverLiveMaster

LEMMA FreshWhenRefreshed ==
  ASSUME HandshakeProofs!FreshnessInv, main = "refreshed", ahead = 0 PROVE unpolled = {}
  BY DEF HandshakeProofs!FreshnessInv, HandshakeProofs!RefreshIsFresh, HandshakeMain

\* A connected master in the own entries keeps do_failover_decision from
\* promoting, whatever the observers say.
LEMMA ConnectedMasterBlocks ==
  ASSUME TypeInv, NEW n \in DOMAIN cluster, cluster[n].role = "primary", cluster[n].conn,
         NEW pick, NEW never, NEW maint, NEW time
  PROVE  ~PromotesItself(CreateNodeMap(cluster, order, observers, obsOrder), pick, observers,
                         never, maint, time)
<1> DEFINE map == CreateNodeMap(cluster, order, observers, obsOrder)
<1>1. order \in Seq(Nodes) /\ Len(obsOrder) \in Nat /\ DOMAIN cluster \subseteq Listed(order)
  BY DEF TypeInv, MonitorInv, MonitorTypeOK, KeysInv
<1>2. MapInv(cluster, map)
  BY <1>1, CreateNodeMapInv
<1> HIDE DEF map
<1>3. n \in DOMAIN map.connected
  BY <1>2 DEF MapInv
<1> SUFFICES ~PromotesItself(map, pick, observers, never, maint, time)
  BY DEF map
<1> QED
  BY <1>3 DEF PromotesItself

LEMMA LiveMasterMonitor ==
  ASSUME TypeInv, LiveMasterInv, Monitor, UNCHANGED mainVars PROVE LiveMasterInv'
<1> USE DEF LiveMasterInv, NoFailoverOverLiveMaster, PromotesOnFreshData, SeenWhileWaiting
<1>1. UNCHANGED <<main, reason, steady, primary, alive, config>>
  BY DEF Monitor, StartRequested, StartPeriodic, StartRound, PollNode, FetchObserver, FinishRound,
     mainVars, world, history
<1>2. NoFailoverOverLiveMaster'
  BY <1>1
<1> SUFFICES ASSUME main \in {"awaiting", "refreshed"} PROVE SeenWhileWaiting'
  BY <1>1, <1>2
<1>3. ASSUME NEW requested, StartRound(requested) PROVE SeenWhileWaiting'
  <2> DEFINE gone == DOMAIN dbConns \ config.remote
  <2>1. /\ cluster' = Keep(cluster, DOMAIN cluster \ gone)
        /\ unpolled' = unpolled
        /\ DOMAIN dbConns' = config.remote
        /\ \A n \in config.remote :
             dbConns'[n] = IF n \in DOMAIN dbConns /\ dbConns[n] # "null" THEN dbConns[n]
                           ELSE IF n \in alive THEN "open" ELSE "null"
    BY <1>3 DEF StartRound, history
  <2>2. \A n \in steady \cap DOMAIN dbConns' : dbConns'[n] # "broken"
    BY <2>1
  <2>3. \A n \in DOMAIN cluster \ gone : n \in DOMAIN cluster' /\ cluster'[n] = cluster[n]
    BY <2>1 DEF Keep
  <2>4. \A n \in (steady \ unpolled) \cap primary : n \in DOMAIN cluster \ gone
    OBVIOUS
  <2> QED
    BY <1>1, <2>1, <2>2, <2>3, <2>4
<1>4. ASSUME NEW m \in Nodes, PollNode(m) PROVE SeenWhileWaiting'
  <2> DEFINE usable == dbConns[m] = "open" \/ (dbConns[m] = "null" /\ m \in config.remote)
             answers == usable /\ m \in alive
             result == IF answers THEN Reading(m) ELSE Failing(cluster, m)
  <2>1. /\ cluster' = Update(cluster, [n \in {m} |-> result], {m})
        /\ unpolled' = unpolled \ {m}
        /\ m \in toPoll
    BY <1>4 DEF PollNode
  <2>2. PICK c \in {"open", "null"} : dbConns' = [dbConns EXCEPT ![m] = c]
    <3>1. PICK c \in ConnectionAfter(m, answers) : dbConns' = [dbConns EXCEPT ![m] = c]
      BY <1>4 DEF PollNode
    <3> QED
      BY <3>1 DEF ConnectionAfter
  <2>3. m \in DOMAIN dbConns /\ dbConns[m] \in {"open", "null", "broken"}
    BY <2>1 DEF TypeInv, MonitorInv, MonitorTypeOK
  <2>4. m \in steady \cap primary => result.role = "primary" /\ result.conn
    <3>1. m \in steady => answers
      BY <2>3
    <3> QED
      BY <3>1 DEF Reading
  <2> HIDE DEF result
  <2>5. /\ DOMAIN cluster' = DOMAIN cluster \cup {m}
        /\ \A n \in DOMAIN cluster' : cluster'[n] = IF n = m THEN result ELSE cluster[n]
    BY <2>1 DEF Update
  <2>6. \A n \in steady \cap DOMAIN dbConns' : dbConns'[n] # "broken"
    BY <2>2
  <2>7. \A n \in (steady \ unpolled') \cap primary :
          n \in DOMAIN cluster' /\ cluster'[n].role = "primary" /\ cluster'[n].conn
    BY <2>1, <2>4, <2>5
  <2> QED
    BY <1>1, <2>6, <2>7
<1>5. ASSUME UNCHANGED <<cluster, dbConns, unpolled>> PROVE SeenWhileWaiting'
  BY <1>1, <1>5
<1> QED
  BY <1>3, <1>4, <1>5
     DEF Monitor, StartRequested, StartPeriodic, FetchObserver, FinishRound, history

LEMMA LiveMasterEvents ==
  ASSUME TypeInv, LiveMasterInv, Events, UNCHANGED mainVars PROVE LiveMasterInv'
<1> USE DEF LiveMasterInv, NoFailoverOverLiveMaster, PromotesOnFreshData, SeenWhileWaiting
<1>1. UNCHANGED <<main, reason, config, cluster, unpolled>>
  BY DEF Events, NodeDown, NodeUp, ChangeRole, Replicate, ObserverRound, shared, history, mainVars
<1>2. steady' \subseteq steady
  BY DEF Events, NodeDown, NodeUp, ChangeRole, Replicate, ObserverRound, history
<1>3. steady' \cap primary' \subseteq steady \cap primary
  BY DEF Events, NodeDown, NodeUp, ChangeRole, Replicate, ObserverRound, history
<1>4. steady \cap alive \cap steady' \subseteq alive'
  BY DEF Events, NodeDown, NodeUp, ChangeRole, Replicate, ObserverRound
<1>5. /\ DOMAIN dbConns' = DOMAIN dbConns
      /\ \A n \in steady' \cap DOMAIN dbConns : dbConns'[n] = dbConns[n]
  BY DEF Events, NodeDown, NodeUp, ChangeRole, Replicate, ObserverRound, monitorVars
<1> QED
  BY <1>1, <1>2, <1>3, <1>4, <1>5

LEMMA LiveMasterMain ==
  ASSUME TypeInv, HandshakeProofs!FreshnessInv, LiveMasterInv, Main PROVE LiveMasterInv'
<1> USE DEF LiveMasterInv, NoFailoverOverLiveMaster, PromotesOnFreshData, SeenWhileWaiting
<1>1. ASSUME main' \in {"top", "check", "tail"} PROVE LiveMasterInv'
  BY <1>1
<1>2. CASE CheckClusterState
  <2>1. PICK map, pick :
          \/ AskForCheck(map) \/ Finished(map) \/ CheckReplicationLag(map, pick)
          \/ FailoverDecided(map, pick, "unseen")
    BY <1>2 DEF CheckClusterState, ConsiderFailover
  <2>2. CASE AskForCheck(map)
    <3>1. UNCHANGED <<config, alive, dbConns>>
      BY <1>2 DEF CheckClusterState, monitorVars, world
    <3> QED
      BY <2>2, <3>1 DEF AskForCheck
  <2>3. CASE main' = "tail" \/ (reason' \in {"lag", "unseen"} /\ main' = "failover")
    BY <2>3
  <2> QED
    BY <2>1, <2>2, <2>3 DEF Finished, CheckReplicationLag, FailoverDecided
<1>3. CASE Recheck
  <2> DEFINE map == CreateNodeMap(cluster, order, observers, obsOrder)
             why == IF ahead = 0 THEN "refreshed" ELSE "stale"
  <2>1. PICK pick \in MasterPicks(map) :
          \/ Finished(map) \/ CheckReplicationLag(map, pick)
          \/ FailoverDecided(map, pick, why)
    BY <1>3 DEF Recheck
  <2>2. main = "refreshed" /\ UNCHANGED primary /\ (main' = "failover" => steady' = steady)
    BY <1>3 DEF Recheck, Answered, world
  <2> HIDE DEF map
  <2>3. CASE main' = "failover" /\ reason' = "refreshed"
    <3>1. ahead = 0 /\ PromotesItself(map, pick, observers, config.never, maintenance, now)
      BY <2>1, <2>3 DEF Finished, CheckReplicationLag, FailoverDecided
    <3>2. unpolled = {}
      BY <2>2, <3>1, FreshWhenRefreshed
    <3>3. ASSUME NEW n \in steady \cap primary PROVE FALSE
      <4>1. n \in DOMAIN cluster /\ cluster[n].role = "primary" /\ cluster[n].conn
        BY <2>2, <3>2, <3>3
      <4> QED
        BY <3>1, <4>1, ConnectedMasterBlocks DEF map
    <3> QED
      BY <2>2, <2>3, <3>3
  <2>4. CASE main' = "tail" \/ (main' = "failover" /\ reason' # "refreshed")
    BY <2>4
  <2> QED
    BY <2>1, <2>3, <2>4 DEF Finished, CheckReplicationLag, FailoverDecided
<1>4. CASE AwaitToken
  BY <1>4 DEF AwaitToken, monitorVars, world, history
<1> QED
  BY <1>1, <1>2, <1>3, <1>4 DEF Main, Reload, ApplyConfig, CheckSkipped, AwaitTimeout,
     RunFailoverCommand, TailToken, TailTimeout

LEMMA LiveMasterStep ==
  ASSUME TypeInv, HandshakeProofs!FreshnessInv, LiveMasterInv, [Next]_vars PROVE LiveMasterInv'
<1> USE DEF LiveMasterInv, NoFailoverOverLiveMaster, PromotesOnFreshData, SeenWhileWaiting
<1>1. ASSUME UNCHANGED <<main, reason, config, cluster, unpolled, steady, primary, alive, dbConns>>
      PROVE  LiveMasterInv'
  BY <1>1
<1>2. CASE ClockTicks \/ WebCheck \/ Sighup \/ MaintenanceFile \/ UNCHANGED vars
  BY <1>1, <1>2 DEF ClockTicks, Tick, WebCheck, Sighup, MaintenanceFile, vars, monitorSpecVars,
     shared, monitorVars, world, history, mainVars
<1>3. ASSUME NEW c \in Configs, Restart(c) PROVE LiveMasterInv'
  BY <1>3 DEF Restart
<1> QED
  BY <1>2, <1>3, LiveMasterMain, LiveMasterMonitor, LiveMasterEvents DEF Next

\* pglookout.py:496-518, "check that we still don't have a master node".  When
\* nothing was queued before its own request, the main thread never decides to
\* promote over a primary that has been answering since, for any number of
\* nodes and observers, whatever the observers report meanwhile.
THEOREM LiveMasterSpared == Spec => []NoFailoverOverLiveMaster
<1>1. Init => LiveMasterInv
  BY DEF Init, LiveMasterInv, NoFailoverOverLiveMaster, PromotesOnFreshData, SeenWhileWaiting
<1>2. Spec => []HandshakeProofs!FreshnessInv
  BY Implements, SameHandshake, FreshHandshake, PTL DEF ImplementsHandshake
<1>3. LiveMasterInv => NoFailoverOverLiveMaster
  BY DEF LiveMasterInv
<1> QED
  BY <1>1, <1>2, <1>3, TypeInvHolds, LiveMasterStep, PTL DEF Spec
=============================================================================
