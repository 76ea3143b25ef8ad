---------------------------- MODULE CheckTiming -----------------------------
(***************************************************************************)
(* The handshake of CheckHandshake.tla against the clock, while the master *)
(* is missing: every check asks for a round and waits for it, for no more  *)
(* than missing_master_from_config_timeout, and a round takes the longer   *)
(* the more hosts are silent.  The seconds are those of the defaults; all  *)
(* timers count down, so that time has no bound and the states are few.    *)
(* Things that can happen now happen before the clock ticks: no time is    *)
(* given to the main thread's own work.  Anybody may ask for a check over  *)
(* HTTP at any time, and every reload of the configuration asks for one.   *)
(***************************************************************************)
EXTENDS Naturals

CONSTANTS MasterTimeout,   \* missing_master_from_config_timeout
          CheckInterval,   \* replication_state_check_interval
          PollInterval,    \* db_poll_interval
          SelectTimeout,   \* the 5 seconds of wait_select
          Answering,       \* how long a round takes besides waiting for silence
          SilentHosts,     \* how many hosts may be silent (one that refuses is not)
          MaxForeign       \* bound: requests of others since nothing was outstanding

ASSUME TimesAssumption ==
  /\ {MasterTimeout, CheckInterval, PollInterval, SelectTimeout} \subseteq Nat \ {0}
  /\ Answering \subseteq Nat \ {0} /\ SilentHosts \subseteq Nat
  /\ \E t \in Answering : \A u \in Answering : u <= t
ASSUME MaxForeignAssumption == MaxForeign \in Nat

VARIABLES
  silent,            \* external: how many hosts do not answer
  \* The main thread: "check" the cluster, "awaiting" the answer, "decided",
  \* "tail" of main_loop; and when its get() gives up.
  main, mainTimer,
  \* The monitor: "waiting" on its queue until it times out, or "polling" until
  \* the round is over; requested is requested_check.
  monitor, monitorTimer, requested,
  pending, tokens,   \* lengths of the two queues
  \* History: answers due before the last request of a check; requests put by
  \* others since nothing was outstanding; a round has ended in this very second.
  ahead, foreign, fresh

vars == <<silent, main, mainTimer, monitor, monitorTimer, requested, pending, tokens,
          ahead, foreign, fresh>>
mainVars == <<main, mainTimer, ahead>>
monitorVars == <<monitor, monitorTimer, requested, fresh>>

Outstanding == pending + tokens + (IF requested THEN 1 ELSE 0)

\* With the last answer taken, the requests of others are history.
TakenFrom(n) == IF n = 0 THEN 0 ELSE foreign

\* connect_to_cluster_nodes tries one host after the other; the workers try
\* those without a connection again, all at once.
RoundTimes ==
  {a + (IF silent = 0 THEN 0 ELSE (silent + 1) * SelectTimeout) : a \in Answering}
Slowest == CHOOSE t \in RoundTimes : \A u \in RoundTimes : u <= t

\* The master has just gone; both threads are anywhere in their waits.  No check
\* has asked for anything, but others may have: load_config, which runs in the
\* constructor and at every reload, or POST /check.
Init ==
  /\ silent \in SilentHosts
  /\ main = "tail" /\ mainTimer \in 0..CheckInterval
  /\ \/ monitor = "waiting" /\ monitorTimer \in 0..PollInterval /\ requested = FALSE
     \/ monitor = "polling" /\ monitorTimer \in 0..Slowest /\ requested \in BOOLEAN
  /\ pending \in 0..MaxForeign /\ tokens = 0 /\ ahead = 0
  /\ foreign = Outstanding /\ foreign <= MaxForeign
  /\ fresh = FALSE
-----------------------------------------------------------------------------
(* Anybody with access to the HTTP port.                                   *)

WebCheck ==
  /\ foreign < MaxForeign
  /\ pending' = pending + 1 /\ foreign' = foreign + 1
  /\ UNCHANGED <<silent, mainVars, monitorVars, tokens>>

(* The main thread.                                                        *)

\* load_config asks, and the iteration goes straight to its wait.
Reload ==
  /\ main = "check"
  /\ foreign < MaxForeign
  /\ pending' = pending + 1 /\ foreign' = foreign + 1
  /\ main' = "tail" /\ mainTimer' = CheckInterval
  /\ UNCHANGED <<silent, monitorVars, tokens, ahead>>

\* Faulty variant: the wait starts after the interval it replaces.
AskPatiently ==
  /\ main = "check"
  /\ main' = "awaiting" /\ mainTimer' = MasterTimeout + CheckInterval
  /\ ahead' = Outstanding
  /\ pending' = pending + 1
  /\ UNCHANGED <<silent, monitorVars, tokens, foreign>>

\* The master is missing, so every check asks.
Ask ==
  /\ main = "check"
  /\ main' = "awaiting" /\ mainTimer' = MasterTimeout
  /\ ahead' = Outstanding
  /\ pending' = pending + 1
  /\ UNCHANGED <<silent, monitorVars, tokens, foreign>>

AwaitToken ==
  /\ main = "awaiting"
  /\ tokens > 0
  /\ tokens' = tokens - 1 /\ foreign' = TakenFrom(Outstanding - 1)
  /\ main' = "decided" /\ mainTimer' = 0
  /\ UNCHANGED <<silent, monitorVars, pending, ahead>>

\* Faulty variant: a check that got no answer decides on what it has.
AwaitInVain ==
  /\ main = "awaiting"
  /\ tokens = 0 /\ mainTimer = 0
  /\ main' = "decided"
  /\ UNCHANGED <<silent, mainTimer, monitorVars, pending, tokens, ahead, foreign>>

\* queue.Empty ends the check without a decision.
AwaitTimeout ==
  /\ main = "awaiting"
  /\ tokens = 0 /\ mainTimer = 0
  /\ main' = "tail" /\ mainTimer' = CheckInterval
  /\ UNCHANGED <<silent, monitorVars, pending, tokens, ahead, foreign>>

\* do_failover_decision, which may still find the last contact too recent.
Decide ==
  /\ main = "decided"
  /\ main' = "tail" /\ mainTimer' = CheckInterval
  /\ UNCHANGED <<silent, monitorVars, pending, tokens, ahead, foreign>>

TailToken ==
  /\ main = "tail"
  /\ tokens > 0
  /\ tokens' = 0 /\ foreign' = TakenFrom(Outstanding - tokens)
  /\ main' = "check" /\ mainTimer' = 0
  /\ UNCHANGED <<silent, monitorVars, pending, ahead>>

TailTimeout ==
  /\ main = "tail"
  /\ tokens = 0 /\ mainTimer = 0
  /\ main' = "check"
  /\ UNCHANGED <<silent, mainTimer, monitorVars, pending, tokens, ahead, foreign>>

MainStep ==
  Ask \/ AwaitToken \/ AwaitTimeout \/ Decide \/ TailToken \/ TailTimeout
-----------------------------------------------------------------------------
(* The monitor.                                                            *)

\* Faulty variant: the request stays in the queue.
StartOnRequest ==
  /\ monitor = "waiting"
  /\ pending > 0
  /\ monitor' = "polling" /\ monitorTimer' \in RoundTimes /\ requested' = TRUE
  /\ UNCHANGED <<silent, mainVars, pending, tokens, foreign, fresh>>

StartRequested ==
  /\ monitor = "waiting"
  /\ pending > 0
  /\ pending' = pending - 1
  /\ monitor' = "polling" /\ monitorTimer' \in RoundTimes /\ requested' = TRUE
  /\ UNCHANGED <<silent, mainVars, tokens, foreign, fresh>>

StartPeriodic ==
  /\ monitor = "waiting"
  /\ pending = 0 /\ monitorTimer = 0
  /\ monitor' = "polling" /\ monitorTimer' \in RoundTimes /\ requested' = FALSE
  /\ UNCHANGED <<silent, mainVars, pending, tokens, foreign, fresh>>

\* Faulty variant: every round puts a token.
FinishWithToken ==
  /\ monitor = "polling" /\ monitorTimer = 0
  /\ monitor' = "waiting" /\ monitorTimer' = PollInterval /\ requested' = FALSE /\ fresh' = TRUE
  /\ tokens' = tokens + 1
  /\ UNCHANGED <<silent, mainVars, pending, foreign>>

\* Faulty variant: a requested round puts no token when a host was silent.
FinishUnanswered ==
  /\ monitor = "polling" /\ monitorTimer = 0
  /\ monitor' = "waiting" /\ monitorTimer' = PollInterval /\ requested' = FALSE /\ fresh' = TRUE
  /\ tokens' = IF requested /\ silent = 0 THEN tokens + 1 ELSE tokens
  /\ UNCHANGED <<silent, mainVars, pending, foreign>>

FinishRound ==
  /\ monitor = "polling" /\ monitorTimer = 0
  /\ monitor' = "waiting" /\ monitorTimer' = PollInterval /\ requested' = FALSE /\ fresh' = TRUE
  /\ tokens' = IF requested THEN tokens + 1 ELSE tokens
  /\ UNCHANGED <<silent, mainVars, pending, foreign>>

MonitorStep == StartRequested \/ StartPeriodic \/ FinishRound

\* A get() with something to get, or one that is over, does not wait.
Tick ==
  /\ main \in {"awaiting", "tail"} /\ mainTimer > 0 /\ tokens = 0
  /\ monitorTimer > 0 /\ (monitor = "waiting" => pending = 0)
  /\ mainTimer' = mainTimer - 1
  /\ monitorTimer' = monitorTimer - 1
  /\ fresh' = FALSE
  /\ UNCHANGED <<silent, main, monitor, requested, pending, tokens, ahead, foreign>>

Program == MainStep \/ MonitorStep \/ Tick

Next == WebCheck \/ Reload \/ Program

\* Both threads run and time passes; nobody has to ask or to reload.
Spec == Init /\ [][Next]_vars /\ WF_vars(Program)
-----------------------------------------------------------------------------
(* Properties.                                                             *)

\* pglookout.py:495-518 and 896-906.  While the master is missing, failover
\* decisions go on being taken, whatever others ask for: the wait of a check does
\* not time out for ever.  Only a configuration reloaded again and again, each
\* time instead of a check, can prevent that.
DecisionsGoOn == []<>(main = "decided") \/ []<><<Reload>>_vars

\* pglookout.py:498 takes whichever answer is first.  All the same the memory that
\* a decision rests on was completed by a round that ended in this very second, so
\* that nothing in it is older than one round takes.
DecisionsAreRecent == main = "decided" => fresh

\* pglookout.py:496-498.  When two rounds fit into the wait, one in progress at the
\* request and the one requested, a check never finds answers to earlier checks
\* ahead of its own: with nobody else asking, it decides on the answer to its own.
OnlyOthersGoAhead ==
  main = "decided" /\ 2 * Slowest <= MasterTimeout => ahead <= foreign

\* pglookout.py:496: nobody looks how many requests are queued before putting
\* another.  As long as a round takes less than the wait the checks add no more
\* than two to what others have asked for, although a backlog may last.
RequestsDoNotPileUp == Slowest <= MasterTimeout => Outstanding <= 2 + foreign

TypeOK ==
  /\ silent \in SilentHosts
  /\ main \in {"check", "awaiting", "decided", "tail"}
  /\ mainTimer \in 0..MasterTimeout \cup 0..CheckInterval
  /\ monitor \in {"waiting", "polling"}
  /\ monitorTimer \in 0..Slowest \cup 0..PollInterval
  /\ requested \in BOOLEAN /\ fresh \in BOOLEAN
  /\ pending \in Nat /\ tokens \in Nat /\ ahead \in Nat
  /\ foreign \in 0..MaxForeign
=============================================================================
