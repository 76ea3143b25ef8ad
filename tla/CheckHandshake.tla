--------------------------- MODULE CheckHandshake ---------------------------
(***************************************************************************)
(* The promise behind "ask for an immediate state check": the main thread  *)
(* and the ClusterMonitor thread of pglookout talk over two queues.        *)
(*                                                                         *)
(*   cluster_monitor_check_queue  requests, put by load_config, by         *)
(*                                consider_failover and by POST /check     *)
(*   failover_decision_queue      one token per requested monitoring       *)
(*                                round, put when the round has ended      *)
(*                                                                         *)
(* Neither side looks at what is in a queue, and both are FIFO, so a       *)
(* counter stands for each.  What the module leaves open (when the main    *)
(* thread asks, what a poll returns) PgLookout.tla fills in; PgLookout     *)
(* is shown to implement this specification.                               *)
(***************************************************************************)
EXTENDS Naturals

CONSTANTS Nodes,        \* names that may appear in remote_conns
          Configs,      \* the sets of names a config file may list
          MaxRequests   \* bound: requests and tokens outstanding at a time

ASSUME ConfigsAssumption == Configs \subseteq SUBSET Nodes
ASSUME MaxRequestsAssumption == MaxRequests \in Nat \ {0}

VARIABLES
  \* The keys of remote_conns in the config both threads use.
  conns,
  \* Length of cluster_monitor_check_queue.
  pending,
  \* Length of failover_decision_queue.
  tokens,
  \* The monitor thread: "starting", "waiting" on its queue or "polling".
  monitor,
  \* The round in progress was requested, so it will put a token.
  answering,
  \* The nodes the round in progress has yet to poll.
  toPoll,
  \* The main thread: "top" of an iteration, "awaiting" the answer to its own
  \* request, "refreshed" once it took a token for it, "tail" of an iteration.
  main,
  \* History, from a request to the end of its check: the configured nodes not
  \* polled since, and how many answers were due before.
  unpolled,
  ahead

vars == <<conns, pending, tokens, monitor, answering, toPoll, main, unpolled, ahead>>
monitorVars == <<monitor, answering, toPoll>>
askVars == <<unpolled, ahead>>

Answering == IF answering THEN 1 ELSE 0
Outstanding == pending + Answering + tokens

TypeOK ==
  /\ conns \in Configs
  /\ pending \in Nat /\ tokens \in Nat
  /\ monitor \in {"starting", "waiting", "polling"}
  /\ answering \in BOOLEAN
  /\ toPoll \subseteq Nodes
  /\ main \in {"top", "awaiting", "refreshed", "tail"}
  /\ unpolled \subseteq Nodes
  /\ ahead \in Nat

\* load_config runs in the constructor and leaves a request behind.
Init ==
  /\ conns \in Configs
  /\ pending = 1
  /\ tokens = 0
  /\ monitor = "starting"
  /\ answering = FALSE
  /\ toPoll = {}
  /\ main = "top"
  /\ unpolled = {}
  /\ ahead = 0

-----------------------------------------------------------------------------
(* Anybody with access to the HTTP port.                                   *)

WebCheck ==
  /\ Outstanding < MaxRequests
  /\ pending' = pending + 1
  /\ UNCHANGED <<conns, tokens, monitorVars, main, askVars>>

(* The main thread.                                                        *)

\* A reload replaces the configuration, asks for a check, and does nothing
\* else in this iteration.
Reload(c) ==
  /\ main = "top"
  /\ Outstanding < MaxRequests
  /\ conns' = c
  /\ pending' = pending + 1
  /\ main' = "tail"
  /\ UNCHANGED <<tokens, monitorVars, askVars>>

\* "Master is missing, ask for immediate state check"
AskForCheck ==
  /\ main = "top"
  /\ Outstanding < MaxRequests
  /\ ahead' = Outstanding
  /\ pending' = pending + 1
  /\ unpolled' = conns
  /\ main' = "awaiting"
  /\ UNCHANGED <<conns, tokens, monitorVars>>

\* An iteration in which the check does not need a refresh.
SkipAsk ==
  /\ main = "top"
  /\ main' = "tail"
  /\ UNCHANGED <<conns, pending, tokens, monitorVars, askVars>>

\* Faulty variant: a wait that does not block on an empty queue.
AwaitNothing ==
  /\ main = "awaiting"
  /\ tokens' = tokens - 1
  /\ main' = "refreshed"
  /\ UNCHANGED <<conns, pending, monitorVars, askVars>>

\* One token is taken: whichever is first in the queue.
AwaitToken ==
  /\ main = "awaiting"
  /\ tokens > 0
  /\ tokens' = tokens - 1
  /\ main' = "refreshed"
  /\ UNCHANGED <<conns, pending, monitorVars, askVars>>

\* queue.Empty ends the check; the request stays queued.
AwaitTimeout ==
  /\ main = "awaiting"
  /\ tokens = 0
  /\ main' = "tail"
  /\ unpolled' = {} /\ ahead' = 0
  /\ UNCHANGED <<conns, pending, tokens, monitorVars>>

Decide ==
  /\ main = "refreshed"
  /\ main' = "tail"
  /\ unpolled' = {} /\ ahead' = 0
  /\ UNCHANGED <<conns, pending, tokens, monitorVars>>

\* One token, then everything else that is in the queue.
TailToken ==
  /\ main = "tail"
  /\ tokens > 0
  /\ tokens' = 0
  /\ main' = "top"
  /\ UNCHANGED <<conns, pending, monitorVars, askVars>>

TailTimeout ==
  /\ main = "tail"
  /\ tokens = 0
  /\ main' = "top"
  /\ UNCHANGED <<conns, pending, tokens, monitorVars, askVars>>

(* The monitor thread.                                                     *)

\* Faulty variant: the token is put before the round instead of after it.
TokenBeforeRound ==
  /\ monitor = "waiting"
  /\ pending > 0
  /\ pending' = pending - 1
  /\ tokens' = tokens + 1
  /\ monitor' = "polling"
  /\ answering' = FALSE
  /\ toPoll' = conns
  /\ UNCHANGED <<conns, main, askVars>>

\* Faulty variant: one round is taken for the answer to all requests.
OneRoundForAll ==
  /\ monitor = "waiting"
  /\ pending > 0
  /\ pending' = 0
  /\ monitor' = "polling"
  /\ answering' = TRUE
  /\ toPoll' = conns
  /\ UNCHANGED <<conns, tokens, main, askVars>>

StartRequested ==
  /\ monitor = "waiting"
  /\ pending > 0
  /\ pending' = pending - 1
  /\ monitor' = "polling"
  /\ answering' = TRUE
  /\ toPoll' = conns
  /\ UNCHANGED <<conns, tokens, main, askVars>>

\* db_poll_interval went by without a request, or the thread has just started:
\* the first round of run() answers nobody.
StartPeriodic ==
  /\ monitor = "starting" \/ (monitor = "waiting" /\ pending = 0)
  /\ monitor' = "polling"
  /\ answering' = FALSE
  /\ toPoll' = conns
  /\ UNCHANGED <<conns, pending, tokens, main, askVars>>

\* A worker of the pool stores what it found out about n.
PollNode(n) ==
  /\ monitor = "polling"
  /\ n \in toPoll
  /\ toPoll' = toPoll \ {n}
  /\ unpolled' = unpolled \ {n}
  /\ UNCHANGED <<conns, pending, tokens, monitor, answering, main, ahead>>

\* Faulty variant: the token is forgotten.
FinishSilently ==
  /\ monitor = "polling"
  /\ toPoll = {}
  /\ monitor' = "waiting"
  /\ answering' = FALSE
  /\ UNCHANGED <<conns, pending, tokens, toPoll, main, askVars>>

\* as_completed has returned every future.
FinishRound ==
  /\ monitor = "polling"
  /\ toPoll = {}
  /\ monitor' = "waiting"
  /\ answering' = FALSE
  /\ tokens' = tokens + Answering
  /\ UNCHANGED <<conns, pending, toPoll, main, askVars>>

(* The process ends, however it ends, and is started again: both queues    *)
(* and all that was asked are gone.                                        *)

Restart(c) ==
  /\ conns' = c
  /\ pending' = 1
  /\ tokens' = 0
  /\ monitor' = "starting"
  /\ answering' = FALSE
  /\ toPoll' = {}
  /\ main' = "top"
  /\ unpolled' = {}
  /\ ahead' = 0

-----------------------------------------------------------------------------
Next ==
  \/ WebCheck
  \/ \E c \in Configs : Reload(c)
  \/ AskForCheck \/ SkipAsk
  \/ AwaitToken \/ AwaitTimeout \/ Decide
  \/ TailToken \/ TailTimeout
  \/ StartRequested \/ StartPeriodic
  \/ \E n \in Nodes : PollNode(n)
  \/ FinishRound
  \/ \E c \in Configs : Restart(c)

Spec == Init /\ [][Next]_vars

(***************************************************************************)
(* Each thread keeps running: every query of a round ends within its own   *)
(* timeout (wait_select, requests' timeout=5.0), and a get returns once    *)
(* there is a token.  Nothing is assumed of the two timeouts: a request    *)
(* must be answered without their help.                                    *)
(***************************************************************************)
Fairness ==
  /\ WF_vars(StartRequested) /\ WF_vars(StartPeriodic)
  /\ WF_vars(\E n \in Nodes : PollNode(n))
  /\ WF_vars(FinishRound)
  /\ WF_vars(AwaitToken)

FairSpec == Spec /\ Fairness

-----------------------------------------------------------------------------
(* Properties.                                                             *)

\* pglookout.py:496-501.  When no answer was due before the main thread asked,
\* the token it takes stands for a round that polled every configured node
\* after it asked: the failover decision is made on fresh data.
RefreshIsFresh ==
  main = "refreshed" /\ ahead = 0 => unpolled = {}

\* pglookout.py:496-498, 898-903.  While the main thread waits, the answer to
\* its own request is still to come or is in the queue, behind exactly those
\* that were due before it (the draining of the queue at the end of an earlier
\* iteration never eats it).
AnswerNotLost ==
  main = "awaiting" => Outstanding >= ahead + 1

\* The wait ends in a token even if the timeouts never fire: a request is
\* never forgotten by the monitor.
AwaitEnds == main = "awaiting" ~> main # "awaiting"

(***************************************************************************)
(* Why RefreshIsFresh holds.  FIFO order makes the answer to the main      *)
(* thread's request the token number ahead+1; the round that will put it   *)
(* was started after the request, so it polls what is still unpolled.      *)
(***************************************************************************)
OwnRoundCoversRequest ==
  main = "awaiting" /\ answering /\ tokens = ahead => unpolled \subseteq toPoll

OwnAnswerIsFresh ==
  main = "awaiting" /\ tokens >= ahead + 1 => unpolled = {}

AskedAboutConfigured ==
  main = "awaiting" => unpolled \subseteq conns

QuietBetweenRounds ==
  monitor # "polling" => ~answering /\ toPoll = {}

FreshnessInv ==
  /\ AnswerNotLost
  /\ OwnRoundCoversRequest
  /\ OwnAnswerIsFresh
  /\ AskedAboutConfigured
  /\ QuietBetweenRounds
  /\ RefreshIsFresh
=============================================================================
