------------------------ MODULE CheckHandshakeProofs ------------------------
(***************************************************************************)
(* CheckHandshake, proved for every set of nodes, every set of configs and *)
(* every bound.  FreshnessInv is the inductive invariant; TypeOK is        *)
(* inductive by itself.                                                    *)
(***************************************************************************)
EXTENDS CheckHandshake, TLAPS

\* A config lists known names only.
LEMMA ConfigIsNodes == \A c \in Configs : \A n \in c : n \in Nodes
  BY ConfigsAssumption DEF ConfigsAssumption

\* Every variable of the handshake keeps its type, for any sequence of
\* requests, rounds, timeouts and reloads.
THEOREM TypeCorrect == Spec => []TypeOK
<1>1. ASSUME Init PROVE TypeOK
  <2>1. toPoll \subseteq Nodes
    BY <1>1, ConfigIsNodes DEF Init
  <2> QED
    BY <1>1, <2>1 DEF Init, TypeOK
<1>2. TypeOK /\ [Next]_vars => TypeOK'
  <2> SUFFICES ASSUME TypeOK, [Next]_vars
               PROVE  TypeOK'
    OBVIOUS
  <2> USE DEF TypeOK
  <2>1. CASE WebCheck
    BY <2>1 DEF WebCheck, monitorVars, askVars
  <2>2. ASSUME NEW c \in Configs, Reload(c) PROVE TypeOK'
    BY <2>2 DEF Reload, monitorVars, askVars
  <2>3. CASE AskForCheck
    <3>1. unpolled' \subseteq Nodes
      BY <2>3, ConfigIsNodes DEF AskForCheck
    <3> QED
      BY <2>3, <3>1 DEF AskForCheck, monitorVars, Outstanding, Answering
  <2>4. CASE SkipAsk \/ AwaitTimeout \/ Decide \/ TailTimeout
    BY <2>4 DEF SkipAsk, AwaitTimeout, Decide, TailTimeout, monitorVars, askVars
  <2>5. CASE AwaitToken \/ TailToken
    BY <2>5 DEF AwaitToken, TailToken, monitorVars, askVars
  <2>6. CASE StartRequested \/ StartPeriodic
    <3>1. toPoll' \subseteq Nodes
      BY <2>6, ConfigIsNodes DEF StartRequested, StartPeriodic
    <3>2. pending' \in Nat
      BY <2>6 DEF StartRequested, StartPeriodic
    <3>3. answering' \in BOOLEAN /\ monitor' = "polling"
      BY <2>6 DEF StartRequested, StartPeriodic
    <3>4. UNCHANGED <<conns, tokens, main, askVars>>
      BY <2>6 DEF StartRequested, StartPeriodic
    <3> QED
      BY <3>1, <3>2, <3>3, <3>4 DEF askVars
  <2>7. ASSUME NEW n \in Nodes, PollNode(n) PROVE TypeOK'
    <3>1. toPoll' \subseteq Nodes /\ unpolled' \subseteq Nodes
      BY <2>7 DEF PollNode
    <3> QED
      BY <2>7, <3>1 DEF PollNode, TypeOK
  <2>8. CASE FinishRound
    <3>1. tokens' \in Nat
      BY <2>8 DEF FinishRound, Answering
    <3> QED
      BY <2>8, <3>1 DEF FinishRound, askVars
  <2>9. ASSUME NEW c \in Configs, Restart(c) PROVE TypeOK'
    BY <2>9 DEF Restart
  <2>10. CASE UNCHANGED vars
    BY <2>10 DEF vars, monitorVars, askVars
  <2> QED
    BY <2>1, <2>2, <2>3, <2>4, <2>5, <2>6, <2>7, <2>8, <2>9, <2>10 DEF Next
<1> QED
  BY <1>1, <1>2, PTL DEF Spec

\* The step of the freshness argument: FIFO order makes the own answer token
\* number ahead+1, and the round behind it began after the request.
LEMMA FreshnessStep == TypeOK /\ FreshnessInv /\ [Next]_vars => FreshnessInv'
<1> SUFFICES ASSUME TypeOK, FreshnessInv, [Next]_vars
             PROVE  FreshnessInv'
  OBVIOUS
<1> USE DEF TypeOK, FreshnessInv, AnswerNotLost, OwnRoundCoversRequest,
            OwnAnswerIsFresh, AskedAboutConfigured, QuietBetweenRounds, RefreshIsFresh,
            Outstanding, Answering
<1>1. CASE WebCheck
  BY <1>1 DEF WebCheck, monitorVars, askVars
<1>2. ASSUME NEW c \in Configs, Reload(c) PROVE FreshnessInv'
  BY <1>2 DEF Reload, monitorVars, askVars
<1>3. CASE AskForCheck
  BY <1>3 DEF AskForCheck, monitorVars
<1>4. CASE SkipAsk \/ AwaitTimeout \/ Decide \/ TailTimeout
  BY <1>4 DEF SkipAsk, AwaitTimeout, Decide, TailTimeout, monitorVars, askVars
<1>5. CASE AwaitToken
  BY <1>5 DEF AwaitToken, monitorVars, askVars
<1>6. CASE TailToken
  BY <1>6 DEF TailToken, monitorVars, askVars
<1>7. CASE StartRequested
  BY <1>7 DEF StartRequested, askVars
<1>8. CASE StartPeriodic
  BY <1>8 DEF StartPeriodic, askVars
<1>9. ASSUME NEW n \in Nodes, PollNode(n) PROVE FreshnessInv'
  BY <1>9 DEF PollNode
<1>10. CASE FinishRound
  BY <1>10 DEF FinishRound, askVars
<1>11. ASSUME NEW c \in Configs, Restart(c) PROVE FreshnessInv'
  BY <1>11 DEF Restart
<1>12. CASE UNCHANGED vars
  BY <1>12 DEF vars, monitorVars, askVars
<1> QED
  BY <1>1, <1>2, <1>3, <1>4, <1>5, <1>6, <1>7, <1>8, <1>9, <1>10, <1>11, <1>12
     DEF Next

LEMMA FreshnessInitial == Init => FreshnessInv
  BY DEF Init, FreshnessInv, AnswerNotLost, OwnRoundCoversRequest,
         OwnAnswerIsFresh, AskedAboutConfigured, QuietBetweenRounds, RefreshIsFresh

\* pglookout.py:496-501, 896-906 and cluster_monitor.py:355-382: what holds
\* throughout the wait for an answer, whatever else the two queues carry.
THEOREM FreshnessHolds == Spec => []FreshnessInv
  BY FreshnessInitial, FreshnessStep, TypeCorrect, PTL DEF Spec

\* pglookout.py:496-501 with nothing outstanding: the decision is made on data
\* polled after the master was found missing, from every configured node.
THEOREM Freshness == Spec => []RefreshIsFresh
<1>1. FreshnessInv => RefreshIsFresh
  BY DEF FreshnessInv
<1> QED
  BY <1>1, FreshnessHolds, PTL

\* pglookout.py:496-498 and 898-903: no interleaving of the two queues loses the
\* answer to the request the main thread waits for.
THEOREM NeverLost == Spec => []AnswerNotLost
<1>1. FreshnessInv => AnswerNotLost
  BY DEF FreshnessInv
<1> QED
  BY <1>1, FreshnessHolds, PTL
=============================================================================
