------------------------- MODULE CheckTimingProofs --------------------------
(***************************************************************************)
(* CheckTiming, for all timeouts, intervals and durations of a round.      *)
(* Liveness (DecisionsGoOn) is left to TLC.                                *)
(***************************************************************************)
EXTENDS CheckTiming, TLAPS

\* Which hosts are silent does not change, so neither does how long a round may
\* take; and a round takes some time.
LEMMA SlowestRound ==
  ASSUME silent \in SilentHosts
  PROVE  /\ Slowest \in RoundTimes /\ Slowest \in Nat \ {0}
         /\ \A t \in RoundTimes : t \in Nat \ {0} /\ t <= Slowest
<1> DEFINE wait == IF silent = 0 THEN 0 ELSE (silent + 1) * SelectTimeout
<1>1. wait \in Nat
  BY TimesAssumption DEF TimesAssumption
<1>2. RoundTimes = {a + wait : a \in Answering}
  BY DEF RoundTimes
<1> HIDE DEF wait
<1>3. PICK a \in Answering : \A b \in Answering : b <= a
  BY TimesAssumption DEF TimesAssumption
<1>4. \A b \in Answering : b \in Nat \ {0} /\ b + wait \in Nat \ {0}
  BY <1>1, TimesAssumption DEF TimesAssumption
<1>5. a + wait \in RoundTimes /\ \A t \in RoundTimes : t \in Nat \ {0} /\ t <= a + wait
  BY <1>1, <1>2, <1>3, <1>4
<1>6. \E t \in RoundTimes : \A u \in RoundTimes : u <= t
  BY <1>5
<1>7. Slowest \in RoundTimes /\ \A u \in RoundTimes : u <= Slowest
  BY <1>6 DEF Slowest
<1> QED
  BY <1>5, <1>7

LEMMA SlowestStays ==
  ASSUME UNCHANGED silent PROVE Slowest' = Slowest /\ RoundTimes' = RoundTimes
  BY DEF Slowest, RoundTimes

LEMMA SilentStays == ASSUME [Next]_vars PROVE UNCHANGED silent
  BY DEF Next, Program, MainStep, MonitorStep, WebCheck, Reload, Tick, Ask, AwaitToken,
     AwaitTimeout, Decide, TailToken, TailTimeout, StartRequested, StartPeriodic, FinishRound,
     vars

LEMMA TypeInitial == Init => TypeOK
<1> SUFFICES ASSUME Init PROVE TypeOK
  OBVIOUS
<1>1. Slowest \in Nat
  BY SlowestRound DEF Init
<1> HIDE DEF Slowest
<1>2. Outstanding \in Nat
  BY MaxForeignAssumption DEF Init, Outstanding, MaxForeignAssumption
<1>3. foreign \in 0..MaxForeign /\ pending \in Nat /\ tokens \in Nat /\ ahead \in Nat
  BY <1>2, MaxForeignAssumption DEF Init, MaxForeignAssumption
<1>4. /\ monitor \in {"waiting", "polling"} /\ requested \in BOOLEAN
      /\ monitorTimer \in 0..Slowest \cup 0..PollInterval
  BY <1>1 DEF Init
<1> QED
  BY <1>3, <1>4 DEF Init, TypeOK

LEMMA TypeStep == ASSUME TypeOK, [Next]_vars PROVE TypeOK'
<1> USE DEF TypeOK, mainVars, monitorVars
<1>1. Slowest' = Slowest /\ Slowest \in Nat /\ RoundTimes \subseteq 0..Slowest
  <2>1. Slowest \in Nat /\ \A t \in RoundTimes : t \in Nat /\ t <= Slowest
    BY SlowestRound
  <2> QED
    BY <2>1, SlowestStays, SilentStays
<1> HIDE DEF Slowest, RoundTimes
<1>2. {MasterTimeout, CheckInterval, PollInterval} \subseteq Nat \ {0} /\ MaxForeign \in Nat
  BY TimesAssumption, MaxForeignAssumption DEF TimesAssumption, MaxForeignAssumption
<1>3. CASE Ask
  BY <1>1, <1>2, <1>3 DEF Ask, Outstanding
<1>4. CASE AwaitToken \/ TailToken
  BY <1>1, <1>2, <1>4 DEF AwaitToken, TailToken, TakenFrom
<1>5. CASE AwaitTimeout \/ Decide \/ TailTimeout
  BY <1>1, <1>2, <1>5 DEF AwaitTimeout, Decide, TailTimeout
<1>6. CASE StartRequested
  <2>1. monitorTimer' \in 0..Slowest /\ pending' \in Nat
    BY <1>1, <1>6 DEF StartRequested
  <2> QED
    BY <1>1, <1>6, <2>1 DEF StartRequested
<1>7. CASE StartPeriodic
  <2>1. monitorTimer' \in 0..Slowest
    BY <1>1, <1>7 DEF StartPeriodic
  <2> QED
    BY <1>1, <1>7, <2>1 DEF StartPeriodic
<1>8. CASE FinishRound
  <2>1. tokens' \in Nat
    BY <1>8 DEF FinishRound
  <2>2. monitorTimer' \in 0..PollInterval
    BY <1>2, <1>8 DEF FinishRound
  <2> QED
    BY <1>1, <1>8, <2>1, <2>2 DEF FinishRound
<1>9. CASE Tick
  <2>1. mainTimer' \in 0..MasterTimeout \cup 0..CheckInterval
    BY <1>2, <1>9 DEF Tick
  <2>2. monitorTimer' \in 0..Slowest \cup 0..PollInterval
    BY <1>1, <1>2, <1>9 DEF Tick
  <2>3. fresh' \in BOOLEAN
    BY <1>9 DEF Tick
  <2> QED
    BY <1>1, <1>9, <2>1, <2>2, <2>3 DEF Tick
<1>10. CASE WebCheck \/ Reload
  BY <1>1, <1>2, <1>10 DEF WebCheck, Reload
<1>11. CASE UNCHANGED vars
  BY <1>1, <1>11 DEF vars
<1> QED
  BY <1>3, <1>4, <1>5, <1>6, <1>7, <1>8, <1>9, <1>10, <1>11
     DEF Next, Program, MainStep, MonitorStep

\* Every timer stays within the timeout that set it.
THEOREM TypeCorrect == Spec => []TypeOK
  BY TypeInitial, TypeStep, PTL DEF Spec

-----------------------------------------------------------------------------
(* Requests do not pile up.                                                *)

\* A token that nobody has taken yet was put in this very second, by a
\* requested round: there has been no time for a periodic one since.  Nor has
\* there between a token and the decision it allows.
RoundInv ==
  /\ monitor = "waiting" => ~requested
  /\ monitor = "polling" => monitorTimer <= Slowest
  /\ tokens >= 1 => fresh /\ IF monitor = "waiting" THEN monitorTimer > 0 ELSE requested
  /\ main = "decided" => fresh

\* A request that came during a periodic round, which answers nobody.
Behind == pending >= 1 /\ monitor = "polling" /\ ~requested

\* Besides what others have asked for, one request of a check may be left when
\* the next check asks.  The next token comes no later than the wait for it ends.
PileInv ==
  /\ main \in {"check", "decided"} =>
       /\ Outstanding <= 1 + foreign
       /\ Behind => Outstanding <= foreign
  /\ main = "awaiting" =>
       /\ Outstanding >= 1 /\ Outstanding <= 2 + foreign
       /\ Behind => Outstanding <= 1 + foreign
       /\ Behind /\ Outstanding = 1 + foreign => monitorTimer <= mainTimer
       /\ Outstanding = 2 + foreign /\ tokens = 0 =>
            IF monitor = "waiting" THEN Slowest <= mainTimer ELSE monitorTimer <= mainTimer
  /\ main = "tail" =>
       /\ Outstanding <= 2 + foreign
       /\ Behind => Outstanding <= 1 + foreign
       /\ Behind /\ Outstanding = 1 + foreign => monitorTimer = 0 /\ mainTimer > 0
       /\ Outstanding = 2 + foreign =>
            mainTimer > 0 /\ (tokens >= 1 \/ (requested /\ monitorTimer = 0))

LEMMA RoundStep == ASSUME TypeOK, RoundInv, [Next]_vars PROVE RoundInv'
<1> USE DEF TypeOK, RoundInv, mainVars, monitorVars
<1>1. Slowest' = Slowest /\ Slowest \in Nat /\ \A t \in RoundTimes : t \in Nat \ {0} /\ t <= Slowest
  BY SlowestRound, SlowestStays, SilentStays
<1>2. {MasterTimeout, CheckInterval, PollInterval} \subseteq Nat \ {0}
  BY TimesAssumption DEF TimesAssumption
<1> HIDE DEF Slowest, RoundTimes
<1>3. CASE WebCheck \/ Reload \/ MainStep
  BY <1>1, <1>2, <1>3 DEF WebCheck, Reload, MainStep, Ask, AwaitToken, AwaitTimeout, Decide, TailToken, TailTimeout
<1>4. CASE StartRequested \/ StartPeriodic
  BY <1>1, <1>2, <1>4 DEF StartRequested, StartPeriodic
<1>5. CASE FinishRound
  BY <1>1, <1>2, <1>5 DEF FinishRound
<1>6. CASE Tick
  BY <1>1, <1>2, <1>6 DEF Tick
<1>7. CASE UNCHANGED vars
  BY <1>1, <1>7 DEF vars
<1> QED
  BY <1>3, <1>4, <1>5, <1>6, <1>7 DEF Next, Program, MonitorStep

LEMMA PileStep ==
  ASSUME TypeOK, RoundInv, Slowest <= MasterTimeout, PileInv, [Next]_vars PROVE PileInv'
<1> USE DEF TypeOK, RoundInv, PileInv, Behind, Outstanding, mainVars, monitorVars
<1>1. Slowest' = Slowest /\ Slowest \in Nat \ {0}
      /\ \A t \in RoundTimes : t \in Nat \ {0} /\ t <= Slowest
  BY SlowestRound, SlowestStays, SilentStays
<1>2. {MasterTimeout, CheckInterval, PollInterval} \subseteq Nat \ {0}
  BY TimesAssumption DEF TimesAssumption
<1> HIDE DEF Slowest, RoundTimes
<1>3. CASE Ask
  BY <1>1, <1>2, <1>3 DEF Ask
<1>4. CASE AwaitToken
  BY <1>1, <1>2, <1>4 DEF AwaitToken, TakenFrom
<1>5. CASE AwaitTimeout
  BY <1>1, <1>2, <1>5 DEF AwaitTimeout
<1>6. CASE Decide
  BY <1>1, <1>2, <1>6 DEF Decide
<1>7. CASE TailToken
  BY <1>1, <1>2, <1>7 DEF TailToken, TakenFrom
<1>8. CASE TailTimeout
  BY <1>1, <1>2, <1>8 DEF TailTimeout
<1>9. CASE StartRequested
  BY <1>1, <1>2, <1>9 DEF StartRequested
<1>10. CASE StartPeriodic
  BY <1>1, <1>2, <1>10 DEF StartPeriodic
<1>11. CASE FinishRound
  BY <1>1, <1>2, <1>11 DEF FinishRound
<1>12. CASE Tick
  BY <1>1, <1>2, <1>12 DEF Tick
<1>13. CASE WebCheck
  BY <1>1, <1>2, <1>13 DEF WebCheck
<1>14. CASE Reload
  BY <1>1, <1>2, <1>14 DEF Reload
<1>15. CASE UNCHANGED vars
  BY <1>1, <1>15 DEF vars
<1> QED
  BY <1>3, <1>4, <1>5, <1>6, <1>7, <1>8, <1>9, <1>10, <1>11, <1>12, <1>13,
     <1>14, <1>15 DEF Next, Program, MainStep, MonitorStep

LEMMA PileHolds == Spec => [](RoundInv /\ (Slowest <= MasterTimeout => PileInv))
<1>1. Init => RoundInv /\ PileInv
  <2> SUFFICES ASSUME Init PROVE RoundInv /\ PileInv
    OBVIOUS
  <2>1. Slowest \in Nat
    BY SlowestRound DEF Init
  <2> HIDE DEF Slowest
  <2> QED
    BY <2>1 DEF Init, RoundInv, PileInv, Behind, Outstanding
<1>2. TypeOK /\ RoundInv /\ (Slowest <= MasterTimeout => PileInv) /\ [Next]_vars
        => RoundInv' /\ (Slowest <= MasterTimeout => PileInv)'
  BY RoundStep, PileStep, SlowestStays, SilentStays
<1> QED
  BY <1>1, <1>2, TypeCorrect, PTL DEF Spec

\* pglookout.py:496 puts requests without looking how many there are.  If no
\* round takes longer than a check waits for it, the checks never add more than
\* two to what others have asked for since the queues were last empty, whatever
\* the intervals are and also where the two are equal.
THEOREM NoPile == Spec => []RequestsDoNotPileUp
<1>1. TypeOK /\ (Slowest <= MasterTimeout => PileInv) => RequestsDoNotPileUp
  BY DEF TypeOK, PileInv, Outstanding, RequestsDoNotPileUp
<1> QED
  BY <1>1, PileHolds, TypeCorrect, PTL

\* pglookout.py:498.  Whoever asked for the round that the token stands for, it
\* has ended in the second in which the decision is taken: for all settings and
\* any number of requests, nothing a decision rests on is older than one round.
THEOREM DecidesOnRecent == Spec => []DecisionsAreRecent
<1>1. RoundInv => DecisionsAreRecent
  BY DEF RoundInv, DecisionsAreRecent
<1> QED
  BY <1>1, PileHolds, PTL

-----------------------------------------------------------------------------
(* The check's own requests do not delay each other.                       *)

\* With room for two rounds in the wait, only what others have asked for is due
\* when a check asks: the token that makes up for its own request is on time even
\* if the request found a round in progress.
QuickInv ==
  /\ main \in {"check", "decided"} => Outstanding <= foreign
  /\ main = "decided" => ahead <= foreign
  /\ main = "awaiting" =>
       /\ ahead <= foreign /\ Outstanding > ahead /\ Outstanding <= 1 + foreign
       /\ Outstanding = 1 + foreign /\ tokens = 0 =>
            IF monitor = "waiting" THEN Slowest <= mainTimer
            ELSE IF requested THEN monitorTimer <= mainTimer
            ELSE monitorTimer + Slowest <= mainTimer
  /\ main = "tail" =>
       /\ Outstanding <= 1 + foreign
       /\ Outstanding = 1 + foreign =>
            mainTimer > 0 /\ (tokens >= 1 \/ (requested /\ monitorTimer = 0))

LEMMA QuickStep ==
  ASSUME TypeOK, RoundInv, 2 * Slowest <= MasterTimeout, QuickInv, [Next]_vars PROVE QuickInv'
<1> USE DEF TypeOK, RoundInv, QuickInv, Outstanding, mainVars, monitorVars
<1>1. Slowest' = Slowest /\ Slowest \in Nat \ {0}
      /\ \A t \in RoundTimes : t \in Nat \ {0} /\ t <= Slowest
  BY SlowestRound, SlowestStays, SilentStays
<1>2. {MasterTimeout, CheckInterval, PollInterval} \subseteq Nat \ {0}
  BY TimesAssumption DEF TimesAssumption
<1> HIDE DEF Slowest, RoundTimes
<1>3. CASE Ask
  BY <1>1, <1>2, <1>3 DEF Ask
<1>4. CASE AwaitToken
  BY <1>1, <1>2, <1>4 DEF AwaitToken, TakenFrom
<1>5. CASE AwaitTimeout
  BY <1>1, <1>2, <1>5 DEF AwaitTimeout
<1>6. CASE Decide
  BY <1>1, <1>2, <1>6 DEF Decide
<1>7. CASE TailToken
  BY <1>1, <1>2, <1>7 DEF TailToken, TakenFrom
<1>8. CASE TailTimeout
  BY <1>1, <1>2, <1>8 DEF TailTimeout
<1>9. CASE StartRequested
  BY <1>1, <1>2, <1>9 DEF StartRequested
<1>10. CASE StartPeriodic
  BY <1>1, <1>2, <1>10 DEF StartPeriodic
<1>11. CASE FinishRound
  BY <1>1, <1>2, <1>11 DEF FinishRound
<1>12. CASE Tick
  BY <1>1, <1>2, <1>12 DEF Tick
<1>13. CASE WebCheck
  BY <1>1, <1>2, <1>13 DEF WebCheck
<1>14. CASE Reload
  BY <1>1, <1>2, <1>14 DEF Reload
<1>15. CASE UNCHANGED vars
  BY <1>1, <1>15 DEF vars
<1> QED
  BY <1>3, <1>4, <1>5, <1>6, <1>7, <1>8, <1>9, <1>10, <1>11, <1>12, <1>13,
     <1>14, <1>15 DEF Next, Program, MainStep, MonitorStep

\* pglookout.py:495-518.  When a round in progress and the one requested fit into
\* missing_master_from_config_timeout, no answer to an earlier check is ahead of
\* a check's own: a failover decision rests on the answer to its own request
\* unless somebody else has asked.
THEOREM OnlyForeignAhead == Spec => []OnlyOthersGoAhead
<1>1. Init => QuickInv
  BY DEF Init, QuickInv, Outstanding
<1>2. TypeOK /\ RoundInv /\ (2 * Slowest <= MasterTimeout => QuickInv) /\ [Next]_vars
        => (2 * Slowest <= MasterTimeout => QuickInv)'
  BY QuickStep, SlowestStays, SilentStays
<1>3. (2 * Slowest <= MasterTimeout => QuickInv) => OnlyOthersGoAhead
  BY DEF QuickInv, OnlyOthersGoAhead
<1> QED
  BY <1>1, <1>2, <1>3, PileHolds, TypeCorrect, PTL DEF Spec
=============================================================================
