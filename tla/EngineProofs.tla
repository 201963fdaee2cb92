---------------------------- MODULE EngineProofs ----------------------------
(***************************************************************************)
(* What holds of the alerting engine for any rules, traces and times.      *)
(***************************************************************************)
EXTENDS Engine, TLAPS

\* What a sequence holds is of its type.
LEMMA SeqElement == ASSUME NEW S, NEW s \in Seq(S), NEW i \in DOMAIN s PROVE s[i] \in S
  OBVIOUS

\* The names, channels and order of the rules: all that the proofs use of them.
LEMMA RulesFacts ==
  /\ Rules \in Seq([name : Names, kind : {"error_rate_5m", "p99_ms"}, threshold : Nat,
                    channels : Seq({"slack", "pagerduty"}) \ {<< >>}])
  /\ DOMAIN Rules = 1 .. Len(Rules) /\ Len(Rules) \in Nat
  /\ \A i \in DOMAIN Rules :
       /\ Rules[i].name \in Names
       /\ Len(Rules[i].channels) \in Nat \ {0}
       /\ DOMAIN Rules[i].channels = 1 .. Len(Rules[i].channels)
  /\ Rules # << >> => 1 \in DOMAIN Rules
<1> DEFINE R == [name : Names, kind : {"error_rate_5m", "p99_ms"}, threshold : Nat,
                 channels : Seq({"slack", "pagerduty"}) \ {<< >>}]
<1>1. Rules \in Seq(R)
  BY EngineAssumption
<1>2. DOMAIN Rules = 1 .. Len(Rules) /\ Len(Rules) \in Nat
  BY <1>1
<1>3. ASSUME NEW i \in DOMAIN Rules
      PROVE  /\ Rules[i].name \in Names
             /\ Len(Rules[i].channels) \in Nat \ {0}
             /\ DOMAIN Rules[i].channels = 1 .. Len(Rules[i].channels)
  <2>1. Rules[i] \in R
    <3> HIDE DEF R
    <3> QED BY <1>1, SeqElement
  <2>2. Rules[i].channels \in Seq({"slack", "pagerduty"}) /\ Rules[i].channels # << >>
    BY <2>1
  <2> QED BY <2>1, <2>2
<1>4. Rules # << >> => 1 \in DOMAIN Rules
  BY <1>1, <1>2
<1> HIDE DEF R
<1> QED BY <1>1, <1>2, <1>3, <1>4 DEF R

\* The bounds on ages, in numbers.
LEMMA TimeFacts ==
  /\ Window \in Nat /\ Cooldown \in Nat \ {0} /\ MaxLate \in Nat /\ MaxLate < Cooldown
  /\ Oldest = Cooldown + MaxLate /\ Never = Oldest + 1 /\ Ages = 0 .. Never
  BY EngineAssumption DEF Oldest, Never, Ages

-----------------------------------------------------------------------------
\* The rule that is being sent has just fired, at the time of the evaluation.
SentHasFired == pc = "send" => fired[Rules[rule].name] = late

\* With what a step has to know, SnapshotCoversMessages is inductive.
IInv == TypeOK /\ SentHasFired /\ SnapshotCoversMessages

\* No name has fired when the engine is made.
LEMMA InitIInv == Init => IInv
<1> SUFFICES ASSUME Init PROVE IInv
  OBVIOUS
<1>1. Never \in Ages /\ 0 \in 0 .. MaxLate
  BY TimeFacts
<1>2. TypeOK
  BY <1>1 DEF Init, TypeOK
<1>3. SentHasFired /\ SnapshotCoversMessages
  BY DEF Init, SentHasFired, SnapshotCoversMessages
<1> QED BY <1>2, <1>3 DEF IInv

\* The loop goes to a rule of the list, or ends.
LEMMA NextRuleType ==
  ASSUME TypeOK, pc \in {"rules", "send"}, NextRule
  PROVE  /\ pc' \in {"rules", "wait"} /\ rule' \in Nat /\ channel' \in Nat
         /\ late' \in 0 .. MaxLate /\ holding' \subseteq DOMAIN Rules
         /\ pc' = "rules" => rule' \in DOMAIN Rules /\ channel' \in DOMAIN Rules[rule'].channels
         /\ pc' = "wait" => late' = 0 /\ rule' = 1 /\ channel' = 1
<1>1. CASE rule < Len(Rules)
  <2>1. rule + 1 \in DOMAIN Rules /\ rule' = rule + 1 /\ channel' = 1
    BY <1>1, RulesFacts DEF TypeOK, NextRule
  <2>2. 1 \in DOMAIN Rules[rule + 1].channels
    BY <2>1, RulesFacts
  <2> QED BY <1>1, <2>1, <2>2 DEF TypeOK, NextRule
<1>2. CASE ~ rule < Len(Rules)
  BY <1>2, TimeFacts DEF TypeOK, NextRule, Reset
<1> QED BY <1>1, <1>2

\* The loop over the channels of a rule stays in it, or goes on to the next rule.
LEMMA AfterSendType ==
  ASSUME TypeOK, pc = "send", AfterSend
  PROVE  /\ pc' \in {"rules", "wait", "send"} /\ rule' \in Nat /\ channel' \in Nat
         /\ late' \in 0 .. MaxLate /\ holding' \subseteq DOMAIN Rules
         /\ pc' \in {"rules", "send"} => rule' \in DOMAIN Rules /\ channel' \in DOMAIN Rules[rule'].channels
         /\ pc' = "send" => rule' = rule /\ late' = late
         /\ pc' = "wait" => late' = 0 /\ rule' = 1 /\ channel' = 1
<1>1. CASE channel < Len(Rules[rule].channels)
  <2>1. channel + 1 \in DOMAIN Rules[rule].channels
    BY <1>1, RulesFacts DEF TypeOK
  <2> QED BY <1>1, <2>1 DEF TypeOK, AfterSend
<1>2. CASE ~ channel < Len(Rules[rule].channels)
  BY <1>2, NextRuleType DEF AfterSend
<1> QED BY <1>1, <1>2

\* Every line of the engine, and all around it, keeps the invariant.
LEMMA NextIInv == IInv /\ [Next]_vars => IInv'
<1> SUFFICES ASSUME IInv, [Next]_vars PROVE IInv'
  OBVIOUS
<1> USE DEF IInv, SentHasFired, SnapshotCoversMessages
<1>1. CASE Query
  <2>1. Rules # << >> => 1 \in DOMAIN Rules[1].channels
    BY RulesFacts
  <2> QED BY <1>1, <2>1, RulesFacts DEF Query, TypeOK
<1>2. CASE QueryFails
  BY <1>2 DEF QueryFails, TypeOK, evaluation
<1>3. CASE Fire
  <2>1. fired' = [fired EXCEPT ![Rules[rule].name] = late] /\ late \in Ages
    BY <1>3, TimeFacts DEF Fire, SetLastFired, TypeOK
  <2>2. TypeOK'
    BY <1>3, <2>1 DEF Fire, TypeOK
  <2>3. Rules[rule].name \in Names /\ fired'[Rules[rule].name] = late
    BY <1>3, <2>1, RulesFacts DEF Fire, TypeOK
  <2>4. SnapshotCoversMessages'
    <3> SUFFICES ASSUME NEW n \in Names, told[n] # Never
                 PROVE  fired'[n] # Never /\ fired'[n] <= told[n] + MaxLate
      BY <1>3 DEF Fire
    <3>1. CASE n = Rules[rule].name
      BY <3>1, <2>3, TimeFacts DEF TypeOK
    <3>2. CASE n # Rules[rule].name
      BY <3>2, <2>1 DEF TypeOK
    <3> QED BY <3>1, <3>2
  <2> QED BY <1>3, <2>2, <2>3, <2>4 DEF Fire
<1>4. CASE Skip
  <2>1. pc \in {"rules", "send"} /\ NextRule
    BY <1>4 DEF Skip
  <2> QED BY <1>4, <2>1, NextRuleType DEF Skip, TypeOK
<1>5. CASE Send
  <2>1. AfterSend /\ pc = "send" /\ Rules[rule].name \in Names
    BY <1>5, RulesFacts DEF Send, TypeOK
  <2>2. TypeOK'
    BY <1>5, <2>1, AfterSendType, TimeFacts DEF Send, TypeOK
  <2>3. SnapshotCoversMessages'
    <3> SUFFICES ASSUME NEW n \in Names, told'[n] # Never
                 PROVE  fired[n] # Never /\ fired[n] <= told'[n] + MaxLate
      BY <1>5 DEF Send
    <3>1. CASE n = Rules[rule].name
      BY <3>1, <2>1, <1>5, TimeFacts DEF Send, TypeOK
    <3>2. CASE n # Rules[rule].name
      BY <3>2, <1>5 DEF Send, TypeOK
    <3> QED BY <3>1, <3>2
  <2> QED BY <1>5, <2>1, <2>2, <2>3, AfterSendType DEF Send
<1>6. CASE SendFails
  <2>1. AfterSend /\ pc = "send"
    BY <1>6 DEF SendFails
  <2> QED BY <1>6, <2>1, AfterSendType DEF SendFails, TypeOK
<1>7. CASE Return
  BY <1>7 DEF Return, TypeOK
<1>8. CASE \E t \in Traces : Call(t)
  <2>1. store' \in [Traces -> SUBSET (0 .. Window)]
    BY <1>8, TimeFacts DEF Call, TypeOK
  <2> QED BY <1>8, <2>1 DEF Call, TypeOK, evaluation
<1>9. CASE Tick
  <2>1. store' \in [Traces -> SUBSET (0 .. Window)]
    BY <1>9, TimeFacts DEF Tick, TypeOK
  <2>2. \A n \in Names : fired'[n] = Older(fired[n]) /\ told'[n] = Older(told[n])
    BY <1>9 DEF Tick
  <2>3. late' \in 0 .. MaxLate /\ (pc = "send" => late' = late + 1 /\ late < MaxLate)
    BY <1>9, TimeFacts DEF Tick, TypeOK
  <2>4. TypeOK'
    BY <1>9, <2>1, <2>3, TimeFacts DEF Tick, TypeOK, Older
  <2>5. SentHasFired'
    <3> SUFFICES ASSUME pc = "send" PROVE fired'[Rules[rule].name] = late'
      BY <1>9 DEF Tick
    <3>1. Rules[rule].name \in Names
      BY RulesFacts DEF TypeOK
    <3>2. fired'[Rules[rule].name] = Older(late)
      BY <2>2, <3>1
    <3> QED BY <2>3, <3>2, TimeFacts DEF Older, TypeOK
  <2>6. SnapshotCoversMessages'
    BY <2>2, TimeFacts DEF TypeOK, Older
  <2> QED BY <2>4, <2>5, <2>6
<1>10. CASE Cancel
  BY <1>10 DEF Cancel, TypeOK, evaluation
<1>11. CASE UNCHANGED vars
  BY <1>11 DEF vars, TypeOK, evaluation
<1> QED BY <1>1, <1>2, <1>3, <1>4, <1>5, <1>6, <1>7, <1>8, <1>9, <1>10, <1>11 DEF Next, Step

\* What dispatch sends has fired at the time of its evaluation, always.
THEOREM InductiveInvariant == Spec => []IInv
  BY InitIInv, NextIInv, PTL DEF Spec

\* Every variable has its type; the loops over rules and channels stay in
\* their lists.
THEOREM EngineTypes == Spec => []TypeOK
  BY InductiveInvariant, PTL DEF IInv

\* Whoever got a message finds a firing of that name in Snapshot, at most the
\* time of an evaluation older than the message.
THEOREM SnapshotIsHonest == Spec => []SnapshotCoversMessages
  BY InductiveInvariant, PTL DEF IInv

-----------------------------------------------------------------------------
\* The step behind MessagesApart: only Fire goes from the rules to a message,
\* and the message before is at least as old as the firing it came from.
LEMMA FiringIsLate ==
  ASSUME IInv, [Next]_vars, pc = "rules", pc' = "send"
  PROVE  told[Rules[rule].name] >= Cooldown - MaxLate
<1>1. Fire
  BY DEF Next, Step, Query, QueryFails, Skip, NextRule, Send, SendFails, Return, Call, Tick,
         Cancel, vars, evaluation
<1>2. Rules[rule].name \in Names
  BY <1>1, RulesFacts DEF Fire, IInv, TypeOK
<1> QED BY <1>1, <1>2, TimeFacts DEF Fire, ShouldFire, IInv, TypeOK, SnapshotCoversMessages

\* A name fires only when the last message about it is older than the cooldown
\* less the time an evaluation takes, for any rules, some of one name, and any times.
THEOREM CooldownIsKept == Spec => MessagesApart
<1>1. IInv /\ [Next]_vars => [pc = "rules" /\ pc' = "send" => told[Rules[rule].name] >= Cooldown - MaxLate]_vars
  BY FiringIsLate
<1> QED BY <1>1, InductiveInvariant, PTL DEF Spec, MessagesApart
=============================================================================
