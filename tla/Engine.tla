------------------------------- MODULE Engine -------------------------------
(***************************************************************************)
(* The alerting engine of the alerts file (internal/alerting).  One        *)
(* goroutine evaluates all rules when it starts and at every tick of a     *)
(* ticker, over the traces of the last five minutes, and sends a message   *)
(* for each rule whose condition holds, unless its name has fired less     *)
(* than fifteen minutes ago.  Time is told by ages, in ticks, which stop   *)
(* counting where the code no longer tells them apart.                     *)
(***************************************************************************)
EXTENDS Integers, Sequences, FiniteSets, FiniteSetsExt

CONSTANTS
  Rules,     \* the rules in their order: [name, kind, threshold, channels]
  Traces,    \* what a trace can be: [err, ms]
  Window,    \* five minutes
  Cooldown,  \* fifteen minutes
  MaxLate    \* bound on the ticks one evaluation takes (each send at most 5 s)

Names == {Rules[i].name : i \in DOMAIN Rules}

ASSUME EngineAssumption ==
  /\ Rules \in Seq([name : Names, kind : {"error_rate_5m", "p99_ms"}, threshold : Nat,
                    channels : Seq({"slack", "pagerduty"}) \ {<< >>}])
  /\ IsFiniteSet(Traces) /\ Traces \subseteq [err : BOOLEAN, ms : Nat]
  /\ Window \in Nat /\ Cooldown \in Nat \ {0} /\ MaxLate \in 0 .. Cooldown - 1

VARIABLES
  store,      \* the ages of the traces of each kind
  due,        \* the ticker's channel holds a tick
  pc,         \* where the goroutine is
  late,       \* the age of "now" in evaluateOnce
  holding,    \* the rules whose condition held
  rule,       \* the rule it is at
  channel,    \* the channel of that rule it sends to next
  fired,      \* lastFired, as an age
  told,       \* the age of the last message about a name that was accepted
  cancelled   \* the context is cancelled

evaluation == <<pc, late, holding, rule, channel>>
vars == <<store, due, evaluation, fired, told, cancelled>>

\* Ages count up to Oldest, which is old enough to fire again.
Oldest == Cooldown + MaxLate
Never  == Oldest + 1
Ages   == 0 .. Never

Older(age) == IF age < Oldest THEN age + 1 ELSE age

-----------------------------------------------------------------------------
(* EvaluateCondition, over the traces of the window. *)

InWindow == {x \in Traces \X (0 .. Window) : x[2] \in store[x[1]]}

\* Thresholds of rates are given in percent.
RateAbove(S, threshold) ==
  Cardinality({x \in S : x[1].err}) * 100 > threshold * Cardinality(S)

\* percentile(values, 0.99).
P99(S) ==
  LET index == - ((- 99 * Cardinality(S)) \div 100)
  IN  Min({x[1].ms : x \in {y \in S : Cardinality({z \in S : z[1].ms <= y[1].ms}) >= index}})

Holds(i) ==
  /\ InWindow # {}
  /\ IF Rules[i].kind = "error_rate_5m" THEN RateAbove(InWindow, Rules[i].threshold)
     ELSE P99(InWindow) > Rules[i].threshold

-----------------------------------------------------------------------------
Init ==
  /\ store = [t \in Traces |-> {}]
  /\ due = TRUE   \* evaluateOnce before the loop
  /\ pc = "wait" /\ late = 0 /\ holding = {} /\ rule = 1 /\ channel = 1
  /\ fired = [n \in Names |-> Never]
  /\ told = [n \in Names |-> Never]
  /\ cancelled = FALSE

Reset == late' = 0 /\ holding' = {} /\ rule' = 1 /\ channel' = 1

\* evaluateOnce: now is read and the traces are queried ...
Query ==
  /\ pc = "wait" /\ due /\ ~cancelled
  /\ due' = FALSE
  /\ pc' = IF Rules = << >> THEN "wait" ELSE "rules"
  /\ holding' = {i \in DOMAIN Rules : Holds(i)}
  /\ UNCHANGED <<store, late, rule, channel, fired, told, cancelled>>

\* ... or the query fails, and nothing happens until the next tick.
QueryFails ==
  /\ pc = "wait" /\ due
  /\ due' = FALSE
  /\ UNCHANGED <<store, evaluation, fired, told, cancelled>>

\* Faulty variant of ShouldFire: a name fires once.
ShouldFireOnce(n) == fired[n] = Never

\* now.Sub(last) >= 15*time.Minute.
ShouldFire(n) == fired[n] = Never \/ fired[n] - late >= Cooldown

\* Faulty variant of SetLastFired: only the first firing is noted.
SetFirstFired(n) == [fired EXCEPT ![n] = IF @ = Never THEN late ELSE @]

\* setLastFired with the time of the evaluation.
SetLastFired(n) == [fired EXCEPT ![n] = late]

\* The loop over the rules.
NextRule ==
  IF rule < Len(Rules) THEN pc' = "rules" /\ rule' = rule + 1 /\ channel' = 1 /\ UNCHANGED <<late, holding>>
  ELSE pc' = "wait" /\ Reset

Fire ==
  /\ pc = "rules" /\ rule \in holding /\ ShouldFire(Rules[rule].name)
  /\ fired' = SetLastFired(Rules[rule].name)
  /\ pc' = "send"
  /\ UNCHANGED <<store, due, late, holding, rule, channel, told, cancelled>>

Skip ==
  /\ pc = "rules" /\ ~ (rule \in holding /\ ShouldFire(Rules[rule].name))
  /\ NextRule
  /\ UNCHANGED <<store, due, fired, told, cancelled>>

AfterSend ==
  IF channel < Len(Rules[rule].channels)
  THEN channel' = channel + 1 /\ UNCHANGED <<pc, late, holding, rule>>
  ELSE NextRule

\* dispatch: each channel gets one message; an error is only logged.
Send ==
  /\ pc = "send" /\ ~cancelled
  /\ told' = [told EXCEPT ![Rules[rule].name] = 0]
  /\ AfterSend
  /\ UNCHANGED <<store, due, fired, cancelled>>

SendFails ==
  /\ pc = "send"
  /\ AfterSend
  /\ UNCHANGED <<store, due, fired, told, cancelled>>

\* Run returns.
Return ==
  /\ pc = "wait" /\ cancelled
  /\ pc' = "returned"
  /\ UNCHANGED <<store, due, late, holding, rule, channel, fired, told, cancelled>>

Step == Query \/ QueryFails \/ Fire \/ Skip \/ Send \/ SendFails

-----------------------------------------------------------------------------
\* A trace is stored, at most one of a kind in a tick.
Call(t) ==
  /\ 0 \notin store[t]
  /\ store' = [store EXCEPT ![t] = @ \cup {0}]
  /\ UNCHANGED <<due, evaluation, fired, told, cancelled>>

\* A minute passes; the ticker drops a tick that finds its channel full.
Tick ==
  /\ pc \in {"rules", "send"} => late < MaxLate
  /\ late' = IF pc \in {"rules", "send"} THEN late + 1 ELSE late
  /\ store' = [t \in Traces |-> {age + 1 : age \in store[t] \ {Window}}]
  /\ fired' = [n \in Names |-> Older(fired[n])]
  /\ told' = [n \in Names |-> Older(told[n])]
  /\ due' = TRUE
  /\ UNCHANGED <<pc, holding, rule, channel, cancelled>>

Cancel ==
  /\ ~cancelled
  /\ cancelled' = TRUE
  /\ UNCHANGED <<store, due, evaluation, fired, told>>

Next == Step \/ Return \/ (\E t \in Traces : Call(t)) \/ Tick \/ Cancel

Spec == Init /\ [][Next]_vars

\* The goroutine runs and time passes.
FairSpec == Spec /\ WF_vars(Step) /\ WF_vars(Return) /\ WF_vars(Tick)
-----------------------------------------------------------------------------
\* Every variable has its type.
TypeOK ==
  /\ store \in [Traces -> SUBSET (0 .. Window)]
  /\ rule \in Nat /\ channel \in Nat
  /\ due \in BOOLEAN /\ cancelled \in BOOLEAN
  /\ pc \in {"wait", "rules", "send", "returned"}
  /\ late \in 0 .. MaxLate
  /\ holding \subseteq DOMAIN Rules
  /\ pc \in {"rules", "send"} =>
       rule \in DOMAIN Rules /\ channel \in DOMAIN Rules[rule].channels
  /\ pc \in {"wait", "returned"} => late = 0 /\ rule = 1 /\ channel = 1
  /\ fired \in [Names -> Ages] /\ told \in [Names -> Ages]

\* However slow the messages before were, a name fires only when the last
\* message about it, to any channel and of any rule of that name, is older
\* than the cooldown less the time an evaluation takes.
MessagesApart ==
  [][pc = "rules" /\ pc' = "send" => told[Rules[rule].name] >= Cooldown - MaxLate]_vars

\* Snapshot: whoever got a message finds a firing of that name, at most
\* the time of an evaluation older than the message.
SnapshotCoversMessages ==
  \A n \in Names : told[n] # Never =>
    fired[n] # Never /\ fired[n] <= told[n] + MaxLate

\* The rules before a rule do not have its name.
Unshadowed(i) == \A j \in 1 .. i - 1 : Rules[j].name # Rules[i].name

\* A rule whose condition lasts is told again and again, when queries and
\* messages no longer fail, no rule before it has its name, and the engine is not
\* cancelled: a failed message only costs a cooldown.
LastingIsTold ==
  \A i \in DOMAIN Rules :
    Unshadowed(i) /\ <>[](Holds(i) /\ ~cancelled) /\ <>[][~QueryFails /\ ~SendFails]_vars =>
      []<>(told[Rules[i].name] = 0)
=============================================================================
