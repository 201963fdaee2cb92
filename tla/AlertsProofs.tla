---------------------------- MODULE AlertsProofs ----------------------------
(***************************************************************************)
(* Theorems about the evaluations of the alert rules (Alerts), for every   *)
(* number of traces, rules, targets and attempts.  Evaluations that        *)
(* overlap may record changes twice or in the wrong order; the theorems    *)
(* say what holds of one that overlaps with no other, and of every event.  *)
(***************************************************************************)
EXTENDS Alerts, FiniteSetTheorems, SequenceTheorems, TLAPS

-----------------------------------------------------------------------------
\* The lines on which a goroutine compares what it found with the events.
Comparing == {"compare", "deliver", "record"}

\* Every variable has its type.
Types ==
  /\ clock \in Nat
  /\ rules \in [Rules -> {"absent", "off", "on"}]
  /\ edits \in 0 .. MaxEdits
  /\ created \in Seq(Nat) /\ Len(created) <= Len(TraceOf)
  /\ \A i \in DOMAIN created : created[i] < clock
  /\ pc \in [Evals -> Lines]
  /\ at \in [Evals -> Nat]
  /\ left \in [Evals -> SUBSET Rules]
  /\ found \in [Evals -> UNION {[S -> Statuses] : S \in SUBSET Rules}]
  /\ current \in [Evals -> Rules \cup {NoRule}]
  /\ prior \in [Evals -> Statuses \cup {NoStatus}]
  /\ attempt \in [Evals -> [target : 1 .. Len(Targets) + 1, number : 1 .. Attempts, outcome : Outcomes]]
  /\ events \subseteq [by : Evals, rule : Rules, at : Nat, status : Statuses,
                       previous : Statuses \cup {NoStatus}, delivery : Outcomes, target : Nat]
  /\ told \subseteq [by : Evals, rule : Rules, status : Statuses, target : Nat]
  /\ mates \in [Evals -> SUBSET Evals]

\* Where a goroutine is says what it has: no two evaluations have one time,
\* and the rules that are left while it compares are among those it found.
LineAt(e) ==
  /\ pc[e] \in {"new", "list", "stamp"} => at[e] = 0
  /\ pc[e] \in {"list", "stamp"} => clock > 0
  /\ pc[e] \notin {"new", "list", "stamp", "broken"} => at[e] > 0
  /\ at[e] > 0 => at[e] < clock
  /\ pc[e] = "stamp" /\ left[e] \subseteq DOMAIN found[e] => left[e] = DOMAIN found[e]
  /\ pc[e] \in Comparing => left[e] \subseteq DOMAIN found[e]
  /\ pc[e] \in {"deliver", "record"} => current[e] \in DOMAIN found[e] \ left[e]
  /\ pc[e] \notin {"deliver", "record"} => current[e] = NoRule
  /\ pc[e] \in {"done", "broken"} => left[e] = {}

LineInv ==
  \A e \in Evals : LineAt(e) /\ \A x \in Evals \ {e} : at[e] > 0 => at[x] # at[e]

\* A goroutine that has compared a rule.
Settled(e, r) ==
  /\ pc[e] \in Comparing \cup {"done", "broken"} /\ at[e] > 0
  /\ r \in DOMAIN found[e] \ left[e]

\* What was told or recorded of a rule was found by an evaluation that has
\* compared the rule.
ToldInv ==
  /\ \A n \in told : Settled(n.by, n.rule) /\ n.status = found[n.by][n.rule]
  /\ \A ev \in events :
       /\ Settled(ev.by, ev.rule) /\ current[ev.by] # ev.rule
       /\ ev.status = found[ev.by][ev.rule] /\ ev.at = at[ev.by]

\* Two evaluations know of each other, and an evaluation knows those that
\* began earlier and have not ended.
MatesInv ==
  \A e \in Evals :
    /\ at[e] = 0 => mates[e] = {}
    /\ \A x \in Evals \ {e} :
         /\ x \in mates[e] <=> e \in mates[x]
         /\ 0 < at[x] /\ at[x] < at[e] /\ x \in Active => x \in mates[e]

\* Events of a rule have a latest one.
LatestInv == \A ev \in events : Latest(ev.rule) # {}

Notes(e, r) == {n \in told : n.by = e /\ n.rule = r}

Honest(delivery, target, notes) ==
  IF delivery = "sent" THEN {n.target : n \in notes} = {target} ELSE notes = {}

\* An evaluation has told nothing of a rule before it delivers, and afterwards
\* it knows what it has told.
DeliveryAt(e) ==
  /\ pc[e] = "deliver" => Notes(e, current[e]) = {} /\ attempt[e].outcome = "open"
  /\ pc[e] = "record" => Honest(attempt[e].outcome, attempt[e].target, Notes(e, current[e]))

DeliveryInv ==
  /\ \A e \in Evals : DeliveryAt(e)
  /\ \A ev \in events : Honest(ev.delivery, ev.target, Notes(ev.by, ev.rule))

\* The status is that of the last event of the rule before the time, if there
\* is one.
Follows(status, r, time) ==
  \/ status = NoStatus /\ \A ev \in events : ev.rule = r => ~ (ev.at < time)
  \/ \E last \in events :
       /\ last.rule = r /\ last.at < time /\ last.status = status
       /\ \A ev \in events : ev.rule = r /\ ev.at < time => ev.at <= last.at

\* An evaluation that is alone knows the last event before it as long as it
\* tells and records a change.
ChainAt(e) ==
  pc[e] \in {"deliver", "record"} /\ mates[e] = {} =>
    prior[e] # found[e][current[e]] /\ Follows(prior[e], current[e], at[e])

ChainInv ==
  /\ \A e \in Evals : ChainAt(e)
  /\ \A ev \in events : mates[ev.by] = {} =>
       ev.previous # ev.status /\ Follows(ev.previous, ev.rule, ev.at)

\* The last evaluation, when it is alone, has seen or made the latest event of
\* each rule it has compared.
CatchUpAt(e) ==
  pc[e] \in Comparing \cup {"done"} /\ mates[e] = {} /\ (\A x \in Evals \ {e} : at[x] < at[e]) =>
    \A r \in DOMAIN found[e] \ (left[e] \cup {current[e]}) :
      \E ev \in Latest(r) : ev.status = found[e][r]

CatchUpInv == \A e \in Evals : CatchUpAt(e)

-----------------------------------------------------------------------------
(* Types. *)

\* A query gives a rule one of the statuses.
LEMMA StatusIsKnown ==
  ASSUME NEW rule, NEW now
  PROVE  StatusOf(rule, now) \in Statuses
BY DEF StatusOf, Judge, Statuses

\* Targets are numbered, and each attempt has its number.
LEMMA AttemptTypes ==
  ASSUME AlertAssumption
  PROVE  LET AttemptType == [target : 1 .. Len(Targets) + 1, number : 1 .. Attempts, outcome : Outcomes]
         IN  /\ First \in AttemptType
             /\ [First EXCEPT !.outcome = "skipped"] \in AttemptType
             /\ \A a \in AttemptType :
                  /\ [a EXCEPT !.outcome = "sent"] \in AttemptType
                  /\ AfterFailure(a) \in AttemptType
                  /\ a.outcome = "open" => AfterFailure(a).outcome \in {"open", "failed"}
<1> USE DEF Outcomes
<1>1. Attempts \in Nat \ {0} /\ Len(Targets) \in Nat
  <2>1. \A T : Targets \in Seq(T) => Len(Targets) \in Nat
    OBVIOUS
  <2> QED
    BY <2>1 DEF AlertAssumption
<1> DEFINE AttemptType == [target : 1 .. Len(Targets) + 1, number : 1 .. Attempts, outcome : Outcomes]
<1>2. First \in AttemptType /\ [First EXCEPT !.outcome = "skipped"] \in AttemptType
  BY <1>1 DEF First
<1>3. ASSUME NEW a \in AttemptType
      PROVE  /\ [a EXCEPT !.outcome = "sent"] \in AttemptType
             /\ AfterFailure(a) \in AttemptType
             /\ a.outcome = "open" => AfterFailure(a).outcome \in {"open", "failed"}
  <2>1. [a EXCEPT !.outcome = "sent"] \in AttemptType
    OBVIOUS
  <2>2. CASE a.number < Attempts
    <3>1. AfterFailure(a) = [a EXCEPT !.number = a.number + 1]
      BY <2>2 DEF AfterFailure
    <3>2. a.number \in Nat /\ a.number + 1 \in 1 .. Attempts
      BY <1>1, <2>2
    <3> QED
      BY <3>1, <3>2
  <2>3. CASE ~ (a.number < Attempts) /\ a.number = Attempts /\ Targets[a.target] = "webhook" /\ a.target < Len(Targets)
    <3>1. AfterFailure(a) = [First EXCEPT !.target = a.target + 1]
      BY <2>3 DEF AfterFailure
    <3>2. AfterFailure(a) = [target |-> a.target + 1, number |-> 1, outcome |-> "open"]
      BY <3>1 DEF First
    <3>3. a.target + 1 \in 1 .. Len(Targets) + 1 /\ 1 \in 1 .. Attempts
      BY <1>1, <2>3
    <3>4. AfterFailure(a) \in AttemptType
      BY <3>2, <3>3, "open" \in Outcomes, SMT DEF Outcomes
    <3> QED
      BY <2>1, <3>2, <3>4
  <2>4. CASE ~ (a.number < Attempts) /\ ~ (a.number = Attempts /\ Targets[a.target] = "webhook" /\ a.target < Len(Targets))
    <3>1. AfterFailure(a) = [a EXCEPT !.outcome = "failed"]
      BY <2>4 DEF AfterFailure
    <3> QED
      BY <3>1
  <2> QED
    BY <2>1, <2>2, <2>3, <2>4
<1> QED
  BY <1>2, <1>3

\* The types hold before anything has happened.
LEMMA InitTypes ==
  ASSUME AlertAssumption, Init
  PROVE  Types
<1>1. <<>> \in [{} -> Statuses] /\ {} \in SUBSET Rules
  OBVIOUS
<1>2. <<>> \in UNION {[S -> Statuses] : S \in SUBSET Rules}
  BY <1>1
<1>3. created \in Seq(Nat) /\ Len(created) = 0 /\ DOMAIN created = {} /\ Len(TraceOf) \in Nat
  BY DEF Init, AlertAssumption
<1>4. MaxEdits \in Nat
  BY DEF AlertAssumption
<1>5. attempt \in [Evals -> [target : 1 .. Len(Targets) + 1, number : 1 .. Attempts, outcome : Outcomes]]
  BY AttemptTypes DEF Init
<1>6. /\ rules \in [Rules -> {"absent", "off", "on"}] /\ pc \in [Evals -> Lines]
      /\ current \in [Evals -> Rules \cup {NoRule}] /\ prior \in [Evals -> Statuses \cup {NoStatus}]
  BY DEF Init, Lines
<1>7. found \in [Evals -> UNION {[S -> Statuses] : S \in SUBSET Rules}]
  BY <1>2 DEF Init
<1>8. /\ clock \in Nat /\ edits \in 0 .. MaxEdits /\ at \in [Evals -> Nat]
      /\ left \in [Evals -> SUBSET Rules] /\ mates \in [Evals -> SUBSET Evals]
      /\ events = {} /\ told = {}
  BY <1>4 DEF Init
<1> QED
  BY <1>3, <1>5, <1>6, <1>7, <1>8 DEF Types

\* A query adds its status to what a goroutine has found.
LEMMA FoundTypes ==
  ASSUME Types, NEW e \in Evals, Query(e)
  PROVE  /\ found' \in [Evals -> UNION {[S -> Statuses] : S \in SUBSET Rules}]
         /\ \A x \in Evals : x # e => found'[x] = found[x]
         /\ DOMAIN found'[e] \subseteq Rules
<1>1. PICK r \in left[e] :
        found' = [found EXCEPT ![e] = [x \in DOMAIN @ \cup {r} |->
                    IF x = r THEN StatusOf(RuleOf[r], at[e]) ELSE @[x]]]
  BY DEF Query
<1>2. r \in Rules
  BY DEF Types
<1>3. PICK S \in SUBSET Rules : found[e] \in [S -> Statuses]
  BY DEF Types
<1>4. /\ [x \in S \cup {r} |-> IF x = r THEN StatusOf(RuleOf[r], at[e]) ELSE found[e][x]]
           \in [S \cup {r} -> Statuses]
      /\ S \cup {r} \in SUBSET Rules
  BY <1>2, <1>3, StatusIsKnown
<1>5. found' = [found EXCEPT ![e] =
                 [x \in S \cup {r} |-> IF x = r THEN StatusOf(RuleOf[r], at[e]) ELSE found[e][x]]]
  BY <1>1, <1>3 DEF Types
<1>6. found \in [Evals -> UNION {[T -> Statuses] : T \in SUBSET Rules}]
  BY DEF Types
<1> HIDE DEF Query
<1> QED
  BY <1>4, <1>5, <1>6

\* The status that is told and recorded is one that was found.
LEMMA NoteTypes ==
  ASSUME Types, LineInv, NEW e \in Evals, pc[e] \in {"deliver", "record"}
  PROVE  /\ current[e] \in Rules /\ found[e][current[e]] \in Statuses
         /\ attempt[e].target \in Nat
<1>1. current[e] \in DOMAIN found[e]
  BY DEF LineInv, LineAt
<1>2. PICK S \in SUBSET Rules : found[e] \in [S -> Statuses]
  BY DEF Types
<1>3. attempt[e].target \in 1 .. Len(Targets) + 1
  BY DEF Types
<1> QED
  BY <1>1, <1>2, <1>3

\* The times of the traces in the table.
LEMMA TimesAreNumbers ==
  ASSUME Types
  PROVE  Len(created) \in Nat /\ \A i \in DOMAIN created : created[i] \in Nat
<1>1. \A S, q : q \in Seq(S) => Len(q) \in Nat /\ \A i \in DOMAIN q : q[i] \in S
  OBVIOUS
<1> QED
  BY <1>1 DEF Types

\* One case for every step.
LEMMA TypesStep ==
  ASSUME AlertAssumption, Types, LineInv, [Next]_vars
  PROVE  Types'
<1> DEFINE AttemptType == [target : 1 .. Len(Targets) + 1, number : 1 .. Attempts, outcome : Outcomes]
           FoundType   == UNION {[S -> Statuses] : S \in SUBSET Rules}
<1> USE DEF Goto
<1>1. CASE UNCHANGED vars
  BY <1>1 DEF vars, evaluation, Types
<1>2. ASSUME NEW e \in Evals, InsertTrace(e)
      PROVE  Types'
  <2>1. created' = Append(created, clock) /\ clock' = clock + 1 /\ e = Len(created) + 1
    BY <1>2 DEF InsertTrace
  <2>2. e \in 1 .. Len(TraceOf) /\ Len(TraceOf) \in Nat
    <3>1. \A T : TraceOf \in Seq(T) => DOMAIN TraceOf = 1 .. Len(TraceOf) /\ Len(TraceOf) \in Nat
      OBVIOUS
    <3> QED
      BY <3>1 DEF Evals, AlertAssumption
  <2>3. /\ created' \in Seq(Nat) /\ Len(created') = Len(created) + 1
        /\ \A i \in DOMAIN created' : created'[i] = IF i \in DOMAIN created THEN created[i] ELSE clock
    <3>1. created \in Seq(Nat) /\ clock \in Nat
      BY DEF Types
    <3> QED
      BY <2>1, <3>1
  <2>4. /\ clock' \in Nat /\ created' \in Seq(Nat) /\ Len(created') <= Len(TraceOf)
        /\ \A i \in DOMAIN created' : created'[i] < clock'
    <3>1. clock \in Nat /\ Len(created) \in Nat /\ \A i \in DOMAIN created : created[i] < clock /\ created[i] \in Nat
      BY TimesAreNumbers DEF Types
    <3>2. \A i \in DOMAIN created' : created'[i] < clock'
      BY <2>1, <2>3, <3>1
    <3> QED
      BY <2>1, <2>2, <2>3, <3>1, <3>2
  <2>5. pc' \in [Evals -> Lines]
    BY <1>2 DEF InsertTrace, Types, Lines
  <2> QED
    BY <1>2, <2>4, <2>5 DEF InsertTrace, Types, evaluation
<1>3. ASSUME NEW e \in Evals, List(e)
      PROVE  Types'
  <2> DEFINE off == {r \in Rules : rules[r] = "off"}
             on  == {r \in Rules : rules[r] = "on"}
  <2>1. [r \in off |-> "disabled"] \in FoundType
    <3>1. [r \in off |-> "disabled"] \in [off -> Statuses] /\ off \in SUBSET Rules
      BY DEF Statuses
    <3> QED
      BY <3>1
  <2>2. found' \in [Evals -> FoundType]
    <3>1. found \in [Evals -> FoundType] /\ found' = [found EXCEPT ![e] = [r \in off |-> "disabled"]]
      BY <1>3 DEF List, Types
    <3> HIDE DEF FoundType
    <3> QED
      BY <2>1, <3>1
  <2>3. left' \in [Evals -> SUBSET Rules]
    <3>1. left' = [left EXCEPT ![e] = IF on = {} THEN off ELSE on]
      BY <1>3 DEF List
    <3> QED
      BY <3>1 DEF Types
  <2>4. pc' \in [Evals -> Lines]
    BY <1>3 DEF List, Types, Lines
  <2> HIDE DEF FoundType
  <2> QED
    BY <1>3, <2>2, <2>3, <2>4 DEF List, Types, FoundType
<1>11. ASSUME NEW e \in Evals, Stamp(e)
       PROVE  Types'
  <2>4. at' \in [Evals -> Nat] /\ clock' \in Nat /\ clock' = clock + 1
    BY <1>11 DEF Stamp, Types
  <2>5. pc' \in [Evals -> Lines]
    BY <1>11 DEF Stamp, Types, Lines, Compared
  <2>6. mates' \in [Evals -> SUBSET Evals]
    <3>1. \A x \in Evals : mates[x] \subseteq Evals /\ mates'[x] \in {Active, mates[x] \cup {e}, mates[x]}
      BY <1>11 DEF Stamp, Types
    <3>2. Active \subseteq Evals
      BY DEF Active
    <3>3. mates' = [x \in Evals |-> mates'[x]]
      BY <1>11 DEF Stamp
    <3> QED
      BY <3>1, <3>2, <3>3
  <2>7. \A i \in DOMAIN created : created[i] < clock'
    <3>1. clock \in Nat /\ \A i \in DOMAIN created : created[i] < clock
      BY DEF Types
    <3>2. ASSUME NEW i \in DOMAIN created PROVE created[i] < clock'
      <4>1. created[i] \in Nat
        BY TimesAreNumbers
      <4> QED
        BY <2>4, <3>1, <4>1
    <3> QED
      BY <3>2
  <2> QED
    BY <1>11, <2>4, <2>5, <2>6, <2>7 DEF Stamp, Types, evaluation
<1>4. ASSUME NEW e \in Evals, Query(e)
      PROVE  Types'
  <2>1. left' \in [Evals -> SUBSET Rules]
    <3>1. PICK r \in left[e] :
            left' = [left EXCEPT ![e] = IF left[e] \ {r} = {} THEN DOMAIN found'[e] ELSE left[e] \ {r}]
      BY <1>4 DEF Query
    <3>2. DOMAIN found'[e] \subseteq Rules
      BY <1>4, FoundTypes
    <3>3. left[e] \ {r} \subseteq Rules
      BY DEF Types
    <3> QED
      BY <3>1, <3>2, <3>3 DEF Types
  <2>2. pc' \in [Evals -> Lines]
    BY <1>4 DEF Query, Types, Lines
  <2> QED
    BY <1>4, <2>1, <2>2, FoundTypes DEF Query, Types
<1>5. ASSUME NEW e \in Evals, Compare(e)
      PROVE  Types'
  <2>1. attempt' \in [Evals -> AttemptType]
    <3>1. attempt \in [Evals -> AttemptType]
      BY DEF Types
    <3>2. \E a \in {First, [First EXCEPT !.outcome = "skipped"]} : attempt' = [attempt EXCEPT ![e] = a]
      BY <1>5 DEF Compare
    <3>3. First \in AttemptType /\ [First EXCEPT !.outcome = "skipped"] \in AttemptType
      BY AttemptTypes
    <3> HIDE DEF AttemptType
    <3> QED
      BY <3>1, <3>2, <3>3
  <2>2. /\ left' \in [Evals -> SUBSET Rules] /\ current' \in [Evals -> Rules \cup {NoRule}]
        /\ pc' \in [Evals -> Lines]
    <3>1. PICK r \in left[e] :
            /\ left' = [left EXCEPT ![e] = @ \ {r}]
            /\ current' = current \/ current' = [current EXCEPT ![e] = r]
      BY <1>5 DEF Compare
    <3>2. r \in Rules
      BY DEF Types
    <3>3. \E line \in {"compare", "deliver", "record", "done"} : pc' = [pc EXCEPT ![e] = line]
      BY <1>5 DEF Compare, Compared
    <3>4. left' \in [Evals -> SUBSET Rules]
      BY <3>1 DEF Types
    <3>5. current' \in [Evals -> Rules \cup {NoRule}]
      BY <3>1, <3>2 DEF Types
    <3>6. pc' \in [Evals -> Lines]
      BY <3>3 DEF Types, Lines
    <3> QED
      BY <3>4, <3>5, <3>6
  <2>3. prior' \in [Evals -> Statuses \cup {NoStatus}]
    <3>1. PICK r \in left[e] :
            \E status \in IF Latest(r) = {} THEN {NoStatus} ELSE {ev.status : ev \in Latest(r)} :
              prior' = prior \/ prior' = [prior EXCEPT ![e] = status]
      <4> HIDE DEF Latest
      <4> QED
        BY <1>5 DEF Compare
    <3>2. \A status \in IF Latest(r) = {} THEN {NoStatus} ELSE {ev.status : ev \in Latest(r)} :
            status \in Statuses \cup {NoStatus}
      <4>1. \A ev \in events : ev.status \in Statuses
        BY DEF Types
      <4>2. Latest(r) \subseteq events
        BY DEF Latest
      <4> QED
        BY <4>1, <4>2
    <3> QED
      BY <3>1, <3>2 DEF Types
  <2> QED
    BY <1>5, <2>1, <2>2, <2>3 DEF Compare, Types
<1>6. ASSUME NEW e \in Evals, Deliver(e)
      PROVE  Types'
  <2>1. attempt' \in [Evals -> AttemptType]
    <3>1. attempt \in [Evals -> AttemptType]
      BY DEF Types
    <3>2. \E a \in {[attempt[e] EXCEPT !.outcome = "sent"], AfterFailure(attempt[e])} :
            attempt' = [attempt EXCEPT ![e] = a]
      BY <1>6 DEF Deliver
    <3>3. attempt[e] \in AttemptType
      BY <3>1
    <3>4. \A a \in {[attempt[e] EXCEPT !.outcome = "sent"], AfterFailure(attempt[e])} : a \in AttemptType
      BY <3>3, AttemptTypes
    <3> HIDE DEF AttemptType
    <3> QED
      BY <3>1, <3>2, <3>4
  <2>2. pc' \in [Evals -> Lines]
    BY <1>6 DEF Deliver, Types, Lines
  <2>3. told' \subseteq [by : Evals, rule : Rules, status : Statuses, target : Nat]
    <3>1. Note(e) \in [by : Evals, rule : Rules, status : Statuses, target : Nat]
      BY <1>6, NoteTypes DEF Deliver, Note
    <3>2. told' = told \/ told' = told \cup {Note(e)}
      BY <1>6 DEF Deliver
    <3> QED
      BY <3>1, <3>2 DEF Types
  <2> QED
    BY <1>6, <2>1, <2>2, <2>3 DEF Deliver, Types
<1>7. ASSUME NEW e \in Evals, Forget(e)
      PROVE  /\ current' \in [Evals -> Rules \cup {NoRule}] /\ prior' \in [Evals -> Statuses \cup {NoStatus}]
             /\ attempt' \in [Evals -> AttemptType]
  <2>1. attempt \in [Evals -> AttemptType] /\ attempt' = [attempt EXCEPT ![e] = First]
    BY <1>7 DEF Types, Forget
  <2>2. attempt' \in [Evals -> AttemptType]
    <3> HIDE DEF AttemptType
    <3> QED
      BY <2>1, AttemptTypes DEF AttemptType
  <2> QED
    BY <1>7, <2>2 DEF Types, Forget
<1>8. ASSUME NEW e \in Evals, RecordEvent(e)
      PROVE  Types'
  <2> DEFINE event == [by |-> e, rule |-> current[e], at |-> EventTime(e), status |-> found[e][current[e]],
                       previous |-> prior[e], delivery |-> attempt[e].outcome, target |-> attempt[e].target]
             EventType == [by : Evals, rule : Rules, at : Nat, status : Statuses,
                           previous : Statuses \cup {NoStatus}, delivery : Outcomes, target : Nat]
  <2>1. event \in EventType
    <3>1. /\ current[e] \in Rules /\ found[e][current[e]] \in Statuses /\ attempt[e].target \in Nat
          /\ at[e] \in Nat /\ prior[e] \in Statuses \cup {NoStatus}
      BY <1>8, NoteTypes DEF RecordEvent, Types
    <3>2. attempt[e].outcome \in Outcomes
      BY DEF Types
    <3> QED
      BY <3>1, <3>2 DEF EventTime
  <2>2. events' = events \cup {event}
    BY <1>8 DEF RecordEvent
  <2>3. events' \subseteq EventType
    BY <2>1, <2>2 DEF Types
  <2>4. pc' \in [Evals -> Lines]
    BY <1>8 DEF RecordEvent, Types, Lines, Compared
  <2> HIDE DEF event, EventType
  <2> QED
    BY <1>7, <1>8, <2>3, <2>4 DEF RecordEvent, Types, EventType
<1>9. ASSUME NEW e \in Evals, Break(e)
      PROVE  Types'
  <2>1. pc' \in [Evals -> Lines] /\ left' \in [Evals -> SUBSET Rules]
    BY <1>9 DEF Break, Types, Lines
  <2> QED
    BY <1>7, <1>9, <2>1 DEF Break, Types
<1>10. ASSUME NEW r \in Rules, EditRule(r)
       PROVE  Types'
  <2>1. edits' \in 0 .. MaxEdits
    BY <1>10 DEF EditRule, Types, AlertAssumption
  <2>2. rules' \in [Rules -> {"absent", "off", "on"}]
    BY <1>10 DEF EditRule, Types
  <2> QED
    BY <1>10, <2>1, <2>2 DEF EditRule, Types, evaluation
<1> QED
  BY <1>1, <1>2, <1>3, <1>4, <1>5, <1>6, <1>8, <1>9, <1>10, <1>11 DEF Next, Evaluate

-----------------------------------------------------------------------------
(* What each step does, goroutine by goroutine. *)

\* A step of a goroutine leaves what the others have alone.
OthersStay(e) ==
  \A x \in Evals \ {e} :
    /\ pc'[x] = pc[x] /\ at'[x] = at[x] /\ left'[x] = left[x] /\ found'[x] = found[x]
    /\ current'[x] = current[x] /\ prior'[x] = prior[x] /\ attempt'[x] = attempt[x]

\* An insert moves the clock and leads to the rules.
LEMMA InsertDoes ==
  ASSUME Types, NEW e \in Evals, InsertTrace(e)
  PROVE  /\ OthersStay(e) /\ UNCHANGED <<at, left, found, current, prior, attempt, events, told, mates>>
         /\ pc[e] = "new" /\ pc'[e] = "list" /\ clock' = clock + 1
BY DEF InsertTrace, OthersStay, Types, Goto, evaluation

\* Reading the rules leaves an evaluation with those that are on, or, when none
\* is, with all it has found.
LEMMA ListDoes ==
  ASSUME Types, NEW e \in Evals, List(e)
  PROVE  /\ OthersStay(e) /\ UNCHANGED <<clock, at, current, prior, attempt, events, told, mates>>
         /\ pc[e] = "list" /\ pc'[e] = "stamp"
         /\ left'[e] \subseteq DOMAIN found'[e] => left'[e] = DOMAIN found'[e]
<1>1. /\ OthersStay(e) /\ UNCHANGED <<clock, at, current, prior, attempt, events, told, mates>>
      /\ pc[e] = "list" /\ pc'[e] = "stamp"
  BY DEF List, OthersStay, Types, Goto
<1> DEFINE off == {r \in Rules : rules[r] = "off"}
           on  == {r \in Rules : rules[r] = "on"}
<1>2. /\ found' = [found EXCEPT ![e] = [r \in off |-> "disabled"]]
      /\ left' = [left EXCEPT ![e] = IF on = {} THEN off ELSE on]
  BY DEF List
<1>3. on \cap off = {}
  OBVIOUS
<1> HIDE DEF off, on
<1>4. DOMAIN found'[e] = off /\ left'[e] = IF on = {} THEN off ELSE on
  BY <1>2 DEF Types
<1> QED
  BY <1>1, <1>3, <1>4

\* An evaluation begins at the time of the clock.
LEMMA StampDoes ==
  ASSUME Types, LineInv, NEW e \in Evals, Stamp(e)
  PROVE  /\ OthersStay(e) /\ UNCHANGED <<left, found, current, prior, attempt, events, told>>
         /\ pc[e] = "stamp" /\ at'[e] = clock /\ clock' = clock + 1
         /\ pc'[e] \in {"query", "compare", "done"}
         /\ pc'[e] \in {"compare", "done"} => left'[e] = DOMAIN found'[e]
         /\ pc'[e] = "done" => left'[e] = {}
         /\ mates'[e] = Active
         /\ \A x \in Evals \ {e} : mates'[x] = IF x \in Active THEN mates[x] \cup {e} ELSE mates[x]
<1>1. /\ UNCHANGED <<left, found, current, prior, attempt, events, told>>
      /\ pc[e] = "stamp" /\ at'[e] = clock /\ clock' = clock + 1
      /\ mates'[e] = Active
      /\ \A x \in Evals \ {e} : mates'[x] = IF x \in Active THEN mates[x] \cup {e} ELSE mates[x]
  BY DEF Stamp, Types, evaluation
<1>2. OthersStay(e)
  BY DEF Stamp, OthersStay, Types, Goto, evaluation
<1>3. pc'[e] = IF left[e] \subseteq DOMAIN found[e] THEN Compared(left[e]) ELSE "query"
  BY DEF Stamp, Goto, Types
<1>4. left[e] \subseteq DOMAIN found[e] => left[e] = DOMAIN found[e]
  BY <1>1 DEF LineInv, LineAt
<1> QED
  BY <1>1, <1>2, <1>3, <1>4 DEF Compared

\* A query finds the status of one rule, and the last one leads to the events.
LEMMA QueryDoes ==
  ASSUME Types, NEW e \in Evals, Query(e)
  PROVE  /\ OthersStay(e) /\ UNCHANGED <<clock, at, current, prior, attempt, events, told, mates>>
         /\ pc[e] = "query" /\ pc'[e] \in {"query", "compare"}
         /\ pc'[e] = "compare" => left'[e] = DOMAIN found'[e]
<1>1. UNCHANGED <<clock, at, current, prior, attempt, events, told, mates>> /\ pc[e] = "query"
  BY DEF Query
<1>2. PICK r \in left[e] :
        /\ left' = [left EXCEPT ![e] = IF left[e] \ {r} = {} THEN DOMAIN found'[e] ELSE left[e] \ {r}]
        /\ pc' = [pc EXCEPT ![e] = IF left[e] \ {r} = {} THEN "compare" ELSE "query"]
  BY DEF Query, Goto
<1>3. \A x \in Evals : x # e => found'[x] = found[x]
  BY FoundTypes
<1>4. OthersStay(e)
  BY <1>1, <1>2, <1>3 DEF OthersStay, Types
<1> QED
  BY <1>1, <1>2, <1>4 DEF Types

\* A comparison takes a rule out of those left, and delivers only a change.
LEMMA CompareDoes ==
  ASSUME Types, LineInv, NEW e \in Evals, Compare(e)
  PROVE  /\ OthersStay(e) /\ UNCHANGED <<clock, at, found, events, told, mates>>
         /\ pc[e] = "compare"
         /\ \E r \in left[e] :
              /\ left'[e] = left[e] \ {r}
              /\ \/ /\ pc'[e] \in {"compare", "done"} /\ current'[e] = current[e]
                    /\ pc'[e] = "done" => left'[e] = {}
                    /\ \E ev \in Latest(r) : ev.status = found[e][r]
                 \/ /\ current'[e] = r /\ prior'[e] # found[e][r]
                    /\ \/ Latest(r) = {} /\ prior'[e] = NoStatus
                       \/ \E ev \in Latest(r) : ev.status = prior'[e]
                    /\ \/ pc'[e] = "deliver" /\ attempt'[e] = First
                       \/ pc'[e] = "record" /\ attempt'[e] = [First EXCEPT !.outcome = "skipped"]
<1>1. UNCHANGED <<clock, at, found, events, told, mates>> /\ pc[e] = "compare"
  BY DEF Compare
<1>2. PICK r \in left[e] :
        /\ left' = [left EXCEPT ![e] = @ \ {r}]
        /\ \E status \in IF Latest(r) = {} THEN {NoStatus} ELSE {ev.status : ev \in Latest(r)} :
             IF status = found[e][r]
             THEN pc' = [pc EXCEPT ![e] = Compared(left'[e])] /\ UNCHANGED <<current, prior>>
             ELSE /\ pc' = [pc EXCEPT ![e] = IF Targets = << >> THEN "record" ELSE "deliver"]
                  /\ current' = [current EXCEPT ![e] = r]
                  /\ prior' = [prior EXCEPT ![e] = status]
  BY DEF Compare, Goto
<1>3. PICK status \in IF Latest(r) = {} THEN {NoStatus} ELSE {ev.status : ev \in Latest(r)} :
        IF status = found[e][r]
        THEN pc' = [pc EXCEPT ![e] = Compared(left'[e])] /\ UNCHANGED <<current, prior>>
        ELSE /\ pc' = [pc EXCEPT ![e] = IF Targets = << >> THEN "record" ELSE "deliver"]
             /\ current' = [current EXCEPT ![e] = r]
             /\ prior' = [prior EXCEPT ![e] = status]
  BY <1>2
<1>4. attempt' = [attempt EXCEPT ![e] = IF Targets = << >> THEN [First EXCEPT !.outcome = "skipped"] ELSE First]
  BY DEF Compare
<1>5. OthersStay(e)
  BY <1>1, <1>2, <1>3, <1>4 DEF OthersStay, Types
<1>6. left'[e] = left[e] \ {r}
  BY <1>2 DEF Types
<1>7. found[e][r] # NoStatus
  <2>1. r \in DOMAIN found[e]
    BY <1>1 DEF LineInv, LineAt, Comparing
  <2>2. PICK S \in SUBSET Rules : found[e] \in [S -> Statuses]
    BY DEF Types
  <2> QED
    BY <2>1, <2>2 DEF Statuses, NoStatus
<1>8. CASE status = found[e][r]
  <2>1. pc'[e] = Compared(left'[e]) /\ current'[e] = current[e]
    BY <1>3, <1>8 DEF Types
  <2>2. \E ev \in Latest(r) : ev.status = found[e][r]
    BY <1>3, <1>7, <1>8
  <2> QED
    BY <1>1, <1>5, <1>6, <2>1, <2>2 DEF Compared
<1>9. CASE status # found[e][r]
  <2>1. /\ pc'[e] = IF Targets = << >> THEN "record" ELSE "deliver"
        /\ current'[e] = r /\ prior'[e] = status
        /\ attempt'[e] = IF Targets = << >> THEN [First EXCEPT !.outcome = "skipped"] ELSE First
    BY <1>3, <1>4, <1>9 DEF Types
  <2>2. (Latest(r) = {} /\ status = NoStatus) \/ (\E ev \in Latest(r) : ev.status = status)
    BY <1>3
  <2> QED
    BY <1>1, <1>5, <1>6, <1>9, <2>1, <2>2
<1> QED
  BY <1>8, <1>9

\* An attempt ends the delivery or goes on to the next attempt or target.
LEMMA DeliverDoes ==
  ASSUME AlertAssumption, Types, NEW e \in Evals, Deliver(e), attempt[e].outcome = "open"
  PROVE  /\ OthersStay(e) /\ UNCHANGED <<clock, at, left, found, current, prior, events, mates>>
         /\ pc[e] = "deliver"
         /\ \/ /\ pc'[e] = "record" /\ told' = told \cup {Note(e)}
               /\ attempt'[e].outcome = "sent" /\ attempt'[e].target = attempt[e].target
            \/ /\ told' = told
               /\ \/ pc'[e] = "deliver" /\ attempt'[e].outcome = "open"
                  \/ pc'[e] = "record" /\ attempt'[e].outcome = "failed"
<1>1. UNCHANGED <<clock, at, left, found, current, prior, events, mates>> /\ pc[e] = "deliver"
  BY DEF Deliver
<1>2. pc' = [pc EXCEPT ![e] = IF attempt'[e].outcome = "open" THEN "deliver" ELSE "record"]
  BY DEF Deliver, Goto
<1> DEFINE AttemptType == [target : 1 .. Len(Targets) + 1, number : 1 .. Attempts, outcome : Outcomes]
<1>3. attempt \in [Evals -> AttemptType] /\ attempt[e] \in AttemptType
  BY DEF Types
<1>4. CASE attempt' = [attempt EXCEPT ![e].outcome = "sent"] /\ told' = told \cup {Note(e)}
  <2>1. attempt'[e] = [attempt[e] EXCEPT !.outcome = "sent"] /\ \A x \in Evals \ {e} : attempt'[x] = attempt[x]
    <3> HIDE DEF AttemptType
    <3> QED
      BY <1>3, <1>4
  <2>2. attempt'[e].outcome = "sent" /\ attempt'[e].target = attempt[e].target
    BY <1>3, <2>1
  <2>3. pc'[e] = "record" /\ \A x \in Evals \ {e} : pc'[x] = pc[x]
    BY <1>2, <2>2 DEF Types
  <2> QED
    BY <1>1, <1>4, <2>1, <2>2, <2>3 DEF OthersStay
<1>5. CASE attempt' = [attempt EXCEPT ![e] = AfterFailure(@)] /\ told' = told
  <2>1. attempt'[e] = AfterFailure(attempt[e]) /\ \A x \in Evals \ {e} : attempt'[x] = attempt[x]
    <3> HIDE DEF AttemptType
    <3> QED
      BY <1>3, <1>5
  <2>2. AfterFailure(attempt[e]).outcome \in {"open", "failed"}
    BY <1>3, AttemptTypes
  <2>3. /\ pc'[e] = IF attempt'[e].outcome = "open" THEN "deliver" ELSE "record"
        /\ \A x \in Evals \ {e} : pc'[x] = pc[x]
    BY <1>2 DEF Types
  <2> QED
    BY <1>1, <1>5, <2>1, <2>2, <2>3 DEF OthersStay
<1> QED
  BY <1>4, <1>5 DEF Deliver

\* Recording adds one event, of the rule and the status in hand.
LEMMA RecordDoes ==
  ASSUME Types, NEW e \in Evals, RecordEvent(e)
  PROVE  /\ OthersStay(e) /\ UNCHANGED <<clock, at, left, found, told, mates>>
         /\ pc[e] = "record" /\ pc'[e] \in {"compare", "done"}
         /\ pc'[e] = "done" => left'[e] = {}
         /\ current'[e] = NoRule
         /\ events' = events \cup
              {[by |-> e, rule |-> current[e], at |-> at[e], status |-> found[e][current[e]],
                previous |-> prior[e], delivery |-> attempt[e].outcome, target |-> attempt[e].target]}
BY DEF RecordEvent, OthersStay, Types, Goto, Forget, Compared, EventTime

\* An evaluation that breaks off drops what it has in hand, and no more.
LEMMA BreakDoes ==
  ASSUME Types, NEW e \in Evals, Break(e)
  PROVE  /\ OthersStay(e) /\ UNCHANGED <<clock, at, found, events, told, mates>>
         /\ pc[e] \in {"list", "query"} \cup Comparing /\ pc'[e] = "broken"
         /\ left'[e] = {} /\ current'[e] = NoRule
BY DEF Break, OthersStay, Types, Goto, Forget, Comparing

\* An edit changes the rules and no evaluation.
LEMMA EditDoes ==
  ASSUME NEW r \in Rules, EditRule(r)
  PROVE  UNCHANGED <<clock, pc, at, left, found, current, prior, attempt, events, told, mates>>
BY DEF EditRule, evaluation

-----------------------------------------------------------------------------
\* A goroutine that moves takes a time nobody has, or keeps its own.
LEMMA LineMoves ==
  ASSUME Types, LineInv, NEW e \in Evals, OthersStay(e), clock' \in {clock, clock + 1},
         at'[e] = at[e] \/ (at'[e] = clock /\ clock' = clock + 1),
         \A x \in Evals : x = e => LineAt(x)'
  PROVE  LineInv'
<1>1. clock \in Nat /\ \A x \in Evals : at[x] \in Nat /\ (at[x] > 0 => at[x] < clock)
  BY DEF Types, LineInv, LineAt
<1>2. ASSUME NEW x \in Evals \ {e}
      PROVE  LineAt(x)'
  <2>1. LineAt(x)
    BY DEF LineInv
  <2> QED
    BY <1>1, <1>2, <2>1 DEF OthersStay, LineAt
<1>3. ASSUME NEW x \in Evals, NEW y \in Evals \ {x}, at'[x] > 0
      PROVE  at'[y] # at'[x]
  <2>1. /\ x # e => at'[x] = at[x]
        /\ y # e => at'[y] = at[y]
    BY DEF OthersStay
  <2>2. (at[x] > 0 => at[y] # at[x]) /\ (at[y] > 0 => at[x] # at[y])
    BY DEF LineInv
  <2> QED
    BY <1>1, <1>3, <2>1, <2>2
<1> QED
  BY <1>2, <1>3 DEF LineInv

\* A time is taken once, and rules are left only while a goroutine has some.
LEMMA LineStep ==
  ASSUME AlertAssumption, Types, LineInv, [Next]_vars
  PROVE  LineInv'
<1> USE DEF Comparing
<1>0. ASSUME UNCHANGED <<clock, pc, at, left, found, current>>
      PROVE  LineInv'
  BY <1>0 DEF LineInv, LineAt
<1>1. ASSUME NEW e \in Evals, InsertTrace(e)
      PROVE  LineInv'
  <2>1. clock \in Nat /\ LineAt(e)
    BY DEF Types, LineInv
  <2>2. \A x \in Evals : x = e => LineAt(x)'
    BY <1>1, <2>1, InsertDoes DEF LineAt
  <2> QED
    BY <1>1, <2>2, InsertDoes, LineMoves
<1>9. ASSUME NEW e \in Evals, List(e)
      PROVE  LineInv'
  <2>1. clock \in Nat /\ LineAt(e)
    BY DEF Types, LineInv
  <2>2. \A x \in Evals : x = e => LineAt(x)'
    BY <1>9, <2>1, ListDoes DEF LineAt
  <2> QED
    BY <1>9, <2>2, ListDoes, LineMoves
<1>2. ASSUME NEW e \in Evals, Stamp(e)
      PROVE  LineInv'
  <2>1. clock \in Nat /\ LineAt(e)
    BY DEF Types, LineInv
  <2>2. /\ OthersStay(e) /\ current' = current
        /\ pc[e] = "stamp" /\ at'[e] = clock /\ clock' = clock + 1
        /\ pc'[e] \in {"query", "compare", "done"}
        /\ pc'[e] \in {"compare", "done"} => left'[e] = DOMAIN found'[e]
        /\ pc'[e] = "done" => left'[e] = {}
    BY <1>2, StampDoes
  <2>3. \A x \in Evals : x = e => LineAt(x)'
    BY <2>1, <2>2 DEF LineAt
  <2> QED
    BY <2>2, <2>3, LineMoves
<1>3. ASSUME NEW e \in Evals, Query(e)
      PROVE  LineInv'
  <2>1. clock \in Nat /\ LineAt(e)
    BY DEF Types, LineInv
  <2>2. \A x \in Evals : x = e => LineAt(x)'
    BY <1>3, <2>1, QueryDoes DEF LineAt
  <2> QED
    BY <1>3, <2>2, QueryDoes, LineMoves
<1>4. ASSUME NEW e \in Evals, Compare(e)
      PROVE  LineInv'
  <2>1. clock \in Nat /\ LineAt(e)
    BY DEF Types, LineInv
  <2>2. OthersStay(e) /\ UNCHANGED <<clock, at, found>> /\ pc[e] = "compare"
    BY <1>4, CompareDoes
  <2>3. PICK r \in left[e] :
          /\ left'[e] = left[e] \ {r}
          /\ \/ pc'[e] \in {"compare", "done"} /\ current'[e] = current[e] /\ (pc'[e] = "done" => left'[e] = {})
             \/ pc'[e] \in {"deliver", "record"} /\ current'[e] = r
    BY <1>4, CompareDoes
  <2>4. \A x \in Evals : x = e => LineAt(x)'
    BY <2>1, <2>2, <2>3 DEF LineAt
  <2> QED
    BY <2>2, <2>4, LineMoves
<1>5. ASSUME NEW e \in Evals, Deliver(e)
      PROVE  LineInv'
  <2>1. /\ OthersStay(e) /\ UNCHANGED <<clock, at, left, found, current>>
        /\ pc[e] = "deliver" /\ pc'[e] \in {"deliver", "record"}
    BY <1>5 DEF Deliver, Types, OthersStay, Goto
  <2>2. LineAt(e)
    BY DEF LineInv
  <2>3. \A x \in Evals : x = e => LineAt(x)'
    BY <2>1, <2>2 DEF LineAt
  <2> QED
    BY <2>1, <2>3, LineMoves
<1>6. ASSUME NEW e \in Evals, RecordEvent(e)
      PROVE  LineInv'
  <2>1. LineAt(e)
    BY DEF LineInv
  <2>2. \A x \in Evals : x = e => LineAt(x)'
    BY <1>6, <2>1, RecordDoes DEF LineAt
  <2> QED
    BY <1>6, <2>2, RecordDoes, LineMoves
<1>7. ASSUME NEW e \in Evals, Break(e)
      PROVE  LineInv'
  <2>1. LineAt(e)
    BY DEF LineInv
  <2>2. \A x \in Evals : x = e => LineAt(x)'
    BY <1>7, <2>1, BreakDoes DEF LineAt
  <2> QED
    BY <1>7, <2>2, BreakDoes, LineMoves
<1>8. ASSUME NEW r \in Rules, EditRule(r)
      PROVE  LineInv'
  BY <1>0, <1>8, EditDoes
<1> QED
  BY <1>0, <1>1, <1>2, <1>3, <1>4, <1>5, <1>6, <1>7, <1>8, <1>9 DEF Next, Evaluate, vars, evaluation

-----------------------------------------------------------------------------
\* What a goroutine has compared it does not compare again.
LEMMA SettledStays ==
  ASSUME AlertAssumption, Types, LineInv, [Next]_vars, NEW e \in Evals, NEW r, Settled(e, r)
  PROVE  /\ Settled(e, r)' /\ found'[e][r] = found[e][r] /\ at'[e] = at[e]
         /\ current[e] # r => current'[e] # r
<1> USE DEF Comparing
<1>1. r \in Rules /\ r # NoRule /\ pc[e] \notin {"new", "list", "stamp", "query"}
  BY DEF Settled, Types, AlertAssumption
<1>2. CASE UNCHANGED <<pc, at, left, found, current>>
  BY <1>2 DEF Settled
<1>3. ASSUME NEW x \in Evals \ {e}, OthersStay(x)
      PROVE  /\ Settled(e, r)' /\ found'[e][r] = found[e][r] /\ at'[e] = at[e]
             /\ current[e] # r => current'[e] # r
  BY <1>3 DEF Settled, OthersStay
<1>4. ASSUME NEW x \in Evals, InsertTrace(x) \/ List(x) \/ Stamp(x) \/ Query(x)
      PROVE  x \in Evals \ {e} /\ OthersStay(x)
  BY <1>1, <1>4, InsertDoes, ListDoes, StampDoes, QueryDoes
<1>5. CASE Compare(e)
  BY <1>1, <1>5, CompareDoes DEF Settled
<1>6. ASSUME NEW x \in Evals, Compare(x), x # e
      PROVE  x \in Evals \ {e} /\ OthersStay(x)
  BY <1>6, CompareDoes
<1>7. ASSUME NEW x \in Evals, Deliver(x)
      PROVE  /\ OthersStay(x) /\ UNCHANGED <<at, left, found, current>>
             /\ pc[x] = "deliver" /\ pc'[x] \in {"deliver", "record"}
  BY <1>7 DEF Deliver, Types, OthersStay, Goto
<1>8. CASE Deliver(e)
  BY <1>7, <1>8 DEF Settled
<1>9. CASE RecordEvent(e)
  BY <1>1, <1>9, RecordDoes DEF Settled
<1>10. CASE Break(e)
  BY <1>1, <1>10, BreakDoes DEF Settled
<1>11. ASSUME NEW x \in Evals, RecordEvent(x) \/ Break(x), x # e
       PROVE  x \in Evals \ {e} /\ OthersStay(x)
  BY <1>11, RecordDoes, BreakDoes
<1>12. ASSUME NEW x \in Evals, InsertTrace(x) \/ List(x) \/ Evaluate(x) \/ Break(x)
       PROVE  /\ Settled(e, r)' /\ found'[e][r] = found[e][r] /\ at'[e] = at[e]
              /\ current[e] # r => current'[e] # r
  BY <1>3, <1>4, <1>5, <1>6, <1>7, <1>8, <1>9, <1>10, <1>11, <1>12 DEF Evaluate
<1>13. CASE \E s \in Rules : EditRule(s)
  BY <1>2, <1>13, EditDoes
<1> QED
  BY <1>2, <1>12, <1>13 DEF Next, vars, evaluation

\* Only an answer that was accepted is told.
LEMMA ToldGrows ==
  ASSUME Types, [Next]_vars
  PROVE  \/ told' = told
         \/ \E e \in Evals : /\ Deliver(e) /\ pc[e] = "deliver" /\ told' = told \cup {Note(e)}
                             /\ UNCHANGED <<current, left, found, at>> /\ pc'[e] = "record"
<1>1. ASSUME NEW e \in Evals, Deliver(e), told' # told
      PROVE  /\ pc[e] = "deliver" /\ told' = told \cup {Note(e)}
             /\ UNCHANGED <<current, left, found, at>> /\ pc'[e] = "record"
  <2>1. attempt' = [attempt EXCEPT ![e].outcome = "sent"] /\ told' = told \cup {Note(e)}
    BY <1>1 DEF Deliver
  <2>2. attempt'[e].outcome = "sent"
    BY <2>1 DEF Types
  <2>3. pc' = [pc EXCEPT ![e] = IF attempt'[e].outcome = "open" THEN "deliver" ELSE "record"]
    BY <1>1 DEF Deliver, Goto
  <2>4. pc'[e] = "record"
    BY <2>2, <2>3 DEF Types
  <2> QED
    BY <1>1, <2>1, <2>4 DEF Deliver
<1>2. ASSUME NEW e \in Evals, InsertTrace(e) \/ List(e) \/ Stamp(e) \/ Query(e) \/ Compare(e) \/ RecordEvent(e) \/ Break(e)
      PROVE  told' = told
  BY <1>2 DEF InsertTrace, List, Stamp, Query, Compare, RecordEvent, Break
<1> QED
  BY <1>1, <1>2 DEF Next, Evaluate, EditRule, vars

\* Only RecordEvent adds to the events.
LEMMA EventsGrow ==
  ASSUME Types, [Next]_vars
  PROVE  events' = events \/ \E e \in Evals : RecordEvent(e)
<1>1. ASSUME NEW e \in Evals, InsertTrace(e) \/ List(e) \/ Stamp(e) \/ Query(e) \/ Compare(e) \/ Deliver(e) \/ Break(e)
      PROVE  events' = events
  BY <1>1 DEF InsertTrace, List, Stamp, Query, Compare, Deliver, Break
<1> QED
  BY <1>1 DEF Next, Evaluate, EditRule, vars

\* What is told and recorded stays settled, and what is new is.
LEMMA ToldStep ==
  ASSUME AlertAssumption, Types, LineInv, ToldInv, [Next]_vars
  PROVE  ToldInv'
<1>1. \A e \in Evals : \A r :
        Settled(e, r) => /\ Settled(e, r)' /\ found'[e][r] = found[e][r] /\ at'[e] = at[e]
                         /\ current[e] # r => current'[e] # r
  BY SettledStays
<1>2. ASSUME NEW n \in told
      PROVE  Settled(n.by, n.rule)' /\ n.status = found'[n.by][n.rule]
  <2>1. n.by \in Evals /\ Settled(n.by, n.rule) /\ n.status = found[n.by][n.rule]
    BY DEF Types, ToldInv
  <2> QED
    BY <1>1, <2>1 DEF Settled
<1>3. ASSUME NEW ev \in events
      PROVE  /\ Settled(ev.by, ev.rule)' /\ current'[ev.by] # ev.rule
             /\ ev.status = found'[ev.by][ev.rule] /\ ev.at = at'[ev.by]
  <2>1. /\ ev.by \in Evals /\ Settled(ev.by, ev.rule) /\ current[ev.by] # ev.rule
        /\ ev.status = found[ev.by][ev.rule] /\ ev.at = at[ev.by]
    BY DEF Types, ToldInv
  <2> QED
    BY <1>1, <2>1 DEF Settled
<1>4. ASSUME NEW n \in told', n \notin told
      PROVE  Settled(n.by, n.rule)' /\ n.status = found'[n.by][n.rule]
  <2>1. PICK e \in Evals : /\ pc[e] = "deliver" /\ told' = told \cup {Note(e)}
                           /\ UNCHANGED <<current, left, found, at>> /\ pc'[e] = "record"
    BY <1>4, ToldGrows
  <2>2. n = Note(e)
    BY <1>4, <2>1
  <2>3. n.by = e /\ n.rule = current[e] /\ n.status = found[e][current[e]]
    BY <2>2 DEF Note
  <2>4. current[e] \in DOMAIN found[e] \ left[e] /\ at[e] > 0
    BY <2>1 DEF LineInv, LineAt
  <2> QED
    BY <2>1, <2>3, <2>4 DEF Settled, Comparing
<1>5. ASSUME NEW ev \in events', ev \notin events
      PROVE  /\ Settled(ev.by, ev.rule)' /\ current'[ev.by] # ev.rule
             /\ ev.status = found'[ev.by][ev.rule] /\ ev.at = at'[ev.by]
  <2>1. PICK e \in Evals : RecordEvent(e)
    BY <1>5, EventsGrow
  <2>2. /\ ev.by = e /\ ev.rule = current[e] /\ ev.at = at[e] /\ ev.status = found[e][current[e]]
    BY <1>5, <2>1, RecordDoes
  <2>3. UNCHANGED <<at, left, found>> /\ pc[e] = "record" /\ pc'[e] \in {"compare", "done"} /\ current'[e] = NoRule
    BY <2>1, RecordDoes
  <2>4. current[e] \in DOMAIN found[e] \ left[e] /\ at[e] > 0 /\ current[e] \in Rules
    BY <2>3, NoteTypes DEF LineInv, LineAt
  <2> QED
    BY <2>2, <2>3, <2>4 DEF Settled, Comparing, AlertAssumption
<1> QED
  BY <1>2, <1>3, <1>4, <1>5 DEF ToldInv

-----------------------------------------------------------------------------
\* Only Stamp begins an evaluation.
LEMMA OthersLeaveMates ==
  ASSUME AlertAssumption, Types, [Next]_vars, ~ \E e \in Evals : Stamp(e)
  PROVE  UNCHANGED <<at, mates>> /\ Active' \subseteq Active
<1>1. ASSUME NEW e \in Evals, InsertTrace(e) \/ List(e) \/ Query(e) \/ RecordEvent(e) \/ Break(e)
      PROVE  UNCHANGED <<at, mates>> /\ Active' \subseteq Active
  BY <1>1, InsertDoes, ListDoes, QueryDoes, RecordDoes, BreakDoes DEF Active, OthersStay
<1>2. ASSUME NEW e \in Evals, Compare(e) \/ Deliver(e)
      PROVE  UNCHANGED <<at, mates>> /\ Active' \subseteq Active
  <2>1. UNCHANGED <<at, mates>> /\ pc[e] \in {"compare", "deliver"} /\ \A x \in Evals \ {e} : pc'[x] = pc[x]
    BY <1>2 DEF Compare, Deliver, Goto, Types
  <2> QED
    BY <2>1 DEF Active
<1>3. CASE \E r \in Rules : EditRule(r)
  BY <1>3, EditDoes DEF Active
<1>4. CASE UNCHANGED vars
  BY <1>4 DEF vars, Active
<1> QED
  BY <1>1, <1>2, <1>3, <1>4 DEF Next, Evaluate

\* An evaluation that begins meets all that are active, and they meet it.
LEMMA MatesStep ==
  ASSUME AlertAssumption, Types, LineInv, MatesInv, [Next]_vars
  PROVE  MatesInv'
<1>1. CASE ~ \E e \in Evals : Stamp(e)
  BY <1>1, OthersLeaveMates DEF MatesInv
<1>2. ASSUME NEW e \in Evals, Stamp(e)
      PROVE  MatesInv'
  <2>1. /\ OthersStay(e) /\ pc[e] = "stamp" /\ at'[e] = clock /\ clock > 0
        /\ mates'[e] = Active
        /\ \A x \in Evals \ {e} : mates'[x] = IF x \in Active THEN mates[x] \cup {e} ELSE mates[x]
    BY <1>2, StampDoes DEF LineInv, LineAt
  <2>2. /\ clock \in Nat /\ e \notin Active /\ at[e] = 0 /\ mates[e] = {}
        /\ \A x \in Evals : at[x] \in Nat /\ (at[x] > 0 => at[x] < clock)
    BY <2>1 DEF LineInv, LineAt, MatesInv, Types, Active
  <2>3. \A x \in Evals \ {e} : at'[x] = at[x] /\ pc'[x] = pc[x] /\ e \notin mates[x]
    BY <2>1, <2>2 DEF OthersStay, MatesInv
  <2>4. ASSUME NEW a \in Evals, at'[a] = 0
        PROVE  mates'[a] = {}
    <3>1. a # e /\ at[a] = 0
      BY <2>1, <2>2, <2>3, <2>4
    <3>2. a \notin Active /\ mates[a] = {}
      BY <3>1 DEF LineInv, LineAt, MatesInv, Active
    <3> QED
      BY <2>1, <3>1, <3>2
  <2>5. ASSUME NEW a \in Evals, NEW x \in Evals \ {a}
        PROVE  /\ x \in mates'[a] <=> a \in mates'[x]
               /\ 0 < at'[x] /\ at'[x] < at'[a] /\ x \in Active' => x \in mates'[a]
    <3>1. CASE a = e
      <4>1. x # e /\ at'[x] = at[x] /\ (x \in Active' <=> x \in Active)
        BY <2>3, <3>1 DEF Active
      <4>2. e \in mates'[x] <=> x \in Active
        <5>1. e \notin mates[x] /\ mates'[x] = IF x \in Active THEN mates[x] \cup {e} ELSE mates[x]
          BY <2>1, <2>3, <4>1
        <5> QED
          BY <5>1
      <4>3. x \in mates'[e] <=> x \in Active
        BY <2>1
      <4> QED
        BY <3>1, <4>1, <4>2, <4>3
    <3>2. CASE x = e
      <4>1. ~ (at'[x] < at'[a])
        <5>1. a \in Evals \ {e} /\ at'[a] = at[a]
          BY <2>3, <3>2
        <5>2. at'[x] = clock /\ clock \in Nat /\ at[a] \in Nat /\ (at[a] > 0 => at[a] < clock)
          BY <2>1, <2>2, <3>2
        <5> QED
          BY <5>1, <5>2
      <4> QED
        BY <2>1, <2>3, <3>2, <4>1
    <3>3. CASE a # e /\ x # e
      <4>1. /\ x \in mates[a] <=> a \in mates[x]
            /\ 0 < at[x] /\ at[x] < at[a] /\ x \in Active => x \in mates[a]
        BY DEF MatesInv
      <4>2. x \in mates'[a] <=> x \in mates[a]
        BY <2>1, <3>3
      <4>3. a \in mates'[x] <=> a \in mates[x]
        BY <2>1, <3>3
      <4>4. x \in Active' <=> x \in Active
        BY <2>3, <3>3 DEF Active
      <4> QED
        BY <2>3, <3>3, <4>1, <4>2, <4>3, <4>4
    <3> QED
      BY <3>1, <3>2, <3>3
  <2> QED
    BY <2>4, <2>5 DEF MatesInv
<1> QED
  BY <1>1, <1>2

\* An evaluation that overlaps with no other is the last to have begun as long
\* as it goes on, and when it begins the earlier ones have ended.
LEMMA AloneIsLast ==
  ASSUME Types, LineInv, MatesInv, NEW e \in Evals, mates[e] = {}, NEW x \in Evals \ {e}
  PROVE  /\ at[x] < at[e] => x \notin Active
         /\ e \in Active => at[x] < at[e]
<1>1. at[x] \in Nat /\ at[e] \in Nat /\ (at[e] > 0 => at[x] # at[e])
  BY DEF Types, LineInv
<1>2. e \in Active => at[e] > 0
  BY DEF Active, LineInv, LineAt
<1>3. x \in Active => at[x] > 0
  BY DEF Active, LineInv, LineAt
<1>4. /\ 0 < at[x] /\ at[x] < at[e] /\ x \in Active => x \in mates[e]
      /\ 0 < at[e] /\ at[e] < at[x] /\ e \in Active => e \in mates[x]
      /\ e \notin mates[x]
  BY DEF MatesInv
<1> QED
  BY <1>1, <1>2, <1>3, <1>4

\* The events of a rule with an event have a latest one.
LEMMA LatestStep ==
  ASSUME AlertAssumption, Types, LatestInv, [Next]_vars
  PROVE  LatestInv'
<1>1. CASE events' = events
  BY <1>1 DEF LatestInv, Latest
<1>2. ASSUME NEW e \in Evals, RecordEvent(e)
      PROVE  LatestInv'
  <2>1. PICK new : events' = events \cup {new} /\ new.at = at[e] /\ new.at \in Nat
    <3>1. at[e] \in Nat
      BY DEF Types
    <3> DEFINE new == [by |-> e, rule |-> current[e], at |-> at[e], status |-> found[e][current[e]],
                       previous |-> prior[e], delivery |-> attempt[e].outcome, target |-> attempt[e].target]
    <3>2. events' = events \cup {new}
      BY <1>2, RecordDoes
    <3>3. new.at = at[e]
      OBVIOUS
    <3> HIDE DEF new
    <3> QED
      BY <3>1, <3>2, <3>3
  <2>2. \A ev \in events : ev.at \in Nat
    BY DEF Types
  <2> SUFFICES ASSUME NEW ev \in events' PROVE Latest(ev.rule)' # {}
    BY DEF LatestInv
  <2>3. CASE \E old \in events : old.rule = ev.rule
    <3>1. PICK last \in events :
            last.rule = ev.rule /\ \A other \in events : other.rule = ev.rule => other.at <= last.at
      BY <2>3 DEF LatestInv, Latest
    <3>2. CASE new.rule = ev.rule /\ last.at < new.at
      <4>1. new \in Latest(ev.rule)'
        BY <2>1, <2>2, <3>1, <3>2 DEF Latest
      <4> QED
        BY <4>1
    <3>3. CASE ~ (new.rule = ev.rule /\ last.at < new.at)
      <4>1. last \in Latest(ev.rule)'
        BY <2>1, <2>2, <3>1, <3>3 DEF Latest
      <4> QED
        BY <4>1
    <3> QED
      BY <3>2, <3>3
  <2>4. CASE ~ \E old \in events : old.rule = ev.rule
    <3>1. ev = new
      BY <2>1, <2>4
    <3>2. new \in Latest(ev.rule)'
      BY <2>1, <2>4, <3>1 DEF Latest
    <3> QED
      BY <3>2
  <2> QED
    BY <2>3, <2>4
<1> QED
  BY <1>1, <1>2, EventsGrow

-----------------------------------------------------------------------------
\* A notification adds to what is told of the rule it is about.
LEMMA NotesStay ==
  ASSUME Types, [Next]_vars, NEW e \in Evals, NEW r, pc[e] # "deliver" \/ current[e] # r
  PROVE  Notes(e, r)' = Notes(e, r)
<1>1. CASE told' = told
  BY <1>1 DEF Notes
<1>2. CASE \E x \in Evals : pc[x] = "deliver" /\ told' = told \cup {Note(x)}
  <2>1. PICK x \in Evals : pc[x] = "deliver" /\ told' = told \cup {Note(x)}
    BY <1>2
  <2>2. Note(x).by = x /\ Note(x).rule = current[x]
    BY DEF Note
  <2>3. ~ (Note(x).by = e /\ Note(x).rule = r)
    BY <2>1, <2>2
  <2> QED
    BY <2>1, <2>3 DEF Notes
<1> QED
  BY <1>1, <1>2, ToldGrows

\* A goroutine that does not move has told what it had.
LEMMA OthersKeepNotes ==
  ASSUME Types, DeliveryInv, [Next]_vars, NEW e \in Evals, OthersStay(e),
         told' = told \/ told' = told \cup {Note(e)},
         NEW x \in Evals \ {e}
  PROVE  DeliveryAt(x)'
<1>1. Note(e).by = e
  BY DEF Note
<1>2. \A r : Notes(x, r)' = Notes(x, r)
  BY <1>1 DEF Notes
<1>3. /\ pc'[x] = pc[x] /\ current'[x] = current[x] /\ attempt'[x] = attempt[x]
  BY DEF OthersStay
<1>4. {n \in told' : n.by = x /\ n.rule = current'[x]} = {n \in told : n.by = x /\ n.rule = current[x]}
  BY <1>2, <1>3 DEF Notes
<1>5. DeliveryAt(x)
  BY DEF DeliveryInv
<1> QED
  BY <1>3, <1>4, <1>5 DEF DeliveryAt, Notes

\* The outcome in hand, and that of every event, stays honest.
LEMMA DeliveryStep ==
  ASSUME AlertAssumption, Types, LineInv, ToldInv, DeliveryInv, [Next]_vars
  PROVE  DeliveryInv'
<1>1. ASSUME NEW ev \in events
      PROVE  Honest(ev.delivery, ev.target, Notes(ev.by, ev.rule)')
  <2>1. ev.by \in Evals /\ current[ev.by] # ev.rule /\ Honest(ev.delivery, ev.target, Notes(ev.by, ev.rule))
    BY DEF Types, ToldInv, DeliveryInv
  <2>2. \A e, r : e = ev.by /\ r = ev.rule => Notes(e, r)' = Notes(e, r)
    BY <2>1, NotesStay
  <2>3. Notes(ev.by, ev.rule)' = Notes(ev.by, ev.rule)
    BY <2>2, Zenon DEF Notes
  <2> QED
    BY <2>1, <2>3, Zenon
<1>2. ASSUME NEW e \in Evals, OthersStay(e), told' = told \/ told' = told \cup {Note(e)},
             \A x \in Evals : x = e => DeliveryAt(x)', events' = events
      PROVE  DeliveryInv'
  BY <1>1, <1>2, OthersKeepNotes DEF DeliveryInv, Honest, Notes
<1>3. ASSUME NEW e \in Evals, InsertTrace(e) \/ List(e) \/ Stamp(e) \/ Query(e) \/ Break(e)
      PROVE  DeliveryInv'
  <2>1. OthersStay(e) /\ told' = told /\ events' = events /\ pc'[e] \notin {"deliver", "record"}
    BY <1>3, InsertDoes, ListDoes, StampDoes, QueryDoes, BreakDoes
  <2>2. \A x \in Evals : x = e => DeliveryAt(x)'
    BY <2>1 DEF DeliveryAt
  <2> QED
    BY <1>2, <2>1, <2>2
<1>4. ASSUME NEW e \in Evals, Compare(e)
      PROVE  DeliveryInv'
  <2>1. OthersStay(e) /\ told' = told /\ events' = events
    BY <1>4, CompareDoes
  <2>2. CASE pc'[e] \notin {"deliver", "record"}
    <3>1. \A x \in Evals : x = e => DeliveryAt(x)'
      BY <2>2 DEF DeliveryAt
    <3> QED
      BY <1>2, <2>1, <3>1
  <2>3. CASE pc'[e] \in {"deliver", "record"}
    <3>1. PICK r \in left[e] :
            /\ current'[e] = r
            /\ \/ pc'[e] = "deliver" /\ attempt'[e] = First
               \/ pc'[e] = "record" /\ attempt'[e] = [First EXCEPT !.outcome = "skipped"]
      BY <1>4, <2>3, CompareDoes
    <3>2. {n \in told' : n.by = e /\ n.rule = current'[e]} = {}
      BY <2>1, <3>1 DEF ToldInv, Settled
    <3>3. /\ pc'[e] = "deliver" => attempt'[e].outcome = "open"
          /\ pc'[e] = "record" => attempt'[e].outcome = "skipped"
      BY <3>1 DEF First
    <3>4. \A x \in Evals : x = e => DeliveryAt(x)'
      BY <3>2, <3>3 DEF DeliveryAt, Notes, Honest
    <3> QED
      BY <1>2, <2>1, <3>4
  <2> QED
    BY <2>2, <2>3
<1>5. ASSUME NEW e \in Evals, Deliver(e)
      PROVE  DeliveryInv'
  <2>1. pc[e] = "deliver" /\ Notes(e, current[e]) = {} /\ attempt[e].outcome = "open"
    BY <1>5 DEF Deliver, DeliveryInv, DeliveryAt
  <2>2. /\ OthersStay(e) /\ events' = events /\ current' = current
        /\ \/ /\ pc'[e] = "record" /\ told' = told \cup {Note(e)}
              /\ attempt'[e].outcome = "sent" /\ attempt'[e].target = attempt[e].target
           \/ /\ told' = told
              /\ \/ pc'[e] = "deliver" /\ attempt'[e].outcome = "open"
                 \/ pc'[e] = "record" /\ attempt'[e].outcome = "failed"
    BY <1>5, <2>1, DeliverDoes
  <2>3. CASE told' = told
    <3>1. {n \in told' : n.by = e /\ n.rule = current'[e]} = {}
      BY <2>1, <2>2, <2>3 DEF Notes
    <3>2. CASE pc'[e] = "record" /\ told' = told \cup {Note(e)}
      <4>1. Note(e) \in told' /\ Note(e).by = e /\ Note(e).rule = current[e] /\ current' = current
        BY <2>2, <3>2 DEF Note
      <4> QED
        BY <3>1, <4>1
    <3>3. CASE \/ pc'[e] = "deliver" /\ attempt'[e].outcome = "open"
               \/ pc'[e] = "record" /\ attempt'[e].outcome = "failed"
      <4>1. \A x \in Evals : x = e => DeliveryAt(x)'
        BY <3>1, <3>3 DEF DeliveryAt, Notes, Honest
      <4> QED
        BY <1>2, <2>2, <2>3, <4>1
    <3> QED
      BY <2>2, <3>2, <3>3
  <2>4. CASE /\ pc'[e] = "record" /\ told' = told \cup {Note(e)}
             /\ attempt'[e].outcome = "sent" /\ attempt'[e].target = attempt[e].target
    <3>1. Note(e).by = e /\ Note(e).rule = current[e] /\ Note(e).target = attempt[e].target
      BY DEF Note
    <3>2. {n \in told' : n.by = e /\ n.rule = current'[e]} = {Note(e)}
      BY <2>1, <2>2, <2>4, <3>1 DEF Notes
    <3>3. \A x \in Evals : x = e => DeliveryAt(x)'
      BY <2>4, <3>1, <3>2 DEF DeliveryAt, Notes, Honest
    <3> QED
      BY <1>2, <2>2, <2>4, <3>3
  <2> QED
    BY <2>2, <2>3, <2>4
<1>6. ASSUME NEW e \in Evals, RecordEvent(e)
      PROVE  DeliveryInv'
  <2> DEFINE new == [by |-> e, rule |-> current[e], at |-> at[e], status |-> found[e][current[e]],
                     previous |-> prior[e], delivery |-> attempt[e].outcome, target |-> attempt[e].target]
  <2>1. /\ OthersStay(e) /\ told' = told /\ pc[e] = "record" /\ pc'[e] \in {"compare", "done"}
        /\ events' = events \cup {new}
    BY <1>6, RecordDoes
  <2>2. Honest(attempt[e].outcome, attempt[e].target, Notes(e, current[e]))
    BY <2>1 DEF DeliveryInv, DeliveryAt
  <2>3. new.by = e /\ new.rule = current[e] /\ new.delivery = attempt[e].outcome /\ new.target = attempt[e].target
    OBVIOUS
  <2> HIDE DEF new
  <2>4. Honest(new.delivery, new.target, {n \in told' : n.by = new.by /\ n.rule = new.rule})
    BY <2>1, <2>2, <2>3 DEF Notes
  <2>5. \A ev \in events' : Honest(ev.delivery, ev.target, {n \in told' : n.by = ev.by /\ n.rule = ev.rule})
    BY <1>1, <2>1, <2>4 DEF Notes
  <2>6. ASSUME NEW x \in Evals
        PROVE  DeliveryAt(x)'
    <3>1. CASE x = e
      BY <2>1, <3>1 DEF DeliveryAt
    <3>2. CASE x # e
      BY <2>1, <3>2, OthersKeepNotes
    <3> QED
      BY <3>1, <3>2
  <2> QED
    BY <2>5, <2>6 DEF DeliveryInv, Notes, Honest
<1>7. CASE UNCHANGED <<pc, current, attempt, events, told>>
  BY <1>7 DEF DeliveryInv, DeliveryAt, Notes, Honest
<1>8. CASE \E r \in Rules : EditRule(r)
  BY <1>7, <1>8, EditDoes
<1> QED
  BY <1>3, <1>4, <1>5, <1>6, <1>7, <1>8 DEF Next, Evaluate, vars, evaluation

-----------------------------------------------------------------------------
\* An evaluation that has begun keeps its mates and its time.
LEMMA MatesStay ==
  ASSUME AlertAssumption, Types, LineInv, [Next]_vars, NEW e \in Evals, at[e] > 0
  PROVE  at'[e] = at[e] /\ mates[e] \subseteq mates'[e]
<1>1. CASE ~ \E x \in Evals : Stamp(x)
  BY <1>1, OthersLeaveMates
<1>2. ASSUME NEW x \in Evals, Stamp(x)
      PROVE  at'[e] = at[e] /\ mates[e] \subseteq mates'[e]
  <2>1. /\ OthersStay(x) /\ pc[x] = "stamp"
        /\ \A y \in Evals \ {x} : mates'[y] = IF y \in Active THEN mates[y] \cup {x} ELSE mates[y]
    BY <1>2, StampDoes
  <2>2. x # e
    BY <2>1 DEF LineInv, LineAt
  <2> QED
    BY <2>1, <2>2 DEF OthersStay
<1> QED
  BY <1>1, <1>2

\* The events before an evaluation that is alone are all there: the earlier
\* ones have ended.
LEMMA FollowsStays ==
  ASSUME AlertAssumption, Types, LineInv, MatesInv, [Next]_vars,
         NEW e \in Evals, mates[e] = {}, NEW time, time = at[e],
         NEW status, NEW r, Follows(status, r, time)
  PROVE  Follows(status, r, time)'
<1>1. CASE events' = events
  BY <1>1 DEF Follows
<1>2. ASSUME NEW x \in Evals, RecordEvent(x)
      PROVE  Follows(status, r, time)'
  <2> DEFINE new == [by |-> x, rule |-> current[x], at |-> at[x], status |-> found[x][current[x]],
                     previous |-> prior[x], delivery |-> attempt[x].outcome, target |-> attempt[x].target]
  <2>1. events' = events \cup {new} /\ x \in Active /\ new.at = at[x]
    BY <1>2, RecordDoes DEF Active
  <2>2. ~ (new.at < time)
    <3>1. CASE x = e
      <4>1. at[x] \in Nat
        BY DEF Types
      <4> QED
        BY <2>1, <3>1, <4>1
    <3>2. CASE x # e
      BY <2>1, <3>2, AloneIsLast
    <3> QED
      BY <3>1, <3>2
  <2> HIDE DEF new
  <2> QED
    BY <2>1, <2>2 DEF Follows
<1> QED
  BY <1>1, <1>2, EventsGrow

\* A comparison of an evaluation that is alone is with the last event before it.
LEMMA ComparesWithLast ==
  ASSUME Types, LineInv, ToldInv, MatesInv, LatestInv, NEW e \in Evals, pc[e] = "compare", mates[e] = {},
         NEW r \in left[e], NEW status,
         (Latest(r) = {} /\ status = NoStatus) \/ (\E ev \in Latest(r) : ev.status = status),
         NEW time, time = at[e]
  PROVE  Follows(status, r, time)
<1>1. ASSUME NEW ev \in events, ev.rule = r
      PROVE  ev.at < time
  <2>1. ev.by \in Evals /\ ev.at = at[ev.by] /\ r \notin left[ev.by]
    BY <1>1 DEF Types, ToldInv, Settled
  <2>2. ev.by # e
    BY <2>1
  <2>3. e \in Active
    BY DEF Active
  <2> QED
    BY <2>1, <2>2, <2>3, AloneIsLast
<1>2. CASE Latest(r) = {} /\ status = NoStatus
  BY <1>2 DEF LatestInv, Follows
<1>3. CASE \E ev \in Latest(r) : ev.status = status
  BY <1>1, <1>3 DEF Latest, Follows
<1> QED
  BY <1>2, <1>3

\* What a goroutine that does not move knows of the events stays so.
LEMMA OthersKeepChain ==
  ASSUME AlertAssumption, Types, LineInv, MatesInv, ChainInv, [Next]_vars,
         NEW e \in Evals, pc[e] \in {"deliver", "record"},
         UNCHANGED <<found[e], current[e], prior[e]>>
  PROVE  ChainAt(e)'
<1>1. at[e] > 0
  BY DEF LineInv, LineAt
<1>2. at'[e] = at[e] /\ mates[e] \subseteq mates'[e]
  BY <1>1, MatesStay
<1>3. SUFFICES ASSUME mates'[e] = {} PROVE ChainAt(e)'
  BY DEF ChainAt
<1>4. mates[e] = {} /\ prior[e] # found[e][current[e]] /\ Follows(prior[e], current[e], at[e])
  BY <1>2, <1>3 DEF ChainInv, ChainAt
<1>5. PICK status, r, time : status = prior[e] /\ r = current[e] /\ time = at[e]
  OBVIOUS
<1>6. Follows(status, r, time)'
  BY <1>4, <1>5, FollowsStays
<1>7. status = prior'[e] /\ r = current'[e] /\ time = at'[e] /\ prior'[e] # found'[e][current'[e]]
  BY <1>2, <1>4, <1>5
<1> QED
  BY <1>6, <1>7 DEF ChainAt, Follows

\* The event a lone evaluation follows stays the latest until it records.
LEMMA ChainStep ==
  ASSUME AlertAssumption, Types, LineInv, ToldInv, MatesInv, LatestInv, ChainInv, [Next]_vars
  PROVE  ChainInv'
<1>1. ASSUME NEW ev \in events, mates'[ev.by] = {}
      PROVE  /\ ev.previous # ev.status
             /\ \A status, r, time : status = ev.previous /\ r = ev.rule /\ time = ev.at =>
                  Follows(status, r, time)'
  <2>1. ev.by \in Evals /\ at[ev.by] > 0 /\ ev.at = at[ev.by]
    BY DEF Types, ToldInv, Settled
  <2>2. mates[ev.by] = {}
    BY <1>1, <2>1, MatesStay
  <2>3. ev.previous # ev.status /\ Follows(ev.previous, ev.rule, ev.at)
    BY <2>2 DEF ChainInv
  <2> QED
    BY <2>1, <2>2, <2>3, FollowsStays
<1>2. ASSUME NEW e \in Evals, RecordEvent(e), NEW ev \in events', ev \notin events, mates'[ev.by] = {}
      PROVE  /\ ev.previous # ev.status
             /\ \A status, r, time : status = ev.previous /\ r = ev.rule /\ time = ev.at =>
                  Follows(status, r, time)'
  <2>1. /\ ev.by = e /\ ev.rule = current[e] /\ ev.at = at[e] /\ ev.status = found[e][current[e]]
        /\ ev.previous = prior[e] /\ mates' = mates /\ pc[e] = "record"
    BY <1>2, RecordDoes
  <2>2. prior[e] # found[e][current[e]] /\ Follows(prior[e], current[e], at[e]) /\ mates[e] = {}
    BY <1>2, <2>1 DEF ChainInv, ChainAt
  <2> QED
    BY <2>1, <2>2, FollowsStays
<1>3. \A ev \in events' : mates'[ev.by] = {} =>
        /\ ev.previous # ev.status
        /\ \A status, r, time : status = ev.previous /\ r = ev.rule /\ time = ev.at =>
             Follows(status, r, time)'
  BY <1>1, <1>2, EventsGrow
<1>4. ASSUME NEW e \in Evals, OthersStay(e), \A x \in Evals : x = e => ChainAt(x)'
      PROVE  \A x \in Evals : ChainAt(x)'
  <2>1. ASSUME NEW x \in Evals, x # e
        PROVE  ChainAt(x)'
    <3>1. UNCHANGED <<pc[x], found[x], current[x], prior[x]>>
      BY <1>4, <2>1 DEF OthersStay
    <3>2. CASE pc[x] \in {"deliver", "record"}
      BY <3>1, <3>2, OthersKeepChain
    <3>3. CASE pc[x] \notin {"deliver", "record"}
      BY <3>1, <3>3 DEF ChainAt
    <3> QED
      BY <3>2, <3>3
  <2> QED
    BY <1>4, <2>1
<1>5. ASSUME NEW e \in Evals, InsertTrace(e) \/ List(e) \/ Stamp(e) \/ Query(e) \/ RecordEvent(e) \/ Break(e)
      PROVE  \A x \in Evals : ChainAt(x)'
  <2>1. OthersStay(e) /\ pc'[e] \notin {"deliver", "record"}
    BY <1>5, InsertDoes, ListDoes, StampDoes, QueryDoes, RecordDoes, BreakDoes
  <2>2. \A x \in Evals : x = e => ChainAt(x)'
    BY <2>1 DEF ChainAt
  <2> QED
    BY <1>4, <2>1, <2>2
<1>6. ASSUME NEW e \in Evals, Compare(e)
      PROVE  \A x \in Evals : ChainAt(x)'
  <2>1. OthersStay(e) /\ pc[e] = "compare" /\ UNCHANGED <<at, found, events, mates>>
    BY <1>6, CompareDoes
  <2>2. \A x \in Evals : x = e => ChainAt(x)'
    <3>1. CASE pc'[e] \notin {"deliver", "record"}
      BY <3>1 DEF ChainAt
    <3>2. CASE pc'[e] \in {"deliver", "record"} /\ mates[e] = {}
      <4>1. PICK r \in left[e] :
              /\ current'[e] = r /\ prior'[e] # found[e][r]
              /\ \/ Latest(r) = {} /\ prior'[e] = NoStatus
                 \/ \E ev \in Latest(r) : ev.status = prior'[e]
        BY <1>6, <3>2, CompareDoes
      <4>2. PICK status, time : status = prior'[e] /\ time = at[e]
        OBVIOUS
      <4>3. Follows(status, r, time)
        BY <2>1, <3>2, <4>1, <4>2, ComparesWithLast
      <4>4. time = at'[e] /\ prior'[e] # found'[e][current'[e]] /\ events' = events
        BY <2>1, <4>1, <4>2
      <4>5. (\/ prior[e] = NoStatus /\ \A ev \in events : ev.rule = current[e] => ~ (ev.at < at[e])
             \/ \E last \in events :
                  /\ last.rule = current[e] /\ last.at < at[e] /\ last.status = prior[e]
                  /\ \A ev \in events : ev.rule = current[e] /\ ev.at < at[e] => ev.at <= last.at)'
        BY <4>1, <4>2, <4>3, <4>4 DEF Follows
      <4>6. ChainAt(e)'
        BY <4>4, <4>5 DEF ChainAt, Follows
      <4> QED
        BY <4>6 DEF ChainAt
    <3>3. CASE mates[e] # {}
      BY <2>1, <3>3 DEF ChainAt
    <3> QED
      BY <3>1, <3>2, <3>3
  <2> QED
    BY <1>4, <2>1, <2>2
<1>7. ASSUME NEW e \in Evals, Deliver(e)
      PROVE  \A x \in Evals : ChainAt(x)'
  <2>1. /\ OthersStay(e) /\ UNCHANGED <<found, current, prior>> /\ pc[e] = "deliver"
    BY <1>7 DEF Deliver, Types, OthersStay, Goto
  <2>2. ChainAt(e)'
    BY <2>1, OthersKeepChain
  <2>3. \A x \in Evals : x = e => ChainAt(x)'
    BY <2>2 DEF ChainAt
  <2> QED
    BY <1>4, <2>1, <2>3
<1>8. CASE UNCHANGED <<pc, at, found, current, prior, events, mates>>
  BY <1>8 DEF ChainInv, ChainAt, Follows
<1>9. CASE \E r \in Rules : EditRule(r)
  BY <1>8, <1>9, EditDoes
<1>10. (\A ev \in events : mates[ev.by] = {} => ev.previous # ev.status /\ Follows(ev.previous, ev.rule, ev.at))'
  <2> SUFFICES ASSUME NEW ev \in events', mates'[ev.by] = {}
               PROVE  ev.previous # ev.status /\ Follows(ev.previous, ev.rule, ev.at)'
    BY DEF Follows
  <2>1. PICK status, r, time : status = ev.previous /\ r = ev.rule /\ time = ev.at
    OBVIOUS
  <2>2. ev.previous # ev.status /\ Follows(status, r, time)'
    BY <1>3, <2>1
  <2> QED
    BY <2>1, <2>2 DEF Follows
<1>11. ASSUME NEW e \in Evals, InsertTrace(e) \/ List(e) \/ Evaluate(e) \/ Break(e)
       PROVE  ChainInv'
  <2>1. \A x \in Evals : ChainAt(x)'
    BY <1>5, <1>6, <1>7, <1>11 DEF Evaluate
  <2> QED
    BY <1>10, <2>1 DEF ChainInv
<1>12. CASE UNCHANGED vars
  BY <1>8, <1>12 DEF vars, evaluation
<1> QED
  BY <1>9, <1>11, <1>12 DEF Next

-----------------------------------------------------------------------------
\* The first told was not recorded, or another status was recorded between the
\* two.
Caused(n1, n2) ==
  \/ \A ev \in events : ~ (ev.by = n1.by /\ ev.rule = n1.rule)
  \/ \E ev \in events : /\ ev.rule = n1.rule /\ ev.status # n1.status
                        /\ at[n1.by] < ev.at /\ ev.at < at[n2.by]

Repeats(n1, n2) ==
  /\ n1.rule = n2.rule /\ n1.status = n2.status
  /\ at[n1.by] < at[n2.by] /\ mates[n2.by] = {}

\* The cause of a repetition remains.
LEMMA CauseStays ==
  ASSUME AlertAssumption, Types, LineInv, ToldInv, MatesInv, [Next]_vars,
         NEW n1 \in told, NEW n2 \in told, Caused(n1, n2), Repeats(n1, n2),
         at'[n1.by] = at[n1.by], at'[n2.by] = at[n2.by]
  PROVE  Caused(n1, n2)'
<1>1. CASE events' = events
  BY <1>1 DEF Caused
<1>2. ASSUME NEW x \in Evals, RecordEvent(x)
      PROVE  Caused(n1, n2)'
  <2> DEFINE new == [by |-> x, rule |-> current[x], at |-> at[x], status |-> found[x][current[x]],
                     previous |-> prior[x], delivery |-> attempt[x].outcome, target |-> attempt[x].target]
  <2>1. events' = events \cup {new} /\ x \in Active /\ new.by = x
    BY <1>2, RecordDoes DEF Active
  <2>2. n1.by # x
    <3>1. n1.by \in Evals /\ n2.by \in Evals /\ at[n1.by] \in Nat /\ at[n2.by] \in Nat
      BY DEF Types
    <3>2. n1.by # n2.by /\ at[n1.by] < at[n2.by] /\ mates[n2.by] = {}
      BY <3>1 DEF Repeats
    <3>3. n1.by \notin Active
      BY <3>1, <3>2, AloneIsLast
    <3> QED
      BY <2>1, <3>3
  <2> HIDE DEF new
  <2> QED
    BY <2>1, <2>2 DEF Caused
<1> QED
  BY <1>1, <1>2, EventsGrow

\* An evaluation that is alone tells what is not the status of the last event.
LEMMA NewsIsNoRepeat ==
  ASSUME Types, LineInv, ToldInv, ChainInv,
         NEW e \in Evals, pc[e] = "deliver", mates[e] = {},
         NEW n \in told, n.rule = current[e], n.status = found[e][current[e]], at[n.by] < at[e],
         NEW known \in events, known.by = n.by, known.rule = n.rule
  PROVE  \E ev \in events : /\ ev.rule = n.rule /\ ev.status # n.status
                            /\ at[n.by] < ev.at /\ ev.at < at[e]
<1>1. prior[e] # found[e][current[e]] /\ Follows(prior[e], current[e], at[e])
  BY DEF ChainInv, ChainAt
<1>2. known.at = at[n.by] /\ at[n.by] > 0 /\ n.status = found[n.by][n.rule] /\ known.status = n.status
  BY DEF ToldInv, Settled
<1>3. PICK last \in events : /\ last.rule = current[e] /\ last.at < at[e] /\ last.status = prior[e]
                             /\ \A ev \in events : ev.rule = current[e] /\ ev.at < at[e] => ev.at <= last.at
  BY <1>1, <1>2 DEF Follows
<1>4. known.at <= last.at
  BY <1>2, <1>3
<1>5. last.at # known.at
  <2> SUFFICES ASSUME last.at = known.at PROVE FALSE
    OBVIOUS
  <2>1. last.by \in Evals /\ n.by \in Evals /\ at[last.by] = last.at
    BY DEF Types, ToldInv
  <2>2. last.by = n.by
    BY <1>2, <2>1 DEF LineInv
  <2>3. last.status = found[last.by][last.rule]
    BY DEF ToldInv
  <2> QED
    BY <1>1, <1>2, <1>3, <2>2, <2>3
<1>6. known.at \in Nat /\ last.at \in Nat
  BY DEF Types
<1> QED
  BY <1>1, <1>2, <1>3, <1>4, <1>5, <1>6

\* A repeat that is new has a cause, and a cause does not go away.
LEMMA RepeatsStep ==
  ASSUME AlertAssumption, Types, LineInv, ToldInv, MatesInv, ChainInv, RepeatsNeedCause, [Next]_vars
  PROVE  \A n1, n2 \in told' : Repeats(n1, n2)' => Caused(n1, n2)'
<1> SUFFICES ASSUME NEW n1 \in told', NEW n2 \in told', Repeats(n1, n2)'
             PROVE  Caused(n1, n2)'
  OBVIOUS
<1>1. ASSUME NEW n \in told
      PROVE  /\ n.by \in Evals /\ at[n.by] \in Nat /\ at'[n.by] = at[n.by]
             /\ mates[n.by] \subseteq mates'[n.by]
  <2>1. n.by \in Evals /\ at[n.by] > 0
    BY DEF Types, ToldInv, Settled
  <2> QED
    BY <2>1, MatesStay DEF Types
<1>2. CASE n1 \in told /\ n2 \in told
  <2>1. Repeats(n1, n2)
    BY <1>1, <1>2 DEF Repeats
  <2>2. Caused(n1, n2)
    BY <1>2, <2>1 DEF RepeatsNeedCause, Repeats, Caused
  <2> QED
    BY <1>1, <1>2, <2>1, <2>2, CauseStays
<1>3. CASE n1 \notin told \/ n2 \notin told
  <2>1. PICK e \in Evals : /\ Deliver(e) /\ pc[e] = "deliver" /\ told' = told \cup {Note(e)}
                           /\ UNCHANGED <<current, left, found, at>>
    BY <1>3, ToldGrows
  <2>2. UNCHANGED <<events, mates>>
    BY <2>1 DEF Deliver
  <2>3. Note(e).by = e /\ Note(e).rule = current[e] /\ Note(e).status = found[e][current[e]]
    BY DEF Note
  <2>4. Repeats(n1, n2)
    BY <2>1, <2>2 DEF Repeats
  <2>5. CASE n2 = Note(e)
    <3>1. n1 # n2 /\ n1 \in told
      <4>1. at[e] \in Nat
        BY DEF Types
      <4> QED
        BY <2>1, <2>3, <2>4, <2>5, <4>1 DEF Repeats
    <3>2. \A known \in events : known.by = n1.by /\ known.rule = n1.rule =>
            \E ev \in events : /\ ev.rule = n1.rule /\ ev.status # n1.status
                               /\ at[n1.by] < ev.at /\ ev.at < at[e]
      BY <2>1, <2>3, <2>4, <2>5, <3>1, NewsIsNoRepeat DEF Repeats
    <3> QED
      BY <2>1, <2>2, <2>3, <2>5, <3>2 DEF Caused
  <2>6. CASE n2 # Note(e)
    <3>1. n1 = Note(e) /\ n2 \in told
      BY <1>3, <2>1, <2>6
    <3>2. n1.by = e /\ e \in Active /\ n2.by \in Evals
      BY <1>1, <2>1, <2>3, <3>1 DEF Active
    <3>3. at[e] \in Nat /\ at[n2.by] \in Nat
      BY <3>2 DEF Types
    <3>4. e # n2.by /\ at[e] < at[n2.by] /\ mates[n2.by] = {}
      BY <2>4, <3>2, <3>3 DEF Repeats
    <3> QED
      BY <3>2, <3>4, AloneIsLast
  <2> QED
    BY <2>5, <2>6
<1> QED
  BY <1>2, <1>3

-----------------------------------------------------------------------------
\* What the last evaluation has seen or made stays the latest, as nobody else
\* records.
LEMMA OthersKeepCatchUp ==
  ASSUME AlertAssumption, Types, LineInv, MatesInv, CatchUpInv, [Next]_vars,
         NEW e \in Evals, UNCHANGED <<pc[e], left[e], found[e], current[e]>>,
         \A x \in Evals \ {e} : at'[x] < at'[e] => at[x] <= at'[x]
  PROVE  CatchUpAt(e)'
<1>1. SUFFICES ASSUME pc[e] \in Comparing \cup {"done"}, mates'[e] = {}, \A x \in Evals \ {e} : at'[x] < at'[e]
               PROVE  CatchUpAt(e)'
  BY DEF CatchUpAt
<1>2. at[e] > 0 /\ at[e] \in Nat /\ \A x \in Evals : at[x] \in Nat /\ at'[x] \in Nat
  <2>1. Types'
    BY TypesStep
  <2> QED
    BY <1>1, <2>1 DEF Types, LineInv, LineAt, Comparing
<1>3. at'[e] = at[e] /\ mates[e] = {}
  BY <1>1, <1>2, MatesStay
<1>4. \A x \in Evals \ {e} : at[x] < at[e]
  BY <1>1, <1>2, <1>3
<1>5. events' = events
  <2> SUFFICES ASSUME NEW x \in Evals, RecordEvent(x) PROVE FALSE
    BY EventsGrow
  <2>1. x \in Active /\ pc'[x] # pc[x]
    BY RecordDoes DEF Active
  <2>2. x # e
    BY <2>1
  <2> QED
    BY <1>3, <1>4, <2>1, <2>2, AloneIsLast
<1> QED
  BY <1>1, <1>3, <1>4, <1>5 DEF CatchUpInv, CatchUpAt, Latest

\* A change that is recorded by the last evaluation is the latest event.
LEMMA RecordCatchesUp ==
  ASSUME AlertAssumption, Types, LineInv, ToldInv, CatchUpInv, NEW e \in Evals, RecordEvent(e)
  PROVE  CatchUpAt(e)'
<1> DEFINE new == [by |-> e, rule |-> current[e], at |-> at[e], status |-> found[e][current[e]],
                   previous |-> prior[e], delivery |-> attempt[e].outcome, target |-> attempt[e].target]
<1>1. /\ events' = events \cup {new} /\ UNCHANGED <<at, left, found, mates>>
      /\ pc[e] = "record" /\ current'[e] = NoRule
  BY RecordDoes
<1>2. new.rule = current[e] /\ new.at = at[e] /\ new.status = found[e][current[e]]
  OBVIOUS
<1> HIDE DEF new
<1>3. SUFFICES ASSUME mates[e] = {}, \A x \in Evals \ {e} : at[x] < at[e],
                      NEW r \in DOMAIN found[e] \ left[e]
               PROVE  \E ev \in Latest(r)' : ev.status = found[e][r]
  BY <1>1 DEF CatchUpAt
<1>4. CASE r = current[e]
  <2>1. at[e] \in Nat
    BY DEF Types
  <2>2. ASSUME NEW ev \in events, ev.rule = r
        PROVE  ev.at <= new.at
    <3>1. ev.by \in Evals /\ ev.at = at[ev.by] /\ current[ev.by] # ev.rule /\ ev.at \in Nat
      BY DEF Types, ToldInv
    <3>2. ev.by # e
      BY <1>4, <2>2, <3>1
    <3> QED
      BY <1>2, <1>3, <2>1, <3>1, <3>2
  <2>3. new \in Latest(r)'
    BY <1>1, <1>2, <1>4, <2>1, <2>2 DEF Latest
  <2> QED
    BY <1>2, <1>4, <2>3
<1>5. CASE r # current[e]
  <2>1. \E ev \in Latest(r) : ev.status = found[e][r]
    BY <1>1, <1>3, <1>5 DEF CatchUpInv, CatchUpAt, Comparing
  <2>2. Latest(r)' = Latest(r)
    BY <1>1, <1>2, <1>5 DEF Latest
  <2> QED
    BY <2>1, <2>2
<1> QED
  BY <1>4, <1>5

\* The rules a lone last evaluation is done with stay caught up.
LEMMA CatchUpStep ==
  ASSUME AlertAssumption, Types, LineInv, ToldInv, MatesInv, CatchUpInv, [Next]_vars
  PROVE  CatchUpInv'
<1>1. \A e, x \in Evals : x # e /\ at'[x] < at'[e] => at[x] <= at'[x]
  <2> SUFFICES ASSUME NEW x \in Evals PROVE at[x] <= at'[x]
    OBVIOUS
  <2>1. at[x] \in Nat /\ Types'
    BY TypesStep DEF Types
  <2>2. CASE at[x] > 0
    BY <2>1, <2>2, MatesStay
  <2>3. CASE at[x] = 0
    BY <2>1, <2>3 DEF Types
  <2> QED
    BY <2>1, <2>2, <2>3
<1>2. ASSUME NEW e \in Evals, OthersStay(e), \A x \in Evals : x = e => CatchUpAt(x)'
      PROVE  CatchUpInv'
  <2>1. ASSUME NEW x \in Evals, x # e
        PROVE  CatchUpAt(x)'
    <3>1. UNCHANGED <<pc[x], left[x], found[x], current[x]>>
      BY <1>2, <2>1 DEF OthersStay
    <3> QED
      BY <1>1, <3>1, OthersKeepCatchUp
  <2> QED
    BY <1>2, <2>1 DEF CatchUpInv
<1>3. ASSUME NEW e \in Evals, InsertTrace(e) \/ List(e) \/ Break(e)
      PROVE  CatchUpInv'
  <2>1. OthersStay(e) /\ pc'[e] \in {"list", "stamp", "broken"}
    BY <1>3, InsertDoes, ListDoes, BreakDoes
  <2>2. \A x \in Evals : x = e => CatchUpAt(x)'
    BY <2>1 DEF CatchUpAt, Comparing
  <2> QED
    BY <1>2, <2>1, <2>2
<1>4. ASSUME NEW e \in Evals, Stamp(e) \/ Query(e)
      PROVE  CatchUpInv'
  <2>1. /\ OthersStay(e) /\ pc'[e] \in {"query", "compare", "done"}
        /\ pc'[e] \in {"compare", "done"} => left'[e] = DOMAIN found'[e]
    BY <1>4, StampDoes, QueryDoes
  <2>2. \A x \in Evals : x = e => CatchUpAt(x)'
    BY <2>1 DEF CatchUpAt, Comparing
  <2> QED
    BY <1>2, <2>1, <2>2
<1>5. ASSUME NEW e \in Evals, Compare(e)
      PROVE  CatchUpInv'
  <2>1. OthersStay(e) /\ pc[e] = "compare" /\ UNCHANGED <<at, found, events, mates>> /\ current[e] = NoRule
    BY <1>5, CompareDoes DEF LineInv, LineAt
  <2>2. PICK r \in left[e] :
          /\ left'[e] = left[e] \ {r}
          /\ \/ current'[e] = current[e] /\ \E ev \in Latest(r) : ev.status = found[e][r]
             \/ current'[e] = r
    BY <1>5, CompareDoes
  <2>3. ASSUME mates[e] = {}, \A x \in Evals \ {e} : at[x] < at[e],
               NEW q \in DOMAIN found[e] \ (left'[e] \cup {current'[e]})
        PROVE  \E ev \in Latest(q) : ev.status = found[e][q]
    <3>1. CASE q = r
      BY <2>2, <2>3, <3>1
    <3>2. CASE q # r
      <4>1. q \notin left[e] /\ q # NoRule
        BY <2>2, <2>3, <3>2 DEF Types, AlertAssumption
      <4> QED
        BY <2>1, <2>3, <4>1 DEF CatchUpInv, CatchUpAt, Comparing
    <3> QED
      BY <3>1, <3>2
  <2>4. CatchUpAt(e)'
    BY <2>1, <2>3 DEF CatchUpAt, Latest
  <2>5. \A x \in Evals : x = e => CatchUpAt(x)'
    BY <2>4 DEF CatchUpAt
  <2> QED
    BY <1>2, <2>1, <2>5
<1>6. ASSUME NEW e \in Evals, Deliver(e)
      PROVE  CatchUpInv'
  <2>1. /\ OthersStay(e) /\ UNCHANGED <<at, left, found, current, events, mates>>
        /\ pc[e] = "deliver"
    BY <1>6 DEF Deliver, Types, OthersStay, Goto
  <2>2. CatchUpAt(e)'
    BY <2>1 DEF CatchUpInv, CatchUpAt, Latest, Comparing
  <2>3. \A x \in Evals : x = e => CatchUpAt(x)'
    BY <2>2 DEF CatchUpAt
  <2> QED
    BY <1>2, <2>1, <2>3
<1>7. ASSUME NEW e \in Evals, RecordEvent(e)
      PROVE  CatchUpInv'
  <2>1. OthersStay(e) /\ CatchUpAt(e)'
    BY <1>7, RecordDoes, RecordCatchesUp
  <2>2. \A x \in Evals : x = e => CatchUpAt(x)'
    BY <2>1 DEF CatchUpAt
  <2> QED
    BY <1>2, <2>1, <2>2
<1>8. CASE UNCHANGED <<pc, at, left, found, current, events, mates>>
  BY <1>1, <1>8, OthersKeepCatchUp DEF CatchUpInv
<1>9. CASE \E r \in Rules : EditRule(r)
  BY <1>8, <1>9, EditDoes
<1> QED
  BY <1>3, <1>4, <1>5, <1>6, <1>7, <1>8, <1>9 DEF Next, Evaluate, vars, evaluation

-----------------------------------------------------------------------------
\* The clock goes on with each trace and each evaluation.
Begun    == {e \in Evals : at[e] > 0}
ClockInv == clock = Len(created) + Cardinality(Begun)

\* An interval from one has as many elements as its last says.
LEMMA IntervalSize ==
  ASSUME NEW n \in Nat
  PROVE  IsFiniteSet(1 .. n) /\ Cardinality(1 .. n) = n
<1>1. Cardinality(1 .. n) = IF 1 > n THEN 0 ELSE n - 1 + 1
  BY FS_Interval
<1>2. IsFiniteSet(1 .. n)
  BY FS_Interval
<1> QED
  BY <1>1, <1>2

\* There is one evaluation for each trace.
LEMMA EvalsFinite ==
  ASSUME AlertAssumption
  PROVE  /\ IsFiniteSet(Evals) /\ Cardinality(Evals) = Len(TraceOf) /\ Len(TraceOf) \in Nat
         /\ Evals = 1 .. Len(TraceOf)
<1>1. \A T : TraceOf \in Seq(T) => DOMAIN TraceOf = 1 .. Len(TraceOf) /\ Len(TraceOf) \in Nat
  OBVIOUS
<1>2. Evals = 1 .. Len(TraceOf) /\ Len(TraceOf) \in Nat
  BY <1>1 DEF Evals, AlertAssumption
<1> QED
  BY <1>2, IntervalSize

\* No more evaluations begin than there are.
LEMMA BegunFinite ==
  ASSUME AlertAssumption
  PROVE  IsFiniteSet(Begun) /\ Cardinality(Begun) \in Nat /\ Cardinality(Begun) <= Cardinality(Evals)
<1>1. Begun \subseteq Evals
  BY DEF Begun
<1> QED
  BY <1>1, EvalsFinite, FS_Subset, FS_CardinalityType

\* The clock moves at each insert and whenever an evaluation begins.
LEMMA ClockStep ==
  ASSUME AlertAssumption, Types, LineInv, ClockInv, [Next]_vars
  PROVE  ClockInv'
<1>1. ASSUME NEW e \in Evals, InsertTrace(e)
      PROVE  ClockInv'
  <2>1. created' = Append(created, clock) /\ clock' = clock + 1 /\ at' = at
    BY <1>1 DEF InsertTrace
  <2>2. Len(created') = Len(created) + 1 /\ Len(created) \in Nat
    BY <2>1 DEF Types
  <2>3. Begun' = Begun
    BY <2>1 DEF Begun
  <2>4. Cardinality(Begun') = Cardinality(Begun) /\ Cardinality(Begun) \in Nat
    BY <2>3, BegunFinite
  <2> QED
    BY <2>1, <2>2, <2>4 DEF ClockInv
<1>2. ASSUME NEW e \in Evals, Stamp(e)
      PROVE  ClockInv'
  <2>1. /\ OthersStay(e) /\ pc[e] = "stamp" /\ at'[e] = clock /\ clock' = clock + 1 /\ created' = created
        /\ clock > 0 /\ at[e] = 0
    BY <1>2, StampDoes DEF Stamp, LineInv, LineAt
  <2>2. Begun' = Begun \cup {e} /\ e \notin Begun
    BY <2>1 DEF Begun, OthersStay
  <2>3. Cardinality(Begun') = Cardinality(Begun) + 1
    BY <2>2, BegunFinite, FS_AddElement
  <2> QED
    BY <2>1, <2>3, BegunFinite, TimesAreNumbers DEF ClockInv
<1>3. CASE UNCHANGED <<clock, created, at>>
  BY <1>3 DEF ClockInv, Begun
<1>4. ASSUME NEW e \in Evals, List(e) \/ Query(e) \/ Compare(e) \/ Deliver(e) \/ RecordEvent(e) \/ Break(e)
      PROVE  UNCHANGED <<clock, created, at>>
  BY <1>4 DEF List, Query, Compare, Deliver, RecordEvent, Break
<1> QED
  BY <1>1, <1>2, <1>3, <1>4 DEF Next, Evaluate, EditRule, vars

-----------------------------------------------------------------------------
AlertInv ==
  /\ Types /\ ClockInv /\ LineInv /\ ToldInv
  /\ MatesInv /\ LatestInv
  /\ DeliveryInv /\ ChainInv /\ CatchUpInv /\ RepeatsNeedCause

\* The invariant is inductive.
LEMMA AlertInvHolds == Spec => []AlertInv
<1>1. Init => AlertInv
  <2> SUFFICES ASSUME Init PROVE AlertInv
    OBVIOUS
  <2>1. Types
    BY InitTypes, AlertAssumption
  <2>2. Begun = {} /\ Len(created) = 0 /\ clock = 0
    BY DEF Init, Begun
  <2>3. ClockInv
    BY <2>2, FS_EmptySet DEF ClockInv
  <2>4. LineInv
    BY DEF Init, LineInv, LineAt, Comparing
  <2>5. MatesInv
    BY DEF Init, MatesInv, Active
  <2>6. ToldInv /\ LatestInv /\ RepeatsNeedCause
    BY DEF Init, ToldInv, LatestInv, RepeatsNeedCause
  <2>7. DeliveryInv /\ ChainInv /\ CatchUpInv
    BY DEF Init, DeliveryInv, DeliveryAt, ChainInv, ChainAt, CatchUpInv, CatchUpAt, Comparing
  <2> QED
    BY <2>1, <2>3, <2>4, <2>5, <2>6, <2>7 DEF AlertInv
<1>2. AlertInv /\ [Next]_vars => AlertInv'
  <2> SUFFICES ASSUME AlertInv, [Next]_vars PROVE AlertInv'
    OBVIOUS
  <2>1. /\ Types /\ ClockInv /\ LineInv /\ ToldInv
        /\ MatesInv /\ LatestInv
        /\ DeliveryInv /\ ChainInv /\ CatchUpInv /\ RepeatsNeedCause
    BY DEF AlertInv
  <2>2. Types' /\ ClockInv' /\ LineInv' /\ ToldInv'
    BY <2>1, AlertAssumption, TypesStep, ClockStep, LineStep, ToldStep
  <2>3. MatesInv' /\ LatestInv' /\ DeliveryInv'
    BY <2>1, AlertAssumption, MatesStep, LatestStep, DeliveryStep
  <2>4. ChainInv' /\ CatchUpInv'
    BY <2>1, AlertAssumption, ChainStep, CatchUpStep
  <2>5. RepeatsNeedCause'
    <3>1. \A n1, n2 \in told' : Repeats(n1, n2)' => Caused(n1, n2)'
      BY <2>1, AlertAssumption, RepeatsStep
    <3> QED
      BY <3>1 DEF RepeatsNeedCause, Repeats, Caused
  <2> QED
    BY <2>2, <2>3, <2>4, <2>5 DEF AlertInv
<1> QED
  BY <1>1, <1>2, PTL DEF Spec

\* Every variable has its type; an event is of the evaluation it names.
THEOREM TypeCorrect == Spec => []TypeOK
<1>1. AlertInv => TypeOK
  <2> SUFFICES ASSUME AlertInv PROVE TypeOK
    OBVIOUS
  <2>1. Types /\ ClockInv /\ ToldInv
    BY DEF AlertInv
  <2>2. clock \in 0 .. 2 * Cardinality(Evals)
    <3>1. /\ clock = Len(created) + Cardinality(Begun) /\ Len(created) \in Nat
          /\ Len(created) <= Cardinality(Evals) /\ Cardinality(Evals) \in Nat
      BY <2>1, EvalsFinite, AlertAssumption, TimesAreNumbers DEF ClockInv, Types
    <3>2. Cardinality(Begun) \in Nat /\ Cardinality(Begun) <= Cardinality(Evals)
      BY BegunFinite, AlertAssumption
    <3> QED
      BY <3>1, <3>2
  <2>3. DOMAIN created \subseteq Evals
    <3>1. DOMAIN created = 1 .. Len(created) /\ Len(created) \in Nat /\ Len(created) <= Len(TraceOf)
      BY <2>1 DEF Types
    <3> QED
      BY <3>1, EvalsFinite, AlertAssumption
  <2>4. ASSUME NEW e \in Evals
        PROVE  /\ DOMAIN found[e] \subseteq Rules /\ {found[e][r] : r \in DOMAIN found[e]} \subseteq Statuses
               /\ attempt[e].target \in 1 .. Len(Targets) + 1 /\ attempt[e].number \in 1 .. Attempts
               /\ attempt[e].outcome \in Outcomes
    <3>1. PICK S \in SUBSET Rules : found[e] \in [S -> Statuses]
      BY <2>1 DEF Types
    <3>2. attempt[e] \in [target : 1 .. Len(Targets) + 1, number : 1 .. Attempts, outcome : Outcomes]
      BY <2>1 DEF Types
    <3> QED
      BY <3>1, <3>2
  <2> QED
    BY <2>1, <2>2, <2>3, <2>4 DEF Types, ToldInv, TypeOK
<1> QED
  BY <1>1, AlertInvHolds, PTL

\* An event says what became of its notification.
THEOREM EventsAreHonest == Spec => []DeliveryHonest
<1>1. AlertInv => DeliveryHonest
  BY DEF AlertInv, DeliveryInv, Honest, Notes, DeliveryHonest
<1> QED
  BY <1>1, AlertInvHolds, PTL

\* An event of an evaluation that overlapped with no other follows the last one
\* of its rule before it.
THEOREM LoneEventsChain == Spec => []EventsChain
<1>1. AlertInv => EventsChain
  <2> SUFFICES ASSUME AlertInv, NEW ev \in events, mates[ev.by] = {}
               PROVE  LET before == {other \in events : other.rule = ev.rule /\ other.at < ev.at}
                      IN  /\ ev.previous # ev.status
                          /\ IF before = {} THEN ev.previous = NoStatus
                             ELSE \E other \in before :
                                    other.status = ev.previous /\ \A x \in before : x.at <= other.at
    BY DEF EventsChain
  <2>1. ev.previous # ev.status /\ Follows(ev.previous, ev.rule, ev.at)
    BY DEF AlertInv, ChainInv
  <2> QED
    BY <2>1 DEF Follows
<1> QED
  BY <1>1, AlertInvHolds, PTL

\* The last evaluation, if it overlapped with no other, sets the latest events
\* right.
THEOREM LastOneCatchesUp == Spec => []LatestCatchesUp
<1>1. AlertInv => LatestCatchesUp
  <2> SUFFICES ASSUME AlertInv, NEW e \in Evals, pc[e] = "done", mates[e] = {},
                      \A x \in Evals \ {e} : at[x] < at[e], NEW r \in DOMAIN found[e]
               PROVE  \E ev \in Latest(r) : ev.status = found[e][r]
    BY DEF LatestCatchesUp
  <2>1. left[e] = {} /\ current[e] = NoRule
    BY DEF AlertInv, LineInv, LineAt
  <2>2. r # NoRule
    <3>1. DOMAIN found[e] \subseteq Rules
      BY DEF AlertInv, Types
    <3> QED
      BY <3>1, AlertAssumption DEF AlertAssumption
  <2> QED
    BY <2>1, <2>2 DEF AlertInv, CatchUpInv, CatchUpAt
<1> QED
  BY <1>1, AlertInvHolds, PTL

\* A status that is told again has a cause.
THEOREM RepeatsHaveCause == Spec => []RepeatsNeedCause
<1>1. AlertInv => RepeatsNeedCause
  BY DEF AlertInv
<1> QED
  BY <1>1, AlertInvHolds, PTL

-----------------------------------------------------------------------------
(* Repeated events. *)

\* An event of the rule between the one known and an evaluation; one that is
\* later than the evaluation, of an evaluation it met.
Between(known, e) == \E ev \in events : ev.rule = known.rule /\ known.at < ev.at /\ ev.at < at[e]
Overtaken(known, e) == \E ev \in events : ev.rule = known.rule /\ at[e] < ev.at /\ ev.by \in mates[e]

\* An evaluation that found what an earlier event says overlapped with the
\* evaluation of that event, or compared with another event.
RepeatExplained(known, e) == known.by \in mates[e] \/ Between(known, e) \/ Overtaken(known, e)

\* An event an evaluation repeats: it is earlier, of one rule and one status.
IsRepeat(known, e, r, status) == known.rule = r /\ known.status = status /\ known.at < at[e]

\* It is so for the change an evaluation has in hand, and for what is recorded.
OverlapAt(e) ==
  pc[e] \in {"deliver", "record"} =>
    \A known \in events : IsRepeat(known, e, current[e], found[e][current[e]]) => RepeatExplained(known, e)

OverlapInv ==
  /\ \A e \in Evals : OverlapAt(e)
  /\ \A known, ev \in events : IsRepeat(known, ev.by, ev.rule, ev.status) => RepeatExplained(known, ev.by)

\* An explanation remains, as events and the evaluations one met are kept.
LEMMA ExplanationStays ==
  ASSUME AlertAssumption, Types, LineInv, [Next]_vars,
         NEW e \in Evals, at[e] > 0, NEW known, RepeatExplained(known, e)
  PROVE  RepeatExplained(known, e)'
<1>1. at'[e] = at[e] /\ mates[e] \subseteq mates'[e]
  BY MatesStay
<1>2. events \subseteq events'
  BY EventsGrow, RecordDoes
<1> QED
  BY <1>1, <1>2 DEF RepeatExplained, Between, Overtaken

\* An event that is recorded after a later evaluation began is of one it met.
LEMMA NewEventMet ==
  ASSUME AlertAssumption, Types, LineInv, MatesInv, [Next]_vars,
         NEW e \in Evals, NEW known \in events', known \notin events, known.at < at[e]
  PROVE  known.by \in mates'[e]
<1>1. PICK x \in Evals : RecordEvent(x)
  BY EventsGrow
<1>2. known.by = x /\ known.at = at[x] /\ pc[x] = "record" /\ mates' = mates
  BY <1>1, RecordDoes
<1>3. at[x] \in Nat /\ at[e] \in Nat
  BY DEF Types
<1>4. x # e
  BY <1>2, <1>3
<1>5. at[x] > 0 /\ x \in Active
  BY <1>2 DEF LineInv, LineAt, Active
<1> QED
  BY <1>2, <1>3, <1>4, <1>5 DEF MatesInv

\* A change is told only if the latest event says something else: an event with
\* the status that was found is not the latest.
LEMMA ComparisonExplains ==
  ASSUME AlertAssumption, Types, LineInv, ToldInv, MatesInv, LatestInv,
         NEW e \in Evals, pc[e] = "compare", NEW r \in left[e], NEW status, status # found[e][r],
         (Latest(r) = {} /\ status = NoStatus) \/ (\E ev \in Latest(r) : ev.status = status),
         NEW known \in events, IsRepeat(known, e, r, found[e][r])
  PROVE  RepeatExplained(known, e)
<1>1. known.rule = r /\ known.status = found[e][r] /\ known.at < at[e]
  BY DEF IsRepeat
<1>2. PICK last \in Latest(r) : last.status = status
  BY <1>1 DEF LatestInv
<1>3. last \in events /\ last.rule = r /\ known.at <= last.at
  BY <1>1, <1>2 DEF Latest
<1>4. /\ last.by \in Evals /\ known.by \in Evals /\ last.at = at[last.by] /\ known.at = at[known.by]
      /\ last.at \in Nat /\ known.at \in Nat /\ at[e] \in Nat /\ at[last.by] > 0
      /\ last.status = found[last.by][r] /\ known.status = found[known.by][r]
      /\ r \notin left[last.by]
  BY <1>1, <1>3 DEF Types, ToldInv, Settled
<1>5. known.at < last.at
  <2>1. last.by # known.by
    BY <1>1, <1>2, <1>4
  <2>2. at[last.by] # at[known.by]
    BY <1>4, <2>1 DEF LineInv
  <2> QED
    BY <1>3, <1>4, <2>2
<1>6. last.by # e /\ at[last.by] # at[e]
  BY <1>4 DEF LineInv
<1>7. CASE last.at < at[e]
  BY <1>1, <1>3, <1>5, <1>7 DEF RepeatExplained, Between
<1>8. CASE at[e] < last.at
  <2>1. e \in Active /\ at[e] > 0
    BY DEF Active, LineInv, LineAt
  <2>2. last.by \in mates[e]
    BY <1>4, <1>6, <1>8, <2>1 DEF MatesInv
  <2> QED
    BY <1>1, <1>3, <1>8, <2>2 DEF RepeatExplained, Overtaken
<1> QED
  BY <1>4, <1>6, <1>7, <1>8

\* Whatever an evaluation has in hand, the next step keeps it explained.
LEMMA InHandStep ==
  ASSUME AlertAssumption, Types, LineInv, MatesInv, OverlapInv, [Next]_vars,
         NEW e \in Evals, pc[e] \in {"deliver", "record"}, UNCHANGED <<found[e], current[e]>>
  PROVE  OverlapAt(e)'
<1>1. at[e] > 0 /\ at'[e] = at[e]
  BY MatesStay DEF LineInv, LineAt
<1> SUFFICES ASSUME NEW known \in events', IsRepeat(known, e, current[e], found[e][current[e]])
             PROVE  RepeatExplained(known, e)'
  BY <1>1 DEF OverlapAt, IsRepeat
<1>2. CASE known \in events
  <2>1. RepeatExplained(known, e)
    BY <1>2 DEF OverlapInv, OverlapAt
  <2> QED
    BY <1>1, <2>1, ExplanationStays
<1>3. CASE known \notin events
  <2>1. known.by \in mates'[e]
    BY <1>3, NewEventMet DEF IsRepeat
  <2> QED
    BY <2>1 DEF RepeatExplained
<1> QED
  BY <1>2, <1>3

\* No step leaves a repetition without its explanation.
LEMMA OverlapStep ==
  ASSUME AlertAssumption, Types, LineInv, ToldInv, MatesInv, LatestInv, OverlapInv, [Next]_vars
  PROVE  OverlapInv'
<1>1. ASSUME NEW e \in Evals, OthersStay(e), \A x \in Evals : x = e => OverlapAt(x)'
      PROVE  \A x \in Evals : OverlapAt(x)'
  <2>1. ASSUME NEW x \in Evals, x # e
        PROVE  OverlapAt(x)'
    <3>1. UNCHANGED <<pc[x], found[x], current[x]>>
      BY <1>1, <2>1 DEF OthersStay
    <3>2. CASE pc[x] \in {"deliver", "record"}
      BY <3>1, <3>2, InHandStep
    <3>3. CASE pc[x] \notin {"deliver", "record"}
      BY <3>1, <3>3 DEF OverlapAt
    <3> QED
      BY <3>2, <3>3
  <2> QED
    BY <1>1, <2>1
<1>2. ASSUME NEW e \in Evals, InsertTrace(e) \/ List(e) \/ Stamp(e) \/ Query(e) \/ RecordEvent(e) \/ Break(e)
      PROVE  \A x \in Evals : OverlapAt(x)'
  <2>1. OthersStay(e) /\ pc'[e] \notin {"deliver", "record"}
    BY <1>2, InsertDoes, ListDoes, StampDoes, QueryDoes, RecordDoes, BreakDoes
  <2>2. \A x \in Evals : x = e => OverlapAt(x)'
    BY <2>1 DEF OverlapAt
  <2> QED
    BY <1>1, <2>1, <2>2
<1>3. ASSUME NEW e \in Evals, Compare(e)
      PROVE  \A x \in Evals : OverlapAt(x)'
  <2>1. OthersStay(e) /\ pc[e] = "compare" /\ UNCHANGED <<at, found, events, mates>>
    BY <1>3, CompareDoes
  <2>2. CASE pc'[e] \notin {"deliver", "record"}
    BY <1>1, <2>1, <2>2 DEF OverlapAt
  <2>3. CASE pc'[e] \in {"deliver", "record"}
    <3>1. PICK r \in left[e] :
            /\ current'[e] = r /\ prior'[e] # found[e][r]
            /\ \/ Latest(r) = {} /\ prior'[e] = NoStatus
               \/ \E ev \in Latest(r) : ev.status = prior'[e]
      BY <1>3, <2>3, CompareDoes
    <3>2. PICK status : status = prior'[e]
      OBVIOUS
    <3>3. \A known \in events : IsRepeat(known, e, r, found[e][r]) => RepeatExplained(known, e)
      BY <2>1, <3>1, <3>2, ComparisonExplains
    <3>4. \A x \in Evals : x = e => OverlapAt(x)'
      BY <2>1, <3>1, <3>3 DEF OverlapAt, IsRepeat, RepeatExplained, Between, Overtaken
    <3> QED
      BY <1>1, <2>1, <3>4
  <2> QED
    BY <2>2, <2>3
<1>4. ASSUME NEW e \in Evals, Deliver(e)
      PROVE  \A x \in Evals : OverlapAt(x)'
  <2>1. OthersStay(e) /\ UNCHANGED <<found, current>> /\ pc[e] = "deliver"
    BY <1>4 DEF Deliver, Types, OthersStay, Goto
  <2>2. \A x \in Evals : x = e => OverlapAt(x)'
    BY <2>1, InHandStep
  <2> QED
    BY <1>1, <2>1, <2>2
<1>5. CASE UNCHANGED <<pc, at, found, current, events, mates>>
  BY <1>5 DEF OverlapInv, OverlapAt, IsRepeat, RepeatExplained, Between, Overtaken
<1>6. \A known, ev \in events' : IsRepeat(known, ev.by, ev.rule, ev.status)' => RepeatExplained(known, ev.by)'
  <2> SUFFICES ASSUME NEW known \in events', NEW ev \in events', IsRepeat(known, ev.by, ev.rule, ev.status)'
               PROVE  RepeatExplained(known, ev.by)'
    OBVIOUS
  <2>1. CASE ev \in events
    <3>1. ev.by \in Evals /\ at[ev.by] > 0 /\ at'[ev.by] = at[ev.by]
      BY <2>1, MatesStay DEF Types, ToldInv, Settled
    <3>2. IsRepeat(known, ev.by, ev.rule, ev.status)
      BY <3>1 DEF IsRepeat
    <3>3. CASE known \in events
      BY <2>1, <3>1, <3>2, <3>3, ExplanationStays DEF OverlapInv
    <3>4. CASE known \notin events
      BY <3>1, <3>2, <3>4, NewEventMet DEF IsRepeat, RepeatExplained
    <3> QED
      BY <3>3, <3>4
  <2>2. CASE ev \notin events
    <3>1. PICK e \in Evals : RecordEvent(e)
      BY <2>2, EventsGrow
    <3>2. /\ ev.by = e /\ ev.rule = current[e] /\ ev.at = at[e] /\ ev.status = found[e][current[e]]
          /\ pc[e] = "record" /\ UNCHANGED <<at, mates>>
      BY <2>2, <3>1, RecordDoes
    <3>3. at[e] > 0 /\ IsRepeat(known, e, current[e], found[e][current[e]])
      BY <3>2 DEF LineInv, LineAt, IsRepeat
    <3>4. CASE known \in events
      <4>1. RepeatExplained(known, e)
        BY <3>2, <3>3, <3>4 DEF OverlapInv, OverlapAt
      <4>2. RepeatExplained(known, e)'
        BY <3>3, <4>1, ExplanationStays
      <4> QED
        BY <3>2, <4>2
    <3>5. CASE known \notin events
      BY <3>2, <3>3, <3>5, NewEventMet DEF IsRepeat, RepeatExplained
    <3> QED
      BY <3>4, <3>5
  <2> QED
    BY <2>1, <2>2
<1>7. ASSUME NEW e \in Evals, InsertTrace(e) \/ List(e) \/ Evaluate(e) \/ Break(e)
      PROVE  OverlapInv'
  <2>1. \A x \in Evals : OverlapAt(x)'
    BY <1>2, <1>3, <1>4, <1>7 DEF Evaluate
  <2> QED
    BY <1>6, <2>1 DEF OverlapInv
<1>8. CASE \E r \in Rules : EditRule(r)
  BY <1>5, <1>8, EditDoes
<1>9. CASE UNCHANGED vars
  BY <1>5, <1>9 DEF vars, evaluation
<1> QED
  BY <1>7, <1>8, <1>9 DEF Next

\* No evaluation records again what the event before it says, unless it
\* overlapped with the one that said so, or with a later one whose event it
\* compared with, for any number of traces, rules and targets.
THEOREM RepeatsAreOverlaps == Spec => []RepeatsOverlap
<1>1. Init => OverlapInv
  BY DEF Init, OverlapInv, OverlapAt
<1>2. AlertInv /\ OverlapInv /\ [Next]_vars => OverlapInv'
  BY OverlapStep, AlertAssumption DEF AlertInv
<1>3. AlertInv /\ OverlapInv => RepeatsOverlap
  <2> SUFFICES ASSUME AlertInv, OverlapInv, NEW ev1 \in events, NEW ev2 \in events,
                      ev1.rule = ev2.rule, ev1.status = ev2.status, ev1.at < ev2.at,
                      ~ \E ev \in events : ev.rule = ev1.rule /\ ev1.at < ev.at /\ ev.at < ev2.at
               PROVE  \/ ev1.by \in mates[ev2.by]
                      \/ \E ev \in events : ev.rule = ev1.rule /\ ev2.at < ev.at /\ ev.by \in mates[ev2.by]
    BY DEF RepeatsOverlap
  <2>1. ev2.at = at[ev2.by]
    BY DEF AlertInv, ToldInv
  <2>2. RepeatExplained(ev1, ev2.by)
    BY <2>1 DEF OverlapInv, IsRepeat
  <2> QED
    BY <2>1, <2>2 DEF RepeatExplained, Between, Overtaken
<1> QED
  BY <1>1, <1>2, <1>3, AlertInvHolds, PTL DEF Spec

-----------------------------------------------------------------------------
(* Percentiles. *)

\* A set of evaluations is finite, and so are its parts.
LEMMA EvalSetFinite ==
  ASSUME AlertAssumption, NEW S \in SUBSET Evals
  PROVE  /\ IsFiniteSet(S) /\ Cardinality(S) \in Nat
         /\ \A x \in S : x \in Int /\ TraceOf[x].ms \in Nat /\ TraceOf[x].method \in Nat
<1>1. IsFiniteSet(S)
  BY EvalsFinite, FS_Subset
<1>2. \A x \in Evals : TraceOf[x] \in TraceType
  <2>1. \A T : TraceOf \in Seq(T) => \A x \in DOMAIN TraceOf : TraceOf[x] \in T
    OBVIOUS
  <2> QED
    BY <2>1 DEF Evals, AlertAssumption
<1>3. \A x \in Evals : x \in Int
  BY EvalsFinite
<1> QED
  BY <1>1, <1>2, <1>3, FS_CardinalityType DEF TraceType

\* The order of ROW_NUMBER: by duration; traces of one duration are told apart
\* by their place in the table.
Before(x, y) == TraceOf[x].ms < TraceOf[y].ms \/ (TraceOf[x].ms = TraceOf[y].ms /\ x < y)
Rows(S, x)   == {y \in S : Before(y, x)}
Row(S, x)    == Cardinality(Rows(S, x)) + 1

\* The rows of a set are numbered from one, each once.
LEMMA RowsAreNumbered ==
  ASSUME AlertAssumption, NEW S \in SUBSET Evals
  PROVE  /\ \A x \in S : Row(S, x) \in 1 .. Cardinality(S)
         /\ \A x, y \in S : Before(x, y) => Row(S, x) < Row(S, y)
         /\ \A x, y \in S : Row(S, x) = Row(S, y) => x = y
         /\ \A i \in 1 .. Cardinality(S) : \E x \in S : Row(S, x) = i
<1>1. IsFiniteSet(S) /\ Cardinality(S) \in Nat /\ \A x \in S : x \in Int /\ TraceOf[x].ms \in Int
  <2>1. \A x \in S : x \in Int /\ TraceOf[x].ms \in Nat
    BY EvalSetFinite
  <2> QED
    BY <2>1, EvalSetFinite
<1>2. ASSUME NEW x \in S
      PROVE  /\ IsFiniteSet(Rows(S, x)) /\ Cardinality(Rows(S, x)) \in Nat
             /\ IsFiniteSet(Rows(S, x) \cup {x})
             /\ Cardinality(Rows(S, x) \cup {x}) = Row(S, x)
  <2>1. IsFiniteSet(Rows(S, x)) /\ Cardinality(Rows(S, x)) \in Nat
    <3>1. Rows(S, x) \in SUBSET Evals
      BY DEF Rows
    <3> QED
      BY <3>1, EvalSetFinite
  <2>2. x \notin Rows(S, x)
    BY <1>1 DEF Before, Rows
  <2> QED
    BY <2>1, <2>2, FS_AddElement DEF Row
<1>3. ASSUME NEW x \in S
      PROVE  Row(S, x) \in 1 .. Cardinality(S)
  <2>1. Rows(S, x) \cup {x} \in SUBSET S
    BY DEF Rows
  <2>2. Cardinality(Rows(S, x) \cup {x}) <= Cardinality(S)
    BY <1>1, <2>1, FS_Subset
  <2>3. /\ Cardinality(Rows(S, x)) \in Nat /\ Row(S, x) = Cardinality(Rows(S, x)) + 1
        /\ Cardinality(Rows(S, x) \cup {x}) = Row(S, x)
    BY <1>2 DEF Row
  <2> QED
    BY <1>1, <2>2, <2>3
<1>4. ASSUME NEW x \in S, NEW y \in S, Before(x, y)
      PROVE  Row(S, x) < Row(S, y)
  <2>1. Rows(S, x) \cup {x} \in SUBSET Rows(S, y)
    <3>1. x \in Rows(S, y)
      BY <1>4 DEF Rows
    <3>2. ASSUME NEW z \in Rows(S, x)
          PROVE  z \in Rows(S, y)
      <4>1. z \in S /\ Before(z, x)
        BY DEF Rows
      <4>2. /\ x \in Int /\ y \in Int /\ z \in Int
            /\ TraceOf[x].ms \in Int /\ TraceOf[y].ms \in Int /\ TraceOf[z].ms \in Int
        BY <1>1, <4>1
      <4>3. Before(z, y)
        BY ONLY <1>4, <4>1, <4>2 DEF Before
      <4> QED
        BY <4>1, <4>3 DEF Rows
    <3> QED
      BY <3>1, <3>2
  <2>2. Cardinality(Rows(S, x) \cup {x}) <= Cardinality(Rows(S, y))
    BY <1>2, <2>1, FS_Subset
  <2>3. Cardinality(Rows(S, y)) \in Nat /\ Cardinality(Rows(S, x) \cup {x}) = Row(S, x)
    BY <1>2
  <2>4. Row(S, x) \in Int
    BY <1>3
  <2> QED
    BY <2>2, <2>3, <2>4 DEF Row
<1>5. ASSUME NEW x \in S, NEW y \in S, Row(S, x) = Row(S, y)
      PROVE  x = y
  <2>1. x = y \/ Before(x, y) \/ Before(y, x)
    BY <1>1 DEF Before
  <2>2. Row(S, x) \in Int
    BY <1>3
  <2> QED
    BY <1>4, <1>5, <2>1, <2>2
<1>6. ASSUME NEW i \in 1 .. Cardinality(S)
      PROVE  \E x \in S : Row(S, x) = i
  <2> DEFINE row == [x \in S |-> Row(S, x)]
  <2>1. row \in Injection(S, 1 .. Cardinality(S))
    BY <1>3, <1>5 DEF Injection, IsInjective
  <2>2. IsFiniteSet(1 .. Cardinality(S)) /\ Cardinality(1 .. Cardinality(S)) = Cardinality(S)
    BY <1>1, FS_Interval
  <2>3. row \in Surjection(S, 1 .. Cardinality(S))
    BY <2>1, <2>2, FS_Injection
  <2> QED
    BY <2>3 DEF Surjection
<1> QED
  BY <1>3, <1>4, <1>5, <1>6

\* f lists the evaluations of a set by duration, each once.
Sorted(f, S) ==
  /\ f \in [1 .. Cardinality(S) -> S]
  /\ \A i, j \in 1 .. Cardinality(S) : i < j => f[i] # f[j] /\ TraceOf[f[i]].ms <= TraceOf[f[j]].ms

\* Every set of evaluations has such a list.
LEMMA SortedExists ==
  ASSUME AlertAssumption, NEW S \in SUBSET Evals
  PROVE  \E f : Sorted(f, S)
<1> DEFINE n == Cardinality(S)
           f == [i \in 1 .. n |-> CHOOSE x \in S : Row(S, x) = i]
<1>1. n \in Nat /\ \A x \in S : x \in Int /\ TraceOf[x].ms \in Nat
  BY EvalSetFinite
<1>2. \A i \in 1 .. n : f[i] \in S /\ Row(S, f[i]) = i
  BY RowsAreNumbered
<1> HIDE DEF n
<1>3. ASSUME NEW i \in 1 .. n, NEW j \in 1 .. n, i < j
      PROVE  f[i] # f[j] /\ TraceOf[f[i]].ms <= TraceOf[f[j]].ms
  <2>1. f[i] \in S /\ f[j] \in S /\ Row(S, f[i]) = i /\ Row(S, f[j]) = j
    BY <1>2
  <2> HIDE DEF f
  <2>2. /\ f[i] \in Int /\ f[j] \in Int
        /\ TraceOf[f[i]].ms \in Int /\ TraceOf[f[j]].ms \in Int /\ i \in Int /\ j \in Int
    BY <1>1, <2>1
  <2>3. ~ Before(f[j], f[i])
    <3> SUFFICES ASSUME Before(f[j], f[i]) PROVE FALSE
      OBVIOUS
    <3>1. Row(S, f[j]) < Row(S, f[i])
      BY <2>1, RowsAreNumbered
    <3> QED
      BY <1>3, <2>1, <2>2, <3>1
  <2>4. f[i] # f[j]
    BY <1>3, <2>1, <2>2
  <2> QED
    BY ONLY <2>2, <2>3, <2>4 DEF Before
<1>4. f \in [1 .. n -> S]
  BY <1>2
<1> HIDE DEF f
<1> QED
  BY <1>3, <1>4 DEF Sorted, n

\* Whichever list it is, the row the tests look at is the one ROW_NUMBER gives.
LEMMA SortedGivesP95 ==
  ASSUME AlertAssumption, NEW S \in SUBSET Evals, S # {}, NEW f, Sorted(f, S)
  PROVE  TraceOf[f[Rank(Cardinality(S), 95)]].ms = P95(S)
<1> DEFINE n == Cardinality(S)
           k == Rank(n, 95)
           v == TraceOf[f[k]].ms
           upTo(x) == {y \in S : TraceOf[y].ms <= x}
<1>1. n \in Nat \ {0} /\ IsFiniteSet(S) /\ \A x \in S : TraceOf[x].ms \in Nat
  BY EvalSetFinite, FS_EmptySet
<1>2. k \in 1 .. n
  <2>1. \A m \in Nat \ {0} : (m * 95 + 99) \div 100 \in 1 .. m
    OBVIOUS
  <2> QED
    BY <1>1, <2>1 DEF Rank
<1>3. /\ f \in [1 .. n -> S]
      /\ \A i, j \in 1 .. n : i < j => f[i] # f[j] /\ TraceOf[f[i]].ms <= TraceOf[f[j]].ms
  BY DEF Sorted
<1> HIDE DEF n, k
<1>4. f[k] \in S /\ v \in Nat
  BY <1>1, <1>2, <1>3
<1>5. \A i, j \in 1 .. n : f[i] = f[j] => i = j
  <2> SUFFICES ASSUME NEW i \in 1 .. n, NEW j \in 1 .. n, f[i] = f[j], i # j PROVE FALSE
    OBVIOUS
  <2>1. i < j \/ j < i
    OBVIOUS
  <2> QED
    BY <1>3, <2>1
<1>6. \A x \in S : \E i \in 1 .. n : f[i] = x
  <2>1. f \in Injection(1 .. n, S)
    BY <1>3, <1>5 DEF Injection, IsInjective
  <2>2. Cardinality(1 .. n) = n
    BY <1>1, FS_Interval
  <2>3. f \in Surjection(1 .. n, S)
    BY <1>1, <2>1, <2>2, FS_Injection DEF n
  <2> QED
    BY <2>3 DEF Surjection
<1>7. \A x \in Nat : IsFiniteSet(upTo(x)) /\ Cardinality(upTo(x)) \in Nat
  <2> SUFFICES ASSUME NEW x \in Nat PROVE IsFiniteSet(upTo(x)) /\ Cardinality(upTo(x)) \in Nat
    OBVIOUS
  <2>1. upTo(x) \in SUBSET S
    OBVIOUS
  <2> HIDE DEF upTo
  <2> QED
    BY <1>1, <2>1, FS_Subset, FS_CardinalityType
<1>8. Cardinality(upTo(v)) >= k
  <2> DEFINE g == [i \in 1 .. k |-> f[i]]
  <2>1. ASSUME NEW i \in 1 .. k
        PROVE  i \in 1 .. n /\ f[i] \in upTo(v)
    <3>1. i \in 1 .. n /\ (i < k \/ i = k)
      BY <1>1, <1>2
    <3>2. f[i] \in S /\ TraceOf[f[i]].ms <= v
      BY <1>1, <1>2, <1>3, <1>4, <3>1
    <3> QED
      BY <3>1, <3>2
  <2> HIDE DEF upTo, v
  <2>2. g \in Injection(1 .. k, upTo(v))
    BY <1>5, <2>1 DEF Injection, IsInjective
  <2>3. Cardinality(1 .. k) = k
    BY <1>1, <1>2, FS_Interval
  <2>4. Cardinality(1 .. k) <= Cardinality(upTo(v))
    BY <1>4, <1>7, <2>2, FS_Injection
  <2> QED
    BY <1>2, <1>4, <1>7, <2>3, <2>4
<1>9. ASSUME NEW x \in S, Cardinality(upTo(TraceOf[x].ms)) >= k
      PROVE  v <= TraceOf[x].ms
  <2> SUFFICES ASSUME TraceOf[x].ms < v PROVE FALSE
    BY <1>1, <1>4
  <2> DEFINE u == TraceOf[x].ms
  <2>1. u \in Nat /\ u < v
    BY <1>1
  <2>2. ASSUME NEW y \in upTo(u)
        PROVE  \E i \in 1 .. k - 1 : f[i] = y
    <3>1. y \in S /\ TraceOf[y].ms <= u /\ TraceOf[y].ms \in Nat
      BY <1>1
    <3>2. PICK i \in 1 .. n : f[i] = y
      BY <1>6, <3>1
    <3>3. CASE i >= k
      <4>1. i = k \/ k < i
        BY <1>1, <1>2, <3>3
      <4>2. v <= TraceOf[y].ms
        <5>1. CASE i = k
          BY <1>4, <3>2, <5>1
        <5>2. CASE k < i
          BY <1>2, <1>3, <3>2, <5>2
        <5> QED
          BY <4>1, <5>1, <5>2
      <4> HIDE DEF v, u
      <4> QED
        BY <1>4, <2>1, <3>1, <4>2
    <3>4. CASE i < k
      <4>1. i \in 1 .. k - 1
        BY <1>1, <1>2, <3>4
      <4> QED
        BY <3>2, <4>1
    <3> QED
      BY <1>2, <3>3, <3>4
  <2>3. CASE upTo(u) = {}
    <3>1. Cardinality(upTo(u)) = 0
      BY <2>3, FS_EmptySet
    <3> QED
      BY <1>2, <1>9, <3>1
  <2> DEFINE h == [y \in upTo(u) |-> CHOOSE i \in 1 .. k - 1 : f[i] = y]
  <2> HIDE DEF upTo, u, v
  <2>4. h \in Injection(upTo(u), 1 .. k - 1)
    <3>1. \A y \in upTo(u) : h[y] \in 1 .. k - 1 /\ f[h[y]] = y
      BY <2>2
    <3>2. h \in [upTo(u) -> 1 .. k - 1]
      BY <3>1
    <3> HIDE DEF h
    <3>3. \A y, z \in upTo(u) : h[y] = h[z] => y = z
      BY <3>1
    <3> QED
      BY <3>2, <3>3 DEF Injection, IsInjective
  <2>5. IsFiniteSet(1 .. k - 1) /\ Cardinality(1 .. k - 1) = k - 1
    BY <1>1, <1>2, IntervalSize
  <2>6. Cardinality(upTo(u)) <= Cardinality(1 .. k - 1)
    BY <2>4, <2>5, FS_Injection
  <2>7. Cardinality(upTo(u)) >= k /\ Cardinality(upTo(u)) \in Nat
    BY <1>7, <1>9, <2>1 DEF u
  <2> QED
    BY <1>2, <2>5, <2>6, <2>7
<1>10. LET top == {TraceOf[e].ms : e \in {x \in S : Cardinality(upTo(TraceOf[x].ms)) >= k}}
       IN  v \in top /\ \A w \in top : v <= w
  BY <1>4, <1>8, <1>9
<1>11. LET top == {TraceOf[e].ms : e \in {x \in S : Cardinality(upTo(TraceOf[x].ms)) >= k}}
       IN  top \subseteq Nat
  BY <1>1
<1>12. P95(S) = v
  <2> DEFINE top == {TraceOf[e].ms : e \in {x \in S : Cardinality(upTo(TraceOf[x].ms)) >= k}}
  <2>1. P95(S) = Min(top)
    BY DEF P95, k, n
  <2>2. v \in top /\ (\A w \in top : v <= w) /\ top \subseteq Nat
    BY <1>10, <1>11
  <2> HIDE DEF top, v
  <2>3. \A w \in top : (\A z \in top : w <= z) => w = v
    BY <2>2
  <2>4. Min(top) = v
    BY <2>2, <2>3 DEF Min
  <2> QED
    BY <2>1, <2>4
<1> QED
  BY <1>12 DEF k, n

\* The columns of a trace are numbers.
LEMMA KeysAreNumbers ==
  ASSUME AlertAssumption, NEW x \in Evals
  PROVE  \A i \in 1 .. 3 : LatencyKey(x)[i] \in Int
<1>1. \A T : TraceOf \in Seq(T) => TraceOf[x] \in T
  BY DEF Evals
<1>2. TraceOf[x].server \in Nat /\ TraceOf[x].name \in Nat /\ TraceOf[x].method \in Nat
  BY <1>1 DEF AlertAssumption, TraceType
<1> QED
  BY <1>2 DEF LatencyKey

\* Traces with the same columns are one group, and no row comes before theirs.
LEMMA OneGroup ==
  ASSUME AlertAssumption, NEW S \in SUBSET Evals, NEW e \in S, S = LatencyGroup(S, e)
  PROVE  ErrorGroup(S, e) = S /\ \A x \in S : ~ Precedes(x, e)
<1>1. \A x \in S : LatencyKey(x) = LatencyKey(e)
  BY DEF LatencyGroup
<1>2. \A x \in S : TraceOf[x].server = TraceOf[e].server /\ TraceOf[x].method = TraceOf[e].method
  BY <1>1 DEF LatencyKey
<1>3. ErrorGroup(S, e) = S
  BY <1>2 DEF ErrorGroup, ErrorKey
<1>4. ASSUME NEW x \in S
      PROVE  ~ Precedes(x, e)
  <2>1. \A i \in 1 .. 3 : LatencyKey(x)[i] = LatencyKey(e)[i] /\ LatencyKey(e)[i] \in Int
    BY <1>1, KeysAreNumbers
  <2> QED
    BY <2>1 DEF Precedes
<1> QED
  BY <1>3, <1>4

\* Over traces of one server and one method that is not empty, the statistics
\* of the database give a rule the status the tests expect.
LEMMA OneRowStatus ==
  ASSUME AlertAssumption, Types, NEW rule \in Probes, NEW now,
         \A x \in InWindow(rule, now) :
           InWindow(rule, now) = LatencyGroup(InWindow(rule, now), x) /\ TraceOf[x].method # Unnamed
  PROVE  StatusOf(rule, now) = ReferenceStatus(rule, now)
<1> DEFINE S == InWindow(rule, now)
           n == Cardinality(S)
           index == - ((- 95 * n) \div 100)
           listed == CHOOSE f \in [1 .. n -> S] :
                       \A i, j \in DOMAIN f : i < j => f[i] # f[j] /\ TraceOf[f[i]].ms <= TraceOf[f[j]].ms
           named == {e \in S : TraceOf[e].method # Unnamed}
<1>1. S \in SUBSET Evals
  BY EvalsFinite DEF InWindow, Types
<1>2. n \in Nat
  BY <1>1, EvalSetFinite
<1>3. named = S
  OBVIOUS
<1>4. \A e \in S : LatencyGroup(S, e) = S /\ ErrorGroup(S, e) = S /\ \A x \in S : ~ Precedes(x, e)
  <2>1. ASSUME NEW e \in S
        PROVE  LatencyGroup(S, e) = S /\ ErrorGroup(S, e) = S /\ \A x \in S : ~ Precedes(x, e)
    <3>1. S = LatencyGroup(S, e)
      OBVIOUS
    <3> HIDE DEF S
    <3> QED
      BY <1>1, <3>1, OneGroup
  <2> QED
    BY <2>1
<1>6. StatusOf(rule, now) = IF rule.type = "error_rate"
                            THEN IF named = {} THEN "no_data"
                                 ELSE Judge(\E e \in named : TooManyErrors(ErrorGroup(S, e), rule.threshold))
                            ELSE IF S = {} THEN "no_data"
                                 ELSE Judge(\E e \in S : /\ \A x \in S : ~ Precedes(x, e)
                                                         /\ P95(LatencyGroup(S, e)) >= rule.threshold)
  BY DEF StatusOf
<1>7. ReferenceStatus(rule, now) = IF S = {} THEN "no_data"
                                   ELSE IF rule.type = "error_rate" THEN Judge(TooManyErrors(S, rule.threshold))
                                   ELSE Judge(TraceOf[listed[index]].ms >= rule.threshold)
  BY DEF ReferenceStatus
<1>8. S # {} => P95(S) = TraceOf[listed[index]].ms
  <2> SUFFICES ASSUME S # {} PROVE P95(S) = TraceOf[listed[index]].ms
    OBVIOUS
  <2>1. index = Rank(n, 95)
    <3>1. \A k \in Nat : - ((- 95 * k) \div 100) = (k * 95 + 99) \div 100
      OBVIOUS
    <3> QED
      BY <1>2, <3>1 DEF Rank
  <2>2. PICK f : Sorted(f, S)
    BY <1>1, SortedExists
  <2> HIDE DEF S
  <2>3. Sorted(listed, S)
    BY <2>2 DEF Sorted
  <2> HIDE DEF listed, index, n
  <2>4. TraceOf[listed[Rank(Cardinality(S), 95)]].ms = P95(S)
    BY <1>1, <2>3, SortedGivesP95
  <2> QED
    BY <2>1, <2>4 DEF n
<1> HIDE DEF S, n, index, listed, named
<1>9. CASE S = {}
  BY <1>3, <1>6, <1>7, <1>9
<1>10. CASE S # {}
  <2>1. (\E e \in named : TooManyErrors(ErrorGroup(S, e), rule.threshold)) <=> TooManyErrors(S, rule.threshold)
    BY <1>3, <1>4, <1>10
  <2>2. (\E e \in S : /\ \A x \in S : ~ Precedes(x, e)
                      /\ P95(LatencyGroup(S, e)) >= rule.threshold)
          <=> TraceOf[listed[index]].ms >= rule.threshold
    BY <1>4, <1>8, <1>10
  <2> QED
    BY <1>3, <1>6, <1>7, <1>10, <2>1, <2>2 DEF Judge
<1> QED
  BY <1>9, <1>10

\* While the traces a rule selects are of one server and one method, the rule
\* gets the status the tests expect, whatever the number of traces, their
\* durations and the threshold: the row the window function of SQL picks is the
\* one the sorted list has.
THEOREM StatisticsAgree == Spec => []OneRowAgrees
<1>1. AlertInv => OneRowAgrees
  BY AlertAssumption, OneRowStatus DEF OneRowAgrees, AlertInv
<1> QED
  BY <1>1, AlertInvHolds, PTL
=============================================================================
