------------------------------- MODULE Alerts -------------------------------
(***************************************************************************)
(* The alert rules of the database and their notifications                 *)
(* (internal/proxy/alerts.go, notifier.go).  Every goroutine that has      *)
(* inserted a trace evaluates all rules over the traces of their windows,  *)
(* compares what it finds with the latest event of each rule, notifies a   *)
(* target when the status changed, and inserts an event.  No lock is held  *)
(* between any of these.  Each statement of SQL and each attempt to notify *)
(* is a step.  The rules are those of the workspace and environment of the *)
(* proxy; others are dropped after ListAlertRules.                         *)
(***************************************************************************)
EXTENDS Integers, Sequences, FiniteSets, FiniteSetsExt

CONSTANTS
  TraceOf,    \* the traces in the order they are inserted: [server, name, method, err, ms]
  Rules,      \* the ids of the rules
  RuleOf,     \* [type, name, method, threshold]
  Window,     \* WindowMinutes, in ticks
  Targets,    \* the kinds of notification targets, in the order they are tried
  Attempts,   \* NotifyRetries
  MaxBreaks,  \* bound on the goroutines whose statements fail or whose request is given up
  NoRule,     \* "no rule"
  MaxEdits    \* bound on the changes of rules through the API

\* The goroutines, each with a trace to insert, numbered in the order they do.
Evals == DOMAIN TraceOf

\* The ids of servers, their names and the methods are numbered in alphabetical
\* order, the empty one first.  Servers with different ids may share a name.
Unnamed == 0
Any     == 0   \* a rule that names no server, or no method, looks at all of them

RuleTypes == {"error_rate", "latency_p95"}

TraceType == [server : Nat, name : Nat, method : Nat, err : BOOLEAN, ms : Nat]
RuleType  == [type : RuleTypes, name : Nat, method : Nat, threshold : Nat]

ASSUME AlertAssumption ==
  /\ TraceOf \in Seq(TraceType) /\ RuleOf \in [Rules -> RuleType]
  /\ Window \in Nat /\ Attempts \in Nat \ {0} /\ MaxEdits \in Nat
  /\ Targets \in Seq({"webhook", "slack", "pagerduty"})
  /\ MaxBreaks \in Nat /\ NoRule \notin Rules

VARIABLES
  clock,    \* time.Now, one more at each reading
  rules,    \* each rule is absent, off or on
  edits,    \* how often they were changed
  created,  \* created_at of the traces in the table
  pc,       \* the line of each goroutine
  at,       \* LastEvaluatedAt of each evaluation
  left,     \* the rules it has still to query, then those it has still to compare
  found,    \* the statuses it found, by rule
  current,  \* the rule whose change it is telling
  prior,    \* the previous status of that rule, as read
  attempt,  \* the target, the number of the attempt, and how it ended
  events,   \* the table of events
  told,     \* the notifications whose acceptance was answered: [by, rule, status, target]
  mates     \* the evaluations each overlapped with

evaluation == <<left, found, current, prior, attempt>>
vars == <<clock, rules, edits, created, pc, at, evaluation, events, told, mates>>

Statuses == {"disabled", "no_data", "ok", "firing"}
NoStatus == ""
Lines    == {"new", "list", "stamp", "query", "compare", "deliver", "record", "done", "broken"}
Outcomes == {"open", "sent", "failed", "skipped"}

First    == [target |-> 1, number |-> 1, outcome |-> "open"]

Active == {e \in Evals : pc[e] \in {"query", "compare", "deliver", "record"}}

Goto(e, line) == pc' = [pc EXCEPT ![e] = line]

-----------------------------------------------------------------------------
(* Evaluation. *)

\* The traces in the window of a rule (buildWindowedTraceFilter).
InWindow(rule, now) ==
  {e \in DOMAIN created :
     /\ created[e] >= now - Window
     /\ rule.name \in {Any, TraceOf[e].name} /\ rule.method \in {Any, TraceOf[e].method}}

ErrorsOf(S) == Cardinality({e \in S : TraceOf[e].err})

\* Faulty variant of Rank: rounded down.
RankDown(n, p) == (n * p) \div 100

\* The row ROW_NUMBER gives the p-th percentile of n rows.
Rank(n, p) == (n * p + 99) \div 100

P95(S) ==
  Min({TraceOf[e].ms : e \in {x \in S :
         Cardinality({y \in S : TraceOf[y].ms <= TraceOf[x].ms}) >= Rank(Cardinality(S), 95)}})

\* The columns the statistics of errors and of latencies are grouped by, and
\* the traces of S in the group of e.
ErrorKey(e)   == <<TraceOf[e].server, TraceOf[e].method>>
LatencyKey(e) == <<TraceOf[e].server, TraceOf[e].name, TraceOf[e].method>>

ErrorGroup(S, e)   == {x \in S : ErrorKey(x) = ErrorKey(e)}
LatencyGroup(S, e) == {x \in S : LatencyKey(x) = LatencyKey(e)}

\* ORDER BY server_id, server_name, method.
Precedes(x, e) ==
  \E i \in 1 .. 3 : /\ LatencyKey(x)[i] < LatencyKey(e)[i]
                    /\ \A j \in 1 .. i - 1 : LatencyKey(x)[j] = LatencyKey(e)[j]

Judge(firing) == IF firing THEN "firing" ELSE "ok"

TooManyErrors(S, threshold) == ErrorsOf(S) * 100 >= threshold * Cardinality(S)

\* evaluateAlertRuleSQL looks at the first row of the statistics: the method of
\* a server with the highest error rate, or the first server and method in
\* alphabetical order.  Traces without a method are not in the statistics of
\* errors.
StatusOf(rule, now) ==
  LET S     == InWindow(rule, now)
      named == {e \in S : TraceOf[e].method # Unnamed}
  IN  IF rule.type = "error_rate"
      THEN IF named = {} THEN "no_data"
           ELSE Judge(\E e \in named : TooManyErrors(ErrorGroup(S, e), rule.threshold))
      ELSE IF S = {} THEN "no_data"
           ELSE Judge(\E e \in S : /\ \A x \in S : ~ Precedes(x, e)
                                   /\ P95(LatencyGroup(S, e)) >= rule.threshold)

\* evaluateAlertRule, which only the tests call: all traces of the window.
ReferenceStatus(rule, now) ==
  LET S      == InWindow(rule, now)
      sorted == CHOOSE f \in [1 .. Cardinality(S) -> S] :
                  \A i, j \in DOMAIN f : i < j => f[i] # f[j] /\ TraceOf[f[i]].ms <= TraceOf[f[j]].ms
      index  == - ((- 95 * Cardinality(S)) \div 100)
  IN  IF S = {} THEN "no_data"
      ELSE IF rule.type = "error_rate" THEN Judge(TooManyErrors(S, rule.threshold))
      ELSE Judge(TraceOf[sorted[index]].ms >= rule.threshold)

Severity(status) ==
  CASE status = "firing" -> 3 [] status = "ok" -> 2 [] status = "no_data" -> 1 [] OTHER -> 0

\* Faulty variant of Latest: ORDER BY without DESC.
LatestAscending(r) ==
  {ev \in events : ev.rule = r /\ \A other \in events : other.rule = r => other.at >= ev.at}

\* LatestAlertEvent: the events of a rule with the highest created_at.
Latest(r) ==
  {ev \in events : ev.rule = r /\ \A other \in events : other.rule = r => other.at <= ev.at}

-----------------------------------------------------------------------------
Init ==
  /\ clock = 0
  /\ rules \in [Rules -> {"off", "on"}] /\ edits = 0
  /\ created = << >>
  /\ pc = [e \in Evals |-> "new"]
  /\ at = [e \in Evals |-> 0]
  /\ left = [e \in Evals |-> {}]
  /\ found = [e \in Evals |-> << >>]
  /\ current = [e \in Evals |-> NoRule]
  /\ prior = [e \in Evals |-> NoStatus]
  /\ attempt = [e \in Evals |-> First]
  /\ events = {} /\ told = {}
  /\ mates = [e \in Evals |-> {}]

\* Store.Insert in persistTraceRecord.
InsertTrace(e) ==
  /\ pc[e] = "new" /\ e = Len(created) + 1
  /\ created' = Append(created, clock)
  /\ clock' = clock + 1
  /\ Goto(e, "list")
  /\ UNCHANGED <<rules, edits, at, evaluation, events, told, mates>>

\* The line after the queries: the loop over the evaluations, if there are any.
Compared(rest) == IF rest = {} THEN "done" ELSE "compare"

\* ListAlertRules; a rule that is off is given its status without a query.
List(e) ==
  LET on  == {r \in Rules : rules[r] = "on"}
      off == {r \in Rules : rules[r] = "off"}
  IN  /\ pc[e] = "list"
      /\ found' = [found EXCEPT ![e] = [r \in off |-> "disabled"]]
      /\ left' = [left EXCEPT ![e] = IF on = {} THEN off ELSE on]
      /\ Goto(e, "stamp")
      /\ UNCHANGED <<clock, rules, edits, created, at, current, prior, attempt, events, told, mates>>

\* time.Now: the time of the evaluation is taken after the rules were listed.
Stamp(e) ==
  /\ pc[e] = "stamp"
  /\ at' = [at EXCEPT ![e] = clock]
  /\ clock' = clock + 1
  /\ Goto(e, IF left[e] \subseteq DOMAIN found[e] THEN Compared(left[e]) ELSE "query")
  /\ mates' = [x \in Evals |-> IF x = e THEN Active
                               ELSE IF x \in Active THEN mates[x] \cup {e} ELSE mates[x]]
  /\ UNCHANGED <<rules, edits, created, evaluation, events, told>>

\* evaluateAlertRules, one rule at a time.
Query(e) ==
  /\ pc[e] = "query"
  /\ \E r \in left[e] :
       LET rest == left[e] \ {r}
       IN  /\ found' = [found EXCEPT ![e] =
                          [x \in DOMAIN @ \cup {r} |-> IF x = r THEN StatusOf(RuleOf[r], at[e]) ELSE @[x]]]
           /\ left' = [left EXCEPT ![e] = IF rest = {} THEN DOMAIN found'[e] ELSE rest]
           /\ Goto(e, IF rest = {} THEN "compare" ELSE "query")
  /\ UNCHANGED <<clock, rules, edits, created, at, current, prior, attempt, events, told, mates>>

\* The loop over the evaluations, in order of severity, with LatestAlertEvent:
\* nothing is to be done for a rule whose status is the same.
Compare(e) ==
  /\ pc[e] = "compare"
  /\ \E r \in left[e] :
       /\ \A other \in left[e] : Severity(found[e][other]) <= Severity(found[e][r])
       /\ left' = [left EXCEPT ![e] = @ \ {r}]
       /\ \E status \in IF Latest(r) = {} THEN {NoStatus} ELSE {ev.status : ev \in Latest(r)} :
            IF status = found[e][r]
            THEN Goto(e, Compared(left'[e])) /\ UNCHANGED <<current, prior>>
            ELSE /\ Goto(e, IF Targets = << >> THEN "record" ELSE "deliver")
                 /\ current' = [current EXCEPT ![e] = r]
                 /\ prior' = [prior EXCEPT ![e] = status]
  /\ attempt' = [attempt EXCEPT ![e] = IF Targets = << >> THEN [First EXCEPT !.outcome = "skipped"]
                                       ELSE First]
  /\ UNCHANGED <<clock, rules, edits, created, at, found, events, told, mates>>

\* Faulty variant of AfterFailure: a target that failed counts as told.
AfterFailureSent(a) ==
  IF a.number < Attempts THEN [a EXCEPT !.number = @ + 1] ELSE [a EXCEPT !.outcome = "sent"]

\* What follows a failed attempt: another one; after the last, the next target
\* if this one is a webhook.  Slack and PagerDuty leave nothing to others.
AfterFailure(a) ==
  CASE a.number < Attempts -> [a EXCEPT !.number = @ + 1]
    [] a.number = Attempts /\ Targets[a.target] = "webhook" /\ a.target < Len(Targets)
         -> [First EXCEPT !.target = a.target + 1]
    [] OTHER -> [a EXCEPT !.outcome = "failed"]

Note(e) == [by |-> e, rule |-> current[e], status |-> found[e][current[e]],
            target |-> attempt[e].target]

\* deliverAlertNotifications and sendWithRetry: the first target that accepts is
\* the last that is tried.  An answer that gets lost counts as a failure, though
\* its target may have taken the notification.
Deliver(e) ==
  /\ pc[e] = "deliver"
  /\ \/ attempt' = [attempt EXCEPT ![e].outcome = "sent"] /\ told' = told \cup {Note(e)}
     \/ attempt' = [attempt EXCEPT ![e] = AfterFailure(@)] /\ UNCHANGED told
  /\ Goto(e, IF attempt'[e].outcome = "open" THEN "deliver" ELSE "record")
  /\ UNCHANGED <<clock, rules, edits, created, at, left, found, current, prior, events, mates>>

Forget(e) ==
  /\ current' = [current EXCEPT ![e] = NoRule]
  /\ prior' = [prior EXCEPT ![e] = NoStatus]
  /\ attempt' = [attempt EXCEPT ![e] = First]

\* CreatedAt of an event is the time of the evaluation.
EventTime(e) == at[e]

\* InsertAlertEvent.
RecordEvent(e) ==
  /\ pc[e] = "record"
  /\ events' = events \cup
       {[by |-> e, rule |-> current[e], at |-> EventTime(e), status |-> found[e][current[e]],
         previous |-> prior[e], delivery |-> attempt[e].outcome, target |-> attempt[e].target]}
  /\ Goto(e, Compared(left[e]))
  /\ Forget(e)
  /\ UNCHANGED <<clock, rules, edits, created, at, left, found, told, mates>>

\* A statement fails, or the context of the request is cancelled: the rules
\* that are left are neither told nor recorded.
Break(e) ==
  /\ Cardinality({x \in Evals : pc[x] = "broken"}) < MaxBreaks
  /\ pc[e] \in {"list", "query", "compare", "deliver", "record"}
  /\ Goto(e, "broken")
  /\ left' = [left EXCEPT ![e] = {}]
  /\ Forget(e)
  /\ UNCHANGED <<clock, rules, edits, created, at, found, events, told, mates>>

\* handleAlertRuleUpsert and handleAlertRuleDelete.
EditRule(r) ==
  /\ edits < MaxEdits
  /\ edits' = edits + 1
  /\ \E state \in {"absent", "off", "on"} \ {rules[r]} : rules' = [rules EXCEPT ![r] = state]
  /\ UNCHANGED <<clock, created, pc, at, evaluation, events, told, mates>>

Evaluate(e) == List(e) \/ Stamp(e) \/ Query(e) \/ Compare(e) \/ Deliver(e) \/ RecordEvent(e)

Next ==
  \/ \E e \in Evals : InsertTrace(e) \/ Evaluate(e) \/ Break(e)
  \/ \E r \in Rules : EditRule(r)

Spec == Init /\ [][Next]_vars

-----------------------------------------------------------------------------
\* Every variable has its type, and an event is of an evaluation that found
\* its status.
TypeOK ==
  /\ clock \in 0 .. 2 * Cardinality(Evals)
  /\ rules \in [Rules -> {"absent", "off", "on"}]
  /\ edits \in 0 .. MaxEdits
  /\ DOMAIN created \subseteq Evals /\ \A e \in DOMAIN created : created[e] < clock
  /\ pc \in [Evals -> Lines]
  /\ at \in [Evals -> Nat]
  /\ left \in [Evals -> SUBSET Rules]
  /\ \A e \in Evals : DOMAIN found[e] \subseteq Rules /\ {found[e][r] : r \in DOMAIN found[e]} \subseteq Statuses
  /\ current \in [Evals -> Rules \cup {NoRule}]
  /\ prior \in [Evals -> Statuses \cup {NoStatus}]
  /\ \A e \in Evals : attempt[e].target \in 1 .. Len(Targets) + 1 /\ attempt[e].number \in 1 .. Attempts
                      /\ attempt[e].outcome \in Outcomes
  /\ \A ev \in events : ev.at = at[ev.by] /\ ev.status = found[ev.by][ev.rule]
  /\ mates \in [Evals -> SUBSET Evals]

\* The event of an evaluation that overlapped with no other follows the event
\* before it: its previous status is that one's status, and is not its own.
\* Only evaluations at the same time record a change twice or skip one.
EventsChain ==
  \A ev \in events :
    LET before == {other \in events : other.rule = ev.rule /\ other.at < ev.at}
    IN  mates[ev.by] = {} =>
          /\ ev.previous # ev.status
          /\ IF before = {} THEN ev.previous = NoStatus
             ELSE \E other \in before :
                    other.status = ev.previous /\ \A x \in before : x.at <= other.at

\* A target is told the same status of a rule by a second evaluation, one
\* that overlapped with no other, only if the first did not record what it
\* told, or another status was recorded between the two.
RepeatsNeedCause ==
  \A n1, n2 \in told :
    /\ n1.rule = n2.rule /\ n1.status = n2.status
    /\ at[n1.by] < at[n2.by] /\ mates[n2.by] = {}
    => \/ ~ \E ev \in events : ev.by = n1.by /\ ev.rule = n1.rule
       \/ \E ev \in events : ev.rule = n1.rule /\ ev.status # n1.status
                             /\ at[n1.by] < ev.at /\ ev.at < at[n2.by]

\* Two events of a rule with the same status and no other event between them
\* are of evaluations at the same time, or the later one compared its status
\* with an event that is later still, of an evaluation at the same time.
RepeatsOverlap ==
  \A ev1, ev2 \in events :
    LET others == {ev \in events : ev.rule = ev1.rule}
    IN  /\ ev1.rule = ev2.rule /\ ev1.status = ev2.status /\ ev1.at < ev2.at
        /\ ~ \E ev \in others : ev1.at < ev.at /\ ev.at < ev2.at
        => \/ ev1.by \in mates[ev2.by]
           \/ \E ev \in others : ev2.at < ev.at /\ ev.by \in mates[ev2.by]

\* When the last evaluation to begin has ended and overlapped with no other,
\* the latest event of every rule has the status it found: what evaluations
\* at the same time recorded in the wrong order does not last.
LatestCatchesUp ==
  \A e \in Evals :
    pc[e] = "done" /\ mates[e] = {} /\ (\A x \in Evals \ {e} : at[x] < at[e]) =>
      \A r \in DOMAIN found[e] : \E ev \in Latest(r) : ev.status = found[e][r]

\* An event says "sent" when, and only when, a target has accepted the
\* notification, which is the target it names, and only one has.
DeliveryHonest ==
  \A ev \in events :
    LET notes == {n \in told : n.by = ev.by /\ n.rule = ev.rule}
    IN  IF ev.delivery = "sent" THEN {n.target : n \in notes} = {ev.target} ELSE notes = {}

\* Rules of both types, over what the rules select, with thresholds that tell
\* traces apart.
Probes == [type : RuleTypes,
           name : {RuleOf[r].name : r \in Rules}, method : {RuleOf[r].method : r \in Rules},
           threshold : {RuleOf[r].threshold : r \in Rules} \cup {TraceOf[e].ms : e \in Evals}]

\* While the traces a rule selects from the window an evaluation is about to
\* query are of one server, with one id and one name, and of one method that is
\* not empty, the statistics of the database give the rule the status the tests
\* expect.
OneRowAgrees ==
  \A e \in Evals : pc[e] = "query" =>
    \A rule \in Probes :
      LET S == InWindow(rule, at[e])
      IN  (\A x \in S : S = LatencyGroup(S, x) /\ TraceOf[x].method # Unnamed) =>
            StatusOf(rule, at[e]) = ReferenceStatus(rule, at[e])

\* The tests: a rule is about all traces of its window.
RuleSeesWindow ==
  \A r \in Rules : StatusOf(RuleOf[r], clock) = ReferenceStatus(RuleOf[r], clock)
=============================================================================
