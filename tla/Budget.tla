------------------------------- MODULE Budget -------------------------------
(***************************************************************************)
(* Per-team call and token budgets (internal/budget/manager.go) over the   *)
(* "budgets" table of the store (internal/store/sqlite.go), as the proxy   *)
(* uses them (internal/proxy/proxy.go).                                    *)
(*                                                                         *)
(* A manager is a budget.Manager: proxy.Run makes one per worker when the  *)
(* configuration brings none, so a multi-server proxy has several.  Each   *)
(* has its own mutex; the table is all they share.  One step of a request  *)
(* is one SQL statement or one mutex operation.  An operator resets a row  *)
(* from another process (cmd/budget.go), without any of the mutexes.       *)
(*                                                                         *)
(* Time is counted in hours.  Answers that report tokens report one unit.  *)
(***************************************************************************)
EXTENDS Integers, FiniteSets

CONSTANTS
  Requests,     \* the calls clients send, each of them once
  Managers,     \* the budget managers, one per worker
  Teams,        \* the teams a call can be billed to
  DefaultTeam,  \* the team of a call that names none ("default")
  NoRequest,    \* "the mutex is free"
  CallLimit,    \* calls_per_hour and calls_per_day of each team, 0 for none
  TokenLimit,   \* tokens_per_day of each team, 0 for none
  Resets,       \* the windows the operator resets
  HoursPerDay,  \* 24 in the program, fewer in a model
  MaxHour       \* bound on the clock

WindowTypes == {"hour", "day"}

ASSUME BudgetAssumption ==
  /\ IsFiniteSet(Requests)
  /\ IsFiniteSet(Managers) /\ Managers # {}
  /\ DefaultTeam \in Teams
  /\ NoRequest \notin Requests
  /\ CallLimit \in [Teams -> [WindowTypes -> Nat]]
  /\ TokenLimit \in [Teams -> Nat]
  /\ Resets \subseteq WindowTypes
  /\ HoursPerDay \in Nat \ {0}
  /\ MaxHour \in Nat

VARIABLES
  clock,    \* the current hour
  pc,       \* what each request is about to do
  mgr,      \* the manager of the worker a request went to
  team,     \* the team a request is billed to
  at,       \* receivedAt: the hour in which the worker stamped the request
  payer,    \* the team its answer is billed to
  stamp,    \* the hour its answer is billed in
  mutex,    \* the request that holds each manager's mutex
  calls,    \* call_count of every row of the table, 0 where there is none
  tokens,   \* token_count of every row
  verdict,  \* what CheckAndReserve decided about each request
  counted,  \* the windows whose row still counts the request's call
  billed    \* the windows whose row still counts the tokens of its answer

reqVars   == <<mgr, team, at, payer, stamp>>
storeVars == <<calls, tokens, counted, billed>>
vars      == <<clock, pc, reqVars, mutex, storeVars, verdict>>

Hours == 0 .. MaxHour
Rows  == Teams \X WindowTypes \X Hours

\* The steps a request takes while it holds its manager's mutex.
ReserveSteps == {"checkHour", "checkDay", "checkTokens", "chargeHour", "chargeDay"}
BillSteps    == {"tokenHour", "tokenDay"}
LockedSteps  == ReserveSteps \cup BillSteps
Steps        == {"idle", "reading", "waiting", "forwarded", "answered",
                 "blocked", "done", "lost"} \cup LockedSteps

\* The hour a window starts in.
WindowStart(h, w) == IF w = "hour" THEN h ELSE h - (h % HoursPerDay)

\* The row of the table that counts r's call in window w.
RowOf(r, w) == <<team[r], w, WindowStart(at[r], w)>>

\* The row of the table that counts the tokens of its answer.
BillRow(r, w) == <<payer[r], w, WindowStart(stamp[r], w)>>

LimitOf(row) == CallLimit[row[1]][row[2]]

Goto(r, step) == pc' = [pc EXCEPT ![r] = step]
Unlock(r)     == mutex' = [mutex EXCEPT ![mgr[r]] = NoRequest]

\* CheckAndReserve returns: the mutex is released, and the request is
\* answered with an error or forwarded.
Decide(r, v) ==
  /\ verdict' = [verdict EXCEPT ![r] = v]
  /\ Goto(r, IF v = "blocked" THEN "blocked" ELSE "forwarded")
  /\ Unlock(r)

-----------------------------------------------------------------------------
\* Faulty variants of the operations below, none of them part of Next.  Each
\* is a bug the code could have had, and breaks a property stated at the end.

\* The mutex is taken without waiting for its holder.
AcquireAtOnce(r) ==
  /\ \/ pc[r] = "waiting" /\ Goto(r, "checkHour")
     \/ pc[r] = "answered" /\ Goto(r, "tokenHour")
  /\ mutex' = [mutex EXCEPT ![mgr[r]] = r]
  /\ UNCHANGED <<clock, reqVars, storeVars, verdict>>

\* RecordTokens does not take the mutex.
AcquireToReserve(r) ==
  /\ \/ /\ mutex[mgr[r]] = NoRequest
        /\ pc[r] = "waiting" /\ Goto(r, "checkHour")
        /\ mutex' = [mutex EXCEPT ![mgr[r]] = r]
     \/ pc[r] = "answered" /\ Goto(r, "tokenHour") /\ UNCHANGED mutex
  /\ UNCHANGED <<clock, reqVars, storeVars, verdict>>

\* A call fits as long as the limit is not exceeded already.
HasRoomOffByOne(row) == LimitOf(row) = 0 \/ calls[row] <= LimitOf(row)

\* A window is charged as soon as it is checked.
CheckCallsAndCharge(r, w) ==
  LET row  == RowOf(r, w)
      room == LimitOf(row) = 0 \/ calls[row] + 1 <= LimitOf(row)
  IN  /\ pc[r] = IF w = "hour" THEN "checkHour" ELSE "checkDay"
      /\ \/ /\ room
            /\ Goto(r, IF w = "hour" THEN "checkDay" ELSE "checkTokens")
            /\ calls' = [calls EXCEPT ![row] = @ + 1]
            /\ counted' = [counted EXCEPT ![r] = @ \cup {w}]
            /\ UNCHANGED <<mutex, verdict>>
         \/ ~room /\ Decide(r, "blocked") /\ UNCHANGED <<calls, counted>>
      /\ UNCHANGED <<clock, reqVars, tokens, billed>>

\* The upsert overwrites call_count instead of adding to it.
ChargeOverwrites(r, w) ==
  /\ pc[r] = IF w = "hour" THEN "chargeHour" ELSE "chargeDay"
  /\ calls' = [calls EXCEPT ![RowOf(r, w)] = 1]
  /\ counted' = [counted EXCEPT ![r] = @ \cup {w}]
  /\ IF w = "hour" THEN Goto(r, "chargeDay") /\ UNCHANGED <<mutex, verdict>>
                   ELSE Decide(r, "admitted")
  /\ UNCHANGED <<clock, reqVars, tokens, billed>>

\* The error return of CheckAndReserve leaves the mutex locked.
ReserveFailsLocked(r) ==
  /\ pc[r] \in ReserveSteps
  /\ verdict' = [verdict EXCEPT ![r] = "bypassed"]
  /\ Goto(r, "forwarded")
  /\ UNCHANGED <<clock, reqVars, mutex, storeVars>>

-----------------------------------------------------------------------------
Init ==
  /\ clock = 0
  /\ pc = [r \in Requests |-> "idle"]
  /\ mgr = [r \in Requests |-> CHOOSE m \in Managers : TRUE]
  /\ team = [r \in Requests |-> DefaultTeam]
  /\ at = [r \in Requests |-> 0]
  /\ payer = [r \in Requests |-> DefaultTeam]
  /\ stamp = [r \in Requests |-> 0]
  /\ mutex = [m \in Managers |-> NoRequest]
  /\ calls = [row \in Rows |-> 0]
  /\ tokens = [row \in Rows |-> 0]
  /\ verdict = [r \in Requests |-> "none"]
  /\ counted = [r \in Requests |-> {}]
  /\ billed = [r \in Requests |-> {}]

\* A worker stamps the request it will read: forwardStdio takes the time
\* before it blocks in readFrame, the HTTP handler after it read the body.
Stamp(r, m) ==
  /\ pc[r] = "idle"
  /\ Goto(r, "reading")
  /\ mgr' = [mgr EXCEPT ![r] = m]
  /\ at' = [at EXCEPT ![r] = clock]
  /\ UNCHANGED <<clock, team, payer, stamp, mutex, storeVars, verdict>>

\* The request is there, and the worker resolves the team it is billed to.
Arrive(r, t) ==
  /\ pc[r] = "reading"
  /\ Goto(r, "waiting")
  /\ team' = [team EXCEPT ![r] = t]
  /\ UNCHANGED <<clock, mgr, at, payer, stamp, mutex, storeVars, verdict>>

\* CheckAndReserve and RecordTokens take the manager's mutex first.
Acquire(r) ==
  /\ mutex[mgr[r]] = NoRequest
  /\ \/ pc[r] = "waiting" /\ Goto(r, "checkHour")
     \/ pc[r] = "answered" /\ Goto(r, "tokenHour")
  /\ mutex' = [mutex EXCEPT ![mgr[r]] = r]
  /\ UNCHANGED <<clock, reqVars, storeVars, verdict>>

\* One more call fits into the row, or the row has no limit.
HasRoom(row) == LimitOf(row) = 0 \/ calls[row] + 1 <= LimitOf(row)

\* CheckAndReserve compares the row of window w with its limit.
CheckCalls(r, w) ==
  /\ pc[r] = IF w = "hour" THEN "checkHour" ELSE "checkDay"
  /\ \/ /\ HasRoom(RowOf(r, w))
        /\ Goto(r, IF w = "hour" THEN "checkDay" ELSE "checkTokens")
        /\ UNCHANGED <<mutex, verdict>>
     \/ ~HasRoom(RowOf(r, w)) /\ Decide(r, "blocked")
  /\ UNCHANGED <<clock, reqVars, storeVars>>

\* CheckAndReserve compares the tokens of the day with their limit.
TokensLeft(r) ==
  TokenLimit[team[r]] = 0 \/ tokens[RowOf(r, "day")] < TokenLimit[team[r]]

CheckTokens(r) ==
  /\ pc[r] = "checkTokens"
  /\ \/ TokensLeft(r) /\ Goto(r, "chargeHour") /\ UNCHANGED <<mutex, verdict>>
     \/ ~TokensLeft(r) /\ Decide(r, "blocked")
  /\ UNCHANGED <<clock, reqVars, storeVars>>

\* IncrementBudgetUsage with CallCount 1, for the hour and then for the day.
Charge(r, w) ==
  /\ pc[r] = IF w = "hour" THEN "chargeHour" ELSE "chargeDay"
  /\ calls' = [calls EXCEPT ![RowOf(r, w)] = @ + 1]
  /\ counted' = [counted EXCEPT ![r] = @ \cup {w}]
  /\ IF w = "hour" THEN Goto(r, "chargeDay") /\ UNCHANGED <<mutex, verdict>>
                   ELSE Decide(r, "admitted")
  /\ UNCHANGED <<clock, reqVars, tokens, billed>>

\* A statement of CheckAndReserve fails.  What was charged stays charged, and
\* the proxy drops the error and forwards the call (maybeBlockBudgetedRequest
\* reports it as not handled).  A window without a limit is not read.
ReserveFails(r) ==
  /\ pc[r] \in ReserveSteps
  /\ pc[r] = "checkHour" => LimitOf(RowOf(r, "hour")) > 0
  /\ pc[r] = "checkDay" => LimitOf(RowOf(r, "day")) > 0
  /\ pc[r] = "checkTokens" => TokenLimit[team[r]] > 0
  /\ Decide(r, "bypassed")
  /\ UNCHANGED <<clock, reqVars, storeVars>>

\* The server answers a forwarded call; only an answer that reports tokens, and
\* was logged and stored, goes through RecordTokens.  It is billed to the team
\* and the time of its record: those of its call or, when it is traced alone,
\* its own time and, in stdio, the default team.
Answer(r) ==
  /\ pc[r] = "forwarded"
  /\ \/ Goto(r, "done") /\ UNCHANGED <<payer, stamp>>
     \/ /\ Goto(r, "answered")
        /\ \E to \in ({team[r]} \X (at[r] .. clock)) \cup ({DefaultTeam} \X (0 .. clock)) :
             /\ payer' = [payer EXCEPT ![r] = to[1]]
             /\ stamp' = [stamp EXCEPT ![r] = to[2]]
  /\ UNCHANGED <<clock, mgr, team, at, mutex, storeVars, verdict>>

\* IncrementBudgetUsage with the tokens of the answer.
Bill(r, w) ==
  /\ pc[r] = IF w = "hour" THEN "tokenHour" ELSE "tokenDay"
  /\ tokens' = [tokens EXCEPT ![BillRow(r, w)] = @ + 1]
  /\ billed' = [billed EXCEPT ![r] = @ \cup {w}]
  /\ IF w = "hour" THEN Goto(r, "tokenDay") /\ UNCHANGED mutex
                   ELSE Goto(r, "done") /\ Unlock(r)
  /\ UNCHANGED <<clock, reqVars, calls, counted, verdict>>

\* A statement of RecordTokens fails; the proxy logs it and goes on.
BillFails(r) ==
  /\ pc[r] \in BillSteps
  /\ Goto(r, "done")
  /\ Unlock(r)
  /\ UNCHANGED <<clock, reqVars, storeVars, verdict>>

\* mcpscope budget reset: the row of the current window is deleted.
Reset(t, w) ==
  LET row == <<t, w, WindowStart(clock, w)>>
  IN  /\ calls' = [calls EXCEPT ![row] = 0]
      /\ tokens' = [tokens EXCEPT ![row] = 0]
      /\ counted' = [r \in Requests |->
                       IF RowOf(r, w) = row THEN counted[r] \ {w} ELSE counted[r]]
      /\ billed' = [r \in Requests |->
                      IF BillRow(r, w) = row THEN billed[r] \ {w} ELSE billed[r]]
      /\ UNCHANGED <<clock, pc, reqVars, mutex, verdict>>

\* The proxy process stops and is started again: the requests it worked on
\* are gone, the mutexes are new, and the table is what it was.
Crash ==
  /\ pc' = [r \in Requests |->
              IF pc[r] \in {"idle", "blocked", "done"} THEN pc[r] ELSE "lost"]
  /\ mutex' = [m \in Managers |-> NoRequest]
  /\ UNCHANGED <<clock, reqVars, storeVars, verdict>>

Tick ==
  /\ clock < MaxHour
  /\ clock' = clock + 1
  /\ UNCHANGED <<pc, reqVars, mutex, storeVars, verdict>>

-----------------------------------------------------------------------------
\* What the proxy does about a request once it has it.
Serve(r) ==
  \/ Acquire(r)
  \/ CheckTokens(r) \/ ReserveFails(r) \/ BillFails(r)
  \/ \E w \in WindowTypes : CheckCalls(r, w) \/ Charge(r, w) \/ Bill(r, w)

Next ==
  \/ \E r \in Requests :
       \/ \E m \in Managers : Stamp(r, m)
       \/ \E t \in Teams : Arrive(r, t)
       \/ Serve(r)
       \/ Answer(r)
  \/ \E t \in Teams, w \in Resets : Reset(t, w)
  \/ Crash
  \/ Tick

Spec == Init /\ [][Next]_vars

\* A handler that holds a request goes on with it.
FairSpec == Spec /\ \A r \in Requests : WF_vars(Serve(r))
-----------------------------------------------------------------------------
\* Every variable has its type, and a mutex is held by a request of its
\* manager that is inside CheckAndReserve or RecordTokens.
TypeOK ==
  /\ clock \in Hours
  /\ pc \in [Requests -> Steps]
  /\ mgr \in [Requests -> Managers]
  /\ team \in [Requests -> Teams]
  /\ at \in [Requests -> Hours]
  /\ payer \in [Requests -> Teams]
  /\ stamp \in [Requests -> Hours]
  /\ mutex \in [Managers -> Requests \cup {NoRequest}]
  /\ calls \in [Rows -> Nat]
  /\ tokens \in [Rows -> Nat]
  /\ verdict \in [Requests -> {"none", "admitted", "bypassed", "blocked"}]
  /\ counted \in [Requests -> SUBSET WindowTypes]
  /\ billed \in [Requests -> SUBSET WindowTypes]

\* No row counts more calls than its limit.  The check of CheckAndReserve and
\* the increment that follows it are two statements; only the mutex keeps
\* another call from slipping in between, so this is for a single manager.
CallsWithinLimit ==
  \A row \in Rows : LimitOf(row) > 0 => calls[row] <= LimitOf(row)

\* With a mutex per worker the limit can be overshot, by at most one call for
\* every other worker, whatever fails, is reset or is killed.
OvershootBounded ==
  \A row \in Rows :
    LimitOf(row) > 0 => calls[row] < LimitOf(row) + Cardinality(Managers)

\* Each row counts exactly the calls and the answers charged to it since it
\* was last reset: no interleaving of workers loses or doubles an increment.
ChargedTo(row) == {r \in Requests : row[2] \in counted[r] /\ RowOf(r, row[2]) = row}
BilledTo(row)  == {r \in Requests : row[2] \in billed[r] /\ BillRow(r, row[2]) = row}

RowsMatchCharges ==
  \A row \in Rows : /\ calls[row] = Cardinality(ChargedTo(row))
                    /\ tokens[row] = Cardinality(BilledTo(row))

\* A call answered with the budget error is charged to no window, although
\* the hour is found free before the day or the tokens are found spent.
BlockedIsFree ==
  \A r \in Requests : verdict[r] = "blocked" => counted[r] = {} /\ billed[r] = {}

\* A call is admitted only while the tokens of its day are not spent: no answer
\* is billed between the check of the tokens and the charge, because
\* RecordTokens takes the same mutex (a single manager).
TokensGateAdmission ==
  [][\A r \in Requests :
       (verdict[r] = "none" /\ verdict'[r] = "admitted") => TokensLeft(r)]_vars

\* A call that waits for the mutex is forwarded or blocked, unless the process
\* dies first: no path out of the manager leaves the mutex locked.
EveryCallDecided ==
  \A r \in Requests :
    pc[r] = "waiting" ~> pc[r] \in {"forwarded", "blocked", "lost"}

\* Budget implements Quota: a call and an answer count from the moment the
\* manager is done with them.
Charging(row) == {r \in Requests : pc[r] = "chargeDay" /\ "hour" \in counted[r]
                                     /\ RowOf(r, "hour") = row}
Billing(row)  == {r \in Requests : pc[r] = "tokenDay" /\ "hour" \in billed[r]
                                     /\ BillRow(r, "hour") = row}

Q == INSTANCE Quota WITH
       used  <- [row \in Rows |-> calls[row] - Cardinality(Charging(row))],
       spent <- [row \in Rows |-> tokens[row] - Cardinality(Billing(row))]

ImplementsQuota == Q!Spec
=============================================================================
