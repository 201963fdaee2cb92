---------------------------- MODULE BudgetProofs ----------------------------
(* Theorems about Budget, for any number of calls, managers, teams and hours. *)
EXTENDS Budget, FiniteSetTheorems, TLAPS

-----------------------------------------------------------------------------
(* Types. *)

\* A remainder is a natural number no larger than the dividend.
LEMMA Remainder ==
  ASSUME NEW a \in Nat, NEW b \in Nat \ {0}
  PROVE  a % b \in 0 .. a
<1>1. a = b * (a \div b) + (a % b) /\ a % b \in 0 .. (b - 1)
  OBVIOUS
<1>2. b * (a \div b) \in Nat
  OBVIOUS
<1> QED
  BY <1>1, <1>2

\* A window starts in an hour of the model.
LEMMA WindowStartType ==
  ASSUME NEW h \in Hours, NEW w \in WindowTypes
  PROVE  WindowStart(h, w) \in Hours
<1>1. h \in Nat /\ HoursPerDay \in Nat \ {0}
  BY BudgetAssumption DEF Hours
<1>2. h % HoursPerDay \in 0 .. h
  BY <1>1, Remainder
<1> QED
  BY <1>1, <1>2, BudgetAssumption DEF Hours, WindowStart

\* The rows that count a request and its answer are rows of the table.
LEMMA RowType ==
  ASSUME TypeOK, NEW r \in Requests, NEW w \in WindowTypes
  PROVE  RowOf(r, w) \in Rows /\ BillRow(r, w) \in Rows
BY WindowStartType DEF TypeOK, RowOf, BillRow, Rows

\* Every variable keeps its type.
LEMMA TypeStep == TypeOK /\ [Next]_vars => TypeOK'
<1> SUFFICES ASSUME TypeOK, [Next]_vars PROVE TypeOK'
  OBVIOUS
<1> USE DEF Steps, ReserveSteps, BillSteps, LockedSteps
<1>1. ASSUME NEW r \in Requests, NEW m \in Managers, Stamp(r, m) PROVE TypeOK'
  BY <1>1 DEF TypeOK, Stamp, Goto, storeVars
<1>2. ASSUME NEW r \in Requests, NEW t \in Teams, Arrive(r, t) PROVE TypeOK'
  BY <1>2 DEF TypeOK, Arrive, Goto, storeVars
<1>3. ASSUME NEW r \in Requests, Acquire(r) PROVE TypeOK'
  BY <1>3 DEF TypeOK, Acquire, Goto, storeVars, reqVars
<1>4. ASSUME NEW r \in Requests, NEW w \in WindowTypes, CheckCalls(r, w) PROVE TypeOK'
  BY <1>4 DEF TypeOK, CheckCalls, Decide, Unlock, Goto, storeVars, reqVars
<1>5. ASSUME NEW r \in Requests, CheckTokens(r) PROVE TypeOK'
  BY <1>5 DEF TypeOK, CheckTokens, Decide, Unlock, Goto, storeVars, reqVars
<1>6. ASSUME NEW r \in Requests, NEW w \in WindowTypes, Charge(r, w) PROVE TypeOK'
  <2>1. calls' \in [Rows -> Nat] /\ counted' \in [Requests -> SUBSET WindowTypes]
    BY <1>6, RowType DEF TypeOK, Charge
  <2> QED
    BY <1>6, <2>1 DEF TypeOK, Charge, Decide, Unlock, Goto, reqVars
<1>7. ASSUME NEW r \in Requests, ReserveFails(r) PROVE TypeOK'
  BY <1>7 DEF TypeOK, ReserveFails, Decide, Unlock, Goto, storeVars, reqVars
<1>8. ASSUME NEW r \in Requests, Answer(r) PROVE TypeOK'
  <2>1. payer' \in [Requests -> Teams] /\ stamp' \in [Requests -> Hours]
    <3>1. CASE UNCHANGED <<payer, stamp>>
      BY <3>1 DEF TypeOK
    <3>2. ASSUME NEW to \in ({team[r]} \X (at[r] .. clock)) \cup ({DefaultTeam} \X (0 .. clock)),
                 payer' = [payer EXCEPT ![r] = to[1]], stamp' = [stamp EXCEPT ![r] = to[2]]
          PROVE  payer' \in [Requests -> Teams] /\ stamp' \in [Requests -> Hours]
      <4>1. to[1] \in {team[r], DefaultTeam} /\ to[2] \in (at[r] .. clock) \cup (0 .. clock)
        BY <3>2
      <4>2. to[1] \in Teams /\ to[2] \in Hours
        BY <4>1, BudgetAssumption DEF TypeOK, Hours
      <4> QED
        BY <3>2, <4>2 DEF TypeOK
    <3> QED
      BY <1>8, <3>1, <3>2 DEF Answer
  <2> QED
    BY <1>8, <2>1 DEF TypeOK, Answer, Goto, storeVars
<1>9. ASSUME NEW r \in Requests, NEW w \in WindowTypes, Bill(r, w) PROVE TypeOK'
  <2>1. tokens' \in [Rows -> Nat] /\ billed' \in [Requests -> SUBSET WindowTypes]
    BY <1>9, RowType DEF TypeOK, Bill
  <2> QED
    BY <1>9, <2>1 DEF TypeOK, Bill, Unlock, Goto, reqVars
<1>10. ASSUME NEW r \in Requests, BillFails(r) PROVE TypeOK'
  BY <1>10 DEF TypeOK, BillFails, Unlock, Goto, storeVars, reqVars
<1>11. ASSUME NEW t \in Teams, NEW w \in Resets, Reset(t, w) PROVE TypeOK'
  BY <1>11, BudgetAssumption DEF TypeOK, Reset, reqVars
<1>12. CASE Crash
  BY <1>12 DEF TypeOK, Crash, storeVars, reqVars
<1>13. CASE Tick
  BY <1>13, BudgetAssumption DEF TypeOK, Tick, Hours, storeVars, reqVars
<1>14. CASE UNCHANGED vars
  BY <1>14 DEF TypeOK, vars, storeVars, reqVars
<1> QED
  BY <1>1, <1>2, <1>3, <1>4, <1>5, <1>6, <1>7, <1>8, <1>9, <1>10, <1>11, <1>12,
     <1>13, <1>14 DEF Next, Serve

\* Every variable starts with its type.
LEMMA TypeInit == Init => TypeOK
BY BudgetAssumption DEF Init, TypeOK, Hours, Steps

\* Type correctness.
THEOREM TypeCorrect == Spec => []TypeOK
BY TypeInit, TypeStep, PTL DEF Spec
-----------------------------------------------------------------------------
(* Mutual exclusion. *)

\* Inside CheckAndReserve and RecordTokens, a request holds its manager's mutex.
MutexInv == \A r \in Requests : pc[r] \in LockedSteps => mutex[mgr[r]] = r

\* A request enters these sections when it takes the mutex, and leaves them when it releases it.
LEMMA MutexStep == TypeOK /\ MutexInv /\ [Next]_vars => MutexInv'
<1> SUFFICES ASSUME TypeOK, MutexInv, [Next]_vars PROVE MutexInv'
  OBVIOUS
<1> USE BudgetAssumption DEF TypeOK, MutexInv, Steps, ReserveSteps, BillSteps, LockedSteps
<1>1. ASSUME NEW r \in Requests, NEW m \in Managers, Stamp(r, m) PROVE MutexInv'
  BY <1>1 DEF Stamp, Goto
<1>2. ASSUME NEW r \in Requests, NEW t \in Teams, Arrive(r, t) PROVE MutexInv'
  BY <1>2 DEF Arrive, Goto
<1>3. ASSUME NEW r \in Requests, Acquire(r) PROVE MutexInv'
  BY <1>3 DEF Acquire, Goto, reqVars
<1>4. ASSUME NEW r \in Requests, NEW w \in WindowTypes, CheckCalls(r, w) PROVE MutexInv'
  BY <1>4 DEF CheckCalls, Decide, Unlock, Goto, reqVars
<1>5. ASSUME NEW r \in Requests, CheckTokens(r) PROVE MutexInv'
  BY <1>5 DEF CheckTokens, Decide, Unlock, Goto, reqVars
<1>6. ASSUME NEW r \in Requests, NEW w \in WindowTypes, Charge(r, w) PROVE MutexInv'
  BY <1>6 DEF Charge, Decide, Unlock, Goto, reqVars
<1>7. ASSUME NEW r \in Requests, ReserveFails(r) PROVE MutexInv'
  BY <1>7 DEF ReserveFails, Decide, Unlock, Goto, reqVars
<1>8. ASSUME NEW r \in Requests, Answer(r) PROVE MutexInv'
  BY <1>8 DEF Answer, Goto, reqVars
<1>9. ASSUME NEW r \in Requests, NEW w \in WindowTypes, Bill(r, w) PROVE MutexInv'
  BY <1>9 DEF Bill, Unlock, Goto, reqVars
<1>10. ASSUME NEW r \in Requests, BillFails(r) PROVE MutexInv'
  BY <1>10 DEF BillFails, Unlock, Goto, reqVars
<1>11. ASSUME NEW t \in Teams, NEW w \in Resets, Reset(t, w) PROVE MutexInv'
  BY <1>11 DEF Reset, reqVars
<1>12. CASE Crash
  BY <1>12 DEF Crash, reqVars
<1>13. CASE Tick
  BY <1>13 DEF Tick, reqVars
<1>14. CASE UNCHANGED vars
  BY <1>14 DEF vars, reqVars
<1> QED
  BY <1>1, <1>2, <1>3, <1>4, <1>5, <1>6, <1>7, <1>8, <1>9, <1>10, <1>11, <1>12,
     <1>13, <1>14 DEF Next, Serve

\* So two requests inside one manager are the same request.
LEMMA Exclusion ==
  ASSUME MutexInv, NEW r \in Requests, NEW s \in Requests,
         pc[r] \in LockedSteps, pc[s] \in LockedSteps, mgr[r] = mgr[s]
  PROVE  r = s
BY DEF MutexInv

-----------------------------------------------------------------------------
(* The overshoot of a limit. *)

\* The calls that found room in a row and have not been charged to it yet.
PastCheck == [hour |-> {"checkDay", "checkTokens", "chargeHour"},
              day  |-> {"checkTokens", "chargeHour", "chargeDay"}]

InFlight(row) ==
  {r \in Requests : pc[r] \in PastCheck[row[2]] /\ RowOf(r, row[2]) = row}

\* The strengthening of OvershootBounded: calls in flight count as charged.
OvershootInv ==
  \A row \in Rows :
    LimitOf(row) > 0 =>
      calls[row] + Cardinality(InFlight(row)) < LimitOf(row) + Cardinality(Managers)

\* A set whose elements have distinct managers is no larger than Managers.
LEMMA OnePerManager ==
  ASSUME NEW S \in SUBSET Requests, NEW f \in [Requests -> Managers],
         \A r, s \in S : f[r] = f[s] => r = s
  PROVE  /\ IsFiniteSet(S)
         /\ Cardinality(S) \in Nat
         /\ Cardinality(S) <= Cardinality(Managers)
<1> DEFINE g == [r \in S |-> f[r]]
<1>1. g \in Injection(S, Managers)
  BY DEF Injection, IsInjective
<1> HIDE DEF g
<1>2. IsFiniteSet(S) /\ Cardinality(S) <= Cardinality(Managers)
  BY <1>1, FS_Injection, BudgetAssumption
<1> QED
  BY <1>2, FS_CardinalityType

\* A row has no more calls between check and charge than there are managers.
LEMMA InFlightBound ==
  ASSUME TypeOK, MutexInv, NEW row \in Rows
  PROVE  /\ IsFiniteSet(InFlight(row))
         /\ Cardinality(InFlight(row)) \in Nat
         /\ Cardinality(InFlight(row)) <= Cardinality(Managers)
<1>1. \A r, s \in InFlight(row) : mgr[r] = mgr[s] => r = s
  BY Exclusion DEF InFlight, PastCheck, LockedSteps, ReserveSteps, Rows, WindowTypes
<1> QED
  BY <1>1, OnePerManager DEF InFlight, TypeOK

\* A step that adds nothing to a row and brings no call in flight keeps it.
LEMMA InFlightShrinks ==
  ASSUME TypeOK, MutexInv, TypeOK', NEW row \in Rows,
         calls[row] + Cardinality(InFlight(row)) < LimitOf(row) + Cardinality(Managers),
         calls'[row] <= calls[row],
         InFlight(row)' \subseteq InFlight(row)
  PROVE  calls'[row] + Cardinality(InFlight(row)') < LimitOf(row) + Cardinality(Managers)
<1>1. IsFiniteSet(InFlight(row)) /\ Cardinality(InFlight(row)) \in Nat
  BY InFlightBound
<1>2. Cardinality(InFlight(row)') <= Cardinality(InFlight(row))
  BY <1>1, FS_Subset
<1>3. Cardinality(InFlight(row)') \in Nat
  BY <1>1, FS_Subset, FS_CardinalityType
<1>4. Cardinality(Managers) \in Nat
  BY BudgetAssumption, FS_CardinalityType
<1>5. LimitOf(row) \in Nat /\ calls[row] \in Nat /\ calls'[row] \in Nat
  BY BudgetAssumption DEF TypeOK, LimitOf, Rows
<1> QED
  BY <1>1, <1>2, <1>3, <1>4, <1>5

\* A call that joins those in flight has just found room, so the sum of the row
\* and of the calls in flight stays below the limit and the managers together.
LEMMA OvershootStep ==
  TypeOK /\ MutexInv /\ OvershootInv /\ [Next]_vars => OvershootInv'
<1> SUFFICES ASSUME TypeOK, MutexInv, OvershootInv, [Next]_vars,
                    NEW row \in Rows, LimitOf(row) > 0
             PROVE  calls'[row] + Cardinality(InFlight(row)')
                      < LimitOf(row) + Cardinality(Managers)
  BY DEF OvershootInv, LimitOf
<1>t. TypeOK' /\ MutexInv'
  BY TypeStep, MutexStep
<1>0. /\ calls[row] + Cardinality(InFlight(row)) < LimitOf(row) + Cardinality(Managers)
      /\ LimitOf(row) \in Nat /\ calls[row] \in Nat /\ calls'[row] \in Nat
      /\ Cardinality(Managers) \in Nat
      /\ row[2] \in {"hour", "day"}
  <2>1. calls[row] + Cardinality(InFlight(row)) < LimitOf(row) + Cardinality(Managers)
    BY DEF OvershootInv
  <2>2. LimitOf(row) \in Nat /\ row[2] \in {"hour", "day"}
    BY BudgetAssumption DEF LimitOf, Rows, WindowTypes
  <2>3. calls[row] \in Nat /\ calls'[row] \in Nat
    BY <1>t DEF TypeOK
  <2>4. Cardinality(Managers) \in Nat
    BY BudgetAssumption, FS_CardinalityType
  <2> QED
    BY <2>1, <2>2, <2>3, <2>4
\* Most steps leave the row alone and let calls only leave the flight.
<1>1. ASSUME calls'[row] <= calls[row], InFlight(row)' \subseteq InFlight(row)
      PROVE  calls'[row] + Cardinality(InFlight(row)')
               < LimitOf(row) + Cardinality(Managers)
  BY <1>0, <1>t, <1>1, InFlightShrinks
<1>2. ASSUME NEW r \in Requests, NEW m \in Managers, Stamp(r, m)
      PROVE  InFlight(row)' \subseteq InFlight(row) /\ calls' = calls
  BY <1>0, <1>2 DEF TypeOK, Stamp, Goto, RowOf, storeVars, WindowTypes, InFlight, PastCheck
<1>3. ASSUME NEW r \in Requests, NEW t \in Teams, Arrive(r, t)
      PROVE  InFlight(row)' \subseteq InFlight(row) /\ calls' = calls
  BY <1>0, <1>3 DEF TypeOK, Arrive, Goto, RowOf, storeVars, WindowTypes, InFlight, PastCheck
<1>4. ASSUME NEW r \in Requests, Acquire(r)
      PROVE  InFlight(row)' \subseteq InFlight(row) /\ calls' = calls
  BY <1>0, <1>4 DEF TypeOK, Acquire, Goto, RowOf, reqVars, storeVars, WindowTypes,
     InFlight, PastCheck
<1>5. ASSUME NEW r \in Requests, NEW w \in WindowTypes, CheckCalls(r, w)
      PROVE  calls'[row] + Cardinality(InFlight(row)')
               < LimitOf(row) + Cardinality(Managers)
  <2>1. calls' = calls
    BY <1>5 DEF CheckCalls, storeVars
  \* The call that finds room comes in flight, and everything in flight is one
  \* call per manager.
  <2>2. CASE RowOf(r, w) = row /\ HasRoom(row)
    <3>1. calls[row] + 1 <= LimitOf(row)
      BY <1>0, <2>2 DEF HasRoom
    <3>2. Cardinality(InFlight(row)') \in Nat
          /\ Cardinality(InFlight(row)') <= Cardinality(Managers)
      <4>1. \A x, y \in InFlight(row)' : mgr'[x] = mgr'[y] => x = y
        BY <1>0, <1>t DEF MutexInv, InFlight, PastCheck, LockedSteps, ReserveSteps
      <4>2. InFlight(row)' \in SUBSET Requests /\ mgr' \in [Requests -> Managers]
        BY <1>t DEF InFlight, TypeOK
      <4> QED
        BY <4>1, <4>2, OnePerManager
    <3> QED
      BY <1>0, <2>1, <3>1, <3>2
  <2>3. CASE RowOf(r, w) # row \/ ~HasRoom(row)
    <3>1. InFlight(row)' \subseteq InFlight(row)
      <4>1. CASE w = "hour"
        BY <1>0, <1>5, <2>3, <4>1
           DEF TypeOK, CheckCalls, Decide, Goto, RowOf, reqVars, InFlight, PastCheck
      <4>2. CASE w = "day"
        BY <1>0, <1>5, <2>3, <4>2
           DEF TypeOK, CheckCalls, Decide, Goto, RowOf, reqVars, InFlight, PastCheck
      <4> QED
        BY <4>1, <4>2 DEF WindowTypes
    <3> QED
      BY <1>0, <1>1, <2>1, <3>1
  <2> QED
    BY <2>2, <2>3
<1>6. ASSUME NEW r \in Requests, CheckTokens(r)
      PROVE  InFlight(row)' \subseteq InFlight(row) /\ calls' = calls
  BY <1>0, <1>6 DEF TypeOK, CheckTokens, Decide, Goto, RowOf, reqVars, storeVars, WindowTypes,
     InFlight, PastCheck
<1>7. ASSUME NEW r \in Requests, NEW w \in WindowTypes, Charge(r, w)
      PROVE  calls'[row] + Cardinality(InFlight(row)')
               < LimitOf(row) + Cardinality(Managers)
  \* The charged call leaves the flight as the row counts it.
  <2>1. CASE RowOf(r, w) = row
    <3>0. row[2] = w
      BY <2>1 DEF RowOf
    <3>1. r \in InFlight(row) /\ InFlight(row)' = InFlight(row) \ {r}
      <4>1. CASE w = "hour"
        BY <1>7, <2>1, <3>0, <4>1
           DEF TypeOK, Charge, Goto, RowOf, reqVars, InFlight, PastCheck
      <4>2. CASE w = "day"
        BY <1>7, <2>1, <3>0, <4>2
           DEF TypeOK, Charge, Decide, Goto, RowOf, reqVars, InFlight, PastCheck
      <4> QED
        BY <4>1, <4>2 DEF WindowTypes
    <3>2. calls'[row] = calls[row] + 1
      BY <1>7, <2>1 DEF TypeOK, Charge
    <3>3. Cardinality(InFlight(row)') = Cardinality(InFlight(row)) - 1
          /\ Cardinality(InFlight(row)) \in Nat
      BY <3>1, InFlightBound, FS_RemoveElement
    <3> QED
      BY <1>0, <3>2, <3>3
  <2>2. CASE RowOf(r, w) # row
    <3>1. InFlight(row)' \subseteq InFlight(row)
      <4>1. /\ UNCHANGED <<team, at>>
            /\ \A q \in Requests : q # r => pc'[q] = pc[q]
            /\ \/ pc[r] = "chargeHour" /\ pc'[r] = "chargeDay"
               \/ pc'[r] = "forwarded"
        BY <1>7 DEF Charge, Decide, Goto, reqVars, TypeOK, WindowTypes
      <4>2. row[2] \in {"hour", "day"}
        BY DEF Rows, WindowTypes
      <4>3. \A q \in Requests : pc'[q] \in PastCheck[row[2]] => pc[q] \in PastCheck[row[2]]
        BY <4>1, <4>2 DEF PastCheck
      <4> QED
        BY <4>1, <4>3 DEF RowOf, InFlight
    <3>2. calls'[row] = calls[row]
      BY <1>7, <2>2 DEF TypeOK, Charge
    <3> QED
      BY <1>0, <1>1, <3>1, <3>2
  <2> QED
    BY <2>1, <2>2
<1>8. ASSUME NEW r \in Requests, ReserveFails(r)
      PROVE  InFlight(row)' \subseteq InFlight(row) /\ calls' = calls
  BY <1>0, <1>8 DEF TypeOK, ReserveFails, Decide, Goto, RowOf, reqVars, storeVars, WindowTypes,
     InFlight, PastCheck
<1>9. ASSUME NEW r \in Requests, Answer(r)
      PROVE  InFlight(row)' \subseteq InFlight(row) /\ calls' = calls
  BY <1>0, <1>9 DEF TypeOK, Answer, Goto, RowOf, reqVars, storeVars, WindowTypes,
     InFlight, PastCheck
<1>10. ASSUME NEW r \in Requests, NEW w \in WindowTypes, Bill(r, w)
       PROVE  InFlight(row)' \subseteq InFlight(row) /\ calls' = calls
  BY <1>0, <1>10 DEF TypeOK, Bill, Goto, RowOf, reqVars, WindowTypes, InFlight, PastCheck
<1>11. ASSUME NEW r \in Requests, BillFails(r)
       PROVE  InFlight(row)' \subseteq InFlight(row) /\ calls' = calls
  BY <1>0, <1>11 DEF TypeOK, BillFails, Goto, RowOf, reqVars, storeVars, WindowTypes,
     InFlight, PastCheck
<1>12. ASSUME NEW t \in Teams, NEW w \in Resets, Reset(t, w)
       PROVE  InFlight(row)' \subseteq InFlight(row) /\ calls'[row] <= calls[row]
  BY <1>0, <1>12 DEF TypeOK, Reset, RowOf, reqVars, InFlight
<1>13. CASE Crash
  <2> InFlight(row)' \subseteq InFlight(row) /\ calls' = calls
    BY <1>0, <1>13 DEF Crash, RowOf, reqVars, storeVars, WindowTypes,
     InFlight, PastCheck
  <2> QED
    BY <1>0, <1>1
<1>14. CASE Tick \/ UNCHANGED vars
  <2> InFlight(row)' = InFlight(row) /\ calls' = calls
    BY <1>14 DEF Tick, vars, RowOf, reqVars, storeVars, InFlight
  <2> QED
    BY <1>0, <1>1
<1> QED
  BY <1>0, <1>1, <1>2, <1>3, <1>4, <1>5, <1>6, <1>7, <1>8, <1>9, <1>10, <1>11, <1>12,
     <1>13, <1>14 DEF Next, Serve

\* The limits hold up to one call per other worker (OvershootBounded), for any
\* number of workers: the proof counts, for each row, the calls it holds and
\* the calls in flight towards it.
THEOREM OvershootIsBounded == Spec => []OvershootBounded
<1>1. Init => OvershootInv
  <2> SUFFICES ASSUME Init, NEW row \in Rows, LimitOf(row) > 0
               PROVE  calls[row] + Cardinality(InFlight(row))
                        < LimitOf(row) + Cardinality(Managers)
    BY DEF OvershootInv
  <2>1. InFlight(row) = {} /\ calls[row] = 0
    BY DEF Init, InFlight, PastCheck, Rows, WindowTypes
  <2>2. Cardinality({}) = 0
    BY FS_EmptySet
  <2>3. Cardinality(Managers) \in Nat /\ LimitOf(row) \in Nat
    BY BudgetAssumption, FS_CardinalityType DEF LimitOf, Rows
  <2> QED
    BY <2>1, <2>2, <2>3
<1>2. TypeOK /\ MutexInv /\ OvershootInv => OvershootBounded
  <2> SUFFICES ASSUME TypeOK, MutexInv, OvershootInv, NEW row \in Rows, LimitOf(row) > 0
               PROVE  calls[row] < LimitOf(row) + Cardinality(Managers)
    BY DEF OvershootBounded
  <2>1. calls[row] + Cardinality(InFlight(row)) < LimitOf(row) + Cardinality(Managers)
    BY DEF OvershootInv
  <2>2. Cardinality(InFlight(row)) \in Nat /\ calls[row] \in Nat
    BY InFlightBound DEF TypeOK
  <2>3. Cardinality(Managers) \in Nat /\ LimitOf(row) \in Nat
    BY BudgetAssumption, FS_CardinalityType DEF LimitOf, Rows
  <2> QED
    BY <2>1, <2>2, <2>3
<1>3. Init => MutexInv
  BY DEF Init, MutexInv, LockedSteps, ReserveSteps, BillSteps
<1> QED
  BY <1>1, <1>2, <1>3, TypeCorrect, MutexStep, OvershootStep, PTL DEF Spec

\* With a single manager no limit is exceeded at all (CallsWithinLimit).
THEOREM LimitsHold ==
  ASSUME Cardinality(Managers) = 1
  PROVE  Spec => []CallsWithinLimit
<1>1. TypeOK /\ OvershootBounded => CallsWithinLimit
  <2> SUFFICES ASSUME TypeOK, OvershootBounded, NEW row \in Rows, LimitOf(row) > 0
               PROVE  calls[row] <= LimitOf(row)
    BY DEF CallsWithinLimit
  <2>1. calls[row] \in Nat /\ LimitOf(row) \in Nat
    BY BudgetAssumption DEF TypeOK, LimitOf, Rows
  <2>2. calls[row] < LimitOf(row) + Cardinality(Managers)
    BY DEF OvershootBounded
  <2> QED
    BY <2>1, <2>2
<1> QED
  BY <1>1, TypeCorrect, OvershootIsBounded, PTL

-----------------------------------------------------------------------------
(* What the rows count. *)

UnchargedSteps == {"idle", "reading", "waiting", "checkHour", "checkDay", "checkTokens",
                   "chargeHour"}
UnbilledSteps  == UnchargedSteps \cup {"chargeDay", "blocked", "forwarded", "answered",
                                       "tokenHour"}

\* A request is charged and billed at most once for each window, and a blocked
\* one is done before it is charged.
ChargeInv ==
  \A r \in Requests :
    /\ pc[r] \in UnchargedSteps => counted[r] = {}
    /\ pc[r] = "chargeDay" => "day" \notin counted[r]
    /\ pc[r] \in UnbilledSteps => billed[r] = {}
    /\ pc[r] = "tokenDay" => "day" \notin billed[r]
    /\ verdict[r] = "blocked" => pc[r] = "blocked" /\ counted[r] = {}

\* Every step keeps what has been charged in line with where its request is.
LEMMA ChargeStep == TypeOK /\ ChargeInv /\ [Next]_vars => ChargeInv'
<1> SUFFICES ASSUME TypeOK, ChargeInv, [Next]_vars PROVE ChargeInv'
  OBVIOUS
<1> USE DEF TypeOK, ChargeInv, UnchargedSteps, UnbilledSteps, Goto
<1>1. ASSUME NEW r \in Requests, NEW m \in Managers, Stamp(r, m) PROVE ChargeInv'
  BY <1>1 DEF Stamp, storeVars
<1>2. ASSUME NEW r \in Requests, NEW t \in Teams, Arrive(r, t) PROVE ChargeInv'
  BY <1>2 DEF Arrive, storeVars
<1>3. ASSUME NEW r \in Requests, Acquire(r) PROVE ChargeInv'
  BY <1>3 DEF Acquire, storeVars
<1>4. ASSUME NEW r \in Requests, NEW w \in WindowTypes, CheckCalls(r, w) PROVE ChargeInv'
  BY <1>4 DEF CheckCalls, Decide, storeVars
<1>5. ASSUME NEW r \in Requests, CheckTokens(r) PROVE ChargeInv'
  BY <1>5 DEF CheckTokens, Decide, storeVars
<1>6. ASSUME NEW r \in Requests, NEW w \in WindowTypes, Charge(r, w) PROVE ChargeInv'
  <2>1. CASE w = "hour"
    BY <1>6, <2>1 DEF Charge
  <2>2. CASE w = "day"
    BY <1>6, <2>2 DEF Charge, Decide
  <2> QED
    BY <2>1, <2>2 DEF WindowTypes
<1>7. ASSUME NEW r \in Requests, ReserveFails(r) PROVE ChargeInv'
  BY <1>7 DEF ReserveFails, Decide, storeVars, ReserveSteps
<1>8. ASSUME NEW r \in Requests, Answer(r) PROVE ChargeInv'
  BY <1>8 DEF Answer, storeVars
<1>9. ASSUME NEW r \in Requests, NEW w \in WindowTypes, Bill(r, w) PROVE ChargeInv'
  <2>1. CASE w = "hour"
    BY <1>9, <2>1 DEF Bill
  <2>2. CASE w = "day"
    BY <1>9, <2>2 DEF Bill
  <2> QED
    BY <2>1, <2>2 DEF WindowTypes
<1>10. ASSUME NEW r \in Requests, BillFails(r) PROVE ChargeInv'
  BY <1>10 DEF BillFails, BillSteps, storeVars
<1>11. ASSUME NEW t \in Teams, NEW w \in Resets, Reset(t, w) PROVE ChargeInv'
  BY <1>11 DEF Reset
<1>12. CASE Crash
  BY <1>12 DEF Crash, storeVars
<1>13. CASE Tick
  BY <1>13 DEF Tick, storeVars
<1>14. CASE UNCHANGED vars
  BY <1>14 DEF vars, storeVars
<1> QED
  BY <1>1, <1>2, <1>3, <1>4, <1>5, <1>6, <1>7, <1>8, <1>9, <1>10, <1>11, <1>12,
     <1>13, <1>14 DEF Next, Serve

\* At first nothing is charged.
LEMMA ChargeInit == Init => ChargeInv
BY DEF Init, ChargeInv, UnchargedSteps, UnbilledSteps

\* A blocked call is charged to nothing (BlockedIsFree).
THEOREM BlockedCallsAreFree == Spec => []BlockedIsFree
<1>1. ChargeInv => BlockedIsFree
  BY DEF ChargeInv, BlockedIsFree, UnbilledSteps
<1> QED
  BY <1>1, TypeCorrect, ChargeInit, ChargeStep, PTL DEF Spec

\* The charged and the billed requests of a row are finitely many.
LEMMA ChargedFinite ==
  ASSUME NEW row
  PROVE  /\ IsFiniteSet(ChargedTo(row)) /\ Cardinality(ChargedTo(row)) \in Nat
         /\ IsFiniteSet(BilledTo(row)) /\ Cardinality(BilledTo(row)) \in Nat
<1>1. ChargedTo(row) \in SUBSET Requests /\ BilledTo(row) \in SUBSET Requests
  BY DEF ChargedTo, BilledTo
<1> QED
  BY <1>1, BudgetAssumption, FS_Subset, FS_CardinalityType

\* A charge adds its request to exactly one row; a reset empties row and set alike.
LEMMA RowsStep ==
  TypeOK /\ ChargeInv /\ RowsMatchCharges /\ [Next]_vars => RowsMatchCharges'
<1> SUFFICES ASSUME TypeOK, ChargeInv, RowsMatchCharges, [Next]_vars, NEW row \in Rows
             PROVE  /\ calls'[row] = Cardinality(ChargedTo(row)')
                    /\ tokens'[row] = Cardinality(BilledTo(row)')
  BY DEF RowsMatchCharges
<1> DEFINE C == ChargedTo(row)
           B == BilledTo(row)
           Kept == calls'[row] = calls[row] /\ C' = C /\ tokens'[row] = tokens[row] /\ B' = B
<1>0. /\ calls[row] = Cardinality(C) /\ tokens[row] = Cardinality(B)
      /\ IsFiniteSet(C) /\ IsFiniteSet(B)
  BY ChargedFinite DEF RowsMatchCharges
<1>k. ASSUME Kept
      PROVE  calls'[row] = Cardinality(C') /\ tokens'[row] = Cardinality(B')
  BY <1>0, <1>k
\* Only a request that is charged to nothing changes its team or its hour, and
\* only one that is billed to nothing those of its answer.
<1>1. ASSUME NEW r \in Requests, NEW m \in Managers, Stamp(r, m) PROVE Kept
  BY <1>1 DEF Stamp, storeVars, ChargedTo, BilledTo, RowOf, BillRow, TypeOK, ChargeInv, UnchargedSteps,
              UnbilledSteps
<1>2. ASSUME NEW r \in Requests, NEW t \in Teams, Arrive(r, t) PROVE Kept
  BY <1>2 DEF Arrive, storeVars, ChargedTo, BilledTo, RowOf, BillRow, TypeOK, ChargeInv, UnchargedSteps,
              UnbilledSteps
<1>3. ASSUME UNCHANGED <<reqVars, storeVars>> PROVE Kept
  BY <1>3 DEF reqVars, storeVars, ChargedTo, BilledTo, RowOf, BillRow
<1>4. ASSUME NEW r \in Requests, NEW w \in WindowTypes, Charge(r, w)
      PROVE  calls'[row] = Cardinality(C') /\ tokens'[row] = Cardinality(B')
  <2>1. tokens' = tokens /\ B' = B
    BY <1>4 DEF Charge, reqVars, ChargedTo, BilledTo, RowOf, BillRow
  <2>2. w \notin counted[r]
    BY <1>4 DEF Charge, ChargeInv, UnchargedSteps, WindowTypes
  <2>3. CASE RowOf(r, w) = row
    <3>0. row[2] = w
      BY <2>3 DEF RowOf
    <3>1. r \notin C /\ C' = C \cup {r}
      BY <1>4, <2>2, <2>3, <3>0 DEF Charge, reqVars, ChargedTo, BilledTo, RowOf, BillRow, TypeOK
    <3>2. calls'[row] = calls[row] + 1
      BY <1>4, <2>3 DEF Charge, TypeOK
    <3>3. Cardinality(C') = Cardinality(C) + 1
      BY <1>0, <3>1, FS_AddElement
    <3> QED
      BY <1>0, <2>1, <3>2, <3>3
  <2>4. CASE RowOf(r, w) # row
    <3>1. C' = C
      BY <1>4, <2>4 DEF Charge, reqVars, ChargedTo, BilledTo, RowOf, BillRow, TypeOK
    <3>2. calls'[row] = calls[row]
      BY <1>4, <2>4 DEF Charge, TypeOK
    <3> QED
      BY <1>0, <2>1, <3>1, <3>2
  <2> QED
    BY <2>3, <2>4
<1>5. ASSUME NEW r \in Requests, NEW w \in WindowTypes, Bill(r, w)
      PROVE  calls'[row] = Cardinality(C') /\ tokens'[row] = Cardinality(B')
  <2>1. calls' = calls /\ C' = C
    BY <1>5 DEF Bill, reqVars, ChargedTo, BilledTo, RowOf, BillRow
  <2>2. w \notin billed[r]
    BY <1>5 DEF Bill, ChargeInv, UnbilledSteps, WindowTypes
  <2>3. CASE BillRow(r, w) = row
    <3>0. row[2] = w
      BY <2>3 DEF BillRow
    <3>1. r \notin B /\ B' = B \cup {r}
      BY <1>5, <2>2, <2>3, <3>0 DEF Bill, reqVars, ChargedTo, BilledTo, RowOf, BillRow, TypeOK
    <3>2. tokens'[row] = tokens[row] + 1
      BY <1>5, <2>3 DEF Bill, TypeOK
    <3>3. Cardinality(B') = Cardinality(B) + 1
      BY <1>0, <3>1, FS_AddElement
    <3> QED
      BY <1>0, <2>1, <3>2, <3>3
  <2>4. CASE BillRow(r, w) # row
    <3>1. B' = B
      BY <1>5, <2>4 DEF Bill, reqVars, ChargedTo, BilledTo, RowOf, BillRow, TypeOK
    <3>2. tokens'[row] = tokens[row]
      BY <1>5, <2>4 DEF Bill, TypeOK
    <3> QED
      BY <1>0, <2>1, <3>1, <3>2
  <2> QED
    BY <2>3, <2>4
<1>6. ASSUME NEW t \in Teams, NEW w \in Resets, Reset(t, w)
      PROVE  calls'[row] = Cardinality(C') /\ tokens'[row] = Cardinality(B')
  <2> DEFINE gone == <<t, w, WindowStart(clock, w)>>
  <2>1. CASE row = gone
    <3>1. calls'[row] = 0 /\ tokens'[row] = 0
      BY <1>6, <2>1 DEF Reset, TypeOK
    <3>2. C' = {} /\ B' = {}
      BY <1>6, <2>1 DEF Reset, reqVars, ChargedTo, BilledTo, RowOf, BillRow
    <3> QED
      BY <3>1, <3>2, FS_EmptySet
  <2>2. CASE row # gone
    <3>1. C' = C /\ B' = B
      BY <1>6, <2>2 DEF Reset, reqVars, ChargedTo, BilledTo, RowOf, BillRow, TypeOK
    <3>2. calls'[row] = calls[row] /\ tokens'[row] = tokens[row]
      BY <1>6, <2>2 DEF Reset, TypeOK
    <3> QED
      BY <1>0, <3>1, <3>2
  <2> QED
    BY <2>1, <2>2
<1>7. CASE UNCHANGED vars
  BY <1>3, <1>7, <1>k DEF vars
<1>8. ASSUME NEW r \in Requests,
             \/ Acquire(r) \/ CheckTokens(r) \/ ReserveFails(r) \/ BillFails(r)
             \/ \E w \in WindowTypes : CheckCalls(r, w)
      PROVE  UNCHANGED <<reqVars, storeVars>>
  BY <1>8 DEF Acquire, CheckTokens, ReserveFails, BillFails, CheckCalls, Decide
<1>9. ASSUME Crash \/ Tick
      PROVE  UNCHANGED <<reqVars, storeVars>>
  BY <1>9 DEF Crash, Tick
<1>10. ASSUME NEW r \in Requests, Answer(r) PROVE Kept
  <2>1. billed[r] = {} /\ UNCHANGED <<team, at, storeVars>>
    BY <1>10 DEF Answer, ChargeInv, UnbilledSteps, UnchargedSteps
  <2>2. \A q \in Requests : q # r => payer'[q] = payer[q] /\ stamp'[q] = stamp[q]
    BY <1>10 DEF Answer, TypeOK
  <2> QED
    BY <2>1, <2>2 DEF storeVars, ChargedTo, BilledTo, RowOf, BillRow
<1> QED
  BY <1>1, <1>2, <1>3, <1>4, <1>5, <1>6, <1>7, <1>8, <1>9, <1>10, <1>k DEF Next, Serve

\* The table counts what was charged (RowsMatchCharges), for any number of
\* workers, failures, crashes and resets.
THEOREM RowsAreExact == Spec => []RowsMatchCharges
<1>1. Init => RowsMatchCharges
  <2> SUFFICES ASSUME Init, NEW row \in Rows
               PROVE  /\ calls[row] = Cardinality(ChargedTo(row))
                      /\ tokens[row] = Cardinality(BilledTo(row))
    BY DEF RowsMatchCharges
  <2>1. ChargedTo(row) = {} /\ BilledTo(row) = {}
    BY DEF Init, ChargedTo, BilledTo
  <2> QED
    BY <2>1, FS_EmptySet DEF Init
<1> QED
  BY <1>1, TypeCorrect, ChargeInit, ChargeStep, RowsStep, PTL DEF Spec

-----------------------------------------------------------------------------
(* Tokens and admission. *)

\* Once the tokens were found unspent they stay so until the call is charged.
TokensInv ==
  \A r \in Requests : pc[r] \in {"chargeHour", "chargeDay"} => TokensLeft(r)

\* Who found tokens left keeps the mutex until it charges, and who bills needs it.
LEMMA TokensStep ==
  ASSUME \A m, n \in Managers : m = n, TypeOK, MutexInv, TokensInv, [Next]_vars
  PROVE  TokensInv'
<1> SUFFICES ASSUME NEW s \in Requests, pc'[s] \in {"chargeHour", "chargeDay"}
             PROVE  TokensLeft(s)'
  BY DEF TokensInv
\* The call found tokens left before, and they are left as they were.
<1>1. ASSUME pc[s] \in {"chargeHour", "chargeDay"} \/ TokensLeft(s),
             UNCHANGED <<team[s], at[s], tokens>>
      PROVE  TokensLeft(s)'
  BY <1>1 DEF TokensInv, TokensLeft, RowOf
<1>2. ASSUME NEW r \in Requests,
             \/ \E m \in Managers : Stamp(r, m)
             \/ \E t \in Teams : Arrive(r, t)
      PROVE  TokensLeft(s)'
  <2>1. r # s /\ pc'[s] = pc[s] /\ UNCHANGED <<team[s], at[s], tokens>>
    BY <1>2 DEF Stamp, Arrive, Goto, TypeOK, storeVars
  <2> QED
    BY <1>1, <2>1
<1>3. ASSUME NEW r \in Requests,
             Acquire(r) \/ ReserveFails(r) \/ BillFails(r) \/ Answer(r)
      PROVE  TokensLeft(s)'
  <2>1. pc'[s] = pc[s] /\ UNCHANGED <<team, at, tokens>>
    BY <1>3 DEF Acquire, ReserveFails, BillFails, Answer, Decide, Goto, TypeOK,
                reqVars, storeVars
  <2> QED
    BY <1>1, <2>1
<1>4. ASSUME NEW r \in Requests, CheckTokens(r)
      PROVE  TokensLeft(s)'
  <2>1. (r = s /\ TokensLeft(s)) \/ pc'[s] = pc[s]
    BY <1>4 DEF CheckTokens, Decide, Goto, TypeOK
  <2>2. UNCHANGED <<team, at, tokens>>
    BY <1>4 DEF CheckTokens, reqVars, storeVars
  <2> QED
    BY <1>1, <2>1, <2>2
<1>5. ASSUME NEW r \in Requests, NEW w \in WindowTypes, CheckCalls(r, w)
      PROVE  TokensLeft(s)'
  <2>1. pc'[s] = pc[s] /\ UNCHANGED <<team, at, tokens>>
    BY <1>5 DEF CheckCalls, Decide, Goto, TypeOK, reqVars, storeVars
  <2> QED
    BY <1>1, <2>1
<1>6. ASSUME NEW r \in Requests, NEW w \in WindowTypes, Charge(r, w)
      PROVE  TokensLeft(s)'
  <2>1. pc[s] \in {"chargeHour", "chargeDay"} /\ UNCHANGED <<team, at, tokens>>
    BY <1>6 DEF Charge, Decide, Goto, TypeOK, reqVars, WindowTypes
  <2> QED
    BY <1>1, <2>1
\* No answer is billed meanwhile: its request would hold the same mutex.
<1>7. ASSUME NEW r \in Requests, NEW w \in WindowTypes, Bill(r, w)
      PROVE  FALSE
  <2>1. pc[r] \in BillSteps /\ pc'[s] = pc[s] /\ r # s
    BY <1>7 DEF Bill, Goto, TypeOK, BillSteps, WindowTypes
  <2>2. pc[r] \in LockedSteps /\ pc[s] \in LockedSteps
    BY <2>1 DEF LockedSteps, ReserveSteps
  <2>3. mgr[r] = mgr[s]
    BY DEF TypeOK
  <2> QED
    BY <2>1, <2>2, <2>3, Exclusion
<1>8. ASSUME NEW t \in Teams, NEW w \in Resets, Reset(t, w)
      PROVE  TokensLeft(s)'
  <2>1. TokensLeft(s) /\ UNCHANGED <<team, at>>
    BY <1>8 DEF Reset, TokensInv, reqVars
  <2>2. RowOf(s, "day") \in Rows /\ TokenLimit[team[s]] \in Nat
    BY RowType, BudgetAssumption DEF TypeOK, WindowTypes
  <2>3. tokens'[RowOf(s, "day")] = 0 \/ tokens'[RowOf(s, "day")] = tokens[RowOf(s, "day")]
    BY <1>8, <2>2 DEF Reset, TypeOK
  <2> QED
    BY <2>1, <2>2, <2>3 DEF TokensLeft, RowOf
<1>9. ASSUME Crash \/ Tick \/ UNCHANGED vars
      PROVE  TokensLeft(s)'
  <2>1. pc'[s] = pc[s] /\ UNCHANGED <<team, at, tokens>>
    BY <1>9 DEF Crash, Tick, vars, TypeOK, reqVars, storeVars
  <2> QED
    BY <1>1, <2>1
<1> QED
  BY <1>2, <1>3, <1>4, <1>5, <1>6, <1>7, <1>8, <1>9 DEF Next, Serve

\* Tokens gate admission, if there is a single manager (TokensGateAdmission).
THEOREM TokensGate ==
  ASSUME \A m, n \in Managers : m = n
  PROVE  Spec => TokensGateAdmission
<1>1. Init => TokensInv
  BY DEF Init, TokensInv
<1>2. TypeOK /\ MutexInv /\ TokensInv /\ [Next]_vars => TokensInv'
  BY TokensStep
<1>3. TypeOK /\ TokensInv /\ [Next]_vars =>
        [\A r \in Requests :
           (verdict[r] = "none" /\ verdict'[r] = "admitted") => TokensLeft(r)]_vars
  <2> SUFFICES ASSUME TypeOK, TokensInv, Next, NEW r \in Requests,
                      verdict[r] = "none", verdict'[r] = "admitted"
               PROVE  TokensLeft(r)
    OBVIOUS
  <2>1. \E s \in Requests, w \in WindowTypes : Charge(s, w) /\ verdict' # verdict
    BY DEF Next, Serve, Stamp, Arrive, Acquire, CheckCalls, CheckTokens, ReserveFails, Answer,
           Bill, BillFails, Reset, Crash, Tick, Decide, TypeOK
  <2>2. pc[r] = "chargeDay"
    BY <2>1 DEF Charge, Decide, TypeOK, WindowTypes
  <2> QED
    BY <2>2 DEF TokensInv
<1>4. Init => MutexInv
  BY DEF Init, MutexInv, LockedSteps, ReserveSteps, BillSteps
<1> QED
  BY <1>1, <1>2, <1>3, <1>4, TypeCorrect, MutexStep, PTL DEF Spec, TokensGateAdmission

-----------------------------------------------------------------------------
(* The quota. *)

\* What a call and an answer have been charged to halfway, and what is decided.
Marks ==
  \A r \in Requests :
    /\ pc[r] = "chargeDay" => "hour" \in counted[r]
    /\ pc[r] = "tokenDay" => "hour" \in billed[r]
    /\ pc[r] \in {"idle", "reading", "waiting"} \cup ReserveSteps => verdict[r] = "none"

\* A call inside CheckAndReserve still has the room it found; after its charge
\* to the hour that row may be full.
RoomKept(r) ==
  LET hour == RowOf(r, "hour")
  IN  /\ pc[r] \in {"checkDay", "checkTokens", "chargeHour"} => HasRoom(hour)
      /\ pc[r] = "chargeDay" => LimitOf(hour) = 0 \/ calls[hour] <= LimitOf(hour)
      /\ pc[r] \in {"checkTokens", "chargeHour", "chargeDay"} => HasRoom(RowOf(r, "day"))

RoomFound == \A r \in Requests : RoomKept(r)

\* Without resets the marks stay where the steps put them.
LEMMA MarksStep ==
  ASSUME Resets = {}, TypeOK, Marks, [Next]_vars
  PROVE  Marks'
<1> USE DEF TypeOK, Marks, Goto, ReserveSteps
<1>1. ASSUME NEW r \in Requests, NEW m \in Managers, Stamp(r, m) PROVE Marks'
  BY <1>1 DEF Stamp, storeVars
<1>2. ASSUME NEW r \in Requests, NEW t \in Teams, Arrive(r, t) PROVE Marks'
  BY <1>2 DEF Arrive, storeVars
<1>3. ASSUME NEW r \in Requests, Acquire(r) PROVE Marks'
  BY <1>3 DEF Acquire, storeVars
<1>4. ASSUME NEW r \in Requests, NEW w \in WindowTypes, CheckCalls(r, w) PROVE Marks'
  BY <1>4 DEF CheckCalls, Decide, storeVars
<1>5. ASSUME NEW r \in Requests, CheckTokens(r) PROVE Marks'
  BY <1>5 DEF CheckTokens, Decide, storeVars
<1>6. ASSUME NEW r \in Requests, NEW w \in WindowTypes, Charge(r, w) PROVE Marks'
  <2>1. CASE w = "hour"
    BY <1>6, <2>1 DEF Charge
  <2>2. CASE w = "day"
    BY <1>6, <2>2 DEF Charge, Decide
  <2> QED
    BY <2>1, <2>2 DEF WindowTypes
<1>7. ASSUME NEW r \in Requests, ReserveFails(r) PROVE Marks'
  BY <1>7 DEF ReserveFails, Decide, storeVars
<1>8. ASSUME NEW r \in Requests, Answer(r) PROVE Marks'
  BY <1>8 DEF Answer, storeVars
<1>9. ASSUME NEW r \in Requests, NEW w \in WindowTypes, Bill(r, w) PROVE Marks'
  <2>1. CASE w = "hour"
    BY <1>9, <2>1 DEF Bill
  <2>2. CASE w = "day"
    BY <1>9, <2>2 DEF Bill
  <2> QED
    BY <2>1, <2>2 DEF WindowTypes
<1>10. ASSUME NEW r \in Requests, BillFails(r) PROVE Marks'
  BY <1>10 DEF BillFails, BillSteps, storeVars
<1>11. CASE Crash
  BY <1>11 DEF Crash, storeVars
<1>12. CASE Tick \/ UNCHANGED vars
  BY <1>12 DEF Tick, vars, storeVars
<1> QED
  BY <1>1, <1>2, <1>3, <1>4, <1>5, <1>6, <1>7, <1>8, <1>9, <1>10, <1>11, <1>12
  DEF Next, Serve

\* With one manager nobody takes the room away: whoever charges holds the mutex.
LEMMA RoomStep ==
  ASSUME \A m, n \in Managers : m = n, Resets = {}, TypeOK, MutexInv, RoomFound, [Next]_vars
  PROVE  RoomFound'
<1> SUFFICES ASSUME NEW s \in Requests, pc'[s] \in {"checkDay", "checkTokens", "chargeHour", "chargeDay"}
             PROVE  RoomKept(s)'
  BY DEF RoomFound, RoomKept
\* Nothing the call looked at has changed.
<1>1. ASSUME pc'[s] = pc[s], UNCHANGED <<team[s], at[s], calls>>
      PROVE  RoomKept(s)'
  BY <1>1 DEF RoomFound, RoomKept, HasRoom, LimitOf, RowOf
<1>2. ASSUME NEW r \in Requests,
             \/ \E m \in Managers : Stamp(r, m)
             \/ \E t \in Teams : Arrive(r, t)
             \/ Acquire(r) \/ ReserveFails(r) \/ BillFails(r) \/ Answer(r)
      PROVE  RoomKept(s)'
  <2>1. pc'[s] = pc[s] /\ UNCHANGED <<team[s], at[s], calls>>
    BY <1>2 DEF Stamp, Arrive, Acquire, ReserveFails, BillFails, Answer, Decide, Goto, TypeOK,
                reqVars, storeVars
  <2> QED
    BY <1>1, <2>1
<1>3. ASSUME NEW r \in Requests, NEW w \in WindowTypes, CheckCalls(r, w)
      PROVE  RoomKept(s)'
  <2>1. CASE r # s
    <3>1. pc'[s] = pc[s] /\ UNCHANGED <<team[s], at[s], calls>>
      BY <1>3, <2>1 DEF CheckCalls, Decide, Goto, TypeOK, reqVars, storeVars
    <3> QED
      BY <1>1, <3>1
  <2>2. CASE r = s
    <3>1. UNCHANGED <<team, at, calls>>
      BY <1>3 DEF CheckCalls, reqVars, storeVars
    <3>2. CASE w = "hour"
      <4>1. pc'[s] = "checkDay" /\ HasRoom(RowOf(s, "hour"))
        BY <1>3, <2>2, <3>2 DEF CheckCalls, Decide, Goto, TypeOK
      <4> QED
        BY <3>1, <4>1 DEF RoomKept, HasRoom, LimitOf, RowOf
    <3>3. CASE w = "day"
      <4>1. pc[s] = "checkDay" /\ pc'[s] = "checkTokens" /\ HasRoom(RowOf(s, "day"))
        BY <1>3, <2>2, <3>3 DEF CheckCalls, Decide, Goto, TypeOK
      <4> QED
        BY <3>1, <4>1 DEF RoomFound, RoomKept, HasRoom, LimitOf, RowOf
    <3> QED
      BY <3>2, <3>3 DEF WindowTypes
  <2> QED
    BY <2>1, <2>2
<1>4. ASSUME NEW r \in Requests, CheckTokens(r)
      PROVE  RoomKept(s)'
  <2>1. UNCHANGED <<team, at, calls>>
    BY <1>4 DEF CheckTokens, reqVars, storeVars
  <2>2. pc'[s] = pc[s] \/ (pc[s] = "checkTokens" /\ pc'[s] = "chargeHour")
    BY <1>4 DEF CheckTokens, Decide, Goto, TypeOK
  <2>3. CASE pc[s] = "checkTokens" /\ pc'[s] = "chargeHour"
    BY <2>1, <2>3 DEF RoomFound, RoomKept, HasRoom, LimitOf, RowOf
  <2> QED
    BY <1>1, <2>1, <2>2, <2>3
<1>5. ASSUME NEW r \in Requests, NEW w \in WindowTypes, Charge(r, w)
      PROVE  RoomKept(s)'
  <2>1. pc[s] \in LockedSteps /\ pc[r] \in LockedSteps
    BY <1>5 DEF Charge, Decide, Goto, TypeOK, LockedSteps, ReserveSteps, WindowTypes
  <2>2. r = s
    BY <2>1, Exclusion DEF TypeOK
  <2>3. w = "hour" /\ pc[s] = "chargeHour" /\ pc'[s] = "chargeDay"
    BY <1>5, <2>2 DEF Charge, Decide, Goto, TypeOK, WindowTypes
  <2>4. /\ RowOf(s, "hour") \in Rows /\ RowOf(s, "day") \in Rows
        /\ RowOf(s, "hour") # RowOf(s, "day")
    BY RowType DEF WindowTypes, RowOf
  <2>5. UNCHANGED <<team, at>> /\ calls' = [calls EXCEPT ![RowOf(s, "hour")] = @ + 1]
    BY <1>5, <2>2, <2>3 DEF Charge, reqVars
  <2>6. /\ calls'[RowOf(s, "hour")] = calls[RowOf(s, "hour")] + 1
        /\ calls'[RowOf(s, "day")] = calls[RowOf(s, "day")]
    BY <2>4, <2>5 DEF TypeOK
  <2>7. RowOf(s, "hour")' = RowOf(s, "hour") /\ RowOf(s, "day")' = RowOf(s, "day")
    BY <2>5 DEF RowOf
  <2> QED
    BY <2>3, <2>6, <2>7 DEF RoomFound, RoomKept, HasRoom, LimitOf
<1>6. ASSUME NEW r \in Requests, NEW w \in WindowTypes, Bill(r, w)
      PROVE  RoomKept(s)'
  <2>1. pc'[s] = pc[s] /\ UNCHANGED <<team[s], at[s], calls>>
    BY <1>6 DEF Bill, Goto, TypeOK, reqVars, WindowTypes
  <2> QED
    BY <1>1, <2>1
<1>7. CASE Crash \/ Tick \/ UNCHANGED vars
  <2>1. pc'[s] = pc[s] /\ UNCHANGED <<team[s], at[s], calls>>
    BY <1>7 DEF Crash, Tick, vars, TypeOK, reqVars, storeVars
  <2> QED
    BY <1>1, <2>1
<1> QED
  BY <1>2, <1>3, <1>4, <1>5, <1>6, <1>7 DEF Next, Serve

\* What Quota is told of the rows.
UsedBar  == [row \in Rows |-> calls[row] - Cardinality(Charging(row))]
SpentBar == [row \in Rows |-> tokens[row] - Cardinality(Billing(row))]

\* A row without one of the calls, or answers, it counts.
LessOne(count, row) == [x \in Rows |-> IF x = row THEN count[x] - 1 ELSE count[x]]

\* The one request that may be halfway is all that UsedBar and SpentBar leave out.
BarFacts ==
  /\ (\A r \in Requests : pc[r] # "chargeDay") => UsedBar = calls
  /\ \A r \in Requests : pc[r] = "chargeDay" => UsedBar = LessOne(calls, RowOf(r, "hour"))
  /\ (\A r \in Requests : pc[r] # "tokenDay") => SpentBar = tokens
  /\ \A r \in Requests : pc[r] = "tokenDay" => SpentBar = LessOne(tokens, BillRow(r, "hour"))

\* With one manager only one request is inside it.
LEMMA OneInside ==
  ASSUME \A m, n \in Managers : m = n, TypeOK, MutexInv,
         NEW r \in Requests, NEW s \in Requests, pc[r] \in LockedSteps, pc[s] \in LockedSteps
  PROVE  r = s
BY Exclusion DEF TypeOK

\* Sets of requests halfway have one element or none.
LEMMA BarsAreSimple ==
  ASSUME \A m, n \in Managers : m = n, TypeOK, MutexInv, Marks
  PROVE  BarFacts
<1> USE DEF LockedSteps, ReserveSteps, BillSteps
<1>1. Cardinality({}) = 0 /\ \A x : Cardinality({x}) = 1
  BY FS_EmptySet, FS_Singleton
<1>2. calls \in [Rows -> Nat] /\ tokens \in [Rows -> Nat]
  BY DEF TypeOK
<1>3. ASSUME \A r \in Requests : pc[r] # "chargeDay"
      PROVE  UsedBar = calls
  <2>1. \A row \in Rows : Charging(row) = {}
    BY <1>3 DEF Charging
  <2>2. \A row \in Rows : calls[row] - Cardinality(Charging(row)) = calls[row]
    BY <1>1, <1>2, <2>1
  <2> QED
    BY <1>2, <2>2 DEF UsedBar
<1>4. ASSUME NEW r \in Requests, pc[r] = "chargeDay"
      PROVE  UsedBar = LessOne(calls, RowOf(r, "hour"))
  <2>1. \A s \in Requests : pc[s] = "chargeDay" => s = r
    BY <1>4, OneInside
  <2>2. \A row \in Rows : Charging(row) = IF row = RowOf(r, "hour") THEN {r} ELSE {}
    BY <1>4, <2>1 DEF Charging, Marks
  <2>3. \A row \in Rows : Cardinality(Charging(row)) = IF row = RowOf(r, "hour") THEN 1 ELSE 0
    BY <1>1, <2>2
  <2>4. \A row \in Rows : calls[row] - Cardinality(Charging(row)) =
                            IF row = RowOf(r, "hour") THEN calls[row] - 1 ELSE calls[row]
    BY <1>2, <2>3
  <2> QED
    BY <2>4 DEF UsedBar, LessOne
<1>5. ASSUME \A r \in Requests : pc[r] # "tokenDay"
      PROVE  SpentBar = tokens
  <2>1. \A row \in Rows : Billing(row) = {}
    BY <1>5 DEF Billing
  <2>2. \A row \in Rows : tokens[row] - Cardinality(Billing(row)) = tokens[row]
    BY <1>1, <1>2, <2>1
  <2> QED
    BY <1>2, <2>2 DEF SpentBar
<1>6. ASSUME NEW r \in Requests, pc[r] = "tokenDay"
      PROVE  SpentBar = LessOne(tokens, BillRow(r, "hour"))
  <2>1. \A s \in Requests : pc[s] = "tokenDay" => s = r
    BY <1>6, OneInside
  <2>2. \A row \in Rows : Billing(row) = IF row = BillRow(r, "hour") THEN {r} ELSE {}
    BY <1>6, <2>1 DEF Billing, Marks
  <2>3. \A row \in Rows : Cardinality(Billing(row)) = IF row = BillRow(r, "hour") THEN 1 ELSE 0
    BY <1>1, <2>2
  <2>4. \A row \in Rows : tokens[row] - Cardinality(Billing(row)) =
                            IF row = BillRow(r, "hour") THEN tokens[row] - 1 ELSE tokens[row]
    BY <1>2, <2>3
  <2> QED
    BY <2>4 DEF SpentBar, LessOne
<1> QED
  BY <1>3, <1>4, <1>5, <1>6 DEF BarFacts

\* A step on which no row and no half charge changes leaves Quota's rows alone.
LEMMA QuietStep ==
  ASSUME BarFacts, BarFacts', UNCHANGED <<calls, tokens>>,
         \A s \in Requests : pc[s] = "chargeDay" <=> pc'[s] = "chargeDay",
         \A s \in Requests : pc[s] = "tokenDay" <=> pc'[s] = "tokenDay",
         \A s \in Requests : pc[s] = "chargeDay" => UNCHANGED <<team[s], at[s]>>,
         \A s \in Requests : pc[s] = "tokenDay" => UNCHANGED <<payer[s], stamp[s]>>
  PROVE  UNCHANGED <<UsedBar, SpentBar>>
<1>1. UsedBar' = UsedBar
  <2>1. CASE \A s \in Requests : pc[s] # "chargeDay"
    BY <2>1 DEF BarFacts
  <2>2. ASSUME NEW s \in Requests, pc[s] = "chargeDay"
        PROVE  UsedBar' = UsedBar
    <3>1. RowOf(s, "hour")' = RowOf(s, "hour")
      BY <2>2 DEF RowOf
    <3> QED
      BY <2>2, <3>1 DEF BarFacts, LessOne
  <2> QED
    BY <2>1, <2>2
<1>2. SpentBar' = SpentBar
  <2>1. CASE \A s \in Requests : pc[s] # "tokenDay"
    BY <2>1 DEF BarFacts
  <2>2. ASSUME NEW s \in Requests, pc[s] = "tokenDay"
        PROVE  SpentBar' = SpentBar
    <3>1. BillRow(s, "hour")' = BillRow(s, "hour")
      BY <2>2 DEF BillRow
    <3> QED
      BY <2>2, <3>1 DEF BarFacts, LessOne
  <2> QED
    BY <2>1, <2>2
<1> QED
  BY <1>1, <1>2

\* The rows of Quota are those of Budget.
LEMMA RowsAreRows ==
  ASSUME NEW r \in Requests, NEW t, NEW h
  PROVE  /\ t = team[r] /\ h = at[r] =>
              Q!HourRow(t, h) = RowOf(r, "hour") /\ Q!DayRow(t, h) = RowOf(r, "day")
         /\ t = payer[r] /\ h = stamp[r] =>
              Q!HourRow(t, h) = BillRow(r, "hour") /\ Q!DayRow(t, h) = BillRow(r, "day")
         /\ Q!Rows = Rows
BY DEF Q!HourRow, Q!DayRow, RowOf, BillRow, WindowStart, Q!Rows, Q!Hours, Rows, Hours, WindowTypes

\* A call that checked everything has room in Quota, charged halfway or not.
LEMMA RoomIsRoom ==
  ASSUME \A m, n \in Managers : m = n, TypeOK, MutexInv, RoomFound, TokensInv, BarFacts,
         NEW r \in Requests, pc[r] = "chargeDay", NEW t, NEW h, t = team[r], h = at[r]
  PROVE  Q!Room(t, h)
<1> DEFINE hour == RowOf(r, "hour")
           day  == RowOf(r, "day")
<1>1. hour \in Rows /\ day \in Rows /\ hour # day /\ calls[hour] \in Nat /\ calls[day] \in Nat
  BY RowType DEF WindowTypes, RowOf, TypeOK
<1>2. LimitOf(hour) \in Nat /\ LimitOf(day) \in Nat /\ TokenLimit[team[r]] \in Nat
  BY BudgetAssumption DEF LimitOf, RowOf, TypeOK, WindowTypes
<1>3. UsedBar = LessOne(calls, hour)
  BY DEF BarFacts
<1>4. UsedBar[hour] = calls[hour] - 1 /\ UsedBar[day] = calls[day]
  BY <1>1, <1>3 DEF LessOne
<1>5. LimitOf(hour) = 0 \/ UsedBar[hour] < LimitOf(hour)
  BY <1>1, <1>2, <1>4 DEF RoomFound, RoomKept
<1>6. LimitOf(day) = 0 \/ UsedBar[day] < LimitOf(day)
  BY <1>1, <1>2, <1>4 DEF RoomFound, RoomKept, HasRoom
<1>7. TokenLimit[team[r]] = 0 \/ SpentBar[day] < TokenLimit[team[r]]
  <2>1. \A s \in Requests : pc[s] # "tokenDay"
    BY OneInside DEF LockedSteps, ReserveSteps, BillSteps
  <2>2. SpentBar = tokens
    BY <2>1 DEF BarFacts
  <2> QED
    BY <2>2 DEF TokensInv, TokensLeft
<1>8. \A row \in {hour, day} :
        CallLimit[team[r]][row[2]] = 0 \/ UsedBar[row] < CallLimit[team[r]][row[2]]
  BY <1>5, <1>6 DEF LimitOf, RowOf
<1> QED
  BY <1>7, <1>8, RowsAreRows DEF Q!Room, UsedBar, SpentBar

\* What is known at every step.
QuotaInv == TypeOK /\ MutexInv /\ Marks /\ RoomFound /\ TokensInv /\ BarFacts

\* A request that checks is the only one inside, so nothing is halfway.
LEMMA NothingHalfway ==
  ASSUME \A m, n \in Managers : m = n, QuotaInv,
         NEW r \in Requests, pc[r] \in LockedSteps \ {"chargeDay", "tokenDay"}
  PROVE  /\ \A s \in Requests : pc[s] \notin {"chargeDay", "tokenDay"}
         /\ UsedBar = calls /\ SpentBar = tokens
<1>1. \A s \in Requests : pc[s] \in LockedSteps => s = r
  BY OneInside DEF QuotaInv
<1>2. \A s \in Requests : pc[s] \notin {"chargeDay", "tokenDay"}
  BY <1>1 DEF LockedSteps, ReserveSteps, BillSteps
<1> QED
  BY <1>2 DEF QuotaInv, BarFacts

\* While a call is charged, or an answer billed, no other is.
LEMMA OneHalfway ==
  ASSUME \A m, n \in Managers : m = n, QuotaInv,
         NEW r \in Requests, pc[r] \in {"chargeDay", "tokenDay"}
  PROVE  /\ \A s \in Requests : s # r => pc[s] \notin {"chargeDay", "tokenDay"}
         /\ pc[r] = "chargeDay" => UsedBar = LessOne(calls, RowOf(r, "hour")) /\ SpentBar = tokens
         /\ pc[r] = "tokenDay" => UsedBar = calls /\ SpentBar = LessOne(tokens, BillRow(r, "hour"))
<1> USE DEF LockedSteps, ReserveSteps, BillSteps
<1>1. \A s \in Requests : s # r => pc[s] \notin {"chargeDay", "tokenDay"}
  BY OneInside DEF QuotaInv
<1> QED
  BY <1>1 DEF QuotaInv, BarFacts

\* Charging what was left out, and the day, is what Quota adds.
LEMMA AddBoth ==
  ASSUME NEW count \in [Rows -> Nat], NEW hour \in Rows, NEW day \in Rows, hour # day,
         NEW both, both = [count EXCEPT ![day] = @ + 1]
  PROVE  both = Q!Add(LessOne(count, hour), {hour, day})
<1>1. Q!Rows = Rows
  BY DEF Q!Rows, Q!Hours, Rows, Hours, WindowTypes
<1>2. \A row \in Rows : count[row] \in Int /\ count[row] - 1 + 1 = count[row]
  OBVIOUS
<1>3. \A row \in Rows :
        both[row] = IF row \in {hour, day} THEN LessOne(count, hour)[row] + 1
                  ELSE LessOne(count, hour)[row]
  BY <1>2 DEF LessOne
<1> QED
  BY <1>1, <1>3 DEF Q!Add, LessOne

\* Charging what was left out alone, and leaving out what is charged.
LEMMA AddBack ==
  ASSUME NEW count \in [Rows -> Nat], NEW hour \in Rows
  PROVE  /\ count = Q!Add(LessOne(count, hour), {hour})
         /\ LessOne([count EXCEPT ![hour] = @ + 1], hour) = count
<1>1. Q!Rows = Rows
  BY DEF Q!Rows, Q!Hours, Rows, Hours, WindowTypes
<1>2. \A row \in Rows : /\ count[row] \in Int
                        /\ count[row] - 1 + 1 = count[row] /\ count[row] + 1 - 1 = count[row]
  OBVIOUS
<1>3. \A row \in Rows :
        count[row] = IF row \in {hour} THEN LessOne(count, hour)[row] + 1
                  ELSE LessOne(count, hour)[row]
  BY <1>2 DEF LessOne
<1>4. \A row \in Rows : LessOne([count EXCEPT ![hour] = @ + 1], hour)[row] = count[row]
  BY <1>2 DEF LessOne
<1> QED
  BY <1>1, <1>3, <1>4 DEF Q!Add, LessOne

\* A check that fails fails in Quota.
LEMMA BlockStep ==
  ASSUME \A m, n \in Managers : m = n, QuotaInv, BarFacts', NEW r \in Requests,
         pc[r] \in {"checkHour", "checkDay", "checkTokens"},
         \/ \E w \in WindowTypes : ~HasRoom(RowOf(r, w))
         \/ ~TokensLeft(r),
         Decide(r, "blocked"), UNCHANGED <<reqVars, storeVars>>,
         NEW t, NEW h, t = team[r], h = at[r]
  PROVE  Q!Block(r, t, h)
<1> USE DEF LockedSteps, ReserveSteps, BillSteps
<1>1. /\ \A s \in Requests : pc[s] \notin {"chargeDay", "tokenDay"}
      /\ UsedBar = calls /\ SpentBar = tokens
  BY NothingHalfway
<1>2. verdict[r] = "none" /\ verdict' = [verdict EXCEPT ![r] = "blocked"]
  BY DEF QuotaInv, Marks, Decide
<1>3. \A s \in Requests : pc'[s] \notin {"chargeDay", "tokenDay"}
  BY <1>1 DEF Decide, Goto, QuotaInv, TypeOK
<1>4. UNCHANGED <<UsedBar, SpentBar>>
  BY <1>1, <1>3, QuietStep DEF QuotaInv, storeVars
<1>5. ~Q!Room(t, h)
  <2>1. CASE \E w \in WindowTypes : ~HasRoom(RowOf(r, w))
    <3>1. PICK w \in WindowTypes : ~HasRoom(RowOf(r, w))
      BY <2>1
    <3>2. RowOf(r, w) \in Rows /\ calls[RowOf(r, w)] \in Nat /\ LimitOf(RowOf(r, w)) \in Nat
      BY RowType, BudgetAssumption DEF QuotaInv, TypeOK, LimitOf, RowOf
    <3>3. ~(LimitOf(RowOf(r, w)) = 0 \/ UsedBar[RowOf(r, w)] < LimitOf(RowOf(r, w)))
      BY <1>1, <3>1, <3>2 DEF HasRoom
    <3>4. RowOf(r, w) \in {RowOf(r, "hour"), RowOf(r, "day")}
          /\ LimitOf(RowOf(r, w)) = CallLimit[team[r]][RowOf(r, w)[2]]
      BY DEF WindowTypes, LimitOf, RowOf
    <3> QED
      BY <3>3, <3>4, RowsAreRows DEF Q!Room, UsedBar
  <2>2. CASE ~TokensLeft(r)
    <3>1. ~(TokenLimit[team[r]] = 0 \/ SpentBar[RowOf(r, "day")] < TokenLimit[team[r]])
      BY <1>1, <2>2 DEF TokensLeft
    <3> QED
      BY <3>1, RowsAreRows DEF Q!Room, SpentBar
  <2> QED
    BY <2>1, <2>2
<1> QED
  BY <1>2, <1>4, <1>5 DEF Q!Block, Q!Decided, UsedBar, SpentBar

\* The charge to the day completes an admission.
LEMMA AdmitStep ==
  ASSUME \A m, n \in Managers : m = n, QuotaInv, BarFacts', NEW r \in Requests, Charge(r, "day"),
         NEW t, NEW h, t = team[r], h = at[r]
  PROVE  Q!Admit(r, t, h)
<1> DEFINE hour == RowOf(r, "hour")
           day  == RowOf(r, "day")
<1>1. /\ pc[r] = "chargeDay" /\ verdict[r] = "none" /\ verdict' = [verdict EXCEPT ![r] = "admitted"]
      /\ pc' = [pc EXCEPT ![r] = "forwarded"]
      /\ calls' = [calls EXCEPT ![day] = @ + 1] /\ tokens' = tokens
  BY DEF Charge, Decide, Goto, QuotaInv, Marks, ReserveSteps
<1>2. /\ \A s \in Requests : s # r => pc[s] \notin {"chargeDay", "tokenDay"}
      /\ UsedBar = LessOne(calls, hour) /\ SpentBar = tokens
  BY <1>1, OneHalfway
<1>3. \A s \in Requests : pc'[s] \notin {"chargeDay", "tokenDay"}
  BY <1>1, <1>2 DEF QuotaInv, TypeOK
<1>4. UsedBar' = calls' /\ SpentBar' = tokens'
  BY <1>3 DEF BarFacts
<1>5. hour \in Rows /\ day \in Rows /\ hour # day /\ calls \in [Rows -> Nat]
  BY RowType DEF WindowTypes, RowOf, QuotaInv, TypeOK
<1>6. UsedBar' = Q!Add(UsedBar, {hour, day}) /\ SpentBar' = SpentBar
  <2>1. calls' = [calls EXCEPT ![day] = @ + 1]
    BY <1>1
  <2>2. calls' = Q!Add(LessOne(calls, hour), {hour, day})
    BY <1>5, <2>1, AddBoth
  <2> QED
    BY <1>1, <1>2, <1>4, <2>2
<1>7. Q!Room(t, h)
  BY <1>1, RoomIsRoom DEF QuotaInv
<1> QED
  BY <1>1, <1>6, <1>7, RowsAreRows DEF Q!Admit, Q!Decided, UsedBar, SpentBar

\* A failure lets the call through, with the hour charged when the day was next.
LEMMA BypassStep ==
  ASSUME \A m, n \in Managers : m = n, QuotaInv, BarFacts', NEW r \in Requests, ReserveFails(r),
         NEW t, NEW h, t = team[r], h = at[r]
  PROVE  Q!Bypass(r, t, h)
<1> DEFINE hour == RowOf(r, "hour")
           day  == RowOf(r, "day")
<1>1. /\ pc[r] \in ReserveSteps /\ verdict[r] = "none"
      /\ verdict' = [verdict EXCEPT ![r] = "bypassed"]
      /\ pc' = [pc EXCEPT ![r] = "forwarded"]
      /\ calls' = calls /\ tokens' = tokens
  BY DEF ReserveFails, Decide, Goto, QuotaInv, Marks, storeVars
<1>2. CASE pc[r] = "chargeDay"
  <2>1. /\ \A s \in Requests : s # r => pc[s] \notin {"chargeDay", "tokenDay"}
        /\ UsedBar = LessOne(calls, hour) /\ SpentBar = tokens
    BY <1>2, OneHalfway
  <2>2. \A s \in Requests : pc'[s] \notin {"chargeDay", "tokenDay"}
    BY <1>1, <2>1 DEF QuotaInv, TypeOK
  <2>3. UsedBar' = calls /\ SpentBar' = tokens
    BY <1>1, <2>2 DEF BarFacts
  <2>4. hour \in Rows /\ day \in Rows /\ hour # day /\ calls \in [Rows -> Nat]
    BY RowType DEF WindowTypes, RowOf, QuotaInv, TypeOK
  <2>5. UsedBar' = Q!Add(UsedBar, {hour}) /\ SpentBar' = SpentBar
    BY <2>1, <2>3, <2>4, AddBack
  <2>6. Q!Room(t, h)
    BY <1>2, RoomIsRoom DEF QuotaInv
  <2> QED
    BY <1>1, <2>5, <2>6, RowsAreRows DEF Q!Bypass, Q!Decided, UsedBar, SpentBar
<1>3. CASE pc[r] # "chargeDay"
  <2>1. /\ \A s \in Requests : pc[s] \notin {"chargeDay", "tokenDay"}
        /\ UsedBar = calls /\ SpentBar = tokens
    BY <1>1, <1>3, NothingHalfway DEF LockedSteps, ReserveSteps
  <2>2. \A s \in Requests : pc'[s] \notin {"chargeDay", "tokenDay"}
    BY <1>1, <2>1 DEF QuotaInv, TypeOK
  <2>3. UNCHANGED <<UsedBar, SpentBar>>
    BY <1>1, <2>1, <2>2 DEF BarFacts
  <2> QED
    BY <1>1, <2>3 DEF Q!Bypass, Q!Decided, UsedBar, SpentBar
<1> QED
  BY <1>2, <1>3

\* The charge to the hour alone, of a call or of an answer, is not told yet.
LEMMA HalfStep ==
  ASSUME \A m, n \in Managers : m = n, QuotaInv, BarFacts', NEW r \in Requests,
         Charge(r, "hour") \/ Bill(r, "hour")
  PROVE  UNCHANGED <<verdict, UsedBar, SpentBar>>
<1> DEFINE hour == RowOf(r, "hour")
           bill == BillRow(r, "hour")
<1>1. /\ pc[r] \in {"chargeHour", "tokenHour"} /\ verdict' = verdict
      /\ RowOf(r, "hour")' = hour /\ BillRow(r, "hour")' = bill
  BY DEF Charge, Bill, reqVars, RowOf, BillRow
<1>2. /\ \A s \in Requests : pc[s] \notin {"chargeDay", "tokenDay"}
      /\ UsedBar = calls /\ SpentBar = tokens
  BY <1>1, NothingHalfway DEF LockedSteps, ReserveSteps, BillSteps
<1>3. /\ hour \in Rows /\ bill \in Rows
      /\ calls \in [Rows -> Nat] /\ tokens \in [Rows -> Nat]
  BY RowType DEF WindowTypes, QuotaInv, TypeOK
<1>4. CASE Charge(r, "hour")
  <2>1. /\ pc' = [pc EXCEPT ![r] = "chargeDay"]
        /\ calls' = [calls EXCEPT ![hour] = @ + 1] /\ tokens' = tokens
    BY <1>4 DEF Charge, Goto
  <2>2. pc'[r] = "chargeDay" /\ \A s \in Requests : pc'[s] # "tokenDay"
    BY <1>2, <2>1 DEF QuotaInv, TypeOK
  <2>3. UsedBar' = LessOne([calls EXCEPT ![hour] = @ + 1], hour) /\ SpentBar' = tokens
    BY <1>1, <2>1, <2>2 DEF BarFacts, LessOne
  <2>4. LessOne([calls EXCEPT ![hour] = @ + 1], hour) = calls
    BY <1>3, AddBack
  <2> QED
    BY <1>1, <1>2, <2>3, <2>4
<1>5. CASE Bill(r, "hour")
  <2>1. /\ pc' = [pc EXCEPT ![r] = "tokenDay"]
        /\ tokens' = [tokens EXCEPT ![bill] = @ + 1] /\ calls' = calls
    BY <1>5 DEF Bill, Goto
  <2>2. pc'[r] = "tokenDay" /\ \A s \in Requests : pc'[s] # "chargeDay"
    BY <1>2, <2>1 DEF QuotaInv, TypeOK
  <2>3. SpentBar' = LessOne([tokens EXCEPT ![bill] = @ + 1], bill) /\ UsedBar' = calls
    BY <1>1, <2>1, <2>2 DEF BarFacts, LessOne
  <2>4. LessOne([tokens EXCEPT ![bill] = @ + 1], bill) = tokens
    BY <1>3, AddBack
  <2> QED
    BY <1>1, <1>2, <2>3, <2>4
<1> QED
  BY <1>4, <1>5

\* The second row of an answer completes its bill, and without it the bill is
\* to the hour alone.
LEMMA BillStep ==
  ASSUME \A m, n \in Managers : m = n, QuotaInv, BarFacts', NEW r \in Requests,
         Bill(r, "day") \/ (BillFails(r) /\ pc[r] = "tokenDay"),
         NEW t, NEW h, t = payer[r], h = stamp[r]
  PROVE  Q!Bill(t, h)
<1> DEFINE hour == BillRow(r, "hour")
           day  == BillRow(r, "day")
<1>1. /\ pc[r] = "tokenDay" /\ verdict' = verdict /\ calls' = calls
      /\ pc' = [pc EXCEPT ![r] = "done"]
      /\ tokens' = [tokens EXCEPT ![day] = @ + 1] \/ tokens' = tokens
  BY DEF Bill, BillFails, Goto, storeVars
<1>2. /\ \A s \in Requests : s # r => pc[s] \notin {"chargeDay", "tokenDay"}
      /\ UsedBar = calls /\ SpentBar = LessOne(tokens, hour)
  BY <1>1, OneHalfway
<1>3. \A s \in Requests : pc'[s] \notin {"chargeDay", "tokenDay"}
  BY <1>1, <1>2 DEF QuotaInv, TypeOK
<1>4. UsedBar' = calls' /\ SpentBar' = tokens'
  BY <1>3 DEF BarFacts
<1>5. hour \in Rows /\ day \in Rows /\ hour # day /\ tokens \in [Rows -> Nat]
  BY RowType DEF WindowTypes, BillRow, QuotaInv, TypeOK
<1>6. /\ UsedBar' = UsedBar
      /\ SpentBar' = Q!Add(SpentBar, {hour, day}) \/ SpentBar' = Q!Add(SpentBar, {hour})
  <2>1. CASE tokens' = [tokens EXCEPT ![day] = @ + 1]
    <3>1. tokens' = Q!Add(LessOne(tokens, hour), {hour, day})
      BY <1>5, <2>1, AddBoth
    <3> QED
      BY <1>1, <1>2, <1>4, <3>1
  <2>2. CASE tokens' = tokens
    <3>1. tokens = Q!Add(LessOne(tokens, hour), {hour})
      BY <1>5, AddBack
    <3> QED
      BY <1>1, <1>2, <1>4, <2>2, <3>1
  <2> QED
    BY <1>1, <2>1, <2>2
<1> QED
  BY <1>1, <1>6, RowsAreRows DEF Q!Bill, UsedBar, SpentBar

\* A request that dies halfway leaves its hour charged; otherwise nothing is told.
LEMMA CrashStep ==
  ASSUME \A m, n \in Managers : m = n, QuotaInv, BarFacts', Crash
  PROVE  \/ UNCHANGED <<verdict, UsedBar, SpentBar>>
         \/ \E t \in Teams, h \in Q!Hours : Q!Abandon(t, h) \/ Q!Bill(t, h)
<1>1. verdict' = verdict /\ calls' = calls /\ tokens' = tokens
  BY DEF Crash, storeVars
<1>2. \A s \in Requests : pc'[s] \notin {"chargeDay", "tokenDay"}
  BY DEF Crash
<1>3. UsedBar' = calls /\ SpentBar' = tokens
  BY <1>1, <1>2 DEF BarFacts
<1>4. ASSUME NEW r \in Requests, pc[r] \in {"chargeDay", "tokenDay"},
             NEW t \in Teams, NEW h \in Q!Hours,
             pc[r] = "chargeDay" => t = team[r] /\ h = at[r],
             pc[r] = "tokenDay" => t = payer[r] /\ h = stamp[r]
      PROVE  Q!Abandon(t, h) \/ Q!Bill(t, h)
  <2> DEFINE hour == RowOf(r, "hour")
             bill == BillRow(r, "hour")
  <2>1. /\ pc[r] = "chargeDay" => UsedBar = LessOne(calls, hour) /\ SpentBar = tokens
        /\ pc[r] = "tokenDay" => UsedBar = calls /\ SpentBar = LessOne(tokens, bill)
    BY <1>4, OneHalfway
  <2>2. /\ hour \in Rows /\ bill \in Rows
        /\ calls \in [Rows -> Nat] /\ tokens \in [Rows -> Nat]
    BY RowType DEF WindowTypes, QuotaInv, TypeOK
  <2>3. CASE pc[r] = "chargeDay"
    <3>1. UsedBar' = Q!Add(UsedBar, {hour}) /\ SpentBar' = SpentBar
      <4>1. calls = Q!Add(LessOne(calls, hour), {hour})
        BY <2>2, AddBack
      <4> QED
        BY <1>3, <2>1, <2>3, <4>1
    <3>2. Q!Room(t, h)
      BY <1>4, <2>3, RoomIsRoom DEF QuotaInv
    <3> QED
      BY <1>1, <1>4, <2>3, <3>1, <3>2, RowsAreRows DEF Q!Abandon, UsedBar, SpentBar
  <2>4. CASE pc[r] = "tokenDay"
    <3>1. SpentBar' = Q!Add(SpentBar, {bill}) /\ UsedBar' = UsedBar
      <4>1. tokens = Q!Add(LessOne(tokens, bill), {bill})
        BY <2>2, AddBack
      <4> QED
        BY <1>3, <2>1, <2>4, <4>1
    <3> QED
      BY <1>1, <1>4, <2>4, <3>1, RowsAreRows DEF Q!Bill, UsedBar, SpentBar
  <2> QED
    BY <1>4, <2>3, <2>4
<1>5. CASE \A s \in Requests : pc[s] \notin {"chargeDay", "tokenDay"}
  BY <1>1, <1>3, <1>5 DEF QuotaInv, BarFacts
<1>6. \A r \in Requests : /\ team[r] \in Teams /\ at[r] \in Q!Hours
                         /\ payer[r] \in Teams /\ stamp[r] \in Q!Hours
  BY DEF QuotaInv, TypeOK, Hours, Q!Hours
<1> QED
  BY <1>4, <1>5, <1>6

\* Every step of Budget is a step of Quota, or leaves it alone.
LEMMA QuotaStep ==
  ASSUME \A m, n \in Managers : m = n, Resets = {}, QuotaInv, BarFacts', [Next]_vars
  PROVE  [Q!Next]_(Q!vars)
<1>1. \A r \in Requests :
        /\ \E t \in Teams, h \in Q!Hours : t = team[r] /\ h = at[r]
        /\ \E t \in Teams, h \in Q!Hours : t = payer[r] /\ h = stamp[r]
  BY DEF QuotaInv, TypeOK, Hours, Q!Hours
<1>2. /\ \A r \in Requests, t \in Teams, h \in Q!Hours :
            Q!Admit(r, t, h) \/ Q!Block(r, t, h) \/ Q!Bypass(r, t, h) => Q!Next
      /\ \A t \in Teams, h \in Q!Hours : Q!Abandon(t, h) \/ Q!Bill(t, h) => Q!Next
  BY Zenon DEF Q!Next
<1>3. ASSUME UNCHANGED <<verdict, UsedBar, SpentBar>>
      PROVE  [Q!Next]_(Q!vars)
  BY <1>3 DEF Q!vars, UsedBar, SpentBar
<1>4. ASSUME NEW r \in Requests,
             \/ \E m \in Managers : Stamp(r, m)
             \/ \E t \in Teams : Arrive(r, t)
      PROVE  [Q!Next]_(Q!vars)
  <2>1. /\ UNCHANGED <<calls, tokens, verdict>>
        /\ pc[r] \in {"idle", "reading"} /\ pc'[r] \in {"reading", "waiting"}
        /\ \A s \in Requests : s # r => UNCHANGED <<pc[s], team[s], at[s]>>
        /\ UNCHANGED <<payer, stamp>>
    BY <1>4 DEF Stamp, Arrive, Goto, QuotaInv, TypeOK, storeVars
  <2>2. UNCHANGED <<UsedBar, SpentBar>>
    BY <2>1, QuietStep DEF QuotaInv
  <2> QED
    BY <1>3, <2>1, <2>2
<1>5. ASSUME NEW r \in Requests,
             Acquire(r) \/ Answer(r) \/ (BillFails(r) /\ pc[r] # "tokenDay")
      PROVE  [Q!Next]_(Q!vars)
  <2>1. /\ UNCHANGED <<calls, tokens, verdict, team, at>>
        /\ pc[r] \notin {"chargeDay", "tokenDay"} /\ pc'[r] \notin {"chargeDay", "tokenDay"}
        /\ \A s \in Requests : s # r => UNCHANGED <<pc[s], payer[s], stamp[s]>>
    BY <1>5 DEF Acquire, Answer, BillFails, BillSteps, Goto, QuotaInv, TypeOK, reqVars, storeVars
  <2>2. UNCHANGED <<UsedBar, SpentBar>>
    BY <2>1, QuietStep DEF QuotaInv
  <2> QED
    BY <1>3, <2>1, <2>2
<1>6. ASSUME Tick \/ UNCHANGED vars
      PROVE  [Q!Next]_(Q!vars)
  <2>1. UNCHANGED <<calls, tokens, verdict, pc, reqVars>>
    BY <1>6 DEF Tick, vars, storeVars
  <2>2. UNCHANGED <<UsedBar, SpentBar>>
    BY <2>1, QuietStep DEF QuotaInv, reqVars
  <2> QED
    BY <1>3, <2>1, <2>2
\* The check of a window, or of the tokens, goes on or blocks.
<1>7. ASSUME NEW r \in Requests, CheckTokens(r) \/ \E w \in WindowTypes : CheckCalls(r, w)
      PROVE  [Q!Next]_(Q!vars)
  <2>1. /\ pc[r] \in {"checkHour", "checkDay", "checkTokens"}
        /\ UNCHANGED <<reqVars, storeVars>>
        /\ \/ /\ (\E w \in WindowTypes : ~HasRoom(RowOf(r, w))) \/ ~TokensLeft(r)
              /\ Decide(r, "blocked")
           \/ /\ \E step \in {"checkDay", "checkTokens", "chargeHour"} : Goto(r, step)
              /\ UNCHANGED verdict
    BY <1>7 DEF CheckTokens, CheckCalls
  <2>2. CASE /\ (\E w \in WindowTypes : ~HasRoom(RowOf(r, w))) \/ ~TokensLeft(r)
             /\ Decide(r, "blocked")
    <3>1. PICK t \in Teams, h \in Q!Hours : t = team[r] /\ h = at[r]
      BY <1>1
    <3>2. Q!Block(r, t, h)
      BY <2>1, <2>2, <3>1, BlockStep
    <3> QED
      BY <1>2, <3>1, <3>2
  <2>3. CASE /\ \E step \in {"checkDay", "checkTokens", "chargeHour"} : Goto(r, step)
             /\ UNCHANGED verdict
    <3>1. /\ UNCHANGED <<calls, tokens, verdict, team, at, payer, stamp>>
          /\ pc[r] \notin {"chargeDay", "tokenDay"} /\ pc'[r] \notin {"chargeDay", "tokenDay"}
          /\ \A s \in Requests : s # r => pc'[s] = pc[s]
      BY <2>1, <2>3 DEF Goto, QuotaInv, TypeOK, reqVars, storeVars
    <3>2. UNCHANGED <<UsedBar, SpentBar>>
      BY <3>1, QuietStep DEF QuotaInv
    <3> QED
      BY <1>3, <3>1, <3>2
  <2> QED
    BY <2>1, <2>2, <2>3
<1>8. ASSUME NEW r \in Requests, NEW w \in WindowTypes, Charge(r, w) \/ Bill(r, w)
      PROVE  [Q!Next]_(Q!vars)
  <2>1. CASE w = "hour"
    BY <1>3, <1>8, <2>1, HalfStep
  <2>2. CASE w = "day" /\ Charge(r, w)
    <3>1. PICK t \in Teams, h \in Q!Hours : t = team[r] /\ h = at[r]
      BY <1>1
    <3>2. Q!Admit(r, t, h)
      BY <2>2, <3>1, AdmitStep
    <3> QED
      BY <1>2, <3>1, <3>2
  <2>3. CASE w = "day" /\ Bill(r, w)
    <3>1. PICK t \in Teams, h \in Q!Hours : t = payer[r] /\ h = stamp[r]
      BY <1>1
    <3>2. Q!Bill(t, h)
      BY <2>3, <3>1, BillStep
    <3> QED
      BY <1>2, <3>1, <3>2
  <2> QED
    BY <1>8, <2>1, <2>2, <2>3 DEF WindowTypes
<1>9. ASSUME NEW r \in Requests, ReserveFails(r)
      PROVE  [Q!Next]_(Q!vars)
  <2>1. PICK t \in Teams, h \in Q!Hours : t = team[r] /\ h = at[r]
    BY <1>1
  <2>2. Q!Bypass(r, t, h)
    BY <1>9, <2>1, BypassStep
  <2> QED
    BY <1>2, <2>1, <2>2
<1>10. ASSUME NEW r \in Requests, BillFails(r), pc[r] = "tokenDay"
      PROVE  [Q!Next]_(Q!vars)
  <2>1. PICK t \in Teams, h \in Q!Hours : t = payer[r] /\ h = stamp[r]
    BY <1>1
  <2>2. Q!Bill(t, h)
    BY <1>10, <2>1, BillStep
  <2> QED
    BY <1>2, <2>1, <2>2
<1>11. ASSUME Crash
       PROVE  [Q!Next]_(Q!vars)
  <2>1. CASE UNCHANGED <<verdict, UsedBar, SpentBar>>
    BY <1>3, <2>1
  <2>2. ASSUME NEW t \in Teams, NEW h \in Q!Hours, Q!Abandon(t, h) \/ Q!Bill(t, h)
        PROVE  [Q!Next]_(Q!vars)
    BY <1>2, <2>2
  <2> QED
    BY <1>11, <2>1, <2>2, CrashStep
<1> QED
  BY <1>4, <1>5, <1>6, <1>7, <1>8, <1>9, <1>10, <1>11 DEF Next, Serve

\* A single manager over a table nobody resets implements Quota, for any number
\* of calls, teams and hours and whatever fails or is killed: every call is
\* checked against all the windows of its team and charged to all of them as if
\* in one step, and at worst the hour is charged without the day.
THEOREM QuotaIsImplemented ==
  ASSUME \A m, n \in Managers : m = n, Resets = {}
  PROVE  Spec => ImplementsQuota
<1>1. Init => QuotaInv /\ Q!Init
  <2> SUFFICES ASSUME Init PROVE QuotaInv /\ Q!Init
    OBVIOUS
  <2>1. TypeOK
    BY TypeInit
  <2>2. MutexInv /\ Marks /\ RoomFound /\ TokensInv
    BY DEF Init, MutexInv, Marks, RoomFound, RoomKept, TokensInv, LockedSteps, ReserveSteps, BillSteps
  <2>3. BarFacts
    BY <2>1, <2>2, BarsAreSimple
  <2>4. UsedBar = calls /\ SpentBar = tokens
    BY <2>3 DEF BarFacts, Init
  <2>5. Q!Rows = Rows
    BY DEF Q!Rows, Q!Hours, Rows, Hours, WindowTypes
  <2> QED
    BY <2>1, <2>2, <2>3, <2>4, <2>5 DEF QuotaInv, Q!Init, UsedBar, SpentBar, Init
<1>2. QuotaInv /\ [Next]_vars => QuotaInv' /\ [Q!Next]_(Q!vars)
  <2> SUFFICES ASSUME QuotaInv, [Next]_vars PROVE QuotaInv' /\ [Q!Next]_(Q!vars)
    OBVIOUS
  <2>1. TypeOK' /\ MutexInv' /\ Marks' /\ RoomFound' /\ TokensInv'
    BY TypeStep, MutexStep, MarksStep, RoomStep, TokensStep DEF QuotaInv
  <2>2. BarFacts'
    BY <2>1, BarsAreSimple, PTL
  <2> QED
    BY <2>1, <2>2, QuotaStep DEF QuotaInv
<1> QED
  BY <1>1, <1>2, PTL DEF Spec, ImplementsQuota, Q!Spec
=============================================================================
