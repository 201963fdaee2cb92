------------------------------- MODULE Quota --------------------------------
(***************************************************************************)
(* What a budget manager promises: a call is checked against every window  *)
(* of its team and charged to all of them at once, an answer is billed at  *)
(* once, and a failure leaves at most the hour charged without the day.    *)
(* Budget implements this when there is a single manager and nobody resets *)
(* a row under a call that is being charged.                               *)
(***************************************************************************)
EXTENDS Naturals

CONSTANTS Requests, Teams, CallLimit, TokenLimit, HoursPerDay, MaxHour

VARIABLES
  verdict,  \* what was decided about each request
  used,     \* calls charged to each row
  spent     \* tokens billed to each row

vars == <<verdict, used, spent>>

Hours == 0 .. MaxHour
Rows  == Teams \X {"hour", "day"} \X Hours

\* The rows of a call of team t in hour h.
HourRow(t, h) == <<t, "hour", h>>
DayRow(t, h)  == <<t, "day", h - (h % HoursPerDay)>>

Init ==
  /\ verdict = [r \in Requests |-> "none"]
  /\ used = [row \in Rows |-> 0]
  /\ spent = [row \in Rows |-> 0]

Room(t, h) ==
  /\ \A row \in {HourRow(t, h), DayRow(t, h)} :
       CallLimit[t][row[2]] = 0 \/ used[row] < CallLimit[t][row[2]]
  /\ TokenLimit[t] = 0 \/ spent[DayRow(t, h)] < TokenLimit[t]

Add(count, rows) == [row \in Rows |-> IF row \in rows THEN count[row] + 1 ELSE count[row]]

Decided(r, v) == verdict[r] = "none" /\ verdict' = [verdict EXCEPT ![r] = v]

Admit(r, t, h) ==
  /\ Room(t, h)
  /\ Decided(r, "admitted")
  /\ used' = Add(used, {HourRow(t, h), DayRow(t, h)})
  /\ UNCHANGED spent

Block(r, t, h) ==
  /\ ~Room(t, h)
  /\ Decided(r, "blocked")
  /\ UNCHANGED <<used, spent>>

\* The store failed: the call goes through, charged to the hour at most, and
\* only if there was room.
Bypass(r, t, h) ==
  /\ Decided(r, "bypassed")
  /\ \/ UNCHANGED used
     \/ Room(t, h) /\ used' = Add(used, {HourRow(t, h)})
  /\ UNCHANGED spent

\* The process died between the two charges.
Abandon(t, h) ==
  /\ Room(t, h)
  /\ used' = Add(used, {HourRow(t, h)})
  /\ UNCHANGED <<verdict, spent>>

\* An answer is billed to both rows, or to the hour alone when that fails.
Bill(t, h) ==
  /\ \E rows \in {{HourRow(t, h)}, {HourRow(t, h), DayRow(t, h)}} : spent' = Add(spent, rows)
  /\ UNCHANGED <<verdict, used>>

Next ==
  \E t \in Teams, h \in Hours :
    \/ \E r \in Requests : Admit(r, t, h) \/ Block(r, t, h) \/ Bypass(r, t, h)
    \/ Abandon(t, h)
    \/ Bill(t, h)

Spec == Init /\ [][Next]_vars
=============================================================================
