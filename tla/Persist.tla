------------------------------ MODULE Persist -------------------------------
(***************************************************************************)
(* What happens to a record once it is made (persistTraceRecord in         *)
(* internal/proxy/proxy.go): it is published to the event streams, then    *)
(* inserted into the table of traces, and the table is cut back by age and *)
(* by number (internal/store/sqlite.go).  Forwarders, HTTP handlers and    *)
(* workers do this at the same time; each statement of SQL is one step.    *)
(* The alerts that are evaluated at the end do not touch the table.  A     *)
(* crash leaves the table as it is between two statements, where any       *)
(* goroutine may stop for ever; it needs no action of its own.             *)
(***************************************************************************)
EXTENDS EventHub, Integers, FiniteSetsExt

CONSTANTS
  MaxAge,       \* RetentionMaxAge, 0 for none
  MaxCount,     \* MaxTraceCount, 0 for none
  StoreFails,   \* statements may fail
  Skew,         \* how far the clock of an SDK's host may be ahead
  MaxTime       \* bound on the clock

ASSUME PersistAssumption ==
  /\ IsFiniteSet(Records)
  /\ MaxAge \in Nat /\ MaxCount \in Nat /\ Skew \in Nat /\ MaxTime \in Nat
  /\ StoreFails \in BOOLEAN

VARIABLES
  clock,
  pc,       \* what each record's goroutine is about to do
  created,  \* created_at of each record
  rows      \* the records in the table

vars == <<hubVars, clock, pc, created, rows>>

Time  == 0 .. MaxTime
Steps == {"new", "publish", "insert", "prune", "trim", "done", "refused", "broken"}

Goto(r, step) == pc' = [pc EXCEPT ![r] = step]

-----------------------------------------------------------------------------
\* Faulty variants of operations below.

\* The cutoff itself is too old (<= in the DELETE).
TooOldAtCutoff(r) == {x \in rows : created[x] <= created[r] - MaxAge}

\* The offset of TrimToCount is one too large.
NewestOffByOne ==
  {kept \in kSubset(IF Cardinality(rows) < MaxCount + 1 THEN Cardinality(rows)
                                                        ELSE MaxCount + 1, rows) :
     \A x \in kept, y \in rows \ kept : created[x] >= created[y]}

\* The records too old for the table when r has been inserted.
TooOld(r) == {x \in rows : created[x] < created[r] - MaxAge}

\* The sets of rows TrimToCount may keep: the newest, ties in any order.
Newest == {kept \in kSubset(IF Cardinality(rows) < MaxCount THEN Cardinality(rows)
                                                            ELSE MaxCount, rows) :
             \A x \in kept, y \in rows \ kept : created[x] >= created[y]}

-----------------------------------------------------------------------------
Init ==
  /\ HubInit
  /\ clock = 0
  /\ pc = [r \in Records |-> "new"]
  /\ created = [r \in Records |-> 0]
  /\ rows = {}

\* A record is made.  The time in it is that of its request, which may have
\* taken long; what an SDK reports carries the time of its host.
Arrive(r, t) ==
  /\ pc[r] = "new"
  /\ t <= IF KindOf[r] = "sdk" THEN clock + Skew ELSE clock
  /\ created' = [created EXCEPT ![r] = t]
  /\ Publish(r)
  /\ Goto(r, "publish")
  /\ UNCHANGED <<clock, rows>>

\* The hub's loop over the subscribers is done.
Published(r) ==
  /\ pc[r] = "publish"
  /\ todo[r] = {}
  /\ Goto(r, "insert")
  /\ UNCHANGED <<hubVars, clock, created, rows>>

Insert(r) ==
  /\ pc[r] = "insert"
  /\ \/ rows' = rows \cup {r} /\ Goto(r, "prune")
     \/ StoreFails /\ Goto(r, "refused") /\ UNCHANGED rows
  /\ UNCHANGED <<hubVars, clock, created>>

\* DeleteOlderThan, counted from the record just inserted.
DeleteOlderThan(r) ==
  /\ pc[r] = "prune"
  /\ \/ rows' = (IF MaxAge > 0 THEN rows \ TooOld(r) ELSE rows) /\ Goto(r, "trim")
     \/ StoreFails /\ MaxAge > 0 /\ Goto(r, "broken") /\ UNCHANGED rows
  /\ UNCHANGED <<hubVars, clock, created>>

TrimToCount(r) ==
  /\ pc[r] = "trim"
  /\ \/ MaxCount > 0 /\ rows' \in Newest /\ Goto(r, "done")
     \/ MaxCount = 0 /\ UNCHANGED rows /\ Goto(r, "done")
     \/ StoreFails /\ MaxCount > 0 /\ Goto(r, "broken") /\ UNCHANGED rows
  /\ UNCHANGED <<hubVars, clock, created>>

Tick ==
  /\ clock < MaxTime
  /\ clock' = clock + 1
  /\ UNCHANGED <<hubVars, pc, created, rows>>

-----------------------------------------------------------------------------
\* The steps of a goroutine that has a record to persist.
Work(r) ==
  \/ (\E s \in Subscribers : Send(r, s)) /\ UNCHANGED <<clock, pc, created, rows>>
  \/ Published(r) \/ Insert(r) \/ DeleteOlderThan(r) \/ TrimToCount(r)

Stream(s) == Subscribe(s) \/ Receive(s) \/ Unlist(s) \/ Close(s)

Next ==
  \/ \E r \in Records : Work(r) \/ \E t \in Time : Arrive(r, t)
  \/ (\E s \in Subscribers : Stream(s)) /\ UNCHANGED <<clock, pc, created, rows>>
  \/ Tick

Spec == Init /\ [][Next]_vars

\* The goroutines of the proxy run.  A client need not read its stream.
FairSpec == Spec /\ \A r \in Records : WF_vars(Work(r))
-----------------------------------------------------------------------------
\* Every variable has its type, and a record in the table has been inserted.
TypeOK ==
  /\ HubTypeOK
  /\ clock \in Time
  /\ pc \in [Records -> Steps]
  /\ created \in [Records -> Time]
  /\ rows \subseteq {r \in Records : pc[r] \in {"prune", "trim", "done", "broken"}}

\* The table holds at most MaxCount rows, and one more for every goroutine
\* between its insert and its cut, or stopped there by a failure: cuts that
\* overlap with inserts of others never let it grow beyond that.
RowsBounded ==
  MaxCount > 0 =>
    Cardinality(rows) <=
      MaxCount + Cardinality({r \in Records : pc[r] \in {"prune", "trim", "broken"}})

\* Docs: traces are retained for MaxAge.  A row goes only when it is older than
\* that by the clock, or when MaxCount rows no older than it stay.  The cutoff
\* is taken from the record being inserted, not from the clock: an SDK whose
\* host is ahead takes that much from the life of every row, and no more.
RetainedForAge ==
  [][\A x \in rows \ rows' :
       \/ created[x] < clock + Skew - MaxAge
       \/ MaxCount > 0 /\ Cardinality({y \in rows' : created[y] >= created[x]}) >= MaxCount]_vars

\* A record gets through, or is refused by the store, however slow the clients
\* of the event streams are.
SlowClientHoldsNobodyUp ==
  \A r \in Records : pc[r] = "publish" ~> pc[r] \in {"done", "refused", "broken"}
=============================================================================
