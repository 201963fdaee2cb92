------------------------------ MODULE MCBudget ------------------------------
(* Instances of Budget small enough for TLC. *)
EXTENDS Budget, TLC

CONSTANTS alpha, other  \* a team with limits, and the default team without

\* One call an hour, two calls and one answer with tokens a day.
TightCalls  == [t \in Teams |-> IF t = alpha THEN [hour |-> 1, day |-> 2]
                                             ELSE [hour |-> 0, day |-> 0]]
TightTokens == [t \in Teams |-> IF t = alpha THEN 1 ELSE 0]

\* One call a day.
DayCalls == [t \in Teams |-> IF t = alpha THEN [hour |-> 0, day |-> 1]
                                          ELSE [hour |-> 0, day |-> 0]]

\* Two calls an hour and one a day: a call finds the hour free and the day spent.
DayBinds == [t \in Teams |-> [hour |-> 2, day |-> 1]]

NoTokens == [t \in Teams |-> 0]

Symmetry == Permutations(Requests)
=============================================================================
