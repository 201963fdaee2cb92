---------------------------- MODULE MCStdioProxy ----------------------------
(* Instances of StdioProxy small enough for TLC. *)
EXTENDS StdioProxy

CONSTANTS c1, c2, a1, i1, i2, i3

\* Every id is used once.
UniqueIds == [x \in Calls \cup Asks |-> CASE x = c1 -> i1 [] x = c2 -> i2 [] OTHER -> i3]

\* The ask of the server has the id of the second call.
AskLikeCall == [x \in Calls \cup Asks |-> IF x = c1 THEN i1 ELSE i2]
=============================================================================
