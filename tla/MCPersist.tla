----------------------------- MODULE MCPersist ------------------------------
(* Instances of Persist small enough for TLC. *)
EXTENDS Persist

CONSTANTS r1, r2, r3, r4, s1, s2

\* Correlated calls.
Calls == [r \in Records |-> "pair"]

\* One of the records comes from an SDK.
Reported == [r \in Records |-> IF r = r2 THEN "sdk" ELSE "pair"]

\* What the streams ask for.
NoFilter  == [s \in Subscribers |-> Unset]
Successes == [s \in Subscribers |-> "success"]
=============================================================================
