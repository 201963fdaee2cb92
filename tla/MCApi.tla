------------------------------- MODULE MCApi --------------------------------
(* An instance of Api small enough for TLC. *)
EXTENDS Api

CONSTANTS r1, r2, r3, d1, h1

\* One record comes from an SDK on the host of the reader.
Mixed    == [r \in Records |-> IF r = r2 THEN "sdk" ELSE "pair"]
NoFilter == [s \in Subscribers |-> Unset]
Anything == [d \in Readers |-> Unset]
OneHost  == [c \in Readers \cup Records |-> h1]
=============================================================================
