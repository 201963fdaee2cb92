---------------------------- MODULE MCHttpProxy -----------------------------
(* Instances of HttpProxy small enough for TLC. *)
EXTENDS HttpProxy

CONSTANTS c1, c2, c3, i1, i2

\* Each client counts its calls from one: c1 and c2 are different clients.
Counted == [c \in Calls |-> IF c = c3 THEN i2 ELSE i1]

\* Every call has an id of its own.
Apart == [c \in Calls |-> IF c = c1 THEN i1 ELSE i2]
=============================================================================
