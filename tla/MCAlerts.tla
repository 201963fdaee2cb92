------------------------------ MODULE MCAlerts ------------------------------
(* Instances of Alerts small enough for TLC. *)
EXTENDS Alerts

CONSTANTS errors, slow

Trace(server, method, err, ms) ==
  [server |-> server, name |-> 1, method |-> method, err |-> err, ms |-> ms]

\* Two servers with one name and one method: an error of the first, then a call
\* that makes up for it, then an error of the second.
TwoServers == <<Trace(1, 1, TRUE, 9), Trace(1, 1, FALSE, 1), Trace(2, 1, TRUE, 1)>>

\* The second method is the slow one.
TwoMethods == <<Trace(1, 1, FALSE, 1), Trace(1, 2, FALSE, 9)>>

ErrorsOrSlow == [r \in Rules |->
  [type      |-> IF r = errors THEN "error_rate" ELSE "latency_p95",
   name      |-> Any,
   method    |-> Any,
   threshold |-> IF r = errors THEN 60 ELSE 5]]

JustSlack     == <<"slack">>
HookThenSlack == <<"webhook", "slack">>
=============================================================================
