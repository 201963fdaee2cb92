------------------------------ MODULE MCEngine ------------------------------
(* Instances of Engine small enough for TLC. *)
EXTENDS Engine

Trace(err, ms) == [err |-> err, ms |-> ms]

Rule(name, kind, threshold, channels) ==
  [name |-> name, kind |-> kind, threshold |-> threshold, channels |-> channels]

CONSTANTS errors, slow

\* Two rules with one name, the second with two channels, and one of its own.
ThreeRules == <<Rule(errors, "error_rate_5m", 40, <<"slack">>),
                Rule(errors, "p99_ms", 5, <<"slack", "pagerduty">>),
                Rule(slow, "p99_ms", 5, <<"pagerduty">>)>>

FailsFast  == Trace(TRUE, 1)
Succeeds   == Trace(FALSE, 9)
TwoKinds   == {FailsFast, Succeeds}
=============================================================================
