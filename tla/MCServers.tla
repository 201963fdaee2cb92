------------------------------ MODULE MCServers -----------------------------
(* Instances of Servers small enough for TLC. *)
EXTENDS Servers

CONSTANTS a, b, urlA, urlA2, urlB, cmdA

Name(stem, numbers) == [stem |-> stem, numbers |-> numbers]

\* Two hosts, one whose name ends in a number, and a command.
Named == [t \in Targets |-> CASE t = urlA2 -> Name(a, <<2>>)
                              [] t = urlB  -> Name(b, << >>)
                              [] OTHER     -> Name(a, << >>)]

Urls == [t \in Targets |-> t # cmdA]
=============================================================================
