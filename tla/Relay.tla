------------------------------- MODULE Relay --------------------------------
(***************************************************************************)
(* What one direction of the stdio proxy promises to the two ends: a pipe  *)
(* that passes frames on in their order, each once, and that takes a frame *)
(* out only after its sender was told.  StdioProxy implements it twice, by *)
(* a forwarder for each direction.                                         *)
(***************************************************************************)
EXTENDS Sequences, SequencesExt

CONSTANT Frames

VARIABLES
  queue,   \* the frames on their way
  passed,  \* the frames that arrived
  refused  \* the frames whose sender was told that they will not

vars == <<queue, passed, refused>>

Init == queue = <<>> /\ passed = {} /\ refused = {}

\* A frame is written, one that never was before.
Write(m) ==
  /\ m \notin Range(queue) \cup passed \cup refused
  /\ queue' = Append(queue, m)
  /\ UNCHANGED <<passed, refused>>

\* The first frame arrives, unless its sender was told that it will not.
Pass ==
  /\ queue # <<>> /\ Head(queue) \notin refused
  /\ passed' = passed \cup {Head(queue)}
  /\ queue' = Tail(queue)
  /\ UNCHANGED refused

\* The sender of the first frame is told that it will not arrive ...
Refuse ==
  /\ queue # <<>> /\ Head(queue) \notin refused
  /\ refused' = refused \cup {Head(queue)}
  /\ UNCHANGED <<queue, passed>>

\* ... and then the frame is left out.
LeaveOut ==
  /\ queue # <<>> /\ Head(queue) \in refused
  /\ queue' = Tail(queue)
  /\ UNCHANGED <<passed, refused>>

Next == (\E m \in Frames : Write(m)) \/ Pass \/ Refuse \/ LeaveOut

Spec == Init /\ [][Next]_vars
=============================================================================
