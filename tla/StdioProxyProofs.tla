-------------------------- MODULE StdioProxyProofs --------------------------
(***************************************************************************)
(* Theorems about StdioProxy, for every number of calls, asks and ids, any *)
(* bound on the clock and any set of faults.                               *)
(***************************************************************************)
EXTENDS StdioProxy, TrackerProofs, SequenceTheorems

-----------------------------------------------------------------------------
\* A frame is typed wherever it goes, and so is its denial.
LEMMA MessageTypes ==
  /\ \A m \in ClientMessages \cup ServerMessages : m \in Messages /\ Denial(m) \in Denials
  /\ \A c \in Calls : [kind |-> "call", about |-> c] \in ClientMessages
  /\ \A c \in Calls : [kind |-> "answer", about |-> c] \in ServerMessages
  /\ \A a \in Asks : [kind |-> "reply", about |-> a] \in ClientMessages
  /\ \A a \in Asks : [kind |-> "ask", about |-> a] \in ServerMessages
BY DEF Messages, ClientMessages, ServerMessages, Denial, Denials

\* A forwarder that keeps its frame may go on to any step but a read.
LEMMA ForwarderGoesOn ==
  ASSUME ForwardersTypeOK, hand[C2S] # NoMessage, NEW step \in Steps \ {"read"},
         Goto(C2S, step), UNCHANGED <<hand, stamp>>
  PROVE  ForwardersTypeOK'
BY DEF ForwardersTypeOK, Goto, Dirs, C2S, S2C, Steps, DenySteps

\* What the forwarder of the client's direction does keeps the types.
LEMMA ForwardClientTypes ==
  ASSUME TypeOK, TrackerAssumption, StdioAssumption, ForwardClient
  PROVE  TypeOK'
<1> USE DEF Goto, fwdVars, clientVars, serverVars, worldVars, Dirs, C2S, S2C, Steps, DenySteps
<1>1. UNCHANGED trackerVars => TrackerTypeOK' /\ unlogged' \subseteq Messages
  BY DEF TypeOK, ForwardersTypeOK, TrackerTypeOK, trackerVars
<1>2. CASE ReadClient
  <2>1. Head(stdin) \in ClientMessages /\ Tail(stdin) \in Seq(ClientMessages)
    BY <1>2 DEF TypeOK, ForwardersTypeOK, ReadClient
  <2>2. Head(stdin) # NoMessage /\ Head(stdin) \in Messages
    BY <2>1, MessageTypes, StdioAssumption DEF StdioAssumption
  <2>3. ForwardersTypeOK'
    BY <1>2, <2>1, <2>2 DEF TypeOK, ForwardersTypeOK, ReadClient
  <2> QED
    BY <1>1, <1>2, <2>1, <2>3 DEF TypeOK, ReadClient
<1>3. CASE ReadEnd(C2S)
  BY <1>1, <1>3 DEF TypeOK, ForwardersTypeOK, ReadEnd
<1>4. CASE Decide
  BY <1>1, <1>4 DEF TypeOK, ForwardersTypeOK, Decide
<1>5. CASE DenyTrace
  <2>1. CASE Goto(C2S, "returned") /\ UNCHANGED stamp
    <3>1. ForwardersTypeOK'
      BY <1>5, <2>1 DEF TypeOK, ForwardersTypeOK, DenyTrace
    <3> QED
      BY <1>1, <1>5, <3>1 DEF TypeOK, DenyTrace
  <2>2. CASE Loop(C2S)
    <3>1. ForwardersTypeOK'
      BY <1>5, <2>2 DEF TypeOK, ForwardersTypeOK, DenyTrace, Loop
    <3> QED
      BY <1>1, <1>5, <3>1 DEF TypeOK, DenyTrace
  <2> QED
    BY <1>5, <2>1, <2>2 DEF DenyTrace
<1>6. CASE Capture(C2S)
  <2>1. hand[C2S] \in Messages /\ stamp[C2S] \in Time /\ clock \in Time
    BY <1>6, MessageTypes DEF TypeOK, ForwardersTypeOK, Capture
  <2>2. TrackerTypeOK' /\ unlogged' \subseteq Messages
    <3>1. CASE Record(hand[C2S], stamp[C2S], clock) /\ UNCHANGED unlogged
      BY <2>1, <3>1, RecordTypes DEF TypeOK
    <3>2. CASE unlogged' = unlogged \cup {hand[C2S]} /\ UNCHANGED <<pending, traces>>
      BY <2>1, <3>2 DEF TypeOK, TrackerTypeOK
    <3> QED
      BY <1>6, <3>1, <3>2 DEF Capture
  <2> QED
    BY <1>6, <2>1, <2>2 DEF TypeOK, ForwardersTypeOK, Capture, Loop
<1>7. ASSUME NEW part \in {"header", "payload"}, Deny(part)
      PROVE  TypeOK'
  <2>1. Denial(hand[C2S]) \in Denials
    BY <1>7, MessageTypes DEF TypeOK, ForwardersTypeOK, Deny
  <2>2. stdout' \in Seq(Pieces)
    <3>1. Piece(part, Denial(hand[C2S])) \in Pieces
      BY <2>1 DEF Piece, Pieces
    <3>2. \/ stdout' = stdout
          \/ stdout' = Append(stdout, Piece(part, Denial(hand[C2S])))
      BY <1>7 DEF Deny
    <3>3. stdout \in Seq(Pieces)
      BY DEF TypeOK
    <3> QED
      BY ONLY <3>1, <3>2, <3>3
  <2>3. ForwardersTypeOK'
    <3>1. hand[C2S] # NoMessage
      BY <1>7 DEF TypeOK, ForwardersTypeOK, Deny
    <3>2. \E step \in Steps \ {"read"} : Goto(C2S, step)
      BY <1>7 DEF Deny
    <3> QED
      BY <1>7, <3>1, <3>2, ForwarderGoesOn DEF TypeOK, Deny
  <2> QED
    BY <1>1, <1>7, <2>2, <2>3 DEF TypeOK, Deny
<1>8. ASSUME NEW part \in {"header", "payload"}, WriteServer(part)
      PROVE  TypeOK'
  <2>1. hand[C2S] \in ClientMessages
    BY <1>8 DEF TypeOK, ForwardersTypeOK, WriteServer
  <2>2. delivered' \in Seq(ClientMessages)
    <3>1. delivered' = delivered \/ delivered' = Append(delivered, hand[C2S])
      BY <1>8 DEF WriteServer
    <3>2. delivered \in Seq(ClientMessages)
      BY DEF TypeOK
    <3> QED
      BY ONLY <2>1, <3>1, <3>2
  <2>3. times' \in [Calls -> [sent : Time, received : Time, delivered : Time, answered : Time]]
    <3>1. CASE times' = times
      BY <3>1 DEF TypeOK, ForwardersTypeOK
    <3>2. CASE hand[C2S].kind = "call"
               /\ times' = [times EXCEPT ![hand[C2S].about].received = stamp[C2S],
                                         ![hand[C2S].about].delivered = clock]
      <4>1. hand[C2S].about \in Calls
        BY <2>1, <3>2 DEF ClientMessages
      <4> QED
        BY <3>2, <4>1 DEF TypeOK, ForwardersTypeOK
    <3> QED
      BY <1>8, <3>1, <3>2 DEF WriteServer
  <2>4. ForwardersTypeOK'
    <3>1. hand[C2S] # NoMessage
      BY <1>8 DEF TypeOK, ForwardersTypeOK, WriteServer
    <3>2. \E step \in Steps \ {"read"} : Goto(C2S, step)
      BY <1>8 DEF WriteServer
    <3> QED
      BY <1>8, <3>1, <3>2, ForwarderGoesOn DEF TypeOK, WriteServer
  <2> QED
    BY <1>1, <1>8, <2>2, <2>3, <2>4 DEF TypeOK, WriteServer
<1> QED
  BY <1>2, <1>3, <1>4, <1>5, <1>6, <1>7, <1>8 DEF ForwardClient

\* So does the forwarder of the server's direction.
LEMMA ForwardServerTypes ==
  ASSUME TypeOK, TrackerAssumption, StdioAssumption, ForwardServer
  PROVE  TypeOK'
<1> USE DEF Goto, fwdVars, clientVars, serverVars, worldVars, Dirs, C2S, S2C, Steps, DenySteps
<1>1. UNCHANGED trackerVars => TrackerTypeOK' /\ unlogged' \subseteq Messages
  BY DEF TypeOK, ForwardersTypeOK, TrackerTypeOK, trackerVars
<1>2. CASE ReadServer
  <2>1. Head(serverOut) \in ServerMessages /\ Tail(serverOut) \in Seq(ServerMessages)
    BY <1>2 DEF TypeOK, ForwardersTypeOK, ReadServer
  <2>2. Head(serverOut) # NoMessage /\ Head(serverOut) \in Messages
    BY <2>1, MessageTypes, StdioAssumption DEF StdioAssumption
  <2>3. ForwardersTypeOK'
    BY <1>2, <2>1, <2>2 DEF TypeOK, ForwardersTypeOK, ReadServer
  <2> QED
    BY <1>1, <1>2, <2>1, <2>3 DEF TypeOK, ReadServer
<1>3. CASE ReadEnd(S2C)
  BY <1>1, <1>3 DEF TypeOK, ForwardersTypeOK, ReadEnd
<1>4. CASE Capture(S2C)
  <2>1. hand[S2C] \in Messages /\ stamp[S2C] \in Time /\ clock \in Time
    BY <1>4, MessageTypes DEF TypeOK, ForwardersTypeOK, Capture
  <2>2. TrackerTypeOK' /\ unlogged' \subseteq Messages
    <3>1. CASE Record(hand[S2C], stamp[S2C], clock) /\ UNCHANGED unlogged
      BY <2>1, <3>1, RecordTypes DEF TypeOK
    <3>2. CASE unlogged' = unlogged \cup {hand[S2C]} /\ UNCHANGED <<pending, traces>>
      BY <2>1, <3>2 DEF TypeOK, TrackerTypeOK
    <3> QED
      BY <1>4, <3>1, <3>2 DEF Capture
  <2> QED
    BY <1>4, <2>1, <2>2 DEF TypeOK, ForwardersTypeOK, Capture, Loop
<1>5. ASSUME NEW part \in {"header", "payload"}, WriteClient(part)
      PROVE  TypeOK'
  <2>1. hand[S2C] \in ServerMessages
    BY <1>5 DEF TypeOK, ForwardersTypeOK, WriteClient
  <2>2. stdout' \in Seq(Pieces)
    <3>1. Piece(part, hand[S2C]) \in Pieces
      BY <2>1 DEF Piece, Pieces
    <3>2. stdout' = Append(stdout, Piece(part, hand[S2C]))
      BY <1>5 DEF WriteClient
    <3> QED
      BY <3>1, <3>2 DEF TypeOK
  <2> QED
    BY <1>1, <1>5, <2>1, <2>2 DEF TypeOK, ForwardersTypeOK, WriteClient
<1> QED
  BY <1>2, <1>3, <1>4, <1>5 DEF ForwardServer

\* And whatever happens around the forwarders.
LEMMA WorldTypes ==
  ASSUME TypeOK, TrackerAssumption, StdioAssumption, UNCHANGED <<trackerVars, fwdVars>>,
         \/ Finish \/ ServerStops \/ ServerDies \/ Signal \/ Tick
         \/ \E c \in Calls : ClientCalls(c) \/ ServerAnswers(c)
         \/ \E a \in Asks : ServerAsks(a) \/ ClientReplies(a)
         \/ \E how \in {"eof", "torn"} : ClientEnds(how)
  PROVE  TypeOK'
<1> USE DEF fwdVars, clientVars, serverVars, worldVars, Dirs, C2S, S2C
<1>1. TrackerTypeOK' /\ ForwardersTypeOK' /\ unlogged' \subseteq Messages
  BY DEF TypeOK, TrackerTypeOK, trackerVars, ForwardersTypeOK
<1>2. CASE Finish
  BY <1>1, <1>2 DEF TypeOK, Finish
<1>3. ASSUME NEW how \in {"eof", "torn"}, Exit(how)
      PROVE  TypeOK'
  BY <1>1, <1>3 DEF TypeOK, Exit
<1>4. CASE Signal
  BY <1>1, <1>4 DEF TypeOK, Signal
<1>5. CASE Tick
  <2>1. clock' \in Time
    BY <1>5, TrackerAssumption DEF TypeOK, Tick, Time, TrackerAssumption
  <2> QED
    BY <1>1, <1>5, <2>1 DEF TypeOK, Tick
<1>6. ASSUME NEW c \in Calls, ClientCalls(c)
      PROVE  TypeOK'
  <2>1. [kind |-> "call", about |-> c] \in ClientMessages \cap Messages
    BY MessageTypes
  <2>2. stdin' \in Seq(ClientMessages) /\ sent' \subseteq Messages
    BY <1>6, <2>1 DEF TypeOK, ClientCalls
  <2>3. times' \in [Calls -> [sent : Time, received : Time, delivered : Time, answered : Time]]
    BY <1>6 DEF TypeOK, ClientCalls
  <2> QED
    BY <1>1, <1>6, <2>2, <2>3 DEF TypeOK, ClientCalls
<1>7. ASSUME NEW a \in Asks, ClientReplies(a)
      PROVE  TypeOK'
  <2>1. [kind |-> "reply", about |-> a] \in ClientMessages \cap Messages
    BY MessageTypes
  <2>2. stdin' \in Seq(ClientMessages) /\ sent' \subseteq Messages
    BY <1>7, <2>1 DEF TypeOK, ClientReplies
  <2> QED
    BY <1>1, <1>7, <2>2 DEF TypeOK, ClientReplies
<1>8. ASSUME NEW m \in ServerMessages, ServerWrites(m),
             times' \in [Calls -> [sent : Time, received : Time, delivered : Time, answered : Time]]
      PROVE  TypeOK'
  <2>1. serverOut' \in Seq(ServerMessages) /\ sent' \subseteq Messages
    BY <1>8, MessageTypes DEF TypeOK, ServerWrites
  <2> QED
    BY <1>1, <1>8, <2>1 DEF TypeOK, ServerWrites
<1>9. ASSUME NEW c \in Calls, ServerAnswers(c)
      PROVE  TypeOK'
  <2>1. times' \in [Calls -> [sent : Time, received : Time, delivered : Time, answered : Time]]
    BY <1>9 DEF TypeOK, ServerAnswers
  <2> QED
    BY <1>8, <1>9, <2>1, MessageTypes DEF ServerAnswers
<1>10. ASSUME NEW a \in Asks, ServerAsks(a)
       PROVE  TypeOK'
  BY <1>8, <1>10, MessageTypes DEF ServerAsks, TypeOK
<1>11. ASSUME NEW how \in {"eof", "torn"}, ClientEnds(how)
       PROVE  TypeOK'
  BY <1>1, <1>11 DEF TypeOK, ClientEnds
<1> QED
  BY <1>2, <1>3, <1>4, <1>5, <1>6, <1>7, <1>9, <1>10, <1>11 DEF ServerStops, ServerDies

\* A step of the proxy or of its environment keeps every type.
LEMMA TypeStep ==
  ASSUME TypeOK, TrackerAssumption, StdioAssumption, [Next]_vars
  PROVE  TypeOK'
<1>1. CASE ForwardClient
  BY <1>1, ForwardClientTypes
<1>2. CASE ForwardServer
  BY <1>2, ForwardServerTypes
<1>3. CASE \/ Finish \/ ServerStops \/ ServerDies \/ Signal \/ Tick
           \/ \E c \in Calls : ClientCalls(c) \/ ServerAnswers(c)
           \/ \E a \in Asks : ServerAsks(a) \/ ClientReplies(a)
           \/ \E how \in {"eof", "torn"} : ClientEnds(how)
  <2>1. UNCHANGED <<trackerVars, fwdVars>>
    BY <1>3 DEF Finish, ServerStops, ServerDies, Exit, Signal, Tick, ClientCalls,
                ServerAnswers, ServerAsks, ServerWrites, ClientReplies, ClientEnds
  <2> QED
    BY <1>3, <2>1, WorldTypes
<1>4. CASE UNCHANGED vars
  BY <1>4 DEF vars, TypeOK, ForwardersTypeOK, TrackerTypeOK, fwdVars, clientVars, serverVars,
              worldVars, trackerVars
<1> QED
  BY <1>1, <1>2, <1>3, <1>4 DEF Next

\* Every variable keeps its type, whatever the calls, the ids and the faults.
THEOREM TypeCorrect == Spec => []TypeOK
<1>1. Init => TypeOK
  <2> SUFFICES ASSUME Init PROVE TypeOK
    OBVIOUS
  <2>1. 0 \in Time
    BY TrackerAssumption DEF TrackerAssumption, Time
  <2>2. TrackerTypeOK
    BY DEF Init, TrackerTypeOK
  <2>3. ForwardersTypeOK
    BY <2>1 DEF Init, ForwardersTypeOK, Dirs, C2S, S2C, Steps, DenySteps
  <2>4. times \in [Calls -> [sent : Time, received : Time, delivered : Time, answered : Time]]
    BY <2>1 DEF Init
  <2>5. /\ stdin \in Seq(ClientMessages) /\ delivered \in Seq(ClientMessages)
        /\ serverOut \in Seq(ServerMessages) /\ stdout \in Seq(Pieces)
    BY DEF Init
  <2> QED
    BY <2>1, <2>2, <2>3, <2>4, <2>5 DEF Init, TypeOK
<1>2. TypeOK /\ [Next]_vars => TypeOK'
  BY TypeStep, TrackerAssumption, StdioAssumption
<1> QED
  BY <1>1, <1>2, PTL DEF Spec

-----------------------------------------------------------------------------
\* Whoever captures, the table stays keyed by id.
THEOREM TableIsKeyed == Spec => []KeyedById
<1>1. Init => KeyedById
  BY DEF Init, KeyedById
<1>2. TypeOK /\ KeyedById /\ [Next]_vars => KeyedById'
  <2> SUFFICES ASSUME TypeOK, KeyedById, [Next]_vars PROVE KeyedById'
    OBVIOUS
  <2>1. ASSUME NEW d \in Dirs, Capture(d), Record(hand[d], stamp[d], clock)
        PROVE  KeyedById'
    <3>1. hand[d] \in Messages /\ stamp[d] \in Time /\ clock \in Time
      BY <2>1, MessageTypes DEF TypeOK, ForwardersTypeOK, Capture, Dirs, C2S, S2C
    <3> QED
      BY <2>1, <3>1, RecordKeyed, TrackerAssumption DEF TypeOK, Capture
  <2>2. CASE UNCHANGED <<pending, traces>>
    BY <2>2 DEF KeyedById, Id
  <2>3. \/ \E d \in Dirs : Capture(d) /\ Record(hand[d], stamp[d], clock)
        \/ UNCHANGED <<pending, traces>>
    BY DEF trackerVars, Capture, Next, vars, ForwardClient, ForwardServer, ReadClient, ReadServer, ReadEnd, Decide, Deny,
           DenyTrace, WriteServer, WriteClient, Finish, ClientCalls, ClientReplies, ClientEnds,
           ServerWrites, ServerAnswers, ServerAsks, Exit, ServerStops, ServerDies, Signal, Tick, Dirs
  <2> QED
    BY <2>1, <2>2, <2>3
<1> QED
  BY <1>1, <1>2, TypeCorrect, PTL DEF Spec

\* Calls of the client may share their ids with each other and with asks of
\* the server, and are then traced with the wrong message; a call that shares
\* its id with none is traced with its answer or not at all.
THEOREM OwnIdsArePaired == Spec => []OwnIdsPair
<1>1. TypeOK /\ KeyedById => OwnIdsPair
  BY OwnIdIsPaired, TrackerAssumption DEF TypeOK
<1> QED
  BY <1>1, TypeCorrect, TableIsKeyed, PTL

-----------------------------------------------------------------------------
\* What is at the end of a pipe: a frame that is appended is in it, and the
\* head of a pipe without duplicates is not in its tail.
LEMMA AppendRange ==
  ASSUME NEW S, NEW s \in Seq(S), NEW e \in S
  PROVE  /\ Range(Append(s, e)) = Range(s) \cup {e}
         /\ IsInjective(s) /\ e \notin Range(s) => IsInjective(Append(s, e))
<1>1. /\ DOMAIN s = 1 .. Len(s) /\ DOMAIN Append(s, e) = 1 .. Len(s) + 1 /\ Len(s) \in Nat
      /\ \A i \in 1 .. Len(s) : Append(s, e)[i] = s[i]
      /\ Append(s, e)[Len(s) + 1] = e
  OBVIOUS
<1>2. Range(Append(s, e)) = Range(s) \cup {e}
  <2>1. Range(s) \cup {e} \subseteq Range(Append(s, e))
    BY <1>1 DEF Range
  <2>2. Range(Append(s, e)) \subseteq Range(s) \cup {e}
    <3> SUFFICES ASSUME NEW i \in 1 .. Len(s) + 1
                 PROVE  Append(s, e)[i] \in Range(s) \cup {e}
      BY <1>1 DEF Range
    <3>1. i \in 1 .. Len(s) \/ i = Len(s) + 1
      BY <1>1
    <3> QED
      BY <1>1, <3>1 DEF Range
  <2> QED
    BY <2>1, <2>2
<1>3. ASSUME IsInjective(s), e \notin Range(s),
             NEW i \in 1 .. Len(s) + 1, NEW j \in 1 .. Len(s) + 1, Append(s, e)[i] = Append(s, e)[j]
      PROVE  i = j
  <2>1. (i \in 1 .. Len(s) \/ i = Len(s) + 1) /\ (j \in 1 .. Len(s) \/ j = Len(s) + 1)
    BY <1>1
  <2>2. \A x \in 1 .. Len(s) : s[x] # e
    BY <1>1, <1>3 DEF Range
  <2> QED
    BY <1>1, <1>3, <2>1, <2>2 DEF IsInjective
<1> QED
  BY <1>1, <1>2, <1>3 DEF IsInjective

\* What a queue holds is its head and what its tail holds.
LEMMA HeadRange ==
  ASSUME NEW S, NEW s \in Seq(S), s # <<>>
  PROVE  /\ Range(Tail(s)) \subseteq Range(s) /\ Head(s) \in Range(s) /\ Head(s) \in S
         /\ Range(s) = Range(Tail(s)) \cup {Head(s)}
         /\ IsInjective(s) => IsInjective(Tail(s)) /\ Head(s) \notin Range(Tail(s))
<1>1. /\ DOMAIN s = 1 .. Len(s) /\ Len(s) \in Nat \ {0} /\ DOMAIN Tail(s) = 1 .. Len(s) - 1
      /\ \A i \in 1 .. Len(s) - 1 : Tail(s)[i] = s[i + 1]
      /\ Head(s) = s[1] /\ Head(s) \in S
  BY EmptySeq, HeadTailProperties, LenProperties
<1>2. Range(s) = Range(Tail(s)) \cup {Head(s)}
  <2>1. Range(Tail(s)) \cup {Head(s)} \subseteq Range(s)
    BY <1>1 DEF Range
  <2>2. ASSUME NEW i \in 1 .. Len(s)
        PROVE  s[i] \in Range(Tail(s)) \cup {Head(s)}
    <3>1. i = 1 \/ (i - 1 \in 1 .. Len(s) - 1 /\ (i - 1) + 1 = i)
      BY <1>1
    <3>2. CASE i = 1
      BY <1>1, <3>2
    <3>3. CASE i - 1 \in 1 .. Len(s) - 1 /\ (i - 1) + 1 = i
      <4>1. Tail(s)[i - 1] = s[i]
        BY <1>1, <3>3
      <4> QED
        BY <1>1, <3>3, <4>1 DEF Range
    <3> QED
      BY <3>1, <3>2, <3>3
  <2> QED
    BY <1>1, <2>1, <2>2 DEF Range
<1>3. ASSUME IsInjective(s)
      PROVE  IsInjective(Tail(s)) /\ Head(s) \notin Range(Tail(s))
  <2>1. ASSUME NEW i \in 1 .. Len(s) - 1, NEW j \in 1 .. Len(s) - 1, Tail(s)[i] = Tail(s)[j]
        PROVE  i = j
    <3>1. i + 1 \in 1 .. Len(s) /\ j + 1 \in 1 .. Len(s) /\ s[i + 1] = s[j + 1]
      BY <1>1, <2>1
    <3>2. i + 1 = j + 1
      BY <1>1, <1>3, <3>1 DEF IsInjective
    <3> QED
      BY <3>2
  <2>2. ASSUME NEW i \in 1 .. Len(s) - 1
        PROVE  Tail(s)[i] # Head(s)
    <3>1. i + 1 \in 1 .. Len(s) /\ 1 \in 1 .. Len(s) /\ i + 1 # 1 /\ Tail(s)[i] = s[i + 1]
      BY <1>1
    <3> QED
      BY <1>1, <1>3, <3>1 DEF IsInjective
  <2> QED
    BY <1>1, <2>1, <2>2 DEF IsInjective, Range
<1> QED
  BY <1>1, <1>2, <1>3

-----------------------------------------------------------------------------
\* A cause to give up does not go away: streams that ended, a server that is
\* gone, a client's side that is closed and a cancelled context stay so.
Cause == stdinEnd # "open" \/ ~alive \/ ~stdoutOpen \/ signalled

\* A cause to give up does not go away.
LEMMA CauseStays ==
  ASSUME TypeOK, Cause, [Next]_vars
  PROVE  Cause'
<1> USE DEF Cause, clientVars, serverVars, fwdVars
<1>1. CASE ForwardClient
  BY <1>1 DEF ForwardClient, ReadClient, ReadEnd, Decide, Deny, DenyTrace, Capture, WriteServer, TypeOK
<1>2. CASE ForwardServer
  BY <1>2 DEF ForwardServer, ReadServer, ReadEnd, Capture, WriteClient, TypeOK
<1>3. ASSUME NEW how \in {"eof", "torn"}, ClientEnds(how) \/ Exit(how)
      PROVE  Cause'
  BY <1>3 DEF ClientEnds, Exit
<1>4. CASE Finish \/ Signal \/ Tick \/ UNCHANGED vars
  BY <1>4 DEF Finish, Signal, Tick, vars
<1>5. CASE \/ \E c \in Calls : ClientCalls(c) \/ ServerAnswers(c)
           \/ \E a \in Asks : ServerAsks(a) \/ ClientReplies(a)
  BY <1>5 DEF ClientCalls, ServerAnswers, ServerAsks, ServerWrites, ClientReplies
<1> QED
  BY <1>1, <1>2, <1>3, <1>4, <1>5 DEF Next, ServerStops, ServerDies

\* A store that works never stops the client's forwarder: it gives up only for
\* one of the causes of the code.
THEOREM ForwarderGivesUpForCause ==
  ASSUME "store" \notin Faults
  PROVE  Spec => []GivesUpForCause
<1>1. Init => GivesUpForCause
  BY DEF Init, GivesUpForCause, Dirs, C2S, S2C
<1>2. TypeOK /\ GivesUpForCause /\ [Next]_vars => GivesUpForCause'
  <2> SUFFICES ASSUME TypeOK, GivesUpForCause, [Next]_vars, pc'[C2S] = "returned"
               PROVE  Cause'
    BY DEF GivesUpForCause, Cause
  <2>1. CASE pc[C2S] = "returned"
    BY <2>1, CauseStays DEF GivesUpForCause, Cause
  <2>2. CASE pc[C2S] # "returned"
    <3> USE <2>2 DEF Goto, Loop, Dirs, C2S, S2C, fwdVars
    <3>1. pc \in [Dirs -> Steps]
      BY DEF TypeOK, ForwardersTypeOK
    <3>2. CASE ForwardServer
      BY <3>1, <3>2 DEF ForwardServer, ReadServer, ReadEnd, Capture, WriteClient
    <3>3. CASE ForwardClient
      <4>1. CASE ReadClient \/ Decide \/ Capture(C2S)
        BY <3>1, <4>1 DEF ReadClient, Decide, Capture
      <4>2. CASE ReadEnd(C2S)
        BY <4>2 DEF ReadEnd, Cause, clientVars
      <4>3. CASE DenyTrace
        BY <3>1, <4>3 DEF DenyTrace, Happens, Cause
      <4>4. ASSUME NEW part \in {"header", "payload"}, Deny(part)
            PROVE  Cause'
        BY <3>1, <4>4 DEF Deny, Cause
      <4>5. ASSUME NEW part \in {"header", "payload"}, WriteServer(part)
            PROVE  Cause'
        BY <3>1, <4>5 DEF WriteServer, Cause, serverVars
      <4> QED
        BY <3>3, <4>1, <4>2, <4>3, <4>4, <4>5 DEF ForwardClient
    <3>4. CASE UNCHANGED pc
      BY <3>4
    <3>5. ForwardClient \/ ForwardServer \/ UNCHANGED pc
      BY DEF Next, vars, Finish, ClientCalls, ClientReplies, ClientEnds, ServerWrites,
             ServerAnswers, ServerAsks, Exit, ServerStops, ServerDies, Signal, Tick
    <3> QED
      BY <3>2, <3>3, <3>4, <3>5
  <2> QED
    BY <2>1, <2>2
<1> QED
  BY <1>1, <1>2, TypeCorrect, PTL DEF Spec

-----------------------------------------------------------------------------
\* A frame of the client waits in stdin, is in the hand of its forwarder, or is
\* past both; the server has what the forwarder wrote, and not yet captured at
\* most the frame in its hand.
Past(m) == m \in sent /\ m \notin Range(stdin) /\ m # hand[C2S]

FlowInv ==
  /\ IsInjective(stdin)
  /\ Range(stdin) \subseteq sent
  /\ hand[C2S] # NoMessage => hand[C2S] \in sent /\ hand[C2S] \notin Range(stdin)
  /\ \A m \in Range(delivered) : Past(m) \/ (m = hand[C2S] /\ pc[C2S] = "capture")
  /\ pc[C2S] = "capture" => hand[C2S] \in Range(delivered)

\* Whoever was told of a denial, in part or in full, has a frame that was not
\* delivered and can no longer be: it is past, or in hand beyond the decision.
ToldInv ==
  \A p \in Range(stdout), m \in ClientMessages : p.of = Denial(m) =>
    /\ m \notin Range(delivered)
    /\ Past(m) \/ (m = hand[C2S] /\ pc[C2S] \in {"denyPayload", "denyTrace", "returned"})

\* Whatever is not a step of the client's forwarder leaves that forwarder and
\* the server's input alone.  It may send, and write frames of the server.
LEMMA OthersLeaveFlow ==
  ASSUME TypeOK, [Next]_vars, ~ForwardClient
  PROVE  /\ UNCHANGED <<pc[C2S], hand[C2S], stamp[C2S], delivered>>
         /\ \/ /\ stdin' = stdin
               /\ sent' = sent \/ \E m \in ServerMessages \ sent : sent' = sent \cup {m}
            \/ \E m \in ClientMessages \ sent : stdin' = Append(stdin, m) /\ sent' = sent \cup {m}
         /\ \/ stdout' = stdout
            \/ \E p \in Pieces : p.of \in ServerMessages /\ stdout' = Append(stdout, p)
<1> USE DEF Goto, Loop, Dirs, C2S, S2C, fwdVars, clientVars, serverVars, worldVars
<1>1. CASE ForwardServer
  <2>1. CASE ReadServer \/ ReadEnd(S2C) \/ Capture(S2C)
    BY <2>1 DEF ReadServer, ReadEnd, Capture, TypeOK, ForwardersTypeOK
  <2>2. ASSUME NEW part \in {"header", "payload"}, WriteClient(part)
        PROVE  /\ UNCHANGED <<pc[C2S], hand[C2S], stamp[C2S], delivered, stdin, sent>>
               /\ \E p \in Pieces : p.of \in ServerMessages /\ stdout' = Append(stdout, p)
    <3>1. hand[S2C] \in ServerMessages
      BY <2>2 DEF WriteClient, TypeOK, ForwardersTypeOK
    <3>2. Piece(part, hand[S2C]) \in Pieces /\ Piece(part, hand[S2C]).of \in ServerMessages
      BY <3>1 DEF Piece, Pieces
    <3>3. stdout' = Append(stdout, Piece(part, hand[S2C]))
      BY <2>2 DEF WriteClient
    <3>4. UNCHANGED <<pc[C2S], hand[C2S], stamp[C2S], delivered, stdin, sent>>
      BY <2>2 DEF WriteClient, TypeOK, ForwardersTypeOK
    <3> QED
      BY <3>2, <3>3, <3>4
  <2> QED
    BY <1>1, <2>1, <2>2 DEF ForwardServer
<1>2. CASE Finish \/ Signal \/ Tick \/ UNCHANGED vars
  BY <1>2 DEF Finish, Signal, Tick, vars
<1>3. ASSUME NEW how \in {"eof", "torn"}, ClientEnds(how) \/ Exit(how)
      PROVE  UNCHANGED <<pc, hand, stamp, delivered, stdin, sent, stdout>>
  BY <1>3 DEF ClientEnds, Exit
<1>4. ASSUME NEW c \in Calls, ClientCalls(c) \/ ServerAnswers(c)
      PROVE  /\ UNCHANGED <<pc, hand, stamp, delivered, stdout>>
             /\ \/ stdin' = stdin /\ \E m \in ServerMessages \ sent : sent' = sent \cup {m}
                \/ \E m \in ClientMessages \ sent : stdin' = Append(stdin, m) /\ sent' = sent \cup {m}
  BY <1>4, MessageTypes DEF ClientCalls, ServerAnswers, ServerWrites
<1>5. ASSUME NEW a \in Asks, ServerAsks(a) \/ ClientReplies(a)
      PROVE  /\ UNCHANGED <<pc, hand, stamp, delivered, stdout>>
             /\ \/ stdin' = stdin /\ \E m \in ServerMessages \ sent : sent' = sent \cup {m}
                \/ \E m \in ClientMessages \ sent : stdin' = Append(stdin, m) /\ sent' = sent \cup {m}
  BY <1>5, MessageTypes DEF ServerAsks, ServerWrites, ClientReplies
<1> QED
  BY <1>1, <1>2, <1>3, <1>4, <1>5 DEF Next, ServerStops, ServerDies

\* Frames of the client and of the server are apart, and a denial tells which
\* frame it is about.
LEMMA KindsApart ==
  /\ \A m \in ServerMessages : m \notin ClientMessages
  /\ \A m, n \in ClientMessages : Denial(m) = Denial(n) => m = n
  /\ \A m \in ClientMessages : Denial(m) \notin ServerMessages /\ m \in Messages /\ m # NoMessage
<1>1. \A m, n \in ClientMessages : m.about = n.about => m = n
  BY TrackerAssumption DEF ClientMessages, TrackerAssumption
<1> QED
  BY <1>1, StdioAssumption DEF ClientMessages, ServerMessages, Messages, Denial, StdioAssumption

\* What is past stays past.
LEMMA PastStays ==
  ASSUME TypeOK, FlowInv, [Next]_vars, NEW m \in ClientMessages, Past(m)
  PROVE  Past(m)'
<1> USE DEF Goto, Loop, Dirs, C2S, S2C, fwdVars, clientVars, serverVars, worldVars
<1>1. CASE ~ForwardClient
  <2>1. CASE stdin' = stdin /\ sent \subseteq sent'
    BY <1>1, <2>1, OthersLeaveFlow DEF Past
  <2>2. ASSUME NEW n \in ClientMessages \ sent, stdin' = Append(stdin, n), sent' = sent \cup {n}
        PROVE  Past(m)'
    <3>1. Range(stdin') = Range(stdin) \cup {n}
      BY <2>2, AppendRange DEF TypeOK
    <3> QED
      BY <1>1, <2>2, <3>1, OthersLeaveFlow DEF Past
  <2> QED
    BY <1>1, <2>1, <2>2, OthersLeaveFlow
<1>2. CASE ReadClient
  <2>1. Range(Tail(stdin)) \subseteq Range(stdin) /\ Head(stdin) \in Range(stdin)
    BY <1>2, HeadRange DEF ReadClient, TypeOK
  <2>2. stdin' = Tail(stdin) /\ hand'[C2S] = Head(stdin) /\ sent' = sent
    BY <1>2 DEF ReadClient, TypeOK, ForwardersTypeOK
  <2> QED
    BY <2>1, <2>2 DEF Past
<1>3. CASE DenyTrace \/ Capture(C2S)
  <2>1. hand'[C2S] = NoMessage /\ UNCHANGED <<stdin, sent>>
    BY <1>3 DEF DenyTrace, Capture, TypeOK, ForwardersTypeOK
  <2> QED
    BY <2>1, KindsApart DEF Past
<1>4. CASE ReadEnd(C2S) \/ Decide \/ \E part \in {"header", "payload"} : Deny(part) \/ WriteServer(part)
  BY <1>4 DEF ReadEnd, Decide, Deny, WriteServer, Past
<1> QED
  BY <1>1, <1>2, <1>3, <1>4 DEF ForwardClient

\* A frame is in one place only, whatever the forwarders and the client do.
LEMMA FlowStep ==
  ASSUME TypeOK, FlowInv, [Next]_vars
  PROVE  FlowInv'
<1> USE DEF Goto, Loop, Dirs, C2S, S2C, fwdVars, clientVars, serverVars, worldVars
<1>1. stdin \in Seq(ClientMessages) /\ Range(delivered) \subseteq ClientMessages
      /\ delivered \in Seq(ClientMessages)
  BY DEF TypeOK, Range
<1>2. ASSUME UNCHANGED delivered, pc[C2S] # "capture"
      PROVE  \A m \in Range(delivered') : Past(m)'
  BY <1>1, <1>2, PastStays DEF FlowInv
<1>3. CASE ~ForwardClient
  <2>1. UNCHANGED <<pc[C2S], hand[C2S], delivered>>
    BY <1>3, OthersLeaveFlow
  <2>2. \A m \in Range(delivered') : Past(m)' \/ (m = hand'[C2S] /\ pc'[C2S] = "capture")
    BY <1>1, <2>1, PastStays DEF FlowInv
  <2>3. CASE stdin' = stdin /\ sent \subseteq sent'
    BY <2>1, <2>2, <2>3 DEF FlowInv
  <2>4. ASSUME NEW n \in ClientMessages \ sent, stdin' = Append(stdin, n), sent' = sent \cup {n}
        PROVE  FlowInv'
    <3>1. n \notin Range(stdin)
      BY <2>4 DEF FlowInv
    <3>2. Range(stdin') = Range(stdin) \cup {n} /\ IsInjective(stdin')
      BY <1>1, <2>4, <3>1, AppendRange DEF FlowInv
    <3> QED
      BY <2>1, <2>2, <2>4, <3>2 DEF FlowInv
  <2> QED
    BY <1>3, <2>3, <2>4, OthersLeaveFlow
<1>4. CASE ReadClient
  <2>1. /\ Range(Tail(stdin)) \subseteq Range(stdin) /\ Head(stdin) \in Range(stdin)
        /\ IsInjective(Tail(stdin)) /\ Head(stdin) \notin Range(Tail(stdin))
    BY <1>1, <1>4, HeadRange DEF ReadClient, FlowInv
  <2>2. /\ stdin' = Tail(stdin) /\ hand'[C2S] = Head(stdin) /\ sent' = sent /\ delivered' = delivered
        /\ pc[C2S] # "capture" /\ pc'[C2S] # "capture"
    BY <1>4 DEF ReadClient, TypeOK, ForwardersTypeOK
  <2> QED
    BY <1>2, <2>1, <2>2 DEF FlowInv
<1>5. CASE DenyTrace
  <2>1. /\ hand'[C2S] = NoMessage /\ UNCHANGED <<stdin, sent, delivered>>
        /\ pc[C2S] # "capture" /\ pc'[C2S] # "capture"
    BY <1>5 DEF DenyTrace, TypeOK, ForwardersTypeOK
  <2> QED
    BY <1>2, <2>1 DEF FlowInv
<1>6. CASE Capture(C2S)
  <2>1. /\ hand'[C2S] = NoMessage /\ UNCHANGED <<stdin, sent, delivered>>
        /\ pc[C2S] = "capture" /\ pc'[C2S] # "capture" /\ hand[C2S] # NoMessage
    BY <1>6 DEF Capture, TypeOK, ForwardersTypeOK
  <2>2. \A m \in Range(delivered) : Past(m)'
    <3>1. \A m : m = hand[C2S] => Past(m)'
      BY <2>1 DEF Past, FlowInv
    <3> QED
      BY <1>1, <3>1, PastStays DEF FlowInv
  <2> QED
    BY <2>1, <2>2 DEF FlowInv
<1>7. CASE ReadEnd(C2S) \/ Decide \/ \E part \in {"header", "payload"} : Deny(part)
  <2>1. /\ UNCHANGED <<hand, stdin, sent, delivered>>
        /\ pc[C2S] # "capture" /\ pc'[C2S] # "capture"
    BY <1>7 DEF ReadEnd, Decide, Deny, TypeOK, ForwardersTypeOK
  <2> QED
    BY <1>2, <2>1 DEF FlowInv
<1>8. ASSUME NEW part \in {"header", "payload"}, WriteServer(part)
      PROVE  FlowInv'
  <2>1. UNCHANGED <<hand, stdin, sent>> /\ pc[C2S] # "capture" /\ hand[C2S] # NoMessage
        /\ hand[C2S] \in ClientMessages
    BY <1>8 DEF WriteServer, TypeOK, ForwardersTypeOK
  <2>2. CASE delivered' = delivered /\ pc'[C2S] # "capture"
    BY <1>2, <2>1, <2>2 DEF FlowInv
  <2>3. CASE delivered' = Append(delivered, hand[C2S]) /\ pc'[C2S] = "capture"
    <3>1. Range(delivered') = Range(delivered) \cup {hand[C2S]}
      BY <1>1, <2>1, <2>3, AppendRange
    <3>2. \A m \in Range(delivered) : Past(m)'
      BY <1>1, <2>1, PastStays DEF FlowInv
    <3> QED
      BY <2>1, <2>3, <3>1, <3>2 DEF FlowInv
  <2> QED
    BY <1>8, <2>2, <2>3 DEF WriteServer, TypeOK, ForwardersTypeOK
<1> QED
  BY <1>3, <1>4, <1>5, <1>6, <1>7, <1>8 DEF ForwardClient

\* Where the frames of the client are, in every state.
LEMMA FlowHolds == Spec => []FlowInv
<1>1. Init => FlowInv
  BY DEF Init, FlowInv, Range, IsInjective, Dirs, C2S, S2C
<1>2. TypeOK /\ FlowInv /\ [Next]_vars => FlowInv'
  BY FlowStep
<1> QED
  BY <1>1, <1>2, TypeCorrect, PTL DEF Spec

\* Nobody is told of a denial too early, and nothing is delivered after one.
LEMMA ToldStep ==
  ASSUME TypeOK, FlowInv, ToldInv, [Next]_vars
  PROVE  ToldInv'
<1> USE DEF Goto, Loop, Dirs, C2S, S2C, fwdVars, clientVars, serverVars, worldVars
<1>1. stdout \in Seq(Pieces) /\ delivered \in Seq(ClientMessages)
  BY DEF TypeOK
<1>2. CASE ~ForwardClient
  <2>1. UNCHANGED <<pc[C2S], hand[C2S], delivered>>
    BY <1>2, OthersLeaveFlow
  <2>2. ASSUME NEW p \in Range(stdout'), NEW m \in ClientMessages, p.of = Denial(m)
        PROVE  p \in Range(stdout)
    <3>1. CASE stdout' = stdout
      BY <2>2, <3>1
    <3>2. ASSUME NEW q \in Pieces, q.of \in ServerMessages, stdout' = Append(stdout, q)
          PROVE  p \in Range(stdout)
      <4>1. Range(stdout') = Range(stdout) \cup {q}
        BY <1>1, <3>2, AppendRange
      <4> QED
        BY <2>2, <3>2, <4>1, KindsApart
    <3> QED
      BY <1>2, <3>1, <3>2, OthersLeaveFlow
  <2> QED
    BY <2>1, <2>2, PastStays DEF ToldInv
<1>3. CASE ReadClient \/ ReadEnd(C2S) \/ Decide
  <2>1. /\ UNCHANGED <<stdout, delivered>> /\ pc[C2S] \notin {"denyPayload", "denyTrace", "returned"}
    BY <1>3 DEF ReadClient, ReadEnd, Decide
  <2> QED
    BY <2>1, PastStays DEF ToldInv
<1>4. CASE DenyTrace \/ Capture(C2S)
  <2>1. hand'[C2S] = NoMessage /\ UNCHANGED <<stdin, sent, stdout, delivered>> /\ hand[C2S] # NoMessage
    BY <1>4 DEF DenyTrace, Capture, TypeOK, ForwardersTypeOK
  <2>2. \A m : m = hand[C2S] => Past(m)'
    BY <2>1 DEF Past, FlowInv
  <2> QED
    BY <2>1, <2>2, PastStays DEF ToldInv
<1>5. ASSUME NEW part \in {"header", "payload"}, Deny(part)
      PROVE  ToldInv'
  <2>1. /\ UNCHANGED <<hand, delivered>> /\ hand[C2S] \in ClientMessages
        /\ pc[C2S] \in {"denyHeader", "denyPayload"}
        /\ pc'[C2S] \in {"denyPayload", "denyTrace", "returned"}
    BY <1>5 DEF Deny, TypeOK, ForwardersTypeOK
  <2>2. hand[C2S] \notin Range(delivered)
    BY <2>1 DEF FlowInv, Past
  <2>3. ASSUME NEW p \in Range(stdout'), NEW m \in ClientMessages, p.of = Denial(m)
        PROVE  p \in Range(stdout) \/ m = hand[C2S]
    <3>1. CASE stdout' = stdout
      BY <2>3, <3>1
    <3>2. CASE stdout' = Append(stdout, Piece(part, Denial(hand[C2S])))
      <4>1. Piece(part, Denial(hand[C2S])) \in Pieces
        BY <2>1, MessageTypes DEF Piece, Pieces
      <4>2. Range(stdout') = Range(stdout) \cup {Piece(part, Denial(hand[C2S]))}
        BY <1>1, <3>2, <4>1, AppendRange
      <4>3. Piece(part, Denial(hand[C2S])).of = Denial(hand[C2S])
        BY DEF Piece
      <4> QED
        BY <2>1, <2>3, <4>2, <4>3, KindsApart
    <3> QED
      BY <1>5, <3>1, <3>2 DEF Deny
  <2> QED
    BY <2>1, <2>2, <2>3, PastStays DEF ToldInv
<1>6. ASSUME NEW part \in {"header", "payload"}, WriteServer(part)
      PROVE  ToldInv'
  <2>1. /\ UNCHANGED <<hand, stdout>> /\ hand[C2S] \in ClientMessages
        /\ pc[C2S] \notin {"denyPayload", "denyTrace", "returned"}
    BY <1>6 DEF WriteServer, TypeOK, ForwardersTypeOK
  <2>2. Range(delivered') \subseteq Range(delivered) \cup {hand[C2S]}
    <3>1. delivered' = delivered \/ delivered' = Append(delivered, hand[C2S])
      BY <1>6 DEF WriteServer
    <3>2. Range(Append(delivered, hand[C2S])) = Range(delivered) \cup {hand[C2S]}
      BY <1>1, <2>1, AppendRange
    <3> QED
      BY <3>1, <3>2
  <2> QED
    BY <2>1, <2>2, PastStays DEF ToldInv, Past
<1> QED
  BY <1>2, <1>3, <1>4, <1>5, <1>6 DEF ForwardClient

\* The denials the client was told, in every state.
LEMMA ToldHolds == Spec => []ToldInv
<1>1. Init => ToldInv
  BY DEF Init, ToldInv, Range
<1>2. TypeOK /\ FlowInv /\ ToldInv /\ [Next]_vars => ToldInv'
  BY ToldStep
<1> QED
  BY <1>1, <1>2, TypeCorrect, FlowHolds, PTL DEF Spec

\* A call the client is told was denied, in whole or in part, is never
\* delivered to the server, whatever fails and whenever the proxy is stopped.
THEOREM DenialIsFinal == Spec => []DeniedOrForwarded
<1>1. TypeOK /\ ToldInv => DeniedOrForwarded
  <2> SUFFICES ASSUME TypeOK, ToldInv, NEW m \in Range(delivered), Shown(Denial(m))
               PROVE  FALSE
    BY DEF DeniedOrForwarded
  <2>1. m \in ClientMessages
    BY DEF TypeOK, Range
  <2>2. Piece("payload", Denial(m)).of = Denial(m)
    BY DEF Piece
  <2> QED
    BY <2>1, <2>2 DEF Shown, ToldInv
<1> QED
  BY <1>1, TypeCorrect, ToldHolds, PTL

-----------------------------------------------------------------------------
\* The table and the traces change in a capture, and in nothing else.
LEMMA OnlyCaptures ==
  ASSUME [Next]_vars
  PROVE  \/ \E d \in Dirs : Capture(d) /\ Record(hand[d], stamp[d], clock)
         \/ UNCHANGED <<pending, traces>>
BY DEF Capture, Next, vars, ForwardClient, ForwardServer, ReadClient, ReadServer, ReadEnd, Decide, Deny,
       DenyTrace, WriteServer, WriteClient, Finish, ClientCalls, ClientReplies, ClientEnds,
       ServerWrites, ServerAnswers, ServerAsks, Exit, ServerStops, ServerDies, Signal, Tick, Dirs,
       trackerVars

\* What a forwarder captures: a frame of its direction, stamped before the read.
LEMMA CaptureRecords ==
  ASSUME TypeOK, NEW d \in Dirs, Capture(d)
  PROVE  /\ hand[d] \in Messages /\ stamp[d] \in Time /\ clock \in Time
         /\ d = C2S => hand[d] \in ClientMessages
         /\ d = S2C => hand[d] \in ServerMessages
         /\ hand' = [hand EXCEPT ![d] = NoMessage]
BY MessageTypes DEF TypeOK, ForwardersTypeOK, Capture, Dirs, C2S, S2C

\* A call in the table or in a trace is past the forwarder of the client.
PastCalls == {c \in Calls : Past(CallOf(c))}

TableInv ==
  /\ \A id \in DOMAIN pending : pending[id].call \in PastCalls
  /\ \A tr \in traces : tr.call # NoCall => tr.call \in PastCalls

\* What is in the table and in the traces is typed, and the frame of a call
\* tells which call it is.
LEMMA CallFrames ==
  /\ \A c \in Calls : /\ CallOf(c) \in ClientMessages /\ CallOf(c).about = c
                      /\ CallOf(c).kind = "call" /\ CallOf(c) \notin ServerMessages
  /\ \A m \in ClientMessages : m.kind = "call" => m.about \in Calls /\ m = CallOf(m.about)
BY DEF CallOf, ClientMessages, ServerMessages

\* A call that is past stays past.
LEMMA PastCallsGrow ==
  ASSUME TypeOK, FlowInv, [Next]_vars
  PROVE  PastCalls \subseteq PastCalls'
<1> SUFFICES ASSUME NEW c \in Calls, Past(CallOf(c))
             PROVE  Past(CallOf(c))'
  BY DEF PastCalls
<1>1. PICK m : m = CallOf(c)
  OBVIOUS
<1>2. m \in ClientMessages /\ Past(m)
  BY <1>1, CallFrames
<1> QED
  BY <1>1, <1>2, PastStays DEF CallOf

\* A call that is captured is past its forwarder from then on.
LEMMA CapturedIsPast ==
  ASSUME TypeOK, FlowInv, NEW d \in Dirs, Capture(d), hand[d].kind = "call"
  PROVE  d = C2S /\ hand[d].about \in PastCalls' /\ hand[d] = CallOf(hand[d].about)
<1>1. d = C2S /\ hand[d] \in ClientMessages
  BY CaptureRecords DEF Dirs, ServerMessages
<1>2. hand[C2S].about \in Calls /\ hand[C2S] = CallOf(hand[C2S].about)
  BY <1>1, CallFrames
<1>3. /\ hand'[C2S] = NoMessage /\ UNCHANGED <<stdin, sent>> /\ hand[C2S] # NoMessage
  BY <1>1, KindsApart DEF Capture, TypeOK, ForwardersTypeOK, Dirs, C2S, S2C, clientVars, worldVars
<1>4. \A c \in Calls : CallOf(c) = hand[C2S] => Past(CallOf(c))'
  BY <1>3 DEF Past, FlowInv, CallOf
<1> QED
  BY <1>1, <1>2, <1>4 DEF PastCalls

\* A capture puts only calls that become past into the table and the traces.
LEMMA TableStep ==
  ASSUME TypeOK, FlowInv, TableInv, [Next]_vars
  PROVE  TableInv'
<1>1. PastCalls \subseteq PastCalls'
  BY PastCallsGrow
<1>2. CASE UNCHANGED <<pending, traces>>
  BY <1>1, <1>2 DEF TableInv
<1>3. ASSUME NEW d \in Dirs, Capture(d), Record(hand[d], stamp[d], clock)
      PROVE  TableInv'
  <2>1. /\ Record(hand[d], stamp[d], clock) /\ hand[d] \in Messages
        /\ hand[d].kind = "call" => hand[d].about \in PastCalls'
    BY <1>3, CaptureRecords, CapturedIsPast
  <2>2. \A id \in DOMAIN pending' :
          \/ id \in DOMAIN pending /\ pending'[id] = pending[id]
          \/ hand[d].kind = "call" /\ pending'[id].call = hand[d].about
    BY <2>1, RecordTable
  <2>3. \A tr \in traces' \ traces : tr.call # NoCall =>
          \E id \in DOMAIN pending : tr.call = pending[id].call
    BY <2>1, RecordTraces
  <2> QED
    BY <1>1, <2>1, <2>2, <2>3 DEF TableInv
<1> QED
  BY <1>2, <1>3, OnlyCaptures

\* The calls in the table and in the traces are past, in every state.
LEMMA TableHolds == Spec => []TableInv
<1>1. Init => TableInv
  BY DEF Init, TableInv
<1>2. TypeOK /\ FlowInv /\ TableInv /\ [Next]_vars => TableInv'
  BY TableStep
<1> QED
  BY <1>1, <1>2, TypeCorrect, FlowHolds, PTL DEF Spec

\* No call is traced twice, and none that was traced still waits, whatever ids
\* the two sides choose and whoever reuses them.
THEOREM CallsAreTracedOnce == Spec => []TracedOnce
<1>1. Init => TracedOnce
  BY DEF Init, TracedOnce
<1>2. TypeOK /\ KeyedById /\ FlowInv /\ TableInv /\ TracedOnce /\ [Next]_vars => TracedOnce'
  <2> SUFFICES ASSUME TypeOK, KeyedById, FlowInv, TableInv, TracedOnce, [Next]_vars
               PROVE  TracedOnce'
    OBVIOUS
  <2>1. CASE UNCHANGED <<pending, traces>>
    BY <2>1 DEF TracedOnce
  <2>2. ASSUME NEW d \in Dirs, Capture(d), Record(hand[d], stamp[d], clock)
        PROVE  TracedOnce'
    <3>1. ASSUME hand[d].kind = "call", NEW tr \in traces, tr.call = hand[d].about
          PROVE  FALSE
      <4>1. d = C2S /\ hand[d] = CallOf(tr.call) /\ hand[d] \in ClientMessages
        BY <2>2, <3>1, CapturedIsPast, CaptureRecords
      <4>2. tr.call \in Calls
        BY <3>1, <4>1, CallFrames
      <4>3. tr.call \in PastCalls
        BY <4>2, TrackerAssumption DEF TableInv, TrackerAssumption
      <4> QED
        BY <4>1, <4>3 DEF PastCalls, Past
    <3> QED
      BY <2>2, <3>1, CaptureRecords, RecordOnce, TrackerAssumption DEF TypeOK
  <2> QED
    BY <2>1, <2>2, OnlyCaptures
<1> QED
  BY <1>1, <1>2, TypeCorrect, TableIsKeyed, FlowHolds, TableHolds, PTL DEF Spec

-----------------------------------------------------------------------------
\* The other direction: a frame of the server is in its pipe, in the hand of
\* its forwarder, or gone past both; and the server answers what it was given.
GoneFrames == {m \in ServerMessages : m \in sent /\ m \notin Range(serverOut) /\ m # hand[S2C]}

AnswerInv ==
  /\ IsInjective(serverOut)
  /\ Range(serverOut) \subseteq sent
  /\ hand[S2C] # NoMessage => hand[S2C] \in sent /\ hand[S2C] \notin Range(serverOut)
  /\ \A tr \in traces : tr.by \in ServerMessages => tr.by \in GoneFrames
  /\ \A c \in Calls : AnswerTo(c) \in sent => CallOf(c) \in Range(delivered)

\* The server's output changes by its forwarder's reads and the server's writes.
LEMMA OthersLeaveOutput ==
  ASSUME TypeOK, [Next]_vars, ~ForwardServer
  PROVE  /\ UNCHANGED hand[S2C]
         /\ \/ /\ serverOut' = serverOut
               /\ sent' = sent \/ \E m \in ClientMessages \ sent : sent' = sent \cup {m}
            \/ /\ UNCHANGED delivered
               /\ \E m \in ServerMessages \ sent :
                    /\ serverOut' = Append(serverOut, m) /\ sent' = sent \cup {m}
                    /\ \A c \in Calls : m = AnswerTo(c) => CallOf(c) \in Range(delivered)
<1> USE DEF Goto, Loop, Dirs, C2S, S2C, fwdVars, clientVars, serverVars, worldVars
<1>1. CASE ForwardClient
  BY <1>1 DEF ForwardClient, ReadClient, ReadEnd, Decide, Deny, DenyTrace, WriteServer, Capture,
              TypeOK, ForwardersTypeOK
<1>2. CASE Finish \/ Signal \/ Tick \/ UNCHANGED vars
  BY <1>2 DEF Finish, Signal, Tick, vars
<1>3. ASSUME NEW how \in {"eof", "torn"}, ClientEnds(how) \/ Exit(how)
      PROVE  UNCHANGED <<hand, serverOut, sent>>
  BY <1>3 DEF ClientEnds, Exit
<1>4. ASSUME NEW c \in Calls, ClientCalls(c) \/ \E a \in Asks : ClientReplies(a)
      PROVE  /\ UNCHANGED <<hand, serverOut>>
             /\ \E m \in ClientMessages \ sent : sent' = sent \cup {m}
  BY <1>4, MessageTypes DEF ClientCalls, ClientReplies
<1>5. ASSUME NEW a \in Asks, ServerAsks(a)
      PROVE  /\ UNCHANGED <<hand, delivered>>
             /\ \E m \in ServerMessages \ sent :
                  /\ serverOut' = Append(serverOut, m) /\ sent' = sent \cup {m}
                  /\ \A c \in Calls : m # AnswerTo(c)
  BY <1>5, MessageTypes DEF ServerAsks, ServerWrites, AnswerTo
<1>6. ASSUME NEW c \in Calls, ServerAnswers(c)
      PROVE  /\ UNCHANGED <<hand, delivered>>
             /\ \E m \in ServerMessages \ sent :
                  /\ serverOut' = Append(serverOut, m) /\ sent' = sent \cup {m}
                  /\ \A d \in Calls : m = AnswerTo(d) => CallOf(d) \in Range(delivered)
  BY <1>6, MessageTypes DEF ServerAnswers, ServerWrites, AnswerTo, CallOf
<1>7. ASSUME NEW a \in Asks, ClientReplies(a)
      PROVE  /\ UNCHANGED <<hand, serverOut>>
             /\ \E m \in ClientMessages \ sent : sent' = sent \cup {m}
  BY <1>7, MessageTypes DEF ClientReplies
<1> QED
  BY <1>1, <1>2, <1>3, <1>4, <1>5, <1>6, <1>7 DEF Next, ServerStops, ServerDies

\* What is gone stays gone, and what the server has is never taken from it.
LEMMA GoneStays ==
  ASSUME TypeOK, AnswerInv, [Next]_vars
  PROVE  GoneFrames \subseteq GoneFrames'
<1> USE DEF Goto, Loop, Dirs, C2S, S2C, fwdVars, clientVars, serverVars, worldVars
<1>1. serverOut \in Seq(ServerMessages) /\ sent \subseteq sent'
  <2>1. CASE ForwardServer
    BY <2>1 DEF ForwardServer, ReadServer, ReadEnd, Capture, WriteClient, TypeOK
  <2>2. CASE ~ForwardServer
    BY <2>2, OthersLeaveOutput DEF TypeOK
  <2> QED
    BY <2>1, <2>2
<1>2. CASE ~ForwardServer
  <2>1. UNCHANGED hand[S2C]
    BY <1>2, OthersLeaveOutput
  <2>2. CASE serverOut' = serverOut
    BY <1>1, <2>1, <2>2 DEF GoneFrames
  <2>3. ASSUME NEW n \in ServerMessages \ sent, serverOut' = Append(serverOut, n)
        PROVE  GoneFrames \subseteq GoneFrames'
    <3>1. Range(serverOut') = Range(serverOut) \cup {n}
      BY <1>1, <2>3, AppendRange
    <3> QED
      BY <1>1, <2>1, <2>3, <3>1 DEF GoneFrames
  <2> QED
    BY <1>2, <2>2, <2>3, OthersLeaveOutput
<1>3. CASE ReadServer
  <2>1. Range(Tail(serverOut)) \subseteq Range(serverOut) /\ Head(serverOut) \in Range(serverOut)
    BY <1>1, <1>3, HeadRange DEF ReadServer
  <2>2. serverOut' = Tail(serverOut) /\ hand'[S2C] = Head(serverOut)
    BY <1>3 DEF ReadServer, TypeOK, ForwardersTypeOK
  <2> QED
    BY <1>1, <2>1, <2>2 DEF GoneFrames
<1>4. CASE Capture(S2C)
  <2>1. hand'[S2C] = NoMessage /\ UNCHANGED serverOut /\ \A m \in ServerMessages : m # NoMessage
    BY <1>4, StdioAssumption DEF Capture, TypeOK, ForwardersTypeOK, StdioAssumption, Messages
  <2> QED
    BY <1>1, <2>1 DEF GoneFrames
<1>5. CASE ReadEnd(S2C) \/ \E part \in {"header", "payload"} : WriteClient(part)
  BY <1>1, <1>5 DEF ReadEnd, WriteClient, GoneFrames
<1> QED
  BY <1>2, <1>3, <1>4, <1>5 DEF ForwardServer

\* What was delivered stays delivered.
LEMMA DeliveredGrows ==
  ASSUME TypeOK, [Next]_vars
  PROVE  Range(delivered) \subseteq Range(delivered')
<1>1. CASE delivered' = delivered
  BY <1>1
<1>2. CASE delivered' = Append(delivered, hand[C2S]) /\ hand[C2S] \in ClientMessages
  BY <1>2, AppendRange DEF TypeOK
<1>3. ASSUME NEW part \in {"header", "payload"}, WriteServer(part)
      PROVE  hand[C2S] \in ClientMessages
  BY <1>3 DEF WriteServer, TypeOK, ForwardersTypeOK, Dirs, C2S, S2C
<1>4. CASE ForwardClient
  BY <1>1, <1>2, <1>3, <1>4 DEF ForwardClient, ReadClient, ReadEnd, Decide, Deny, DenyTrace, WriteServer, Capture
<1> QED
  BY <1>1, <1>4, OthersLeaveFlow

\* A capture of the server's direction is of a frame that was gone from the
\* pipe, and the traces it makes are of that frame.
LEMMA AnswerStep ==
  ASSUME TypeOK, AnswerInv, [Next]_vars
  PROVE  AnswerInv'
<1> USE DEF Goto, Loop, Dirs, C2S, S2C, fwdVars, clientVars, serverVars, worldVars
<1>1. /\ serverOut \in Seq(ServerMessages)
      /\ GoneFrames \subseteq GoneFrames' /\ Range(delivered) \subseteq Range(delivered')
      /\ \A c \in Calls : AnswerTo(c) \notin ClientMessages
  BY GoneStays, DeliveredGrows DEF TypeOK, AnswerTo, ClientMessages
<1>2. \A tr \in traces' : tr.by \in ServerMessages => tr.by \in GoneFrames'
  <2>1. CASE UNCHANGED traces
    BY <1>1, <2>1 DEF AnswerInv
  <2>2. ASSUME NEW d \in Dirs, Capture(d), Record(hand[d], stamp[d], clock)
        PROVE  \A tr \in traces' : tr.by \in ServerMessages => tr.by \in GoneFrames'
    <3>1. \A tr \in traces' : tr \in traces \/ tr.by = hand[d]
      BY <2>2, CaptureRecords, RecordTraces
    <3>2. hand[d] \in ServerMessages => d = S2C
      BY <2>2, CaptureRecords, KindsApart
    <3>3. ASSUME d = S2C
          PROVE  hand[S2C] \in GoneFrames'
      <4>1. /\ hand[S2C] \in ServerMessages /\ hand[S2C] # NoMessage /\ hand'[S2C] = NoMessage
            /\ UNCHANGED <<serverOut, sent>>
        BY <2>2, <3>3 DEF Capture, TypeOK, ForwardersTypeOK
      <4>2. \A m : m = hand[S2C] => m \in sent' /\ m \notin Range(serverOut') /\ m # hand'[S2C]
        BY <4>1 DEF AnswerInv
      <4> QED
        BY <4>1, <4>2 DEF GoneFrames
    <3> QED
      BY <1>1, <3>1, <3>2, <3>3 DEF AnswerInv
  <2> QED
    BY <2>1, <2>2, OnlyCaptures
<1>3. CASE ~ForwardServer
  <2>1. UNCHANGED hand[S2C]
    BY <1>3, OthersLeaveOutput
  <2>2. CASE /\ serverOut' = serverOut
             /\ sent' = sent \/ \E m \in ClientMessages \ sent : sent' = sent \cup {m}
    BY <1>1, <1>2, <2>1, <2>2 DEF AnswerInv
  <2>3. ASSUME UNCHANGED delivered, NEW m \in ServerMessages \ sent,
               serverOut' = Append(serverOut, m), sent' = sent \cup {m},
               \A c \in Calls : m = AnswerTo(c) => CallOf(c) \in Range(delivered)
        PROVE  AnswerInv'
    <3>1. m \notin Range(serverOut) /\ m # hand[S2C]
      BY <2>3, StdioAssumption DEF AnswerInv, StdioAssumption, Messages
    <3>2. Range(serverOut') = Range(serverOut) \cup {m} /\ IsInjective(serverOut')
      BY <1>1, <2>3, <3>1, AppendRange DEF AnswerInv
    <3> QED
      BY <1>2, <2>1, <2>3, <3>1, <3>2 DEF AnswerInv
  <2> QED
    BY <1>3, <2>2, <2>3, OthersLeaveOutput
<1>4. CASE ReadServer
  <2>1. /\ Range(Tail(serverOut)) \subseteq Range(serverOut) /\ Head(serverOut) \in Range(serverOut)
        /\ IsInjective(Tail(serverOut)) /\ Head(serverOut) \notin Range(Tail(serverOut))
    BY <1>1, <1>4, HeadRange DEF ReadServer, AnswerInv
  <2>2. /\ serverOut' = Tail(serverOut) /\ hand'[S2C] = Head(serverOut) /\ sent' = sent
    BY <1>4 DEF ReadServer, TypeOK, ForwardersTypeOK
  <2> QED
    BY <1>1, <1>2, <2>1, <2>2 DEF AnswerInv
<1>5. CASE Capture(S2C)
  <2>1. hand'[S2C] = NoMessage /\ UNCHANGED <<serverOut, sent>>
    BY <1>5 DEF Capture, TypeOK, ForwardersTypeOK
  <2> QED
    BY <1>1, <1>2, <2>1 DEF AnswerInv
<1>6. CASE ReadEnd(S2C) \/ \E part \in {"header", "payload"} : WriteClient(part)
  <2>1. UNCHANGED <<hand, serverOut, sent>>
    BY <1>6 DEF ReadEnd, WriteClient
  <2> QED
    BY <1>1, <1>2, <2>1 DEF AnswerInv
<1> QED
  BY <1>3, <1>4, <1>5, <1>6 DEF ForwardServer

\* Where the frames of the server are, in every state.
LEMMA AnswersHold == Spec => []AnswerInv
<1>1. Init => AnswerInv
  BY DEF Init, AnswerInv, Range, IsInjective, Dirs, C2S, S2C
<1>2. TypeOK /\ AnswerInv /\ [Next]_vars => AnswerInv'
  BY AnswerStep
<1> QED
  BY <1>1, <1>2, TypeCorrect, PTL DEF Spec

-----------------------------------------------------------------------------
\* A call is stamped before it is written, and its answer is captured after the
\* server gave it: what is in the table is stamped no later than its delivery,
\* and a trace spans the time from there to the answer.
TimesInv ==
  /\ \A d \in Dirs : stamp[d] <= clock
  /\ \A c \in Calls : times[c].answered <= clock
  /\ \A c \in Calls : hand[C2S] = CallOf(c) /\ pc[C2S] = "capture" => stamp[C2S] <= times[c].delivered
  /\ \A id \in DOMAIN pending : pending[id].at <= times[pending[id].call].delivered
  /\ \A tr \in traces : tr.call # NoCall =>
       /\ tr.from <= times[tr.call].delivered
       /\ tr.by = AnswerTo(tr.call) => times[tr.call].answered <= tr.until

\* The times of a call that is past and answered do not change any more, and a
\* time that is set is set to the clock.
LEMMA TimesStep ==
  ASSUME TypeOK, AnswerInv, [Next]_vars
  PROVE  /\ clock <= clock' /\ \A d \in Dirs : stamp'[d] = stamp[d] \/ stamp'[d] = clock'
         /\ \A c \in PastCalls : /\ times'[c].delivered = times[c].delivered
                                  /\ times'[c].received = times[c].received
         /\ \A c \in Calls : \/ times'[c].received = times[c].received
                             \/ pc[C2S] # "capture" /\ times'[c].received = stamp[C2S]
         /\ \A c \in Calls : \/ times'[c].answered = times[c].answered
                             \/ times'[c].answered = clock' /\ AnswerTo(c) \notin sent
         /\ \A c \in Calls : times'[c].delivered = times[c].delivered \/ times'[c].delivered = clock'
<1> USE DEF Goto, Loop, Dirs, C2S, S2C, fwdVars, clientVars, serverVars, worldVars
<1>1. clock \in Int /\ (UNCHANGED clock => clock <= clock')
  BY TrackerAssumption DEF TypeOK, Time, TrackerAssumption
<1>2. /\ times \in [Calls -> [sent : Time, received : Time, delivered : Time, answered : Time]]
      /\ stamp \in [Dirs -> Time]
  BY DEF TypeOK, ForwardersTypeOK
<1>3. CASE ForwardServer
  BY <1>1, <1>2, <1>3 DEF ForwardServer, ReadServer, ReadEnd, Capture, WriteClient
<1>4. CASE Finish \/ Signal \/ UNCHANGED vars
  BY <1>1, <1>4 DEF Finish, Signal, vars
<1>5. CASE Tick
  BY <1>1, <1>5 DEF Tick
<1>6. ASSUME NEW how \in {"eof", "torn"}, ClientEnds(how) \/ Exit(how)
      PROVE  UNCHANGED <<clock, stamp, times>>
  BY <1>6 DEF ClientEnds, Exit
<1>7. ASSUME NEW a \in Asks, ServerAsks(a) \/ ClientReplies(a)
      PROVE  UNCHANGED <<clock, stamp, times>>
  BY <1>7 DEF ServerAsks, ServerWrites, ClientReplies
<1>8. ASSUME NEW c \in Calls, ClientCalls(c)
      PROVE  /\ UNCHANGED <<clock, stamp>>
             /\ \A d \in Calls : /\ times'[d].delivered = times[d].delivered
                                 /\ times'[d].received = times[d].received
                                 /\ times'[d].answered = times[d].answered
  BY <1>2, <1>8 DEF ClientCalls
<1>9. ASSUME NEW c \in Calls, ServerAnswers(c)
      PROVE  /\ UNCHANGED <<clock, stamp>>
             /\ \A d \in Calls :
                  /\ times'[d].delivered = times[d].delivered
                  /\ times'[d].received = times[d].received
                  /\ \/ times'[d].answered = times[d].answered
                     \/ times'[d].answered = clock /\ AnswerTo(d) \notin sent
  <2>1. /\ UNCHANGED <<clock, stamp>> /\ AnswerTo(c) \notin sent
        /\ times' = [times EXCEPT ![c].answered = clock]
    BY <1>9 DEF ServerAnswers, ServerWrites, AnswerTo
  <2> QED
    BY <1>2, <2>1
<1>10. CASE ForwardClient
  <2>1. CASE ReadClient \/ ReadEnd(C2S) \/ Decide \/ DenyTrace \/ Capture(C2S)
             \/ \E part \in {"header", "payload"} : Deny(part)
    BY <1>1, <1>2, <2>1 DEF ReadClient, ReadEnd, Decide, DenyTrace, Capture, Deny
  <2>2. ASSUME NEW part \in {"header", "payload"}, WriteServer(part)
        PROVE  /\ UNCHANGED <<clock, stamp>>
               /\ \A d \in Calls : times'[d].answered = times[d].answered
               /\ \A d \in Calls : \/ /\ times'[d].delivered = times[d].delivered
                                      /\ times'[d].received = times[d].received
                                   \/ /\ times'[d].delivered = clock /\ hand[C2S] = CallOf(d)
                                      /\ times'[d].received = stamp[C2S] /\ pc[C2S] # "capture"
    <3>1. UNCHANGED <<clock, stamp>> /\ hand[C2S] \in ClientMessages /\ pc[C2S] # "capture"
      BY <2>2 DEF WriteServer, TypeOK, ForwardersTypeOK
    <3>2. CASE times' = times
      BY <3>1, <3>2
    <3>3. CASE /\ hand[C2S].kind = "call"
               /\ times' = [times EXCEPT ![hand[C2S].about].received = stamp[C2S],
                                         ![hand[C2S].about].delivered = clock]
      <4>1. PICK c \in Calls : c = hand[C2S].about /\ hand[C2S] = CallOf(c)
        BY <3>1, <3>3, CallFrames
      <4>2. times' = [times EXCEPT ![c].received = stamp[C2S], ![c].delivered = clock]
        BY <3>3, <4>1
      <4> QED
        BY <1>2, <3>1, <4>1, <4>2
    <3> QED
      BY <2>2, <3>2, <3>3 DEF WriteServer
  <2>3. \A d \in PastCalls : d \in Calls /\ hand[C2S] # CallOf(d)
    BY DEF PastCalls, Past
  <2> QED
    BY <1>1, <1>10, <2>1, <2>2, <2>3 DEF ForwardClient
<1>11. PastCalls \subseteq Calls
  BY DEF PastCalls
<1> QED
  BY <1>1, <1>3, <1>4, <1>5, <1>6, <1>7, <1>8, <1>9, <1>10, <1>11 DEF Next, ServerStops, ServerDies

\* A frame reaches its capture by being written, at the time of the clock.
LEMMA WrittenAtClock ==
  ASSUME TypeOK, [Next]_vars, pc'[C2S] = "capture", NEW c \in Calls, hand'[C2S] = CallOf(c)
  PROVE  /\ UNCHANGED <<hand[C2S], stamp[C2S]>>
         /\ \/ pc[C2S] = "capture"
            \/ times'[c].delivered = clock' /\ times'[c].received = stamp'[C2S]
<1> USE DEF Goto, Loop, Dirs, C2S, S2C, fwdVars, clientVars, serverVars, worldVars
<1>1. CASE ~ForwardClient
  BY <1>1, OthersLeaveFlow
<1>2. CASE ReadClient \/ ReadEnd(C2S) \/ Decide \/ DenyTrace \/ Capture(C2S)
           \/ \E part \in {"header", "payload"} : Deny(part)
  BY <1>2 DEF ReadClient, ReadEnd, Decide, DenyTrace, Capture, Deny, TypeOK, ForwardersTypeOK
<1>3. ASSUME NEW part \in {"header", "payload"}, WriteServer(part)
      PROVE  /\ UNCHANGED <<hand, stamp>>
             /\ times'[c].delivered = clock' /\ times'[c].received = stamp'[C2S]
  <2>1. UNCHANGED <<hand, stamp, clock>> /\ part = "payload"
    BY <1>3 DEF WriteServer, TypeOK, ForwardersTypeOK
  <2>2. hand[C2S] = CallOf(c)
    BY <2>1
  <2>3. hand[C2S].kind = "call" /\ hand[C2S].about = c
    BY <2>2 DEF CallOf
  <2>4. times' = [times EXCEPT ![c].received = stamp[C2S], ![c].delivered = clock]
    BY <1>3, <2>1, <2>3 DEF WriteServer, TypeOK, ForwardersTypeOK
  <2> QED
    BY <2>1, <2>4 DEF TypeOK
<1> QED
  BY <1>1, <1>2, <1>3 DEF ForwardClient

\* The order of stamp, delivery, answer and capture is kept by every step.
LEMMA TimesInvStep ==
  ASSUME TypeOK, KeyedById, FlowInv, TableInv, AnswerInv, TimesInv, [Next]_vars
  PROVE  TimesInv'
<1>1. TypeOK' /\ TableInv'
  BY TypeStep, TableStep, TrackerAssumption, StdioAssumption
<1>2. Time \subseteq Int
  BY TrackerAssumption DEF Time, TrackerAssumption
<1>3. /\ \A d \in Dirs : stamp[d] \in Int /\ stamp'[d] \in Int
      /\ \A c \in Calls : /\ times[c].delivered \in Int /\ times'[c].delivered \in Int
                          /\ times[c].answered \in Int /\ times'[c].answered \in Int
      /\ clock \in Int /\ clock' \in Int /\ C2S \in Dirs
  BY <1>1, <1>2 DEF TypeOK, ForwardersTypeOK, Dirs
<1>4. /\ PastCalls \subseteq Calls
      /\ \A id \in DOMAIN pending : pending[id].at \in Int
      /\ \A tr \in traces : tr.from \in Int /\ tr.until \in Int
  BY <1>2 DEF PastCalls, TypeOK, TrackerTypeOK
<1>5. /\ \A d \in Dirs : stamp'[d] <= clock'
      /\ \A c \in Calls : times'[c].answered <= clock'
  BY <1>3, TimesStep DEF TimesInv
<1>6. ASSUME NEW c \in Calls, hand'[C2S] = CallOf(c), pc'[C2S] = "capture"
      PROVE  stamp'[C2S] <= times'[c].delivered
  <2>1. /\ hand[C2S] = CallOf(c) /\ stamp'[C2S] = stamp[C2S]
        /\ pc[C2S] = "capture" \/ times'[c].delivered = clock'
    BY <1>6, WrittenAtClock
  <2>2. /\ clock <= clock' /\ stamp[C2S] <= clock
        /\ times'[c].delivered = times[c].delivered \/ times'[c].delivered = clock'
    BY <1>3, TimesStep DEF TimesInv
  <2>3. pc[C2S] = "capture" => stamp[C2S] <= times[c].delivered
    BY <2>1 DEF TimesInv
  <2> QED
    BY <1>3, <2>1, <2>2, <2>3
\* What was in the table or in the traces.
<1>7. /\ \A id \in DOMAIN pending : pending[id].at <= times'[pending[id].call].delivered
      /\ \A tr \in traces : tr.call # NoCall =>
           /\ tr.from <= times'[tr.call].delivered
           /\ tr.by = AnswerTo(tr.call) => times'[tr.call].answered <= tr.until
  <2>1. \A c \in PastCalls : times'[c].delivered = times[c].delivered
    BY TimesStep
  <2>2. \A tr \in traces : tr.call # NoCall /\ tr.by = AnswerTo(tr.call) =>
          times'[tr.call].answered = times[tr.call].answered
    <3> SUFFICES ASSUME NEW tr \in traces, tr.call # NoCall, tr.by = AnswerTo(tr.call)
                 PROVE  times'[tr.call].answered = times[tr.call].answered
      OBVIOUS
    <3>1. tr.call \in Calls /\ tr.by = AnswerTo(tr.call) /\ tr.by \in ServerMessages
      BY <1>4, MessageTypes DEF TableInv, AnswerTo
    <3>2. AnswerTo(tr.call) \in sent
      BY <3>1 DEF AnswerInv, GoneFrames
    <3> QED
      BY <3>1, <3>2, TimesStep
  <2> QED
    BY <1>4, <2>1, <2>2 DEF TimesInv, TableInv
<1>8. CASE UNCHANGED <<pending, traces>>
  BY <1>5, <1>6, <1>7, <1>8 DEF TimesInv
<1>9. ASSUME NEW d \in Dirs, Capture(d), Record(hand[d], stamp[d], clock)
      PROVE  TimesInv'
  <2>1. /\ Record(hand[d], stamp[d], clock) /\ hand[d] \in Messages
        /\ UNCHANGED <<clock, times>>
    BY <1>9, CaptureRecords DEF Capture, worldVars
  <2>2. \A id \in DOMAIN pending' : pending'[id].at <= times'[pending'[id].call].delivered
    <3> SUFFICES ASSUME NEW id \in DOMAIN pending'
                 PROVE  pending'[id].at <= times'[pending'[id].call].delivered
      OBVIOUS
    <3>1. CASE id \in DOMAIN pending /\ pending'[id] = pending[id]
      BY <1>7, <3>1
    <3>2. CASE hand[d].kind = "call" /\ pending'[id] = [call |-> hand[d].about, at |-> stamp[d]]
      <4>1. d = C2S /\ hand[d] = CallOf(hand[d].about) /\ hand[d].about \in Calls
        BY <1>1, <1>9, <3>2, CapturedIsPast DEF PastCalls
      <4>2. pc[C2S] = "capture"
        BY <1>9, <4>1 DEF Capture
      <4>3. stamp[C2S] <= times[hand[d].about].delivered
        BY <4>1, <4>2 DEF TimesInv
      <4> QED
        BY <2>1, <3>2, <4>1, <4>3
    <3> QED
      BY <2>1, <3>1, <3>2, RecordTable
  <2>3. \A tr \in traces' : tr.call # NoCall =>
          /\ tr.from <= times'[tr.call].delivered
          /\ tr.by = AnswerTo(tr.call) => times'[tr.call].answered <= tr.until
    <3>1. CASE traces' = traces \cup {SingleOf(hand[d], stamp[d], clock)}
      BY <1>7, <3>1 DEF SingleOf
    <3>2. CASE /\ Id(hand[d]) \in DOMAIN pending
               /\ traces' = traces \cup {PairOf(pending[Id(hand[d])], hand[d], clock)}
      <4>1. PICK tr : tr = PairOf(pending[Id(hand[d])], hand[d], clock)
        OBVIOUS
      <4>2. /\ tr.from = pending[Id(hand[d])].at /\ tr.call = pending[Id(hand[d])].call
            /\ tr.until = clock
        BY <4>1 DEF PairOf
      <4>3. tr.from <= times'[tr.call].delivered /\ tr.call \in Calls
        BY <1>4, <1>7, <3>2, <4>2 DEF TableInv
      <4>4. times'[tr.call].answered <= tr.until
        BY <1>5, <2>1, <4>2, <4>3
      <4> QED
        BY <1>7, <3>2, <4>1, <4>3, <4>4
    <3> QED
      BY <1>7, <2>1, <3>1, <3>2, RecordPairs
  <2> QED
    BY <1>5, <1>6, <2>2, <2>3 DEF TimesInv
<1> QED
  BY <1>8, <1>9, OnlyCaptures

\* The latency of a call that is traced with its answer is never less than the
\* time between its delivery to the server and that answer, however late the
\* two captures come and whoever else uses its id.
THEOREM LatencyIsHonest == Spec => []LatencyCoversServer
<1>1. Init => TimesInv
  BY DEF Init, TimesInv, Dirs, C2S, S2C
<1>2. TypeOK /\ KeyedById /\ FlowInv /\ TableInv /\ AnswerInv /\ TimesInv /\ [Next]_vars
        => TimesInv'
  BY TimesInvStep
<1>3. TypeOK /\ TimesInv => LatencyCoversServer
  <2> SUFFICES ASSUME TypeOK, TimesInv, NEW tr \in traces, tr.call # NoCall, tr.by = AnswerTo(tr.call)
               PROVE  tr.until - tr.from >= times[tr.call].answered - times[tr.call].delivered
    BY DEF LatencyCoversServer
  <2>1. /\ tr.from \in Int /\ tr.until \in Int
        /\ times[tr.call].answered \in Int /\ times[tr.call].delivered \in Int
    BY TrackerAssumption DEF TypeOK, TrackerTypeOK, Time, TrackerAssumption
  <2>2. tr.from <= times[tr.call].delivered /\ times[tr.call].answered <= tr.until
    BY DEF TimesInv
  <2> QED
    BY <2>1, <2>2
<1> QED
  BY <1>1, <1>2, <1>3, TypeCorrect, TableIsKeyed, FlowHolds, TableHolds, AnswersHold,
     PTL DEF Spec

-----------------------------------------------------------------------------
\* A call is in the table with its stamp, which is one the forwarder's clock
\* has reached.
ReceivedInv ==
  /\ \A d \in Dirs : stamp[d] <= clock
  /\ \A c \in Calls : hand[C2S] = CallOf(c) /\ pc[C2S] = "capture" => times[c].received = stamp[C2S]
  /\ \A id \in DOMAIN pending : pending[id].at = times[pending[id].call].received

\* The stamp of a call does not change after its capture.
LEMMA ReceivedStep ==
  ASSUME TypeOK, FlowInv, TableInv, AnswerInv, ReceivedInv, [Next]_vars
  PROVE  ReceivedInv'
<1>1. TypeOK'
  BY TypeStep, TrackerAssumption, StdioAssumption
<1>2. \A d \in Dirs : stamp'[d] <= clock'
  <2>1. Time \subseteq Int
    BY TrackerAssumption DEF Time, TrackerAssumption
  <2>2. \A d \in Dirs : stamp[d] \in Int /\ clock \in Int /\ clock' \in Int
    BY <1>1, <2>1 DEF TypeOK, ForwardersTypeOK
  <2>3. clock <= clock' /\ \A d \in Dirs : stamp'[d] = stamp[d] \/ stamp'[d] = clock'
    BY TimesStep
  <2> QED
    BY <2>2, <2>3 DEF ReceivedInv
<1>3. ASSUME NEW c \in Calls, hand'[C2S] = CallOf(c), pc'[C2S] = "capture"
      PROVE  times'[c].received = stamp'[C2S]
  <2>1. /\ hand[C2S] = CallOf(c) /\ stamp'[C2S] = stamp[C2S]
        /\ pc[C2S] = "capture" \/ times'[c].received = stamp'[C2S]
    BY <1>3, WrittenAtClock
  <2>2. times'[c].received = times[c].received \/ times'[c].received = stamp[C2S]
    BY TimesStep
  <2> QED
    BY <2>1, <2>2 DEF ReceivedInv
<1>4. ASSUME NEW id \in DOMAIN pending
      PROVE  pending[id].at = times'[pending[id].call].received
  BY TimesStep DEF ReceivedInv, TableInv
<1>5. CASE UNCHANGED <<pending, traces>>
  BY <1>2, <1>3, <1>4, <1>5 DEF ReceivedInv
<1>6. ASSUME NEW d \in Dirs, Capture(d), Record(hand[d], stamp[d], clock)
      PROVE  ReceivedInv'
  <2>1. Record(hand[d], stamp[d], clock) /\ hand[d] \in Messages /\ UNCHANGED times
    BY <1>6, CaptureRecords DEF Capture, worldVars
  <2>2. \A id \in DOMAIN pending' : pending'[id].at = times'[pending'[id].call].received
    <3> SUFFICES ASSUME NEW id \in DOMAIN pending'
                 PROVE  pending'[id].at = times'[pending'[id].call].received
      OBVIOUS
    <3>1. CASE id \in DOMAIN pending /\ pending'[id] = pending[id]
      BY <1>4, <3>1
    <3>2. CASE hand[d].kind = "call" /\ pending'[id] = [call |-> hand[d].about, at |-> stamp[d]]
      <4>1. d = C2S /\ hand[d] = CallOf(hand[d].about) /\ hand[d].about \in Calls
        BY <1>6, <3>2, CapturedIsPast DEF PastCalls
      <4>2. pc[C2S] = "capture"
        BY <1>6, <4>1 DEF Capture
      <4>3. times[hand[d].about].received = stamp[C2S]
        BY <4>1, <4>2 DEF ReceivedInv
      <4> QED
        BY <2>1, <3>2, <4>1, <4>3
    <3> QED
      BY <2>1, <3>1, <3>2, RecordTable
  <2> QED
    BY <1>2, <1>3, <2>2 DEF ReceivedInv
<1> QED
  BY <1>5, <1>6, OnlyCaptures

\* The table keeps the stamps of its calls, in every state.
LEMMA ReceivedHolds == Spec => []ReceivedInv
<1>1. Init => ReceivedInv
  BY DEF Init, ReceivedInv, Dirs, C2S, S2C
<1>2. TypeOK /\ FlowInv /\ TableInv /\ AnswerInv /\ ReceivedInv /\ [Next]_vars => ReceivedInv'
  BY ReceivedStep
<1> QED
  BY <1>1, <1>2, TypeCorrect, FlowHolds, TableHolds, AnswersHold, PTL DEF Spec

-----------------------------------------------------------------------------
\* A delivered call with an id of its own is in the hand of its forwarder, waits
\* under its id, has its trace, is too old to be in the table, or was not logged.
Waits(c)  == IdOf[c] \in DOMAIN pending /\ pending[IdOf[c]].call = c
Old(c)    == times[c].received < clock - StaleAfter
Traced(c) == \E tr \in traces : tr.call = c

WaitsInv ==
  \A c \in Calls : OwnsId(c) /\ CallOf(c) \in Range(delivered) =>
    hand[C2S] = CallOf(c) \/ Waits(c) \/ Traced(c) \/ Old(c) \/ CallOf(c) \in unlogged

\* A call that waits is recorded as fresh unless it is too old.
LEMMA WaitsIsFresh ==
  ASSUME TypeOK, ReceivedInv, NEW d \in Dirs, NEW c \in Calls, Waits(c)
  PROVE  IdOf[c] \in Fresh(stamp[d]) \/ Old(c)
<1>1. /\ pending[IdOf[c]].at = times[c].received /\ IdOf[c] \in DOMAIN pending
      /\ stamp[d] <= clock
  BY DEF Waits, ReceivedInv
<1>2. /\ times[c].received \in Int /\ stamp[d] \in Int /\ clock \in Int /\ StaleAfter \in Int
  BY TrackerAssumption DEF TypeOK, ForwardersTypeOK, Time, TrackerAssumption
<1>3. ~ (pending[IdOf[c]].at >= stamp[d] - StaleAfter) => Old(c)
  BY <1>1, <1>2 DEF Old
<1> QED
  BY <1>1, <1>3 DEF Fresh

\* A call that is past and too old stays so.
LEMMA OldStays ==
  ASSUME TypeOK, FlowInv, AnswerInv, [Next]_vars, NEW c \in PastCalls, Old(c)
  PROVE  Old(c)'
<1>1. TypeOK'
  BY TypeStep, TrackerAssumption, StdioAssumption
<1>2. /\ times[c].received \in Int /\ clock \in Int /\ clock' \in Int /\ StaleAfter \in Int
  BY <1>1, TrackerAssumption DEF TypeOK, Time, TrackerAssumption, PastCalls
<1>3. times'[c].received = times[c].received /\ clock <= clock'
  BY TimesStep
<1> QED
  BY <1>2, <1>3 DEF Old

\* The forwarder lets a delivered call go by capturing it.
LEMMA DeliveredIsCaptured ==
  ASSUME TypeOK, FlowInv, [Next]_vars, NEW c \in Calls, CallOf(c) \in Range(delivered')
  PROVE  \/ hand'[C2S] = CallOf(c)
         \/ /\ CallOf(c) \in Range(delivered)
            /\ hand[C2S] # CallOf(c) \/ Capture(C2S)
<1> USE DEF Goto, Loop, Dirs, C2S, S2C, fwdVars, clientVars, serverVars, worldVars
<1>1. CASE ~ForwardClient
  BY <1>1, OthersLeaveFlow
<1>2. CASE ReadClient \/ DenyTrace
  <2>1. pc[C2S] # "capture" /\ delivered' = delivered
    BY <1>2 DEF ReadClient, DenyTrace
  <2> QED
    BY <2>1 DEF FlowInv, Past
<1>3. CASE Capture(C2S)
  BY <1>3 DEF Capture
<1>4. CASE ReadEnd(C2S) \/ Decide \/ \E part \in {"header", "payload"} : Deny(part)
  BY <1>4 DEF ReadEnd, Decide, Deny
<1>5. ASSUME NEW part \in {"header", "payload"}, WriteServer(part)
      PROVE  \/ hand'[C2S] = CallOf(c)
             \/ CallOf(c) \in Range(delivered) /\ hand[C2S] # CallOf(c)
  <2>1. UNCHANGED hand /\ hand[C2S] \in ClientMessages /\ delivered \in Seq(ClientMessages)
    BY <1>5 DEF WriteServer, TypeOK, ForwardersTypeOK
  <2>2. delivered' = delivered \/ delivered' = Append(delivered, hand[C2S])
    BY <1>5 DEF WriteServer
  <2>3. Range(Append(delivered, hand[C2S])) = Range(delivered) \cup {hand[C2S]}
    BY <2>1, AppendRange
  <2> QED
    BY <2>1, <2>2, <2>3
<1> QED
  BY <1>1, <1>2, <1>3, <1>4, <1>5 DEF ForwardClient

\* A call stops to wait only when it gets its trace, or is too old.
LEMMA WaitsEnd ==
  ASSUME TypeOK, KeyedById, FlowInv, TableInv, AnswerInv, ReceivedInv, [Next]_vars,
         NEW c \in Calls, Waits(c), OwnsId(c)
  PROVE  Waits(c)' \/ Traced(c)' \/ Old(c)'
<1>1. CASE UNCHANGED <<pending, traces>>
  BY <1>1 DEF Waits
<1>2. ASSUME NEW d \in Dirs, Capture(d), Record(hand[d], stamp[d], clock)
      PROVE  Waits(c)' \/ Traced(c)' \/ Old(c)'
  <2>1. /\ Record(hand[d], stamp[d], clock) /\ hand[d] \in Messages
        /\ hand[d] \in ServerMessages \/ hand[d] \in ClientMessages
    BY <1>2, CaptureRecords DEF Dirs
  <2>2. CASE IdOf[c] \notin Fresh(stamp[d])
    <3>1. Old(c) /\ c \in PastCalls
      BY <2>2, WaitsIsFresh DEF Waits, TableInv
    <3> QED
      BY <3>1, OldStays
  <2>3. CASE IdOf[c] \in Fresh(stamp[d]) /\ Id(hand[d]) # IdOf[c]
    <3>1. IdOf[c] \in DOMAIN pending' /\ pending'[IdOf[c]] = pending[IdOf[c]]
      BY <2>1, <2>3, RecordKeeps
    <3> QED
      BY <3>1 DEF Waits
  <2>4. CASE IdOf[c] \in Fresh(stamp[d]) /\ Id(hand[d]) = IdOf[c]
    <3>1. hand[d].about \in Calls \cup Asks
      BY <2>1 DEF ServerMessages, ClientMessages
    <3>2. hand[d].about = c
      BY <2>4, <3>1 DEF Id, OwnsId
    <3>3. CASE hand[d].kind = "call"
      <4>1. /\ Id(hand[d]) \in DOMAIN pending'
            /\ pending'[Id(hand[d])] = [call |-> hand[d].about, at |-> stamp[d]]
        BY <2>1, <3>3, RecordCall
      <4> QED
        BY <2>4, <3>2, <4>1 DEF Waits
    <3>4. CASE hand[d].kind # "call"
      <4>1. hand[d] \in ServerMessages
        BY <2>1, <3>2, <3>4, TrackerAssumption DEF ClientMessages, TrackerAssumption
      <4>2. traces' = traces \cup {PairOf(pending[Id(hand[d])], hand[d], clock)}
        BY <2>1, <2>4, <3>4, <4>1, RecordMatches
      <4>3. PairOf(pending[Id(hand[d])], hand[d], clock).call = c
        BY <2>4 DEF PairOf, Waits
      <4> QED
        BY <4>2, <4>3 DEF Traced
    <3> QED
      BY <3>3, <3>4
  <2> QED
    BY <2>2, <2>3, <2>4
<1> QED
  BY <1>1, <1>2, OnlyCaptures

\* A frame that was not logged stays so.
LEMMA UnloggedGrow ==
  ASSUME [Next]_vars
  PROVE  unlogged \subseteq unlogged'
BY DEF Capture, Next, vars, ForwardClient, ForwardServer, ReadClient, ReadServer, ReadEnd, Decide, Deny,
       DenyTrace, WriteServer, WriteClient, Finish, ClientCalls, ClientReplies, ClientEnds,
       ServerWrites, ServerAnswers, ServerAsks, Exit, ServerStops, ServerDies, Signal, Tick,
       trackerVars

\* A trace stays.
LEMMA TracesGrow ==
  ASSUME TypeOK, [Next]_vars
  PROVE  traces \subseteq traces'
<1>1. ASSUME NEW d \in Dirs, Capture(d), Record(hand[d], stamp[d], clock)
      PROVE  traces \subseteq traces'
  BY <1>1, CaptureRecords, RecordTraces
<1> QED
  BY <1>1, OnlyCaptures

\* A delivered call goes from the hand to the table and from there to its
\* trace, or grows old.
LEMMA WaitsStep ==
  ASSUME TypeOK, KeyedById, FlowInv, TableInv, AnswerInv, ReceivedInv, WaitsInv, [Next]_vars
  PROVE  WaitsInv'
<1> SUFFICES ASSUME NEW c \in Calls, OwnsId(c), CallOf(c) \in Range(delivered'), hand'[C2S] # CallOf(c)
             PROVE  Waits(c)' \/ Traced(c)' \/ Old(c)' \/ CallOf(c) \in unlogged'
  BY DEF WaitsInv, CallOf, OwnsId
<1>1. CallOf(c) \in Range(delivered) /\ (hand[C2S] # CallOf(c) \/ Capture(C2S))
  BY DeliveredIsCaptured
<1>2. CASE hand[C2S] # CallOf(c)
  <2>1. c \in PastCalls
    BY <1>1, <1>2 DEF FlowInv, PastCalls
  <2>2. Traced(c) => Traced(c)'
    BY TracesGrow DEF Traced
  <2> QED
    BY <1>1, <1>2, <2>1, <2>2, WaitsEnd, OldStays, UnloggedGrow DEF WaitsInv
<1>3. CASE hand[C2S] = CallOf(c) /\ Capture(C2S)
  <2> SUFFICES ASSUME Record(hand[C2S], stamp[C2S], clock) PROVE Waits(c)'
    BY <1>3 DEF Capture
  <2>1. Record(hand[C2S], stamp[C2S], clock) /\ hand[C2S] \in Messages
    BY <1>3, CaptureRecords DEF Dirs
  <2>2. hand[C2S].kind = "call" /\ hand[C2S].about = c
    BY <1>3, CallFrames
  <2>3. /\ Id(hand[C2S]) \in DOMAIN pending'
        /\ pending'[Id(hand[C2S])] = [call |-> hand[C2S].about, at |-> stamp[C2S]]
    BY <2>1, <2>2, RecordCall
  <2> QED
    BY <2>2, <2>3 DEF Waits, Id
<1> QED
  BY <1>1, <1>2, <1>3

\* The answer to a call with an id of its own is traced without the call only
\* while that is between its write and its capture in the other forwarder, or
\* when it was too old or not logged, whatever the two clocks of the captures say.
THEOREM AloneForACause == Spec => AloneHasCause
<1>1. Init => WaitsInv
  BY DEF Init, WaitsInv, Range
<1>2. TypeOK /\ KeyedById /\ FlowInv /\ TableInv /\ AnswerInv /\ ReceivedInv /\ WaitsInv /\ [Next]_vars
        => WaitsInv'
  BY WaitsStep
<1>3. TypeOK /\ AnswerInv /\ OwnIdsPair /\ ReceivedInv /\ WaitsInv /\ [Next]_vars =>
        [\A tr \in traces' \ traces :
           tr.by.kind = "answer" /\ tr.call = NoCall /\ OwnsId(tr.by.about) =>
             \/ hand[C2S] = CallOf(tr.by.about)
             \/ times[tr.by.about].received < clock - StaleAfter
             \/ CallOf(tr.by.about) \in unlogged]_vars
  <2> SUFFICES ASSUME TypeOK, AnswerInv, OwnIdsPair, ReceivedInv, WaitsInv, [Next]_vars,
                      NEW tr \in traces' \ traces, tr.by.kind = "answer", tr.call = NoCall,
                      OwnsId(tr.by.about)
               PROVE  \/ hand[C2S] = CallOf(tr.by.about)
                      \/ times[tr.by.about].received < clock - StaleAfter
                      \/ CallOf(tr.by.about) \in unlogged
    OBVIOUS
  <2>1. PICK d \in Dirs : Capture(d) /\ Record(hand[d], stamp[d], clock)
    BY OnlyCaptures
  <2>2. Record(hand[d], stamp[d], clock) /\ hand[d] \in Messages /\ tr.by = hand[d]
    BY <2>1, CaptureRecords, RecordTraces
  <2>3. hand[S2C] = tr.by /\ tr.by \in ServerMessages
    BY <2>1, <2>2, CaptureRecords DEF Dirs, ClientMessages
  <2>4. PICK c \in Calls : c = tr.by.about /\ hand[S2C] = AnswerTo(c)
    BY <2>3 DEF ServerMessages, AnswerTo
  <2>5. hand[S2C] \in sent /\ CallOf(c) \in Range(delivered)
    BY <2>3, <2>4, StdioAssumption DEF AnswerInv, StdioAssumption, Messages
  <2>6. Waits(c) => Old(c)
    <3> SUFFICES ASSUME Waits(c), IdOf[c] \in Fresh(stamp[d]) PROVE FALSE
      BY WaitsIsFresh
    <3>1. Id(hand[d]) = IdOf[c] /\ hand[d] \in ServerMessages /\ hand[d].kind # "call"
      BY <2>2, <2>3, <2>4 DEF Id, ServerMessages
    <3>2. traces' = traces \cup {PairOf(pending[Id(hand[d])], hand[d], clock)}
      BY <2>2, <3>1, RecordMatches
    <3>3. PairOf(pending[Id(hand[d])], hand[d], clock).call = c
      BY <3>1 DEF PairOf, Waits
    <3> QED
      BY <3>2, <3>3, TrackerAssumption DEF TrackerAssumption
  <2>7. ~ Traced(c)
    <3> SUFFICES ASSUME NEW other \in traces, other.call = c PROVE FALSE
      BY DEF Traced
    <3>1. other.by = AnswerTo(c)
      BY <2>4, TrackerAssumption DEF OwnIdsPair, TrackerAssumption
    <3> QED
      BY <2>3, <2>4, <3>1 DEF AnswerInv, GoneFrames
  <2> QED
    BY <2>4, <2>5, <2>6, <2>7 DEF WaitsInv, Old
<1> QED
  BY <1>1, <1>2, <1>3, TypeCorrect, TableIsKeyed, FlowHolds, TableHolds, AnswersHold, ReceivedHolds,
     OwnIdsArePaired, PTL DEF Spec, AloneHasCause
-----------------------------------------------------------------------------
\* What a frame put in front of a pipe does to it.
LEMMA InFront ==
  ASSUME NEW S, NEW s \in Seq(S), NEW h \in S
  PROVE  /\ <<h>> \o s # <<>> /\ Head(<<h>> \o s) = h /\ Tail(<<h>> \o s) = s
         /\ Range(<<h>> \o s) = Range(s) \cup {h}
         /\ \A e \in S : Append(<<h>> \o s, e) = <<h>> \o Append(s, e)
<1>1. <<h>> \in Seq(S) /\ Len(<<h>>) = 1 /\ <<h>>[1] = h
  OBVIOUS
<1>2. /\ <<h>> \o s \in Seq(S) /\ Len(<<h>> \o s) = Len(s) + 1 /\ Len(s) \in Nat
      /\ \A i \in 1 .. Len(s) + 1 : (<<h>> \o s)[i] = IF i <= 1 THEN h ELSE s[i - 1]
  <2>1. /\ <<h>> \o s \in Seq(S) /\ Len(<<h>> \o s) = Len(<<h>>) + Len(s)
        /\ \A i \in 1 .. Len(<<h>>) + Len(s) :
             (<<h>> \o s)[i] = IF i <= Len(<<h>>) THEN <<h>>[i] ELSE s[i - Len(<<h>>)]
    BY <1>1, ConcatProperties
  <2>2. Len(s) \in Nat
    OBVIOUS
  <2> QED
    BY <1>1, <2>1, <2>2
<1>3. <<h>> \o s # <<>> /\ Head(<<h>> \o s) = h
  BY <1>2
<1>4. Tail(<<h>> \o s) = s
  <2>1. /\ Tail(<<h>> \o s) \in Seq(S) /\ Len(Tail(<<h>> \o s)) = Len(s)
        /\ \A i \in 1 .. Len(s) : Tail(<<h>> \o s)[i] = (<<h>> \o s)[i + 1]
    BY <1>2, <1>3, HeadTailProperties
  <2>2. \A i \in 1 .. Len(s) : Tail(<<h>> \o s)[i] = s[i]
    <3> SUFFICES ASSUME NEW i \in 1 .. Len(s) PROVE Tail(<<h>> \o s)[i] = s[i]
      OBVIOUS
    <3>1. i + 1 \in 1 .. Len(s) + 1 /\ ~(i + 1 <= 1) /\ (i + 1) - 1 = i
      BY <1>2
    <3> QED
      BY <1>2, <2>1, <3>1
  <2> QED
    BY <2>1, <2>2, SeqEqual
<1>5. Range(<<h>> \o s) = Range(s) \cup {h}
  <2>1. Range(<<h>> \o s) = Range(<<h>>) \cup Range(s)
    BY <1>1, RangeConcatenation
  <2>2. Range(<<h>>) = {h}
    BY <1>1 DEF Range
  <2> QED
    BY <2>1, <2>2
<1>6. ASSUME NEW e \in S
      PROVE  Append(<<h>> \o s, e) = <<h>> \o Append(s, e)
  <2>1. Append(<<h>> \o s, e) = (<<h>> \o s) \o <<e>> /\ Append(s, e) = s \o <<e>>
    BY <1>2, AppendIsConcat
  <2>2. (<<h>> \o s) \o <<e>> = <<h>> \o (s \o <<e>>)
    BY <1>1, ConcatAssociative
  <2> QED
    BY <2>1, <2>2
<1> QED
  BY <1>3, <1>4, <1>5, <1>6

\* A queue is its head in front of its tail.
LEMMA HeadInFront ==
  ASSUME NEW S, NEW s \in Seq(S), s # <<>>
  PROVE  <<Head(s)>> \o Tail(s) = s
<1>1. /\ Tail(s) \in Seq(S) /\ Head(s) \in S /\ Len(Tail(s)) = Len(s) - 1
      /\ \A i \in 1 .. Len(Tail(s)) : Tail(s)[i] = s[i + 1]
      /\ Head(s) = s[1] /\ Len(s) \in Nat \ {0}
  BY HeadTailProperties, EmptySeq, LenProperties
<1>2. <<Head(s)>> \in Seq(S) /\ Len(<<Head(s)>>) = 1 /\ <<Head(s)>>[1] = Head(s)
  BY <1>1
<1>3. /\ <<Head(s)>> \o Tail(s) \in Seq(S) /\ Len(<<Head(s)>> \o Tail(s)) = Len(s)
      /\ \A i \in 1 .. Len(s) :
           (<<Head(s)>> \o Tail(s))[i] = IF i <= 1 THEN Head(s) ELSE Tail(s)[i - 1]
  <2>1. /\ <<Head(s)>> \o Tail(s) \in Seq(S)
        /\ Len(<<Head(s)>> \o Tail(s)) = Len(<<Head(s)>>) + Len(Tail(s))
        /\ \A i \in 1 .. Len(<<Head(s)>>) + Len(Tail(s)) :
             (<<Head(s)>> \o Tail(s))[i] =
               IF i <= Len(<<Head(s)>>) THEN <<Head(s)>>[i] ELSE Tail(s)[i - Len(<<Head(s)>>)]
    BY <1>1, <1>2, ConcatProperties
  <2> QED
    BY <1>1, <1>2, <2>1
<1>4. ASSUME NEW i \in 1 .. Len(s)
      PROVE  (<<Head(s)>> \o Tail(s))[i] = s[i]
  <2>1. i = 1 \/ (~(i <= 1) /\ i - 1 \in 1 .. Len(Tail(s)) /\ (i - 1) + 1 = i)
    BY <1>1
  <2>2. i <= 1 => i = 1
    OBVIOUS
  <2> QED
    BY <1>1, <1>3, <2>1, <2>2
<1> QED
  BY <1>3, <1>4, SeqEqual

\* A piece that is written shows what it completes, and nothing else.
LEMMA PieceShows ==
  ASSUME TypeOK, NEW p \in Pieces, stdout' = Append(stdout, p)
  PROVE  \A m : Piece("payload", m) \in Range(stdout') <=> Shown(m) \/ p = Piece("payload", m)
BY AppendRange DEF TypeOK, Shown

Refused == {m \in ClientMessages : Shown(Denial(m))}

\* The client is told of a denial by its own forwarder only, by the second
\* piece of the error.
LEMMA RefusedChanges ==
  ASSUME TypeOK, [Next]_vars
  PROVE  \/ Refused' = Refused
         \/ Deny("payload") /\ pc'[C2S] = "denyTrace" /\ Refused' = Refused \cup {hand[C2S]}
<1>1. stdout' = stdout => Refused' = Refused
  BY DEF Refused, Shown
<1>2. CASE ~ForwardClient
  <2>1. ASSUME NEW p \in Pieces, p.of \in ServerMessages, stdout' = Append(stdout, p)
        PROVE  Refused' = Refused
    <3>1. \A m \in ClientMessages : p # Piece("payload", Denial(m))
      BY <2>1, KindsApart DEF Piece
    <3> QED
      BY <2>1, <3>1, PieceShows DEF Refused, Shown
  <2> QED
    BY <1>1, <1>2, <2>1, OthersLeaveFlow
<1>3. CASE ReadClient \/ ReadEnd(C2S) \/ Decide \/ DenyTrace \/ Capture(C2S)
           \/ \E part \in {"header", "payload"} : WriteServer(part)
  BY <1>1, <1>3 DEF ReadClient, ReadEnd, Decide, DenyTrace, Capture, WriteServer
<1>4. ASSUME NEW part \in {"header", "payload"}, Deny(part), stdout' # stdout
      PROVE  \/ Refused' = Refused
             \/ Deny("payload") /\ pc'[C2S] = "denyTrace" /\ Refused' = Refused \cup {hand[C2S]}
  <2>1. hand[C2S] \in ClientMessages
    BY <1>4 DEF Deny, TypeOK, ForwardersTypeOK, Dirs, C2S, S2C
  <2>2. stdout' = Append(stdout, Piece(part, Denial(hand[C2S])))
    BY <1>4 DEF Deny
  <2>3. Piece(part, Denial(hand[C2S])) \in Pieces
    BY <2>1, MessageTypes DEF Piece, Pieces
  <2>4. \A m : Piece("payload", m) \in Range(stdout') <=>
                 Shown(m) \/ Piece(part, Denial(hand[C2S])) = Piece("payload", m)
    BY <2>2, <2>3, PieceShows
  <2>5. \A m \in ClientMessages : Piece(part, Denial(hand[C2S])) = Piece("payload", Denial(m))
          <=> part = "payload" /\ m = hand[C2S]
    BY <2>1, KindsApart DEF Piece
  <2>6. Refused' = {m \in ClientMessages : Shown(Denial(m)) \/ (part = "payload" /\ m = hand[C2S])}
    BY <2>4, <2>5 DEF Refused, Shown
  <2>7. part = "payload" => pc'[C2S] = "denyTrace"
    BY <1>4, <2>2 DEF Deny, Goto, TypeOK, ForwardersTypeOK, Dirs, C2S, S2C
  <2> QED
    BY <1>4, <2>1, <2>6, <2>7 DEF Refused
<1> QED
  BY <1>1, <1>2, <1>3, <1>4 DEF ForwardClient

-----------------------------------------------------------------------------
\* The forwarder told the client of the denial it records, and not yet of one
\* of which it has written the header.
RefusedInv ==
  /\ pc[C2S] = "denyTrace" => hand[C2S] \in Refused
  /\ pc[C2S] = "denyPayload" => hand[C2S] \notin Refused

\* A frame the client is told was denied is in hand, beyond the decision, or past.
LEMMA RefusedIsTold ==
  ASSUME ToldInv, NEW m \in Refused
  PROVE  Past(m) \/ (m = hand[C2S] /\ pc[C2S] \in {"denyPayload", "denyTrace", "returned"})
<1>1. Piece("payload", Denial(m)) \in Range(stdout) /\ Piece("payload", Denial(m)).of = Denial(m)
  BY DEF Refused, Shown, Piece
<1> QED
  BY <1>1 DEF ToldInv, Refused

\* Whether the frame in hand is refused follows the steps of its denial.
LEMMA RefusedStep ==
  ASSUME TypeOK, ToldInv, RefusedInv, [Next]_vars
  PROVE  RefusedInv'
<1> USE DEF Goto, Loop, Dirs, C2S, S2C, fwdVars, clientVars, serverVars, worldVars
<1>1. CASE ~ForwardClient
  <2>1. UNCHANGED <<pc[C2S], hand[C2S]>>
    BY <1>1, OthersLeaveFlow
  <2>2. Refused' = Refused
    BY <1>1, RefusedChanges DEF ForwardClient
  <2> QED
    BY <2>1, <2>2 DEF RefusedInv
<1>2. CASE ReadClient \/ ReadEnd(C2S) \/ Decide \/ DenyTrace \/ Capture(C2S)
           \/ \E part \in {"header", "payload"} : WriteServer(part)
  <2>1. pc'[C2S] \notin {"denyTrace", "denyPayload"}
    BY <1>2 DEF ReadClient, ReadEnd, Decide, DenyTrace, Capture, WriteServer, TypeOK, ForwardersTypeOK
  <2> QED
    BY <2>1 DEF RefusedInv
<1>3. CASE Deny("header")
  <2>1. pc[C2S] = "denyHeader" /\ pc'[C2S] # "denyTrace" /\ hand' = hand
    BY <1>3 DEF Deny, TypeOK, ForwardersTypeOK
  <2>2. Refused' = Refused /\ hand[C2S] \notin Refused
    <3>1. ~ Deny("payload")
      BY <2>1 DEF Deny
    <3>2. hand[C2S] \notin Refused
      BY <2>1, RefusedIsTold DEF Past
    <3> QED
      BY <3>1, <3>2, RefusedChanges
  <2> QED
    BY <2>1, <2>2 DEF RefusedInv
<1>4. CASE Deny("payload")
  <2>1. pc[C2S] = "denyPayload" /\ pc'[C2S] # "denyPayload" /\ hand' = hand
    BY <1>4 DEF Deny, TypeOK, ForwardersTypeOK
  <2>2. pc'[C2S] = "denyTrace" => hand[C2S] \in Refused'
    <3>1. ASSUME pc'[C2S] = "denyTrace"
          PROVE  Piece("payload", Denial(hand[C2S])) \in Range(stdout') /\ hand[C2S] \in ClientMessages
      <4>1. stdout' = Append(stdout, Piece("payload", Denial(hand[C2S]))) /\ hand[C2S] \in ClientMessages
        BY <1>4, <3>1 DEF Deny, TypeOK, ForwardersTypeOK
      <4>2. Piece("payload", Denial(hand[C2S])) \in Pieces
        BY <4>1, MessageTypes DEF Piece, Pieces
      <4> QED
        BY <4>1, <4>2, PieceShows
    <3> QED
      BY <3>1 DEF Refused, Shown
  <2> QED
    BY <2>1, <2>2 DEF RefusedInv
<1> QED
  BY <1>1, <1>2, <1>3, <1>4 DEF ForwardClient

\* What a step of the client's forwarder does to the frames on their way to the
\* server: those it has read and not written, and those it has not read.
InFlight == Backlog(C2S, stdin)

\* What each step does to the pipe between client and server.
LEMMA InFlightChanges ==
  ASSUME TypeOK, FlowInv, [Next]_vars
  PROVE  \/ UNCHANGED <<InFlight, delivered>>
         \/ /\ UNCHANGED delivered /\ ~ForwardClient
            /\ \E m \in ClientMessages \ sent : InFlight' = Append(InFlight, m)
         \/ /\ InFlight # <<>> /\ Head(InFlight) = hand[C2S] /\ InFlight' = Tail(InFlight)
            /\ \/ pc[C2S] = "payload" /\ delivered' = Append(delivered, hand[C2S])
               \/ pc[C2S] = "denyTrace" /\ delivered' = delivered
<1> USE DEF Goto, Loop, Dirs, C2S, S2C, fwdVars, clientVars, serverVars, worldVars
<1>1. stdin \in Seq(ClientMessages) /\ (hand[C2S] = NoMessage \/ hand[C2S] \in ClientMessages)
  BY DEF TypeOK, ForwardersTypeOK
<1>2. CASE ~ForwardClient
  <2>1. UNCHANGED <<pc[C2S], hand[C2S], delivered>>
    BY <1>2, OthersLeaveFlow
  <2>2. CASE stdin' = stdin
    BY <2>1, <2>2 DEF InFlight, Backlog
  <2>3. ASSUME NEW m \in ClientMessages \ sent, stdin' = Append(stdin, m)
        PROVE  InFlight' = Append(InFlight, m)
    <3>1. hand[C2S] # NoMessage => Append(<<hand[C2S]>> \o stdin, m) = <<hand[C2S]>> \o Append(stdin, m)
      BY <1>1, InFront
    <3> QED
      BY <2>1, <2>3, <3>1 DEF InFlight, Backlog
  <2> QED
    BY <1>2, <2>1, <2>2, <2>3, OthersLeaveFlow
<1>3. CASE ReadClient
  <2>1. /\ pc[C2S] # "capture" /\ pc'[C2S] # "capture" /\ hand[C2S] = NoMessage
        /\ stdin # <<>> /\ hand'[C2S] = Head(stdin) /\ stdin' = Tail(stdin) /\ delivered' = delivered
    BY <1>3 DEF ReadClient, TypeOK, ForwardersTypeOK
  <2>2. Head(stdin) # NoMessage /\ <<Head(stdin)>> \o Tail(stdin) = stdin
    BY <1>1, <2>1, HeadRange, HeadInFront, KindsApart
  <2> QED
    BY <2>1, <2>2 DEF InFlight, Backlog
<1>4. CASE ReadEnd(C2S) \/ Decide \/ \E part \in {"header", "payload"} : Deny(part)
  <2>1. /\ UNCHANGED <<hand, stdin, delivered>>
        /\ pc[C2S] # "capture" /\ pc'[C2S] # "capture"
    BY <1>4 DEF ReadEnd, Decide, Deny, TypeOK, ForwardersTypeOK
  <2> QED
    BY <2>1 DEF InFlight, Backlog
<1>5. CASE Capture(C2S)
  <2>1. pc[C2S] = "capture" /\ hand'[C2S] = NoMessage /\ UNCHANGED <<stdin, delivered>>
    BY <1>5 DEF Capture, TypeOK, ForwardersTypeOK
  <2> QED
    BY <2>1 DEF InFlight, Backlog
<1>6. ASSUME hand[C2S] # NoMessage, pc[C2S] # "capture", stdin' = stdin,
             hand'[C2S] = NoMessage \/ pc'[C2S] = "capture"
      PROVE  InFlight # <<>> /\ Head(InFlight) = hand[C2S] /\ InFlight' = Tail(InFlight)
  <2>1. InFlight = <<hand[C2S]>> \o stdin /\ InFlight' = stdin
    BY <1>6 DEF InFlight, Backlog
  <2> QED
    BY <1>1, <1>6, <2>1, InFront
<1>7. CASE DenyTrace
  <2>1. /\ hand[C2S] # NoMessage /\ pc[C2S] = "denyTrace" /\ hand'[C2S] = NoMessage
        /\ UNCHANGED <<stdin, delivered>>
    BY <1>7 DEF DenyTrace, TypeOK, ForwardersTypeOK
  <2> QED
    BY <1>6, <2>1
<1>8. ASSUME NEW part \in {"header", "payload"}, WriteServer(part)
      PROVE  \/ UNCHANGED <<InFlight, delivered>>
             \/ /\ InFlight # <<>> /\ Head(InFlight) = hand[C2S] /\ InFlight' = Tail(InFlight)
                /\ pc[C2S] = "payload" /\ delivered' = Append(delivered, hand[C2S])
  <2>1. hand[C2S] # NoMessage /\ pc[C2S] = part /\ UNCHANGED <<hand, stdin>>
    BY <1>8 DEF WriteServer, TypeOK, ForwardersTypeOK
  <2>2. \/ delivered' = delivered /\ pc'[C2S] # "capture"
        \/ part = "payload" /\ delivered' = Append(delivered, hand[C2S]) /\ pc'[C2S] = "capture"
    BY <1>8 DEF WriteServer, TypeOK, ForwardersTypeOK
  <2>3. CASE delivered' = delivered /\ pc'[C2S] # "capture"
    BY <2>1, <2>3 DEF InFlight, Backlog
  <2>4. CASE part = "payload" /\ delivered' = Append(delivered, hand[C2S]) /\ pc'[C2S] = "capture"
    BY <1>6, <2>1, <2>4
  <2> QED
    BY <2>2, <2>3, <2>4
<1> QED
  BY <1>2, <1>3, <1>4, <1>5, <1>7, <1>8 DEF ForwardClient

\* What is on its way, has arrived or is refused was sent, each frame in one of
\* the three places.
LEMMA InFlightIsSent ==
  ASSUME TypeOK, FlowInv, ToldInv
  PROVE  /\ InFlight \in Seq(ClientMessages)
         /\ Range(InFlight) \cup Range(delivered) \cup Refused \subseteq sent
<1>1. stdin \in Seq(ClientMessages) /\ (hand[C2S] = NoMessage \/ hand[C2S] \in ClientMessages)
      /\ \A m \in ClientMessages : m # NoMessage
  BY KindsApart DEF TypeOK, ForwardersTypeOK
<1>2. InFlight \in Seq(ClientMessages) /\ Range(InFlight) \subseteq sent
  <2>1. CASE InFlight = stdin
    BY <1>1, <2>1 DEF FlowInv
  <2>2. CASE hand[C2S] \in ClientMessages /\ InFlight = <<hand[C2S]>> \o stdin
    <3>1. Range(<<hand[C2S]>> \o stdin) = Range(stdin) \cup {hand[C2S]}
      BY <1>1, <2>2, InFront
    <3>2. <<hand[C2S]>> \in Seq(ClientMessages)
      BY <2>2
    <3>3. <<hand[C2S]>> \o stdin \in Seq(ClientMessages)
      BY <1>1, <3>2, ConcatProperties
    <3> QED
      BY <1>1, <2>2, <3>1, <3>3 DEF FlowInv
  <2> QED
    BY <1>1, <2>1, <2>2 DEF InFlight, Backlog
<1>3. \A m \in ClientMessages : Past(m) \/ m = hand[C2S] => m \in sent
  BY <1>1 DEF FlowInv, Past
<1>4. Range(delivered) \subseteq sent
  BY <1>3 DEF FlowInv, TypeOK, Range
<1>5. Refused \subseteq sent
  BY <1>3, RefusedIsTold DEF Refused
<1> QED
  BY <1>2, <1>4, <1>5

\* Every step of the proxy is a step of the relay to the server, or leaves it
\* alone.
LEMMA ToServerStep ==
  ASSUME TypeOK, FlowInv, ToldInv, RefusedInv, [Next]_vars
  PROVE  [ToServer!Next]_(ToServer!vars)
<1>1. ToServer!vars = <<InFlight, Range(delivered), Refused>>
      /\ ToServer!vars' = <<InFlight', Range(delivered'), Refused'>>
  BY DEF ToServer!vars, InFlight, Refused
<1>2. CASE UNCHANGED <<InFlight, delivered>> /\ Refused' = Refused
  BY <1>1, <1>2
<1>3. CASE /\ UNCHANGED <<InFlight, delivered>>
           /\ Deny("payload") /\ Refused' = Refused \cup {hand[C2S]}
  <2>1. pc[C2S] = "denyPayload" /\ hand[C2S] \in ClientMessages
    BY <1>3 DEF Deny, TypeOK, ForwardersTypeOK, Dirs, C2S, S2C
  <2>2. InFlight # <<>> /\ Head(InFlight) = hand[C2S]
    <3>1. InFlight = <<hand[C2S]>> \o stdin
      BY <2>1, KindsApart DEF InFlight, Backlog
    <3> QED
      BY <2>1, <3>1, InFront DEF TypeOK
  <2>3. Head(InFlight) \notin Refused
    BY <2>1, <2>2 DEF RefusedInv
  <2>4. ToServer!Refuse
    BY <1>3, <2>2, <2>3 DEF ToServer!Refuse, InFlight, Refused
  <2> QED
    BY <2>4 DEF ToServer!Next
<1>4. ASSUME UNCHANGED delivered, Refused' = Refused,
             NEW m \in ClientMessages \ sent, InFlight' = Append(InFlight, m)
      PROVE  ToServer!Next
  <2>1. m \notin Range(InFlight) \cup Range(delivered) \cup Refused
    BY InFlightIsSent
  <2>2. ToServer!Write(m)
    BY <1>4, <2>1 DEF ToServer!Write, ToServer!Range, Range, InFlight, Refused
  <2> QED
    BY <2>2 DEF ToServer!Next
<1>5. ASSUME InFlight # <<>>, Head(InFlight) = hand[C2S], InFlight' = Tail(InFlight), Refused' = Refused,
             pc[C2S] = "payload", delivered' = Append(delivered, hand[C2S])
      PROVE  ToServer!Next
  <2>1. hand[C2S] \in ClientMessages /\ delivered \in Seq(ClientMessages)
    BY <1>5 DEF TypeOK, ForwardersTypeOK, Dirs, C2S, S2C
  <2>2. Range(delivered') = Range(delivered) \cup {hand[C2S]}
    BY <1>5, <2>1, AppendRange
  <2>3. hand[C2S] \notin Refused
    BY <1>5, RefusedIsTold DEF Past
  <2>4. ToServer!Pass
    BY <1>5, <2>2, <2>3 DEF ToServer!Pass, InFlight, Refused
  <2> QED
    BY <2>4 DEF ToServer!Next
<1>6. ASSUME InFlight # <<>>, Head(InFlight) = hand[C2S], InFlight' = Tail(InFlight), Refused' = Refused,
             pc[C2S] = "denyTrace", delivered' = delivered
      PROVE  ToServer!Next
  <2>1. ToServer!LeaveOut
    BY <1>6 DEF ToServer!LeaveOut, InFlight, Refused, RefusedInv
  <2> QED
    BY <2>1 DEF ToServer!Next
<1>7. \/ Refused' = Refused
      \/ /\ Deny("payload") /\ pc[C2S] = "denyPayload" /\ ForwardClient
         /\ Refused' = Refused \cup {hand[C2S]}
  BY RefusedChanges DEF Deny, ForwardClient
<1>8. pc[C2S] = "denyPayload" => pc[C2S] \notin {"payload", "denyTrace"}
  OBVIOUS
<1> QED
  BY <1>2, <1>3, <1>4, <1>5, <1>6, <1>7, <1>8, InFlightChanges

\* The forwarder of the client's direction implements the relay: the server
\* gets the client's frames in their order and each once, and what it does not
\* get the client was told was denied, or it is still held by the proxy.
THEOREM ServerSideRelays == Spec => RelaysToServer
<1>1. Init => RefusedInv
  BY DEF Init, RefusedInv, Dirs, C2S, S2C
<1>2. TypeOK /\ ToldInv /\ RefusedInv /\ [Next]_vars => RefusedInv'
  BY RefusedStep
<1>3. Init => ToServer!Init
  BY DEF Init, ToServer!Init, Backlog, Shown, Range, Dirs, C2S, S2C
<1>4. TypeOK /\ FlowInv /\ ToldInv /\ RefusedInv /\ [Next]_vars => [ToServer!Next]_(ToServer!vars)
  BY ToServerStep
<1> QED
  BY <1>1, <1>2, <1>3, <1>4, TypeCorrect, FlowHolds, ToldHolds, PTL DEF Spec, RelaysToServer,
     ToServer!Spec

-----------------------------------------------------------------------------
\* The other direction: the frames of the server that reached the client, and
\* those that are on their way.
Arrived   == {m \in ServerMessages : Shown(m)}
OutFlight == Backlog(S2C, serverOut)

\* Only what the server sent arrives at the client.
ArrivedInv == Arrived \subseteq sent

\* What is not a step of the server's forwarder neither moves that forwarder
\* nor shows the client a frame of the server, although a denial is written to
\* the same stream.
LEMMA OthersShowNothing ==
  ASSUME TypeOK, [Next]_vars, ~ForwardServer
  PROVE  pc'[S2C] = pc[S2C] /\ Arrived' = Arrived
<1> USE DEF Goto, Loop, Dirs, C2S, S2C, fwdVars, clientVars, serverVars, worldVars
<1>1. stdout' = stdout => Arrived' = Arrived
  BY DEF Arrived, Shown
<1>2. ASSUME NEW part \in {"header", "payload"}, Deny(part)
      PROVE  pc'[S2C] = pc[S2C] /\ Arrived' = Arrived
  <2>1. pc'[S2C] = pc[S2C] /\ hand[C2S] \in ClientMessages
    BY <1>2 DEF Deny, TypeOK, ForwardersTypeOK
  <2>2. CASE stdout' = Append(stdout, Piece(part, Denial(hand[C2S])))
    <3>1. Piece(part, Denial(hand[C2S])) \in Pieces
      BY <2>1, MessageTypes DEF Piece, Pieces
    <3>2. \A m \in ServerMessages : Piece(part, Denial(hand[C2S])) # Piece("payload", m)
      BY <2>1, KindsApart DEF Piece
    <3> QED
      BY <2>1, <2>2, <3>1, <3>2, PieceShows DEF Arrived, Shown
  <2> QED
    BY <1>1, <1>2, <2>1, <2>2 DEF Deny
<1>3. CASE ReadClient \/ ReadEnd(C2S) \/ Decide \/ DenyTrace \/ Capture(C2S)
           \/ \E part \in {"header", "payload"} : WriteServer(part)
  <2>1. pc'[S2C] = pc[S2C] /\ stdout' = stdout
    BY <1>3 DEF ReadClient, ReadEnd, Decide, DenyTrace, Capture, WriteServer, TypeOK, ForwardersTypeOK
  <2> QED
    BY <1>1, <2>1
<1>4. CASE ~ForwardClient
  <2>1. UNCHANGED <<pc, stdout>>
    BY <1>4 DEF Next, vars, Finish, ClientCalls, ClientReplies, ClientEnds, ServerWrites,
                ServerAnswers, ServerAsks, Exit, ServerStops, ServerDies, Signal, Tick
  <2> QED
    BY <1>1, <2>1
<1> QED
  BY <1>2, <1>3, <1>4 DEF ForwardClient

\* A piece the server's forwarder writes: the payload shows its frame.
LEMMA WriteClientShows ==
  ASSUME TypeOK, NEW part \in {"header", "payload"}, WriteClient(part)
  PROVE  /\ hand[S2C] \in ServerMessages /\ pc[S2C] = part
         /\ UNCHANGED <<hand, serverOut, sent>>
         /\ pc'[S2C] = IF part = "header" THEN "payload" ELSE "capture"
         /\ Arrived' = IF part = "header" THEN Arrived ELSE Arrived \cup {hand[S2C]}
<1>1. /\ hand[S2C] \in ServerMessages /\ pc[S2C] = part /\ UNCHANGED <<hand, serverOut, sent>>
      /\ pc'[S2C] = IF part = "header" THEN "payload" ELSE "capture"
      /\ stdout' = Append(stdout, Piece(part, hand[S2C]))
  BY DEF WriteClient, Goto, TypeOK, ForwardersTypeOK, Dirs, C2S, S2C, serverVars, worldVars
<1>2. Piece(part, hand[S2C]) \in Pieces
  BY <1>1 DEF Piece, Pieces
<1>3. \A m : Piece("payload", m) \in Range(stdout') <=>
               Shown(m) \/ Piece(part, hand[S2C]) = Piece("payload", m)
  BY <1>1, <1>2, PieceShows
<1>4. \A m : Piece(part, hand[S2C]) = Piece("payload", m) <=> part = "payload" /\ m = hand[S2C]
  BY DEF Piece
<1>5. Arrived' = {m \in ServerMessages : Shown(m) \/ (part = "payload" /\ m = hand[S2C])}
  BY <1>3, <1>4 DEF Arrived, Shown
<1> QED
  BY <1>1, <1>5 DEF Arrived

\* What arrives was sent, whoever writes to the client.
LEMMA ArrivedStep ==
  ASSUME TypeOK, AnswerInv, ArrivedInv, [Next]_vars
  PROVE  ArrivedInv'
<1>1. sent \subseteq sent'
  <2>1. CASE ForwardServer
    BY <2>1 DEF ForwardServer, ReadServer, ReadEnd, Capture, WriteClient, worldVars
  <2>2. CASE ~ForwardServer
    BY <2>2, OthersLeaveOutput
  <2> QED
    BY <2>1, <2>2
<1>2. CASE ~ForwardServer
  BY <1>1, <1>2, OthersShowNothing DEF ArrivedInv
<1>3. CASE ReadServer \/ ReadEnd(S2C) \/ Capture(S2C)
  <2>1. Arrived' = Arrived
    BY <1>3 DEF ReadServer, ReadEnd, Capture, Arrived, Shown
  <2> QED
    BY <1>1, <2>1 DEF ArrivedInv
<1>4. ASSUME NEW part \in {"header", "payload"}, WriteClient(part)
      PROVE  ArrivedInv'
  <2>1. /\ hand[S2C] \in ServerMessages
        /\ Arrived' = Arrived \/ Arrived' = Arrived \cup {hand[S2C]}
    BY <1>4, WriteClientShows
  <2>2. hand[S2C] \in sent
    BY <2>1, StdioAssumption DEF AnswerInv, StdioAssumption, Messages
  <2> QED
    BY <1>1, <2>1, <2>2 DEF ArrivedInv
<1> QED
  BY <1>2, <1>3, <1>4 DEF ForwardServer

\* Every step of the proxy is a step of the relay to the client, one that
\* refuses nothing, or leaves it alone.
LEMMA ToClientStep ==
  ASSUME TypeOK, AnswerInv, ArrivedInv, [Next]_vars
  PROVE  [ToClient!Next]_(ToClient!vars)
<1> USE DEF Goto, Loop, Dirs, C2S, S2C, fwdVars, clientVars, serverVars, worldVars
<1>1. ToClient!vars = <<OutFlight, Arrived, {}>> /\ ToClient!vars' = <<OutFlight', Arrived', {}>>
  BY DEF ToClient!vars, OutFlight, Arrived
<1>2. serverOut \in Seq(ServerMessages) /\ (hand[S2C] = NoMessage \/ hand[S2C] \in ServerMessages)
      /\ \A m \in ServerMessages : m # NoMessage
  BY StdioAssumption DEF TypeOK, ForwardersTypeOK, StdioAssumption, Messages
<1>3. UNCHANGED <<OutFlight, Arrived>> => UNCHANGED ToClient!vars
  BY <1>1
<1>4. CASE ~ForwardServer
  <2>1. UNCHANGED <<hand[S2C], pc[S2C], Arrived>>
    BY <1>4, OthersLeaveOutput, OthersShowNothing
  <2>2. CASE serverOut' = serverOut
    BY <1>3, <2>1, <2>2 DEF OutFlight, Backlog
  <2>3. ASSUME NEW m \in ServerMessages \ sent, serverOut' = Append(serverOut, m)
        PROVE  ToClient!Next
    <3>1. /\ hand[S2C] # NoMessage =>
               Append(<<hand[S2C]>> \o serverOut, m) = <<hand[S2C]>> \o Append(serverOut, m)
          /\ hand[S2C] # NoMessage =>
               Range(<<hand[S2C]>> \o serverOut) = Range(serverOut) \cup {hand[S2C]}
      BY <1>2, InFront
    <3>2. OutFlight' = Append(OutFlight, m)
      BY <2>1, <2>3, <3>1 DEF OutFlight, Backlog
    <3>3. m \notin Range(OutFlight) \cup Arrived
      BY <2>3, <3>1 DEF OutFlight, Backlog, AnswerInv, ArrivedInv
    <3>4. ToClient!Write(m)
      BY <2>1, <3>2, <3>3 DEF ToClient!Write, ToClient!Range, Range, OutFlight, Arrived
    <3> QED
      BY <3>4 DEF ToClient!Next
  <2> QED
    BY <1>4, <2>2, <2>3, OthersLeaveOutput
<1>5. CASE ReadServer
  <2>1. /\ pc[S2C] # "capture" /\ pc'[S2C] # "capture" /\ hand[S2C] = NoMessage
        /\ serverOut # <<>> /\ hand'[S2C] = Head(serverOut) /\ serverOut' = Tail(serverOut)
    BY <1>5 DEF ReadServer, TypeOK, ForwardersTypeOK
  <2>2. Head(serverOut) # NoMessage /\ <<Head(serverOut)>> \o Tail(serverOut) = serverOut
    BY <1>2, <2>1, HeadRange, HeadInFront
  <2>3. Arrived' = Arrived
    BY <1>5 DEF ReadServer, Arrived, Shown
  <2> QED
    BY <1>3, <2>1, <2>2, <2>3 DEF OutFlight, Backlog
<1>6. CASE ReadEnd(S2C) \/ Capture(S2C)
  <2>1. /\ Arrived' = Arrived /\ serverOut' = serverOut
        /\ \/ hand' = hand /\ pc[S2C] # "capture" /\ pc'[S2C] # "capture"
           \/ pc[S2C] = "capture" /\ hand'[S2C] = NoMessage
    BY <1>6 DEF ReadEnd, Capture, Arrived, Shown, TypeOK, ForwardersTypeOK
  <2> QED
    BY <1>3, <2>1 DEF OutFlight, Backlog
<1>7. CASE WriteClient("header")
  <2>1. /\ Arrived' = Arrived /\ UNCHANGED <<hand, serverOut>>
        /\ pc[S2C] # "capture" /\ pc'[S2C] # "capture"
    BY <1>7, WriteClientShows
  <2> QED
    BY <1>3, <2>1 DEF OutFlight, Backlog
<1>8. CASE WriteClient("payload")
  <2>1. /\ Arrived' = Arrived \cup {hand[S2C]} /\ UNCHANGED <<hand, serverOut>>
        /\ hand[S2C] \in ServerMessages /\ pc[S2C] = "payload" /\ pc'[S2C] = "capture"
    BY <1>8, WriteClientShows
  <2>2. OutFlight = <<hand[S2C]>> \o serverOut /\ OutFlight' = serverOut
    BY <1>2, <2>1 DEF OutFlight, Backlog
  <2>3. OutFlight # <<>> /\ Head(OutFlight) = hand[S2C] /\ OutFlight' = Tail(OutFlight)
    BY <1>2, <2>1, <2>2, InFront
  <2>4. ToClient!Pass
    BY <2>1, <2>3 DEF ToClient!Pass, OutFlight, Arrived
  <2> QED
    BY <2>4 DEF ToClient!Next
<1> QED
  BY <1>4, <1>5, <1>6, <1>7, <1>8 DEF ForwardServer

\* The forwarder of the server's direction implements the relay as well, and
\* refuses nothing: the client gets the server's frames in their order and each
\* once, however the denials of its own calls come between their pieces.
THEOREM ClientSideRelays == Spec => RelaysToClient
<1>1. Init => ArrivedInv
  BY DEF Init, ArrivedInv, Arrived, Shown, Range
<1>2. TypeOK /\ AnswerInv /\ ArrivedInv /\ [Next]_vars => ArrivedInv'
  BY ArrivedStep
<1>3. Init => ToClient!Init
  BY DEF Init, ToClient!Init, Backlog, Shown, Range, Dirs, C2S, S2C
<1>4. TypeOK /\ AnswerInv /\ ArrivedInv /\ [Next]_vars => [ToClient!Next]_(ToClient!vars)
  BY ToClientStep
<1> QED
  BY <1>1, <1>2, <1>3, <1>4, TypeCorrect, AnswersHold, PTL DEF Spec, RelaysToClient, ToClient!Spec
=============================================================================
