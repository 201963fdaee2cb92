-------------------------- MODULE HttpProxyProofs --------------------------
(***************************************************************************)
(* Theorems about HttpProxy, for any number of clients and calls, any ids, *)
(* shared by several clients or not, and any bound on the clock.           *)
(***************************************************************************)
EXTENDS HttpProxy, TrackerProofs

-----------------------------------------------------------------------------
\* What handlers capture are messages of their direction with the id of the call.
LEMMA MessageTypes ==
  ASSUME NEW c \in Calls
  PROVE  /\ CallOf(c) \in Messages /\ AnswerTo(c) \in Messages
         /\ AnswerTo(c) \in ServerMessages
         /\ CallOf(c).kind = "call" /\ AnswerTo(c).kind # "call"
         /\ Id(CallOf(c)) = IdOf[c] /\ Id(AnswerTo(c)) = IdOf[c]
         /\ CallOf(c).about = c
BY DEF CallOf, AnswerTo, Id, Messages, ClientMessages, ServerMessages

\* A capture keeps the types: a handler stores what it has traced, or nothing.
LEMMA CaptureTypes ==
  ASSUME TypeOK, TrackerAssumption, NEW c \in Calls, NEW m \in Messages,
         NEW at \in Time, Capture(c, m, at)
  PROVE  TrackerTypeOK' /\ rows' \subseteq traces' /\ warned' \subseteq Calls
<1>1. CASE UNCHANGED <<pending, traces, rows>> /\ warned' = warned \cup {c}
  BY <1>1 DEF TypeOK, TrackerTypeOK
<1>2. CASE Record(m, at, clock) /\ Store(c)
  <2>1. TrackerTypeOK' /\ traces \subseteq traces'
    BY <1>2, RecordTypes, RecordTraces, TrackerAssumption DEF TypeOK
  <2> QED
    BY <1>2, <2>1 DEF TypeOK, Store
<1> QED
  BY <1>1, <1>2 DEF Capture

\* Each line of a handler keeps the types, and takes and returns the mutex.
LEMMA HandlerTypes ==
  ASSUME TypeOK, TrackerAssumption, HttpAssumption, NEW c \in Calls,
         (Arrive(c) /\ UNCHANGED host) \/ Handle(c)
  PROVE  TypeOK'
<1> USE DEF Goto, tracker, handler, host, Lines, Replies, Stages
<1>1. UNCHANGED <<pending, traces>> => TrackerTypeOK'
  BY DEF TypeOK, TrackerTypeOK
<1>2. CASE Arrive(c) /\ UNCHANGED host
  BY <1>1, <1>2 DEF TypeOK, Arrive
<1>3. CASE UNCHANGED host /\ Do(c)
  BY <1>1, <1>3 DEF TypeOK, Do
<1>4. CASE UNCHANGED host /\ (DoReturns(c) \/ DoFails(c))
  BY <1>1, <1>4, HttpAssumption DEF TypeOK, DoReturns, DoFails, HttpAssumption
<1>5. CASE UNCHANGED host /\ CaptureCall(c)
  <2>1. TrackerTypeOK' /\ rows' \subseteq traces' /\ warned' \subseteq Calls
    BY <1>5, MessageTypes, CaptureTypes, TrackerAssumption DEF TypeOK, CaptureCall
  <2> QED
    BY <1>5, <2>1 DEF TypeOK, CaptureCall
<1>6. CASE UNCHANGED host /\ Reply(c)
  BY <1>1, <1>6 DEF TypeOK, Reply
<1>7. CASE UNCHANGED host /\ CaptureAnswer(c)
  <2>1. TrackerTypeOK' /\ rows' \subseteq traces' /\ warned' \subseteq Calls
    BY <1>7, MessageTypes, CaptureTypes, TrackerAssumption DEF TypeOK, CaptureAnswer
  <2> QED
    BY <1>7, <2>1 DEF TypeOK, CaptureAnswer
<1> QED
  BY <1>2, <1>3, <1>4, <1>5, <1>6, <1>7 DEF Handle

\* Whatever else happens keeps the types.
LEMMA WorldTypes ==
  ASSUME TypeOK, TrackerAssumption,
         \/ Host \/ Stop \/ ServeFails \/ Signal \/ Tick \/ UNCHANGED vars
         \/ \E c \in Calls : Leave(c) \/ Respond(c)
  PROVE  TypeOK'
<1> USE DEF tracker, handler, host, Stages, Servers, Mains
<1>1. UNCHANGED <<pending, traces>>
  BY DEF Host, StopListening, Select, ReturnAfterWait, Drain, Stop, ServeFails, Signal, Tick, Leave, Respond, vars
<1>2. TrackerTypeOK'
  BY <1>1 DEF TypeOK, TrackerTypeOK
<1>3. CASE Host
  BY <1>2, <1>3 DEF TypeOK, Host, StopListening, Select, ReturnAfterWait, Drain
<1>4. CASE Stop
  BY <1>2, <1>4 DEF TypeOK, Stop
<1>5. CASE ServeFails \/ Signal \/ UNCHANGED vars
  BY <1>2, <1>5 DEF TypeOK, ServeFails, Signal, vars
<1>6. CASE Tick
  <2>1. clock' \in Time
    BY <1>6, TrackerAssumption DEF TypeOK, Tick, Time, TrackerAssumption
  <2> QED
    BY <1>2, <1>6, <2>1 DEF TypeOK, Tick
<1>7. CASE \E c \in Calls : Leave(c) \/ Respond(c)
  BY <1>2, <1>7 DEF TypeOK, Leave, Respond
<1> QED
  BY <1>3, <1>4, <1>5, <1>6, <1>7

\* The types of HttpProxy; among them, that the mutex is held by the handler
\* that is in client.Do, and by no other.
THEOREM TypeCorrect == Spec => []TypeOK
<1>1. Init => TypeOK
  <2> SUFFICES ASSUME Init PROVE TypeOK
    OBVIOUS
  <2>1. 0 \in Time
    BY TrackerAssumption DEF TrackerAssumption, Time
  <2>2. Nobody \notin Calls
    BY HttpAssumption DEF HttpAssumption
  <2>3. TrackerTypeOK
    BY DEF Init, TrackerTypeOK
  <2>4. \A c \in Calls : pc[c] = "await" <=> mu = c
    BY <2>2 DEF Init
  <2> QED
    BY <2>1, <2>3, <2>4 DEF Init, TypeOK, Lines, Replies, Stages, Servers, Mains
<1>2. TypeOK /\ [Next]_vars => TypeOK'
  BY HandlerTypes, WorldTypes, TrackerAssumption, HttpAssumption DEF Next
<1> QED
  BY <1>1, <1>2, PTL DEF Spec

-----------------------------------------------------------------------------
\* The table changes only when a call or its answer is captured, and recorded.
LEMMA TableStep ==
  ASSUME [Next]_vars
  PROVE  \/ UNCHANGED <<pending, traces>>
         \/ \E c \in Calls : CaptureCall(c) /\ Record(CallOf(c), received[c], clock)
         \/ \E c \in Calls : CaptureAnswer(c) /\ Record(AnswerTo(c), answeredAt[c], clock)
BY DEF CaptureCall, CaptureAnswer, Capture, Next, Handle, Arrive, Do, DoReturns, DoFails, Reply, Leave, Respond, Host, StopListening, Select,
       ReturnAfterWait, Drain, Stop, ServeFails, Signal, Tick, vars, tracker

\* All clients share the table, and yet it is keyed by id.
THEOREM TableIsKeyed == Spec => []KeyedById
<1>1. Init => KeyedById
  BY DEF Init, KeyedById
<1>2. TypeOK /\ KeyedById /\ [Next]_vars => KeyedById'
  <2> SUFFICES ASSUME TypeOK, KeyedById, [Next]_vars PROVE KeyedById'
    OBVIOUS
  <2>1. CASE UNCHANGED <<pending, traces>>
    BY <2>1 DEF KeyedById
  <2>2. ASSUME NEW c \in Calls,
               Record(CallOf(c), received[c], clock) \/ Record(AnswerTo(c), answeredAt[c], clock)
        PROVE  KeyedById'
    <3>1. received[c] \in Time /\ answeredAt[c] \in Time /\ clock \in Time
      BY DEF TypeOK
    <3> QED
      BY <2>2, <3>1, MessageTypes, RecordKeyed, TrackerAssumption DEF TypeOK
  <2> QED
    BY <2>1, <2>2, TableStep
<1> QED
  BY <1>1, <1>2, TypeCorrect, PTL DEF Spec

\* A call whose id is nobody else's is never traced with the answer to another,
\* however many of the others share theirs.
THEOREM OwnIdsArePaired == Spec => []OwnIdsPair
<1>1. TypeOK /\ KeyedById => OwnIdsPair
  BY OwnIdIsPaired, TrackerAssumption DEF TypeOK
<1> QED
  BY <1>1, TypeCorrect, TableIsKeyed, PTL

-----------------------------------------------------------------------------
\* The call is where its answer will look for it.
InTable(c) == IdOf[c] \in DOMAIN pending /\ pending[IdOf[c]] = [call |-> c, at |-> received[c]]

InTime(c) == clock <= received[c] + StaleAfter

\* Why a call that is answered in time is stored with its answer: stamps are
\* never ahead of the clock, so no handler takes its entry away, a call that
\* owns its id is in no trace before its handler ends, and what its handler
\* could not log, record or store is in warned.
StampsArePast ==
  \A c \in Calls : received[c] <= clock /\ answeredAt[c] <= clock

AnswersAreCaptured ==
  \A c \in Calls : got[c] = "answer" => pc[c] \in {"captureAnswer", "done"}

UntracedBefore ==
  \A c \in Calls : OwnsId(c) /\ pc[c] # "done" => \A tr \in traces : tr.call # c

WaitsInTable ==
  \A c \in Calls :
    OwnsId(c) /\ InTime(c) /\ pc[c] \in {"body", "captureAnswer"} => c \in warned \/ InTable(c)

AnswerInv ==
  StampsArePast /\ AnswersAreCaptured /\ UntracedBefore /\ WaitsInTable /\ AnsweredIsStored

\* Lines of the handler that leave the table and the traces alone.
QuietLine(d) == Arrive(d) \/ Do(d) \/ DoReturns(d) \/ DoFails(d) \/ Reply(d)

\* They keep the invariant: what they change is one handler's line and stamps.
LEMMA QuietLineKeeps ==
  ASSUME TypeOK, AnswerInv, TrackerAssumption, NEW d \in Calls, QuietLine(d)
  PROVE  AnswerInv'
<1> USE DEF QuietLine, Arrive, Do, DoReturns, DoFails, Reply, Goto, tracker
<1>1. StampsArePast'
  BY DEF TypeOK, AnswerInv, StampsArePast, Time
<1>2. AnswersAreCaptured'
  BY DEF TypeOK, AnswerInv, AnswersAreCaptured, Lines, Replies
<1>3. UntracedBefore'
  BY DEF TypeOK, AnswerInv, UntracedBefore, OwnsId
<1>4. WaitsInTable'
  <2> SUFFICES ASSUME NEW c \in Calls, OwnsId(c), InTime(c)',
                      pc'[c] \in {"body", "captureAnswer"}
               PROVE  c \in warned' \/ InTable(c)'
    BY DEF WaitsInTable, OwnsId
  <2>1. pc[c] \in {"body", "captureAnswer"} /\ received'[c] = received[c]
    BY DEF TypeOK
  <2>2. c \in warned \/ InTable(c)
    BY <2>1 DEF AnswerInv, WaitsInTable, InTime
  <2> QED
    BY <2>1, <2>2 DEF InTable
<1>5. AnsweredIsStored'
  <2> SUFFICES ASSUME NEW c \in Calls, pc'[c] = "done", got'[c] = "answer",
                      OwnsId(c), InTime(c)'
               PROVE  c \in warned \/ \E tr \in rows : tr.call = c /\ tr.by = AnswerTo(c)
    BY DEF AnsweredIsStored, OwnsId, InTime, AnswerTo
  <2>1. pc[c] = "done" /\ got[c] = "answer"
    BY DEF TypeOK, AnswerInv, AnswersAreCaptured
  <2>2. received'[c] = received[c]
    BY <2>1 DEF TypeOK
  <2> QED
    BY <2>1, <2>2 DEF AnswerInv, AnsweredIsStored, InTime
<1> QED
  BY <1>1, <1>2, <1>3, <1>4, <1>5 DEF AnswerInv

\* Time passes, clients leave and all the rest.
LEMMA WorldKeeps ==
  ASSUME TypeOK, AnswerInv, TrackerAssumption,
         \/ Host \/ Stop \/ ServeFails \/ Signal \/ Tick \/ UNCHANGED vars
         \/ \E c \in Calls : Leave(c) \/ Respond(c)
  PROVE  AnswerInv'
<1>1. /\ UNCHANGED <<pending, traces, rows, warned, pc, received, answeredAt, got>>
      /\ clock' \in Time /\ clock <= clock'
  BY DEF TypeOK, Time, TrackerAssumption, Host, StopListening, Select, ReturnAfterWait, Drain, Stop,
         ServeFails, Signal, Tick, Leave, Respond, vars, tracker, handler, host
<1>2. \A c \in Calls : InTime(c)' => InTime(c)
  BY <1>1, TrackerAssumption DEF InTime, TypeOK, Time, TrackerAssumption
<1>3. StampsArePast'
  BY <1>1 DEF TypeOK, AnswerInv, StampsArePast, Time
<1>4. AnswersAreCaptured' /\ UntracedBefore'
  BY <1>1 DEF AnswerInv, AnswersAreCaptured, UntracedBefore, OwnsId
<1>5. WaitsInTable'
  BY <1>1, <1>2 DEF AnswerInv, WaitsInTable, OwnsId, InTable
<1>6. AnsweredIsStored'
  BY <1>1, <1>2 DEF AnswerInv, AnsweredIsStored, OwnsId, InTime, AnswerTo
<1> QED
  BY <1>3, <1>4, <1>5, <1>6 DEF AnswerInv

\* While a call is in time, no stamp makes the table drop it.
LEMMA InTimeIsFresh ==
  ASSUME TypeOK, TrackerAssumption, NEW c \in Calls, InTable(c), InTime(c),
         NEW now \in Time, now <= clock
  PROVE  IdOf[c] \in Fresh(now)
BY DEF TypeOK, TrackerAssumption, InTable, InTime, Fresh, Time

\* A trace that appears is not of a call that owns its id, except by its answer.
LEMMA NewTraces ==
  ASSUME TypeOK, KeyedById, TrackerAssumption, NEW c \in Calls, OwnsId(c),
         NEW d \in Calls, NEW m \in {CallOf(d), AnswerTo(d)}, NEW received0, NEW until0,
         Record(m, received0, until0), NEW tr \in traces' \ traces, tr.call = c
  PROVE  d = c /\ m = AnswerTo(c)
<1>1. c # NoCall
  BY TrackerAssumption DEF TrackerAssumption
<1>2. m \in Messages /\ Id(m) = IdOf[d]
  BY MessageTypes
<1>3. m \in ServerMessages /\ Id(m) \in DOMAIN pending /\ c = pending[Id(m)].call
  BY <1>1, <1>2, RecordTraces
<1>4. IdOf[c] = IdOf[d]
  BY <1>2, <1>3 DEF KeyedById
<1>5. d = c
  BY <1>4 DEF OwnsId
<1>6. m # CallOf(d)
  BY <1>3 DEF CallOf, ServerMessages
<1> QED
  BY <1>5, <1>6

\* The capture of a call puts it in the table and disturbs no other.
LEMMA CaptureCallKeeps ==
  ASSUME TypeOK, KeyedById, AnswerInv, TrackerAssumption, NEW d \in Calls, CaptureCall(d),
         Record(CallOf(d), received[d], clock), Store(d), UNCHANGED clock
  PROVE  AnswerInv'
<1>1. /\ CallOf(d) \in Messages /\ CallOf(d).kind = "call" /\ Id(CallOf(d)) = IdOf[d]
      /\ CallOf(d).about = d
      /\ Record(CallOf(d), received[d], clock) /\ UNCHANGED received
      /\ received[d] \in Time /\ received[d] <= clock
  BY MessageTypes DEF CaptureCall, AnswerInv, StampsArePast, TypeOK
<1>2. traces' = traces /\ rows' = rows /\ warned' = warned /\ IdOf[d] \in DOMAIN pending' /\ InTable(d)'
  <2>1. /\ traces' = traces /\ IdOf[d] \in DOMAIN pending'
        /\ pending'[IdOf[d]] = [call |-> d, at |-> received[d]]
    BY <1>1, RecordCall
  <2>2. rows' = rows /\ warned' = warned
    BY <2>1 DEF Store
  <2> QED
    BY <1>1, <2>1, <2>2 DEF InTable
<1>3. StampsArePast'
  BY DEF CaptureCall, TypeOK, AnswerInv, StampsArePast, Time
<1>4. AnswersAreCaptured'
  BY DEF CaptureCall, Goto, TypeOK, AnswerInv, AnswersAreCaptured
<1>5. UntracedBefore'
  BY <1>2 DEF CaptureCall, Goto, TypeOK, AnswerInv, UntracedBefore, OwnsId
<1>6. WaitsInTable'
  <2> SUFFICES ASSUME NEW c \in Calls, OwnsId(c), InTime(c), c # d,
                      pc'[c] \in {"body", "captureAnswer"}
               PROVE  c \in warned' \/ InTable(c)'
    BY <1>1, <1>2 DEF WaitsInTable, OwnsId, InTime
  <2>1. pc[c] \in {"body", "captureAnswer"}
    BY DEF CaptureCall, Goto, TypeOK
  <2> SUFFICES ASSUME c \notin warned PROVE InTable(c)'
    BY <1>2
  <2>2. InTable(c)
    BY <2>1 DEF AnswerInv, WaitsInTable
  <2>3. IdOf[c] \in Fresh(received[d]) /\ IdOf[c] # Id(CallOf(d))
    BY <1>1, <2>2, InTimeIsFresh DEF OwnsId
  <2>4. IdOf[c] \in DOMAIN pending' /\ pending'[IdOf[c]] = pending[IdOf[c]]
    BY <1>1, <2>3, RecordKeeps
  <2> QED
    BY <1>1, <2>2, <2>4 DEF InTable
<1>7. AnsweredIsStored'
  <2> SUFFICES ASSUME NEW c \in Calls, pc'[c] = "done", got'[c] = "answer",
                      OwnsId(c), InTime(c)
               PROVE  c \in warned \/ \E tr \in rows : tr.call = c /\ tr.by = AnswerTo(c)
    BY <1>1, <1>2 DEF AnsweredIsStored, OwnsId, InTime, AnswerTo
  <2>1. pc[c] = "done" /\ got[c] = "answer"
    BY DEF CaptureCall, Goto, TypeOK, AnswerInv, AnswersAreCaptured
  <2> QED
    BY <2>1 DEF AnswerInv, AnsweredIsStored, InTime
<1> QED
  BY <1>3, <1>4, <1>5, <1>6, <1>7 DEF AnswerInv

\* The capture of an answer finds its call, and traces and stores both.
LEMMA CaptureAnswerKeeps ==
  ASSUME TypeOK, KeyedById, AnswerInv, TrackerAssumption, NEW d \in Calls, CaptureAnswer(d),
         Record(AnswerTo(d), answeredAt[d], clock), Store(d), UNCHANGED clock
  PROVE  AnswerInv'
<1>1. /\ AnswerTo(d) \in Messages /\ AnswerTo(d) \in ServerMessages /\ AnswerTo(d).kind # "call"
      /\ Id(AnswerTo(d)) = IdOf[d]
      /\ Record(AnswerTo(d), answeredAt[d], clock)
      /\ UNCHANGED <<received, answeredAt, got>>
      /\ answeredAt[d] \in Time /\ answeredAt[d] <= clock
      /\ pc[d] = "captureAnswer" /\ pc' = [pc EXCEPT ![d] = "done"]
  BY MessageTypes DEF CaptureAnswer, Goto, AnswerInv, StampsArePast, TypeOK
<1>2. traces \subseteq traces' /\ rows \subseteq rows' /\ warned \subseteq warned'
  BY <1>1, RecordTraces DEF Store
<1>3. StampsArePast'
  BY <1>1 DEF AnswerInv, StampsArePast
<1>4. AnswersAreCaptured'
  BY <1>1 DEF TypeOK, AnswerInv, AnswersAreCaptured
<1>5. UntracedBefore'
  <2> SUFFICES ASSUME NEW c \in Calls, OwnsId(c), pc'[c] # "done", NEW tr \in traces', tr.call = c
               PROVE  FALSE
    BY DEF UntracedBefore, OwnsId
  <2>1. c # d /\ pc[c] # "done"
    BY <1>1 DEF TypeOK
  <2>2. tr \notin traces
    BY <2>1 DEF AnswerInv, UntracedBefore
  <2> QED
    BY <1>1, <2>1, <2>2, NewTraces
<1>6. WaitsInTable'
  <2> SUFFICES ASSUME NEW c \in Calls, OwnsId(c), InTime(c),
                      pc'[c] \in {"body", "captureAnswer"}
               PROVE  c \in warned' \/ InTable(c)'
    BY <1>1 DEF WaitsInTable, OwnsId, InTime
  <2>1. c # d /\ pc[c] \in {"body", "captureAnswer"}
    BY <1>1 DEF TypeOK
  <2> SUFFICES ASSUME c \notin warned PROVE InTable(c)'
    BY <1>2
  <2>2. InTable(c)
    BY <2>1 DEF AnswerInv, WaitsInTable
  <2>3. IdOf[c] \in Fresh(answeredAt[d]) /\ IdOf[c] # Id(AnswerTo(d))
    BY <1>1, <2>1, <2>2, InTimeIsFresh DEF OwnsId
  <2>4. IdOf[c] \in DOMAIN pending' /\ pending'[IdOf[c]] = pending[IdOf[c]]
    BY <1>1, <2>3, RecordKeeps
  <2> QED
    BY <1>1, <2>2, <2>4 DEF InTable
<1>7. AnsweredIsStored'
  <2> SUFFICES ASSUME NEW c \in Calls, pc'[c] = "done", got[c] = "answer",
                      OwnsId(c), InTime(c)
               PROVE  c \in warned' \/ \E tr \in rows' : tr.call = c /\ tr.by = AnswerTo(c)
    BY <1>1 DEF AnsweredIsStored, OwnsId, InTime, AnswerTo
  <2>1. CASE c # d
    <3>1. pc[c] = "done"
      BY <1>1, <2>1 DEF TypeOK
    <3> QED
      BY <1>2, <3>1 DEF AnswerInv, AnsweredIsStored, InTime
  <2>2. CASE c = d
    <3> SUFFICES ASSUME c \notin warned'
                 PROVE  \E tr \in rows' : tr.call = c /\ tr.by = AnswerTo(c)
      OBVIOUS
    <3>1. InTable(c)
      BY <1>1, <1>2, <2>2 DEF AnswerInv, WaitsInTable
    <3>2. IdOf[c] \in Fresh(answeredAt[d])
      BY <1>1, <3>1, InTimeIsFresh
    <3>3. traces' = traces \cup {PairOf(pending[IdOf[c]], AnswerTo(c), clock)}
      BY <1>1, <2>2, <3>2, RecordMatches
    <3> DEFINE new == PairOf(pending[IdOf[c]], AnswerTo(c), clock)
    <3>4. new.call = c /\ new.by = AnswerTo(c)
      BY <3>1 DEF InTable, PairOf
    <3>5. new \notin traces
      BY <1>1, <2>2, <3>4 DEF AnswerInv, UntracedBefore
    <3>6. new \in rows'
      <4>1. new \in traces' \ traces
        BY <3>3, <3>5
      <4> HIDE DEF new
      <4> QED
        BY <2>2, <4>1 DEF Store
    <3> QED
      BY <3>4, <3>6
  <2> QED
    BY <2>1, <2>2
<1> QED
  BY <1>3, <1>4, <1>5, <1>6, <1>7 DEF AnswerInv

\* A capture that cannot be logged leaves the table alone, and is reported.
LEMMA UnloggedKeeps ==
  ASSUME TypeOK, AnswerInv, NEW d \in Calls, CaptureCall(d) \/ CaptureAnswer(d),
         UNCHANGED <<clock, pending, traces, rows>>, warned' = warned \cup {d}
  PROVE  AnswerInv'
<1>2. \A c \in Calls : c # d => pc'[c] = pc[c] /\ got'[c] = got[c]
  BY DEF CaptureCall, CaptureAnswer, Goto, TypeOK
<1>3. UNCHANGED received
  BY DEF CaptureCall, CaptureAnswer
<1>4. StampsArePast'
  BY DEF CaptureCall, CaptureAnswer, TypeOK, AnswerInv, StampsArePast, Time
<1>5. AnswersAreCaptured'
  BY DEF CaptureCall, CaptureAnswer, Goto, TypeOK, AnswerInv, AnswersAreCaptured
<1>6. UntracedBefore'
  BY DEF CaptureCall, CaptureAnswer, Goto, TypeOK, AnswerInv, UntracedBefore, OwnsId
<1>7. WaitsInTable'
  BY <1>2, <1>3 DEF AnswerInv, WaitsInTable, OwnsId, InTime, InTable
<1>8. AnsweredIsStored'
  BY <1>2, <1>3 DEF AnswerInv, AnsweredIsStored, OwnsId, AnswerTo
<1> QED
  BY <1>4, <1>5, <1>6, <1>7, <1>8 DEF AnswerInv

\* No answer is lost in silence: every call that was answered in time is stored
\* with its answer or "trace capture failed" was logged for it, for any number
\* of clients, whatever their other calls do, unless others use its id.
THEOREM AnswersAreStored == Spec => []AnsweredIsStored
<1>1. Init => AnswerInv
  <2> SUFFICES ASSUME Init PROVE AnswerInv
    OBVIOUS
  <2>1. StampsArePast /\ AnswersAreCaptured /\ UntracedBefore
    BY DEF Init, StampsArePast, AnswersAreCaptured, UntracedBefore
  <2>2. WaitsInTable /\ AnsweredIsStored
    BY DEF Init, WaitsInTable, AnsweredIsStored
  <2> QED
    BY <2>1, <2>2 DEF AnswerInv
<1>2. TypeOK /\ KeyedById /\ AnswerInv /\ [Next]_vars => AnswerInv'
  <2> SUFFICES ASSUME TypeOK, KeyedById, AnswerInv, [Next]_vars PROVE AnswerInv'
    OBVIOUS
  <2>1. ASSUME NEW d \in Calls, Arrive(d) \/ Handle(d) PROVE AnswerInv'
    <3>1. CASE QuietLine(d)
      BY <3>1, QuietLineKeeps, TrackerAssumption
    <3>2. CASE CaptureCall(d)
      BY <3>2, CaptureCallKeeps, UnloggedKeeps, TrackerAssumption DEF CaptureCall, Capture
    <3>3. CASE CaptureAnswer(d)
      BY <3>3, CaptureAnswerKeeps, UnloggedKeeps, TrackerAssumption DEF CaptureAnswer, Capture
    <3> QED
      BY <2>1, <3>1, <3>2, <3>3 DEF Handle, QuietLine
  <2>2. CASE \/ Host \/ Stop \/ ServeFails \/ Signal \/ Tick \/ UNCHANGED vars
             \/ \E c \in Calls : Leave(c) \/ Respond(c)
    BY <2>2, WorldKeeps, TrackerAssumption
  <2> QED
    BY <2>1, <2>2 DEF Next
<1>3. AnswerInv => AnsweredIsStored
  BY DEF AnswerInv
<1> QED
  BY <1>1, <1>2, <1>3, TypeCorrect, TableIsKeyed, PTL DEF Spec
-----------------------------------------------------------------------------
\* The calls whose handlers captured them, or never will.
Captured == {c \in Calls : pc[c] \in {"body", "captureAnswer", "done"}}

\* Only those are in the table and in traces, whoever wrote them there.
CaptureInv ==
  /\ \A id \in DOMAIN pending : pending[id].call \in Captured
  /\ \A tr \in traces : tr.call # NoCall => tr.call \in Captured

\* Whichever message a handler captures is about its own call.
LEMMA MessageAbout ==
  ASSUME NEW c \in Calls, NEW m \in {CallOf(c), AnswerTo(c)}
  PROVE  m \in Messages /\ m.about = c
<1>1. AnswerTo(c).about = c
  BY DEF AnswerTo
<1> QED
  BY <1>1, MessageTypes

\* A handler does not go back.
LEMMA CapturedStay ==
  ASSUME TypeOK, [Next]_vars
  PROVE  Captured \subseteq Captured'
<1>1. ASSUME NEW c \in Calls,
             Arrive(c) \/ Do(c) \/ DoReturns(c) \/ DoFails(c) \/ CaptureCall(c) \/ Reply(c) \/ CaptureAnswer(c)
      PROVE  Captured \subseteq Captured'
  BY <1>1 DEF Captured, TypeOK, Arrive, Do, DoReturns, DoFails, CaptureCall, Reply, CaptureAnswer, Goto
<1>2. (\E c \in Calls : Arrive(c) \/ Handle(c)) \/ UNCHANGED pc
  BY DEF Next, Leave, Respond, Host, StopListening, Select, ReturnAfterWait, Drain, Stop, ServeFails, Signal, Tick,
         vars, handler
<1> QED
  BY <1>1, <1>2 DEF Handle, Captured

\* A call is captured once, and is in no trace before that.
LEMMA CaptureStep ==
  ASSUME TypeOK, CaptureInv, [Next]_vars
  PROVE  CaptureInv'
<1>1. Captured \subseteq Captured'
  BY CapturedStay
<1>2. CASE UNCHANGED <<pending, traces>>
  BY <1>1, <1>2 DEF CaptureInv
<1>3. ASSUME NEW c \in Calls, NEW m \in {CallOf(c), AnswerTo(c)}, NEW received0, NEW until0,
             Record(m, received0, until0), m.kind = "call" => c \in Captured'
      PROVE  CaptureInv'
  <2>1. m \in Messages /\ m.about = c
    BY MessageAbout
  <2>2. \A id \in DOMAIN pending' :
          \/ id \in DOMAIN pending /\ pending'[id] = pending[id]
          \/ m.kind = "call" /\ pending'[id].call = c
    BY <1>3, <2>1, RecordTable
  <2>3. \A tr \in traces' \ traces : tr.call # NoCall =>
          \E id \in DOMAIN pending : tr.call = pending[id].call
    BY <1>3, <2>1, RecordTraces
  <2> QED
    BY <1>1, <1>3, <2>2, <2>3 DEF CaptureInv
<1>4. ASSUME NEW c \in Calls, CaptureCall(c), Record(CallOf(c), received[c], clock)
      PROVE  CaptureInv'
  <2>1. c \in Captured'
    BY <1>4 DEF CaptureCall, Goto, Captured, TypeOK
  <2> QED
    BY <1>3, <1>4, <2>1
<1>5. ASSUME NEW c \in Calls, Record(AnswerTo(c), answeredAt[c], clock)
      PROVE  CaptureInv'
  <2>1. AnswerTo(c).kind # "call"
    BY DEF AnswerTo
  <2> QED
    BY <1>3, <1>5, <2>1
<1> QED
  BY <1>2, <1>4, <1>5, TableStep

\* No call of any client is in two traces, and none that was traced still waits,
\* whatever ids the clients choose and whichever handlers fail.
THEOREM CallsAreTracedOnce == Spec => []TracedOnce
<1>1. Init => CaptureInv /\ TracedOnce
  BY DEF Init, CaptureInv, TracedOnce
<1>2. TypeOK /\ CaptureInv /\ [Next]_vars => CaptureInv'
  BY CaptureStep
<1>3. TypeOK /\ KeyedById /\ CaptureInv /\ TracedOnce /\ [Next]_vars => TracedOnce'
  <2> SUFFICES ASSUME TypeOK, KeyedById, CaptureInv, TracedOnce, [Next]_vars
               PROVE  TracedOnce'
    OBVIOUS
  <2>1. CASE UNCHANGED <<pending, traces>>
    BY <2>1 DEF TracedOnce
  <2>2. ASSUME NEW c \in Calls,
               \/ CaptureCall(c) /\ Record(CallOf(c), received[c], clock)
               \/ CaptureAnswer(c) /\ Record(AnswerTo(c), answeredAt[c], clock)
        PROVE  TracedOnce'
    <3>1. PICK m \in {CallOf(c), AnswerTo(c)}, at \in Time :
            Record(m, at, clock) /\ (m.kind = "call" => pc[c] \notin {"body", "captureAnswer", "done"})
      BY <2>2 DEF CaptureCall, CaptureAnswer, CallOf, AnswerTo, TypeOK
    <3>2. m \in Messages /\ m.about = c /\ clock \in Time /\ c # NoCall
      BY MessageAbout, TrackerAssumption DEF TypeOK, TrackerAssumption
    <3>3. m.kind = "call" => \A tr \in traces : tr.call # m.about
      BY <3>1, <3>2 DEF CaptureInv, Captured
    <3> QED
      BY <3>1, <3>2, <3>3, RecordOnce, TrackerAssumption DEF TypeOK
  <2> QED
    BY <2>1, <2>2, TableStep
<1> QED
  BY <1>1, <1>2, <1>3, TypeCorrect, TableIsKeyed, PTL DEF Spec
=============================================================================
