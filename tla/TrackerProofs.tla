--------------------------- MODULE TrackerProofs ----------------------------
(***************************************************************************)
(* What one Record does to the table of waiting calls and to the traces,   *)
(* for any transport.                                                      *)
(***************************************************************************)
EXTENDS TraceTracker, TLAPS

-----------------------------------------------------------------------------
\* What a call leaves in the table, and a message in the traces, has its type.
LEMMA RecordTypes ==
  ASSUME TrackerTypeOK, TrackerAssumption, NEW m \in Messages,
         NEW received \in Time, NEW until \in Time, Record(m, received, until)
  PROVE  TrackerTypeOK'
<1> DEFINE kept == [id \in Fresh(received) |-> pending[id]]
<1>1. /\ DOMAIN kept = Fresh(received)
      /\ Fresh(received) \subseteq Ids
      /\ \A id \in Fresh(received) : kept[id] \in [call : Calls, at : Time]
  BY DEF Fresh, TrackerTypeOK
<1>2. Id(m) \in Ids
  BY DEF Id, TrackerAssumption, Messages, ClientMessages, ServerMessages
<1>3. CASE m.kind = "call" /\ pending' = Insert(kept, m, received) /\ UNCHANGED traces
  <2>1. m.about \in Calls
    BY <1>3 DEF Messages, ClientMessages, ServerMessages
  <2>2. DOMAIN pending' \subseteq Ids
    BY <1>1, <1>2, <1>3 DEF Insert
  <2>3. \A id \in DOMAIN pending' : pending'[id] \in [call : Calls, at : Time]
    BY <1>1, <1>3, <2>1 DEF Insert
  <2> QED
    BY <1>3, <2>2, <2>3 DEF TrackerTypeOK
<1>4. CASE /\ m \in ServerMessages /\ Id(m) \in DOMAIN kept
           /\ pending' = [id \in DOMAIN kept \ {Id(m)} |-> kept[id]]
           /\ traces' = traces \cup {PairOf(kept[Id(m)], m, until)}
  <2>1. PairOf(kept[Id(m)], m, until)
          \in [call : Calls \cup {NoCall}, by : Messages, from : Time, until : Time]
    <3>1. kept[Id(m)].call \in Calls /\ kept[Id(m)].at \in Time
      BY <1>1, <1>4
    <3> HIDE DEF kept
    <3> QED
      BY <3>1 DEF PairOf
  <2>2. /\ DOMAIN pending' \subseteq Ids
        /\ \A id \in DOMAIN pending' : pending'[id] \in [call : Calls, at : Time]
    BY <1>1, <1>4
  <2> QED
    BY <1>4, <2>1, <2>2 DEF TrackerTypeOK
<1>5. CASE pending' = kept /\ traces' = traces \cup {SingleOf(m, received, until)}
  <2>1. SingleOf(m, received, until)
          \in [call : Calls \cup {NoCall}, by : Messages, from : Time, until : Time]
    BY DEF SingleOf
  <2>2. /\ DOMAIN pending' \subseteq Ids
        /\ \A id \in DOMAIN pending' : pending'[id] \in [call : Calls, at : Time]
    BY <1>1, <1>5
  <2> QED
    BY <1>5, <2>1, <2>2 DEF TrackerTypeOK
<1> QED
  BY <1>3, <1>4, <1>5 DEF Record

\* The tracker matches by id, and by nothing else.
LEMMA RecordKeyed ==
  ASSUME TrackerTypeOK, TrackerAssumption, KeyedById, NEW m \in Messages,
         NEW received \in Time, NEW until \in Time, Record(m, received, until)
  PROVE  KeyedById'
<1> DEFINE kept == [id \in Fresh(received) |-> pending[id]]
<1>1. /\ DOMAIN kept = Fresh(received)
      /\ \A id \in Fresh(received) : IdOf[kept[id].call] = id
  BY DEF Fresh, KeyedById
<1>2. CASE m.kind = "call" /\ pending' = Insert(kept, m, received) /\ UNCHANGED traces
  BY <1>1, <1>2 DEF KeyedById, Insert, Id
<1>3. CASE /\ m \in ServerMessages /\ Id(m) \in DOMAIN kept
           /\ pending' = [id \in DOMAIN kept \ {Id(m)} |-> kept[id]]
           /\ traces' = traces \cup {PairOf(kept[Id(m)], m, until)}
  <2>1. \A id \in DOMAIN pending' : IdOf[pending'[id].call] = id
    BY <1>1, <1>3
  <2>2. /\ PairOf(kept[Id(m)], m, until).by = m
        /\ IdOf[PairOf(kept[Id(m)], m, until).call] = Id(m)
    <3>1. IdOf[kept[Id(m)].call] = Id(m)
      BY <1>1, <1>3
    <3> HIDE DEF kept
    <3> QED
      BY <3>1 DEF PairOf
  <2>3. \A tr \in traces' : tr.call # NoCall =>
          tr.by \in ServerMessages /\ Id(tr.by) = IdOf[tr.call]
    <3> HIDE DEF kept
    <3> QED
      BY <1>3, <2>2 DEF KeyedById, Id
  <2> QED
    BY <2>1, <2>3 DEF KeyedById, Id
<1>4. CASE pending' = kept /\ traces' = traces \cup {SingleOf(m, received, until)}
  <2>1. SingleOf(m, received, until).call = NoCall
    BY DEF SingleOf
  <2> QED
    BY <1>1, <1>4, <2>1 DEF KeyedById, Id
<1> QED
  BY <1>2, <1>3, <1>4 DEF Record

-----------------------------------------------------------------------------
\* A call is in the table when it is captured, and nothing is traced.
LEMMA RecordCall ==
  ASSUME NEW m \in Messages, m.kind = "call", NEW received, NEW until, Record(m, received, until)
  PROVE  /\ Id(m) \in DOMAIN pending' /\ pending'[Id(m)] = [call |-> m.about, at |-> received]
         /\ traces' = traces
<1>1. m \notin ServerMessages
  BY DEF ServerMessages
<1> QED
  BY <1>1 DEF Record, Insert

\* A waiting call stays, unless it is too old or a message has its id.
LEMMA RecordKeeps ==
  ASSUME NEW m \in Messages, NEW received, NEW until, Record(m, received, until),
         NEW id \in Fresh(received), id # Id(m)
  PROVE  id \in DOMAIN pending' /\ pending'[id] = pending[id]
<1> DEFINE kept == [x \in Fresh(received) |-> pending[x]]
<1>1. id \in DOMAIN kept /\ kept[id] = pending[id]
  OBVIOUS
<1>2. \/ pending' = Insert(kept, m, received)
      \/ pending' = [x \in DOMAIN kept \ {Id(m)} |-> kept[x]]
      \/ pending' = kept
  BY DEF Record
<1> HIDE DEF kept
<1> QED
  BY <1>1, <1>2 DEF Insert

\* A message makes one trace, of itself, and of the call that waits under its
\* id, if there is one.
LEMMA RecordTraces ==
  ASSUME NEW m \in Messages, NEW received, NEW until, Record(m, received, until)
  PROVE  /\ traces \subseteq traces'
         /\ \A tr \in traces' \ traces :
              /\ tr.by = m
              /\ tr.call # NoCall => /\ m \in ServerMessages
                                     /\ Id(m) \in DOMAIN pending
                                     /\ tr.call = pending[Id(m)].call
<1>1. CASE traces' = traces
  BY <1>1
<1>2. CASE /\ m \in ServerMessages /\ Id(m) \in Fresh(received)
           /\ traces' = traces \cup {PairOf(pending[Id(m)], m, until)}
  BY <1>2 DEF PairOf, Fresh
<1>3. CASE traces' = traces \cup {SingleOf(m, received, until)}
  BY <1>3 DEF SingleOf
<1> QED
  BY <1>1, <1>2, <1>3 DEF Record

\* An answer that finds its call makes a trace of both.
LEMMA RecordMatches ==
  ASSUME NEW m \in ServerMessages, m.kind # "call", NEW received, NEW until,
         Record(m, received, until), Id(m) \in Fresh(received)
  PROVE  traces' = traces \cup {PairOf(pending[Id(m)], m, until)}
BY DEF Record

\* What is in the table was there before, or is the call that is captured.
LEMMA RecordTable ==
  ASSUME NEW m \in Messages, NEW received, NEW until, Record(m, received, until),
         NEW id \in DOMAIN pending'
  PROVE  \/ id \in DOMAIN pending /\ pending'[id] = pending[id]
         \/ m.kind = "call" /\ id = Id(m) /\ pending'[id] = [call |-> m.about, at |-> received]
<1> DEFINE kept == [x \in Fresh(received) |-> pending[x]]
<1>1. /\ DOMAIN kept \subseteq DOMAIN pending
      /\ \A x \in DOMAIN kept : kept[x] = pending[x]
  BY DEF Fresh
<1>2. \/ m.kind = "call" /\ pending' = Insert(kept, m, received)
      \/ pending' = [x \in DOMAIN kept \ {Id(m)} |-> kept[x]]
      \/ pending' = kept
  BY DEF Record
<1> HIDE DEF kept
<1> QED
  BY <1>1, <1>2 DEF Insert

\* A capture traces nothing, its message alone, or its message with the call
\* that waited under its id, which waits no longer.
LEMMA RecordPairs ==
  ASSUME NEW m \in Messages, NEW received, NEW until, Record(m, received, until)
  PROVE  \/ traces' = traces
         \/ traces' = traces \cup {SingleOf(m, received, until)}
         \/ /\ m \in ServerMessages
            /\ Id(m) \in DOMAIN pending /\ Id(m) \notin DOMAIN pending'
            /\ traces' = traces \cup {PairOf(pending[Id(m)], m, until)}
<1>1. Fresh(received) \subseteq DOMAIN pending
  BY DEF Fresh
<1> QED
  BY <1>1 DEF Record

\* A call that was not traced before it is captured is traced once, and then
\* waits no longer.
LEMMA RecordOnce ==
  ASSUME TrackerTypeOK, TrackerAssumption, KeyedById, TracedOnce, NEW m \in Messages,
         m.kind = "call" => \A tr \in traces : tr.call # m.about,
         NEW received \in Time, NEW until \in Time, Record(m, received, until)
  PROVE  TracedOnce'
<1>1. \A id \in DOMAIN pending' :
        \/ id \in DOMAIN pending /\ pending'[id] = pending[id]
        \/ m.kind = "call" /\ pending'[id].call = m.about
  BY RecordTable
<1>2. \A id \in DOMAIN pending' : pending'[id].call \in Calls
  BY RecordTypes DEF TrackerTypeOK
<1>3. NoCall \notin Calls
  BY DEF TrackerAssumption
<1>4. CASE traces' = traces
  BY <1>1, <1>4 DEF TracedOnce
<1>5. CASE traces' = traces \cup {SingleOf(m, received, until)} /\ traces' # traces
  <2>1. m.kind # "call"
    BY <1>5, RecordCall
  <2>2. SingleOf(m, received, until).call = NoCall
    BY DEF SingleOf
  <2> QED
    BY <1>1, <1>2, <1>3, <1>5, <2>1, <2>2 DEF TracedOnce
<1>6. CASE /\ m \in ServerMessages
           /\ Id(m) \in DOMAIN pending /\ Id(m) \notin DOMAIN pending'
           /\ traces' = traces \cup {PairOf(pending[Id(m)], m, until)}
  <2>1. m.kind # "call"
    BY <1>6 DEF ServerMessages
  <2>2. PairOf(pending[Id(m)], m, until).call = pending[Id(m)].call
    BY DEF PairOf
  <2>3. \A tr \in traces : tr.call # pending[Id(m)].call
    BY <1>6 DEF TracedOnce
  <2>4. \A id \in DOMAIN pending' : pending'[id].call # pending[Id(m)].call
    <3> SUFFICES ASSUME NEW id \in DOMAIN pending', pending'[id].call = pending[Id(m)].call
                 PROVE  FALSE
      OBVIOUS
    <3>1. id \in DOMAIN pending /\ pending'[id] = pending[id]
      BY <1>1, <2>1
    <3>2. id = Id(m)
      BY <1>6, <3>1 DEF KeyedById
    <3> QED
      BY <1>6, <3>2
  <2> QED
    BY <1>1, <1>6, <2>1, <2>2, <2>3, <2>4 DEF TracedOnce
<1> QED
  BY <1>4, <1>5, <1>6, RecordPairs

\* A call whose id nobody else uses is only found by its own answer.
LEMMA OwnIdIsPaired ==
  ASSUME TrackerTypeOK, KeyedById, TrackerAssumption
  PROVE  OwnIdsPair
<1> SUFFICES ASSUME NEW tr \in traces, tr.call # NoCall, OwnsId(tr.call)
             PROVE  tr.by = AnswerTo(tr.call)
  BY DEF OwnIdsPair
<1>1. tr.call \in Calls /\ tr.by \in ServerMessages /\ IdOf[tr.by.about] = IdOf[tr.call]
  BY DEF TrackerTypeOK, KeyedById, Id
<1>2. tr.by.about \in Calls \cup Asks
  BY <1>1 DEF ServerMessages
<1>3. tr.by.about = tr.call
  BY <1>1, <1>2 DEF OwnsId
<1> QED
  BY <1>1, <1>3 DEF ServerMessages, AnswerTo, TrackerAssumption
=============================================================================
