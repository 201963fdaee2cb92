---------------------------- MODULE TraceTracker ----------------------------
(***************************************************************************)
(* The table in which a proxy keeps the calls that wait for their answer   *)
(* (traceTracker in internal/proxy/proxy.go), and the traces it makes of   *)
(* what it captures.  A transport EXTENDS this module and uses Record as   *)
(* the part of its capture step that changes the table.                    *)
(*                                                                         *)
(* A message is about a call of the client or about an ask of the server   *)
(* (MCP servers send requests too: sampling, roots, elicitation).  Each    *)
(* call and each ask is one message, but ids are chosen by either side.    *)
(***************************************************************************)
EXTENDS Integers

CONSTANTS
  Calls,      \* the requests clients send
  Asks,       \* the requests the server sends
  Ids,        \* JSON-RPC ids
  IdOf,       \* the id of each call and ask
  NoCall,     \* "no call"
  StaleAfter, \* 15 minutes in the program
  MaxTime     \* bound on the clock

ASSUME TrackerAssumption ==
  /\ Calls \cap Asks = {}
  /\ NoCall \notin Calls \cup Asks
  /\ IdOf \in [Calls \cup Asks -> Ids]
  /\ StaleAfter \in Nat
  /\ MaxTime \in Nat

VARIABLES
  pending,  \* the waiting calls by id: [call, at]
  traces    \* the traces made so far: [call, by, from, until]

Time == 0 .. MaxTime

ClientMessages == [kind : {"call"}, about : Calls] \cup [kind : {"reply"}, about : Asks]
ServerMessages == [kind : {"answer"}, about : Calls] \cup [kind : {"ask"}, about : Asks]
Messages       == ClientMessages \cup ServerMessages

CallOf(c)   == [kind |-> "call", about |-> c]
AnswerTo(c) == [kind |-> "answer", about |-> c]

Id(m) == IdOf[m.about]

\* Faulty variant of the next definition: an entry as old as the limit is too old.
FreshOffByOne(now) == {id \in DOMAIN pending : pending[id].at > now - StaleAfter}

\* What is left of the table when a message received at time now is recorded.
Fresh(now) == {id \in DOMAIN pending : pending[id].at >= now - StaleAfter}

\* The table with a call in it, in the place of an older call with its id.
Insert(kept, m, received) ==
  [id \in DOMAIN kept \cup {Id(m)} |->
     IF id = Id(m) THEN [call |-> m.about, at |-> received] ELSE kept[id]]

\* The trace of a message and of the call it is matched with.
PairOf(entry, m, sent) == [call |-> entry.call, by |-> m, from |-> entry.at, until |-> sent]

\* The trace of a message alone.
SingleOf(m, received, sent) == [call |-> NoCall, by |-> m, from |-> received, until |-> sent]

-----------------------------------------------------------------------------
\* Faulty variants, not part of any specification.

\* An entry stays in the table when its answer comes.
RecordKeepsPending(m, received, sent) ==
  LET kept == [id \in Fresh(received) |-> pending[id]]
  IN  \/ /\ m.kind = "call"
         /\ pending' = Insert(kept, m, received)
         /\ UNCHANGED traces
      \/ /\ m.kind # "call"
         /\ pending' = kept
         /\ traces' = traces \cup
              {IF m \in ServerMessages /\ Id(m) \in DOMAIN kept
               THEN PairOf(kept[Id(m)], m, sent) ELSE SingleOf(m, received, sent)}

\* A message of the server is matched with some waiting call, whatever its id.
RecordByPosition(m, received, sent) ==
  LET kept == [id \in Fresh(received) |-> pending[id]]
  IN  \/ /\ m.kind = "call"
         /\ pending' = Insert(kept, m, received)
         /\ UNCHANGED traces
      \/ /\ m.kind # "call" /\ m \in ServerMessages /\ DOMAIN kept # {}
         /\ LET id == CHOOSE id \in DOMAIN kept : TRUE
            IN  /\ pending' = [other \in DOMAIN kept \ {id} |-> kept[other]]
                /\ traces' = traces \cup {PairOf(kept[id], m, sent)}
      \/ /\ m.kind # "call" /\ ~(m \in ServerMessages /\ DOMAIN kept # {})
         /\ pending' = kept
         /\ traces' = traces \cup {SingleOf(m, received, sent)}

-----------------------------------------------------------------------------
\* traceTracker.Record: entries that are too old go first.  A call is kept
\* until a message of the server with its id arrives, which makes a trace of
\* both; whatever else is captured is a trace of its own.
Record(m, received, sent) ==
  LET kept  == [id \in Fresh(received) |-> pending[id]]
      match == m \in ServerMessages /\ Id(m) \in DOMAIN kept
  IN  \/ /\ m.kind = "call"
         /\ pending' = Insert(kept, m, received)
         /\ UNCHANGED traces
      \/ /\ match
         /\ pending' = [id \in DOMAIN kept \ {Id(m)} |-> kept[id]]
         /\ traces' = traces \cup {PairOf(kept[Id(m)], m, sent)}
      \/ /\ m.kind # "call" /\ ~match
         /\ pending' = kept
         /\ traces' = traces \cup {SingleOf(m, received, sent)}

-----------------------------------------------------------------------------
\* The table and the traces have their types.
TrackerTypeOK ==
  /\ DOMAIN pending \subseteq Ids
  /\ \A id \in DOMAIN pending : pending[id] \in [call : Calls, at : Time]
  /\ traces \subseteq [call : Calls \cup {NoCall}, by : Messages, from : Time, until : Time]

\* A call is in the table under its own id, and the trace of two messages is
\* of a call and a message of the server with the same id.
KeyedById ==
  /\ \A id \in DOMAIN pending : IdOf[pending[id].call] = id
  /\ \A tr \in traces : tr.call # NoCall =>
       tr.by \in ServerMessages /\ Id(tr.by) = IdOf[tr.call]

\* No call is in two traces, and no call in the table has one already.
TracedOnce ==
  /\ \A tr1, tr2 \in traces :
       tr1.call # NoCall /\ tr1.call = tr2.call => tr1 = tr2
  /\ \A tr \in traces, id \in DOMAIN pending : tr.call # pending[id].call

\* No other call, and no ask of the server, has the id of c.
OwnsId(c) == \A other \in Calls \cup Asks : IdOf[other] = IdOf[c] => other = c

\* A call whose id nobody else uses is only traced with its own answer, however
\* many of the others share theirs, whatever is captured when and whatever fails.
OwnIdsPair ==
  \A tr \in traces : tr.call # NoCall /\ OwnsId(tr.call) => tr.by = AnswerTo(tr.call)

\* The same of every call.  Nothing in the protocol keeps the ids of several
\* clients apart, or those of a client and its server.
PairsMatch ==
  \A tr \in traces : tr.call # NoCall => tr.by = AnswerTo(tr.call)
=============================================================================
