----------------------------- MODULE HttpProxy ------------------------------
(***************************************************************************)
(* The HTTP transport (runHTTP in internal/proxy/proxy.go).  Every call of *)
(* every client has a handler of its own, a goroutine.  All handlers share *)
(* the table of pending calls and one mutex, which a handler holds from    *)
(* the moment it sends its request to the upstream server until the        *)
(* headers of the answer are there.  The upstream server is a child of the *)
(* proxy or runs elsewhere.  Asks of the server do not exist here: what    *)
(* the upstream sends is the body of an answer.                            *)
(***************************************************************************)
EXTENDS TraceTracker, FiniteSets

CONSTANT
  Nobody   \* "the mutex is free"

ASSUME HttpAssumption ==
  /\ Asks = {}
  /\ IsFiniteSet(Calls)
  /\ Nobody \notin Calls

VARIABLES
  clock,
  pc,         \* the line of its handler each call is at
  received,   \* requestReceivedAt
  answeredAt, \* responseReceivedAt
  mu,         \* the handler that holds the mutex
  up,         \* what the upstream server does with the call
  got,        \* what the client was answered
  left,       \* the calls whose client closed the connection
  rows,       \* the traces that were stored
  warned,     \* the calls for which "trace capture failed" was logged
  signalled,  \* the context of the program is cancelled
  listening,  \* the server accepts connections
  server,     \* the upstream server: what it is, and whether it runs
  main        \* the line of runHTTP

tracker  == <<pending, traces, rows, warned>>
handler  == <<pc, received, answeredAt, mu, got>>
host     == <<signalled, listening, server, main>>
vars     == <<tracker, handler, host, clock, up, left>>

Lines   == {"new", "lock", "await", "capture", "captureFailed", "body", "captureAnswer", "done"}
Stages  == {"none", "working", "headers", "complete", "lost"}
Replies == {"nothing", "denial", "error", "answer"}
Servers == {"child", "remote", "childGone", "remoteGone"}
Mains   == {"select", "wait", "drain", "returned"}

\* The handlers between their first and their last line.
InFlight == {c \in Calls : pc[c] \notin {"new", "done"}}

Goto(c, line) == pc' = [pc EXCEPT ![c] = line]

\* The program ends when runHTTP does.
Running == main # "returned"

Alive == server \in {"child", "remote"}

\* What client.Do and the read of the body fail with: the upstream server, or
\* the client of the call, whose context the request has.
Broken(c) == c \in left \/ up[c] = "lost" \/ (up[c] = "none" /\ ~Alive)

-----------------------------------------------------------------------------
Init ==
  /\ pending = << >> /\ traces = {} /\ rows = {} /\ warned = {}
  /\ pc = [c \in Calls |-> "new"]
  /\ received = [c \in Calls |-> 0] /\ answeredAt = [c \in Calls |-> 0]
  /\ mu = Nobody
  /\ got = [c \in Calls |-> "nothing"]
  /\ signalled = FALSE /\ listening = TRUE /\ server \in {"child", "remote"}
  /\ main = "select"
  /\ clock = 0
  /\ up = [c \in Calls |-> "none"]
  /\ left = {}

-----------------------------------------------------------------------------
\* The handler.

\* The body is read, or breaks off; the budget admits the call or denies it
\* (Budget says when).  The record of a denial does not pass the table.
Arrive(c) ==
  /\ pc[c] = "new" /\ listening
  /\ received' = [received EXCEPT ![c] = clock]
  /\ \/ Goto(c, "lock") /\ UNCHANGED got
     \/ Goto(c, "done") /\ got' = [got EXCEPT ![c] = "denial"]
     \/ Goto(c, "done") /\ got' = [got EXCEPT ![c] = "error"]
  /\ UNCHANGED <<tracker, answeredAt, mu, clock, up, left>>

\* The mutex is taken and the request sent, if there is anyone to send it to.
Do(c) ==
  /\ pc[c] = "lock" /\ mu = Nobody
  /\ mu' = c
  /\ up' = IF Broken(c) THEN up ELSE [up EXCEPT ![c] = "working"]
  /\ Goto(c, "await")
  /\ UNCHANGED <<tracker, received, answeredAt, got, clock, left>>

\* Faulty variant of DoFails: the error is returned before the mutex is.
DoFailsLocked(c) ==
  /\ pc[c] = "await" /\ Broken(c)
  /\ Goto(c, "captureFailed")
  /\ UNCHANGED <<tracker, received, answeredAt, mu, got, clock, up, left>>

\* client.Do returns when the headers are there ...
DoReturns(c) ==
  /\ pc[c] = "await" /\ up[c] \in {"headers", "complete"}
  /\ mu' = Nobody
  /\ Goto(c, "capture")
  /\ UNCHANGED <<tracker, received, answeredAt, got, clock, up, left>>

\* ... or fails.  No timeout ends it.
DoFails(c) ==
  /\ pc[c] = "await" /\ Broken(c)
  /\ mu' = Nobody
  /\ Goto(c, "captureFailed")
  /\ UNCHANGED <<tracker, received, answeredAt, got, clock, up, left>>

\* Faulty variant of Store: the error of the insert is dropped.
StoreSilently(c) ==
  /\ rows' \in {rows, rows \cup (traces' \ traces)}
  /\ UNCHANGED warned

\* persistTraceRecord with what Record has traced, if anything.  The insert may
\* fail, as it does for a client that left, whose context it has, and so may
\* the statements after it.  The error stops there: it is only logged.
Store(c) ==
  \/ rows' = rows \cup (traces' \ traces) /\ UNCHANGED warned
  \/ /\ traces' # traces
     /\ rows' \in {rows, rows \cup (traces' \ traces)}
     /\ warned' = warned \cup {c}

\* captureAndPersistBestEffort: the message is written to the log, recorded in
\* the table and stored.  When the log cannot be written nothing else is done.
Capture(c, m, at) ==
  \/ Record(m, at, clock) /\ Store(c)
  \/ warned' = warned \cup {c} /\ UNCHANGED <<pending, traces, rows>>

\* The call is captured when client.Do has returned, either way.  After a
\* failure the client is told "bad gateway" and the call stays in the table.
CaptureCall(c) ==
  /\ \/ pc[c] = "capture" /\ Goto(c, "body") /\ UNCHANGED got
     \/ pc[c] = "captureFailed" /\ Goto(c, "done") /\ got' = [got EXCEPT ![c] = "error"]
  /\ Capture(c, CallOf(c), received[c])
  /\ answeredAt' = [answeredAt EXCEPT ![c] = clock]
  /\ UNCHANGED <<received, mu, clock, up, left>>

\* The body is read and written on.  When the read fails the client is told
\* so, and the call stays in the table; when the write fails, the answer is
\* not captured.
Reply(c) ==
  /\ pc[c] = "body"
  /\ \/ /\ up[c] = "complete"
        /\ \/ got' = [got EXCEPT ![c] = "answer"] /\ Goto(c, "captureAnswer")
           \/ c \in left /\ Goto(c, "done") /\ UNCHANGED got
     \/ Broken(c) /\ Goto(c, "done") /\ got' = [got EXCEPT ![c] = "error"]
  /\ UNCHANGED <<tracker, received, answeredAt, mu, clock, up, left>>

CaptureAnswer(c) ==
  /\ pc[c] = "captureAnswer"
  /\ Capture(c, AnswerTo(c), answeredAt[c])
  /\ Goto(c, "done")
  /\ UNCHANGED <<received, answeredAt, mu, got, clock, up, left>>

\* The handler's steps, once the call has arrived.
Handle(c) ==
  /\ Running
  /\ \/ Do(c) \/ DoReturns(c) \/ DoFails(c)
     \/ CaptureCall(c) \/ Reply(c) \/ CaptureAnswer(c)
  /\ UNCHANGED host

-----------------------------------------------------------------------------
\* runHTTP and the goroutines beside it.

\* Shutdown after a signal, by a goroutine of StartHTTPServer: Serve returns
\* when the listener is closed, whatever is in flight.
StopListening ==
  /\ signalled /\ listening
  /\ listening' = FALSE
  /\ UNCHANGED <<signalled, server, main>>

\* The channel waitErr has a value: the child exited, or there is none and
\* the context is cancelled.
WaitEnded == server = "childGone" \/ (server \in {"remote", "remoteGone"} /\ signalled)

\* The select: Serve returned, or waitErr is first and Shutdown is called.
Select ==
  /\ main = "select"
  /\ \/ ~listening /\ main' = "wait" /\ UNCHANGED listening
     \/ WaitEnded /\ main' = "drain" /\ listening' = FALSE
  /\ UNCHANGED <<signalled, server>>

ReturnAfterWait ==
  /\ main = "wait" /\ WaitEnded
  /\ main' = "returned"
  /\ UNCHANGED <<signalled, listening, server>>

\* Faulty variant: a timeout that is not set counts as none at all.
DrainForever ==
  /\ main = "drain" /\ InFlight = {}
  /\ main' = "returned"
  /\ UNCHANGED <<signalled, listening, server>>

\* shutdownHTTPServer returns when nothing is in flight or its time is over.
Drain ==
  /\ main = "drain"
  /\ main' = "returned"
  /\ UNCHANGED <<signalled, listening, server>>

Host == /\ Running
        /\ StopListening \/ Select \/ ReturnAfterWait \/ Drain
        /\ UNCHANGED <<tracker, handler, clock, up, left>>

-----------------------------------------------------------------------------
\* The environment: clients, the upstream server, the listener, a signal and
\* the clock.

\* The context of a call that was answered matters to its insert alone, which
\* may fail in any case.
Leave(c) ==
  /\ c \in InFlight /\ got[c] = "nothing" /\ c \notin left
  /\ left' = left \cup {c}
  /\ UNCHANGED <<tracker, handler, host, clock, up>>

\* The upstream server sends headers, then the rest.
Respond(c) ==
  /\ Alive
  /\ \/ up[c] = "working" /\ up' = [up EXCEPT ![c] = "headers"]
     \/ up[c] = "headers" /\ up' = [up EXCEPT ![c] = "complete"]
  /\ UNCHANGED <<tracker, handler, host, clock, left>>

\* It stops, and with it the answers it has not sent; as a child it does so
\* at the latest when a cancelled context has it killed.
Stop ==
  /\ \/ server = "child" /\ server' = "childGone"
     \/ server = "remote" /\ server' = "remoteGone"
  /\ up' = [c \in Calls |-> IF up[c] \in {"working", "headers"} THEN "lost" ELSE up[c]]
  /\ UNCHANGED <<tracker, handler, signalled, listening, main, clock, left>>

Kill == Running /\ signalled /\ server = "child" /\ Stop

\* Serve ends by itself with an error, and the select returns it at once: it
\* waits neither for the child nor for what is in flight.
ServeFails ==
  /\ main = "select" /\ listening
  /\ listening' = FALSE /\ main' = "returned"
  /\ UNCHANGED <<tracker, handler, signalled, server, clock, up, left>>

Signal ==
  /\ ~signalled
  /\ signalled' = TRUE
  /\ UNCHANGED <<tracker, handler, listening, server, main, clock, up, left>>

Tick ==
  /\ clock < MaxTime
  /\ clock' = clock + 1
  /\ UNCHANGED <<tracker, handler, host, up, left>>

-----------------------------------------------------------------------------
Next ==
  /\ Running
  /\ \/ \E c \in Calls : Handle(c) \/ Leave(c) \/ Respond(c) \/ (Arrive(c) /\ UNCHANGED host)
     \/ Host \/ Stop \/ ServeFails \/ Signal \/ Tick

Spec == Init /\ [][Next]_vars

\* Goroutines run, and a killed child dies.  Nothing is asked of clients or of
\* the upstream server.
FairSpec == Spec /\ (\A c \in Calls : WF_vars(Handle(c))) /\ WF_vars(Host) /\ WF_vars(Kill)

-----------------------------------------------------------------------------
\* Every variable has its type, and the mutex is held by the handler that is
\* in client.Do.
TypeOK ==
  /\ TrackerTypeOK /\ rows \subseteq traces /\ warned \subseteq Calls
  /\ pc \in [Calls -> Lines]
  /\ received \in [Calls -> Time] /\ answeredAt \in [Calls -> Time]
  /\ mu \in Calls \cup {Nobody}
  /\ \A c \in Calls : pc[c] = "await" <=> mu = c
  /\ got \in [Calls -> Replies]
  /\ signalled \in BOOLEAN /\ listening \in BOOLEAN /\ server \in Servers
  /\ main \in Mains
  /\ clock \in Time
  /\ up \in [Calls -> Stages]
  /\ left \subseteq Calls

\* Docs: every request and response is intercepted and persisted.  No answered
\* call is lost in silence: it is stored with its answer or "trace capture
\* failed" was logged for it, whatever the other handlers do with the table,
\* unless its id is used by others or it took longer than the table keeps it.
AnsweredIsStored ==
  \A c \in Calls :
    pc[c] = "done" /\ got[c] = "answer" /\ OwnsId(c) /\ clock <= received[c] + StaleAfter =>
      c \in warned \/ \E tr \in rows : tr.call = c /\ tr.by = AnswerTo(c)

\* The mutex around client.Do holds nobody up for ever: when the upstream
\* server is not silent for ever about any call, all of them come to an end,
\* with errors, with clients that leave, and with an upstream that stops.
EveryCallReturns ==
  []<>(\A c \in Calls : up[c] \notin {"working", "headers"}) =>
    <>[](InFlight = {} \/ main = "returned")

\* Docs: after a signal mcpscope exits, however many calls are in flight and
\* whether the upstream server answers them or not.
SignalEndsProxy == signalled ~> main = "returned"

\* Docs: it "waits up to --shutdown-timeout for in-flight requests".
\* Only the drain is left with calls in flight, when that time is over.
ShutdownWaits ==
  [][main' = "returned" => InFlight = {} \/ main = "drain"]_vars
=============================================================================
