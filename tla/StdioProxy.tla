----------------------------- MODULE StdioProxy -----------------------------
(***************************************************************************)
(* The stdio proxy (runStdio and forwardStdio in internal/proxy/proxy.go). *)
(* A client writes frames to the proxy's stdin and reads its stdout; the   *)
(* proxy runs the server as a child process.  Two goroutines forward, one  *)
(* in each direction, and record what they forwarded after they did; the   *)
(* main goroutine waits for both and then for the child.                   *)
(*                                                                         *)
(* A frame is written in two pieces, header and payload.  The goroutine    *)
(* of the client's direction writes to stdout as well: the error of a call *)
(* the budget denies (module Budget decides that; here any frame may be    *)
(* denied).  It does so under a mutex nobody else takes, so the mutex      *)
(* holds nothing up and is not modelled.                                   *)
(*                                                                         *)
(* Pipes hold what is written to them; the client reads all of its input.  *)
(***************************************************************************)
EXTENDS TraceTracker, Sequences, SequencesExt

CONSTANTS
  HasBudgets,  \* a budget configuration is loaded
  Faults,      \* what goes wrong in a model, a subset of FaultKinds
  NoMessage    \* "no frame in hand"

FaultKinds == {"dies",   \* the server exits on its own
               "torn",   \* a stream ends inside a frame, or carries no frame
               "store",  \* the store fails when a denial is recorded
               "log",    \* stderr, where captured frames are logged, fails
               "signal"} \* SIGINT or SIGTERM

ASSUME StdioAssumption ==
  /\ HasBudgets \in BOOLEAN
  /\ Faults \subseteq FaultKinds
  /\ NoMessage \notin Messages

C2S  == "client_to_server"
S2C  == "server_to_client"
Dirs == {C2S, S2C}

VARIABLES
  clock,
  unlogged,   \* the frames whose capture failed at the log
  pc,         \* what each forwarder is about to do
  hand,       \* the frame each forwarder has read
  stamp,      \* receivedAt of each forwarder
  stdin,      \* frames the client wrote and the proxy did not read
  stdinEnd,   \* what follows them: more ("open"), the end, or no frame
  delivered,  \* frames the proxy wrote to the server
  serverIn,   \* the proxy's end of the server's stdin is open
  serverOut,  \* frames the server wrote and the proxy did not read
  serverEnd,  \* what follows them
  stdout,     \* the pieces of frames the proxy wrote to the client
  stdoutOpen,
  alive,      \* the child process runs
  signalled,  \* the context of the proxy is cancelled
  exited,     \* runStdio returned
  sent,       \* frames the client and the server wrote so far
  times       \* when each call was sent, received (its stamp), delivered and answered

trackerVars == <<pending, traces, unlogged>>
fwdVars     == <<pc, hand, stamp>>
clientVars  == <<stdin, stdinEnd>>
serverVars  == <<serverOut, serverEnd, alive>>
worldVars   == <<sent, times>>
vars == <<clock, trackerVars, fwdVars, clientVars, serverVars, delivered, serverIn,
          stdout, stdoutOpen, signalled, exited, worldVars>>

DenySteps == {"budget", "denyHeader", "denyPayload", "denyTrace"}
Steps     == {"read", "header", "payload", "capture", "returned"} \cup DenySteps

Denial(m)    == [kind |-> "denial", about |-> m.about]
Denials      == [kind : {"denial"}, about : Calls \cup Asks]
Piece(p, m)  == [part |-> p, of |-> m]
Pieces       == [part : {"header", "payload"}, of : ServerMessages \cup Denials]
Shown(m)     == Piece("payload", m) \in Range(stdout)
Happens(fault) == fault \in Faults

Goto(d, step) == pc' = [pc EXCEPT ![d] = step]

\* The top of forwardStdio's loop: the time is taken, then the read begins.
Loop(d) == Goto(d, "read") /\ stamp' = [stamp EXCEPT ![d] = clock]

-----------------------------------------------------------------------------
\* Faulty variants of the operations below, none of them part of Next.

\* A forwarder that finds the end does not close the other side.
ReadEndLeavesOpen(d) ==
  /\ pc[d] = "read"
  /\ IF d = C2S THEN stdin = <<>> /\ stdinEnd # "open"
                ELSE serverOut = <<>> /\ serverEnd # "open"
  /\ Goto(d, "returned")
  /\ UNCHANGED <<clock, trackerVars, hand, stamp, clientVars, serverVars, delivered, serverIn,
                 stdout, stdoutOpen, signalled, exited, worldVars>>

\* The server's output is closed when the server exits, read or not (Wait
\* called before the reads are done).
ReadEndEarly(d) ==
  /\ pc[d] = "read"
  /\ IF d = C2S THEN /\ stdin = <<>> /\ stdinEnd # "open"
                     /\ serverIn' = FALSE
                     /\ UNCHANGED stdoutOpen
                ELSE /\ serverEnd # "open"
                     /\ stdoutOpen' = FALSE
                     /\ UNCHANGED serverIn
  /\ Goto(d, "returned")
  /\ UNCHANGED <<clock, trackerVars, hand, stamp, clientVars, serverVars, delivered,
                 stdout, signalled, exited, worldVars>>

\* An error of writing a denial is ignored, as if the client had been told.
DenyIgnoresErrors(part) ==
  /\ pc[C2S] = IF part = "header" THEN "denyHeader" ELSE "denyPayload"
  /\ stdout' = IF stdoutOpen THEN Append(stdout, Piece(part, Denial(hand[C2S]))) ELSE stdout
  /\ Goto(C2S, IF part = "header" THEN "denyPayload" ELSE "denyTrace")
  /\ UNCHANGED <<clock, trackerVars, hand, stamp, clientVars, serverVars, delivered, serverIn,
                 stdoutOpen, signalled, exited, worldVars>>

\* Each frame is read with a new buffer: what the last one held is lost.
ReadServerRebuffers ==
  /\ pc[S2C] = "read"
  /\ serverOut # <<>>
  /\ hand' = [hand EXCEPT ![S2C] = Head(serverOut)]
  /\ serverOut' = <<>>
  /\ Goto(S2C, "header")
  /\ UNCHANGED <<clock, trackerVars, stamp, clientVars, serverEnd, alive, delivered, serverIn,
                 stdout, stdoutOpen, signalled, exited, worldVars>>

\* A frame is recorded with the time at which it was written.
CaptureAtWrite(d) ==
  /\ pc[d] = "capture"
  /\ Record(hand[d], clock, clock) /\ UNCHANGED unlogged
  /\ hand' = [hand EXCEPT ![d] = NoMessage]
  /\ Loop(d)
  /\ UNCHANGED <<clock, clientVars, serverVars, delivered, serverIn,
                 stdout, stdoutOpen, signalled, exited, worldVars>>

-----------------------------------------------------------------------------
Init ==
  /\ clock = 0
  /\ pc = [d \in Dirs |-> "read"]
  /\ hand = [d \in Dirs |-> NoMessage]
  /\ stamp = [d \in Dirs |-> 0]
  /\ stdin = <<>> /\ stdinEnd = "open"
  /\ delivered = <<>> /\ serverIn = TRUE
  /\ serverOut = <<>> /\ serverEnd = "open"
  /\ stdout = <<>> /\ stdoutOpen = TRUE
  /\ alive = TRUE
  /\ signalled = FALSE /\ exited = FALSE
  /\ sent = {}
  /\ times = [c \in Calls |-> [sent |-> 0, received |-> 0, delivered |-> 0, answered |-> 0]]
  /\ pending = [id \in {} |-> 0]
  /\ traces = {} /\ unlogged = {}

\* readFrame of the client's frames; a frame with an id goes to the budget.
ReadClient ==
  /\ pc[C2S] = "read"
  /\ stdin # <<>>
  /\ hand' = [hand EXCEPT ![C2S] = Head(stdin)]
  /\ stdin' = Tail(stdin)
  /\ Goto(C2S, IF HasBudgets THEN "budget" ELSE "header")
  /\ UNCHANGED <<clock, trackerVars, stamp, stdinEnd, serverVars, delivered, serverIn,
                 stdout, stdoutOpen, signalled, exited, worldVars>>

\* readFrame of the server's frames.
ReadServer ==
  /\ pc[S2C] = "read"
  /\ serverOut # <<>>
  /\ hand' = [hand EXCEPT ![S2C] = Head(serverOut)]
  /\ serverOut' = Tail(serverOut)
  /\ Goto(S2C, "header")
  /\ UNCHANGED <<clock, trackerVars, stamp, clientVars, serverEnd, alive, delivered, serverIn,
                 stdout, stdoutOpen, signalled, exited, worldVars>>

\* readFrame finds the end.  The other side is closed after the last frame,
\* and when the stream breaks off inside a header or right after one: that is
\* the end of the file as well.  Inside a payload it is another error, and so is
\* a header of no frame: the other side stays open.
ReadEnd(d) ==
  /\ pc[d] = "read"
  /\ \/ /\ d = C2S /\ stdin = <<>> /\ stdinEnd # "open"
        /\ serverIn' = FALSE \/ (stdinEnd = "torn" /\ UNCHANGED serverIn)
        /\ UNCHANGED stdoutOpen
     \/ /\ d = S2C /\ serverOut = <<>> /\ serverEnd # "open"
        /\ stdoutOpen' = FALSE \/ (serverEnd = "torn" /\ UNCHANGED stdoutOpen)
        /\ UNCHANGED serverIn
  /\ Goto(d, "returned")
  /\ UNCHANGED <<clock, trackerVars, hand, stamp, clientVars, serverVars, delivered,
                 stdout, signalled, exited, worldVars>>

\* maybeBlockBudgetedRequest: forward the frame, or deny it.  Once the context
\* is cancelled CheckAndReserve fails, and the frame is forwarded.
Decide ==
  /\ pc[C2S] = "budget"
  /\ \/ Goto(C2S, "header")
     \/ ~signalled /\ Goto(C2S, "denyHeader")
  /\ UNCHANGED <<clock, trackerVars, hand, stamp, clientVars, serverVars, delivered, serverIn,
                 stdout, stdoutOpen, signalled, exited, worldVars>>

\* writeFramedPayload of the budget error: two writes to stdout, which fail
\* once the other forwarder has closed it.
Deny(part) ==
  /\ pc[C2S] = IF part = "header" THEN "denyHeader" ELSE "denyPayload"
  /\ \/ /\ stdoutOpen
        /\ stdout' = Append(stdout, Piece(part, Denial(hand[C2S])))
        /\ Goto(C2S, IF part = "header" THEN "denyPayload" ELSE "denyTrace")
     \/ ~stdoutOpen /\ Goto(C2S, "returned") /\ UNCHANGED stdout
  /\ UNCHANGED <<clock, trackerVars, hand, stamp, clientVars, serverVars, delivered, serverIn,
                 stdoutOpen, signalled, exited, worldVars>>

\* The denial is recorded, without the tracker, and the loop continues; a
\* failure of the store, be it for a cancelled context, ends the forwarder.
DenyTrace ==
  /\ pc[C2S] = "denyTrace"
  /\ \/ Loop(C2S)
     \/ (Happens("store") \/ signalled) /\ Goto(C2S, "returned") /\ UNCHANGED stamp
  /\ hand' = [hand EXCEPT ![C2S] = NoMessage]
  /\ UNCHANGED <<clock, trackerVars, clientVars, serverVars, delivered, serverIn,
                 stdout, stdoutOpen, signalled, exited, worldVars>>

\* A write to the server, which fails when it is dead.  The frame is there
\* when its payload is.
WriteServer(part) ==
  /\ pc[C2S] = part
  /\ \/ /\ alive
        /\ Goto(C2S, IF part = "header" THEN "payload" ELSE "capture")
        /\ IF part = "header" THEN UNCHANGED <<delivered, times>>
           ELSE /\ delivered' = Append(delivered, hand[C2S])
                /\ times' = IF hand[C2S].kind # "call" THEN times
                            ELSE [times EXCEPT ![hand[C2S].about].received = stamp[C2S],
                                               ![hand[C2S].about].delivered = clock]
     \/ ~alive /\ Goto(C2S, "returned") /\ UNCHANGED <<delivered, times>>
  /\ UNCHANGED <<clock, trackerVars, hand, stamp, clientVars, serverVars, serverIn,
                 stdout, stdoutOpen, signalled, exited, sent>>

\* A write to the client: two pieces, and no mutex.
WriteClient(part) ==
  /\ pc[S2C] = part
  /\ stdout' = Append(stdout, Piece(part, hand[S2C]))
  /\ Goto(S2C, IF part = "header" THEN "payload" ELSE "capture")
  /\ UNCHANGED <<clock, trackerVars, hand, stamp, clientVars, serverVars, delivered, serverIn,
                 stdoutOpen, signalled, exited, worldVars>>

\* captureAndPersistBestEffort, after the frame was written.  When the frame
\* cannot be logged it is not recorded either, and the loop continues.
Capture(d) ==
  /\ pc[d] = "capture"
  /\ \/ Record(hand[d], stamp[d], clock) /\ UNCHANGED unlogged
     \/ /\ Happens("log")
        /\ unlogged' = unlogged \cup {hand[d]} /\ UNCHANGED <<pending, traces>>
  /\ hand' = [hand EXCEPT ![d] = NoMessage]
  /\ Loop(d)
  /\ UNCHANGED <<clock, clientVars, serverVars, delivered, serverIn,
                 stdout, stdoutOpen, signalled, exited, worldVars>>

\* runStdio has heard from both forwarders, and the child is gone.
Finish ==
  /\ ~exited
  /\ \A d \in Dirs : pc[d] = "returned"
  /\ ~alive
  /\ exited' = TRUE
  /\ UNCHANGED <<clock, trackerVars, fwdVars, clientVars, serverVars, delivered, serverIn,
                 stdout, stdoutOpen, signalled, worldVars>>

-----------------------------------------------------------------------------
\* The client sends a call; its id is not that of a call still unanswered.
ClientCalls(c) ==
  /\ stdinEnd = "open"
  /\ [kind |-> "call", about |-> c] \notin sent
  /\ \A other \in Calls :
       (IdOf[other] = IdOf[c] /\ [kind |-> "call", about |-> other] \in sent) =>
         \E kind \in {"answer", "denial"} : Shown([kind |-> kind, about |-> other])
  /\ stdin' = Append(stdin, [kind |-> "call", about |-> c])
  /\ sent' = sent \cup {[kind |-> "call", about |-> c]}
  /\ times' = [times EXCEPT ![c].sent = clock]
  /\ UNCHANGED <<clock, trackerVars, fwdVars, stdinEnd, serverVars, delivered, serverIn,
                 stdout, stdoutOpen, signalled, exited>>

\* The client replies to what the server asked.
ClientReplies(a) ==
  /\ stdinEnd = "open"
  /\ Shown([kind |-> "ask", about |-> a])
  /\ [kind |-> "reply", about |-> a] \notin sent
  /\ stdin' = Append(stdin, [kind |-> "reply", about |-> a])
  /\ sent' = sent \cup {[kind |-> "reply", about |-> a]}
  /\ UNCHANGED <<clock, trackerVars, fwdVars, stdinEnd, serverVars, delivered, serverIn,
                 stdout, stdoutOpen, signalled, exited, times>>

\* The client closes its end, or dies inside a frame.
ClientEnds(how) ==
  /\ stdinEnd = "open"
  /\ how = "torn" => Happens("torn")
  /\ stdinEnd' = how
  /\ UNCHANGED <<clock, trackerVars, fwdVars, stdin, serverVars, delivered, serverIn,
                 stdout, stdoutOpen, signalled, exited, worldVars>>

ServerWrites(m) ==
  /\ alive
  /\ m \notin sent
  /\ serverOut' = Append(serverOut, m)
  /\ sent' = sent \cup {m}
  /\ UNCHANGED <<clock, trackerVars, fwdVars, clientVars, serverEnd, alive, delivered, serverIn,
                 stdout, stdoutOpen, signalled, exited>>

ServerAnswers(c) ==
  /\ [kind |-> "call", about |-> c] \in Range(delivered)
  /\ ServerWrites([kind |-> "answer", about |-> c])
  /\ times' = [times EXCEPT ![c].answered = clock]

ServerAsks(a) == ServerWrites([kind |-> "ask", about |-> a]) /\ UNCHANGED times

\* The child exits, possibly inside a frame.
Exit(how) ==
  /\ alive
  /\ how = "torn" => Happens("torn")
  /\ alive' = FALSE
  /\ serverEnd' = how
  /\ UNCHANGED <<clock, trackerVars, fwdVars, clientVars, serverOut, delivered, serverIn,
                 stdout, stdoutOpen, signalled, exited, worldVars>>

\* At the end of its input, or killed because the context is cancelled.
ServerStops == (~serverIn \/ signalled) /\ \E how \in {"eof", "torn"} : Exit(how)
ServerDies  == Happens("dies") /\ \E how \in {"eof", "torn"} : Exit(how)

Signal ==
  /\ Happens("signal") /\ ~signalled
  /\ signalled' = TRUE
  /\ UNCHANGED <<clock, trackerVars, fwdVars, clientVars, serverVars, delivered, serverIn,
                 stdout, stdoutOpen, exited, worldVars>>

Tick ==
  /\ clock < MaxTime
  /\ clock' = clock + 1
  /\ UNCHANGED <<trackerVars, fwdVars, clientVars, serverVars, delivered, serverIn,
                 stdout, stdoutOpen, signalled, exited, worldVars>>
-----------------------------------------------------------------------------
ForwardClient ==
  \/ ReadClient \/ ReadEnd(C2S) \/ Decide \/ DenyTrace \/ Capture(C2S)
  \/ \E part \in {"header", "payload"} : Deny(part) \/ WriteServer(part)

ForwardServer ==
  \/ ReadServer \/ ReadEnd(S2C) \/ Capture(S2C)
  \/ \E part \in {"header", "payload"} : WriteClient(part)

Next ==
  \/ ForwardClient \/ ForwardServer \/ Finish
  \/ \E c \in Calls : ClientCalls(c) \/ ServerAnswers(c)
  \/ \E a \in Asks : ServerAsks(a) \/ ClientReplies(a)
  \/ \E how \in {"eof", "torn"} : ClientEnds(how)
  \/ ServerStops \/ ServerDies \/ Signal \/ Tick

Spec == Init /\ [][Next]_vars

\* The goroutines of the proxy run, the kernel delivers a kill, and a server
\* exits at the end of its input.  Nobody has to send, answer or close.
FairSpec ==
  /\ Spec
  /\ WF_vars(ForwardClient) /\ WF_vars(ForwardServer)
  /\ WF_vars(Finish) /\ WF_vars(ServerStops)
-----------------------------------------------------------------------------
\* A forwarder has a frame of its direction in hand from its read to its
\* capture; only the client's meets the budget.
ForwardersTypeOK ==
  /\ pc \in [Dirs -> Steps] /\ pc[S2C] \notin DenySteps
  /\ hand \in [Dirs -> Messages \cup {NoMessage}]
  /\ hand[C2S] \in ClientMessages \cup {NoMessage}
  /\ hand[S2C] \in ServerMessages \cup {NoMessage}
  /\ \A d \in Dirs : pc[d] = "read" => hand[d] = NoMessage
  /\ \A d \in Dirs : pc[d] \notin {"read", "returned"} => hand[d] # NoMessage
  /\ stamp \in [Dirs -> Time]

\* Every variable has its type: what was captured, what the forwarders hold,
\* and what is in the pipes.
TypeOK ==
  /\ TrackerTypeOK
  /\ clock \in Time
  /\ ForwardersTypeOK
  /\ stdin \in Seq(ClientMessages) /\ delivered \in Seq(ClientMessages)
  /\ serverOut \in Seq(ServerMessages)
  /\ {stdinEnd, serverEnd} \subseteq {"open", "eof", "torn"}
  /\ stdout \in Seq(Pieces)
  /\ {serverIn, stdoutOpen, alive, signalled, exited} \subseteq BOOLEAN
  /\ sent \subseteq Messages /\ unlogged \subseteq Messages
  /\ times \in [Calls -> [sent : Time, received : Time, delivered : Time, answered : Time]]

\* A frame the client is told was denied never reaches the server, not even
\* when recording the denial fails.
DeniedOrForwarded ==
  \A m \in Range(delivered) : ~Shown(Denial(m))

\* The client's forwarder gives up only when its input has ended, the server
\* is gone, the client's side is closed or the proxy is told to stop: what the
\* budget decides about one frame does not stop the next.  (A store that fails
\* when a denial is recorded does stop it: the fault "store".)
GivesUpForCause ==
  pc[C2S] = "returned" => stdinEnd # "open" \/ ~alive \/ ~stdoutOpen \/ signalled

\* The answer to a call with an id of its own is traced without the call for
\* three reasons only.  The server answered, and its answer was captured,
\* between the write of the call and the capture that follows it; the call was
\* too old, its age counted from the time the forwarder began to wait for it;
\* or the call could not be logged.
AloneHasCause ==
  [][\A tr \in traces' \ traces :
       tr.by.kind = "answer" /\ tr.call = NoCall /\ OwnsId(tr.by.about) =>
         \/ hand[C2S] = CallOf(tr.by.about)
         \/ times[tr.by.about].received < clock - StaleAfter
         \/ CallOf(tr.by.about) \in unlogged]_vars

\* What each forwarder promises: the frames of its direction arrive in the
\* order they were written, each once.  One in hand is not lost, whatever ends
\* the forwarder, and only what the client is told was denied is left out.
Backlog(d, pipe) == IF hand[d] = NoMessage \/ pc[d] = "capture" THEN pipe ELSE <<hand[d]>> \o pipe

ToServer == INSTANCE Relay WITH
  Frames <- ClientMessages, queue <- Backlog(C2S, stdin), passed <- Range(delivered),
  refused <- {m \in ClientMessages : Shown(Denial(m))}

ToClient == INSTANCE Relay WITH
  Frames <- ServerMessages, queue <- Backlog(S2C, serverOut),
  passed <- {m \in ServerMessages : Shown(m)}, refused <- {}

\* The frames of the client reach the server as a relay passes them on.
RelaysToServer == ToServer!Spec

\* The frames of the server reach the client as a relay passes them on, and
\* none is refused, however denials come between them.
RelaysToClient == ToClient!Spec

\* The latency of a call traced with its answer never understates the time the
\* server took for it, although both are captured some time after they were
\* written.
LatencyCoversServer ==
  \A tr \in traces : tr.call # NoCall /\ tr.by = AnswerTo(tr.call) =>
    tr.until - tr.from >= times[tr.call].answered - times[tr.call].delivered

\* Docs: the latency is end to end.  It must not begin before the call does.
\* The code stamps a frame when it begins to wait for it.
LatencyBeginsWithCall ==
  \A tr \in traces : tr.call # NoCall => tr.from >= times[tr.call].sent

\* Docs: stdio is framed.  Two goroutines write frames to stdout, each in two
\* pieces, and only one of them takes the mutex.
FramesWhole ==
  \A i \in 1 .. Len(stdout) :
    IF stdout[i].part = "header"
    THEN i < Len(stdout) => stdout[i + 1] = Piece("payload", stdout[i].of)
    ELSE i > 1 /\ stdout[i - 1] = Piece("header", stdout[i].of)

\* When the client closes its end the proxy ends, whatever the server does: the
\* end of input travels through the server back to the main goroutine.
EofEndsProxy == stdinEnd = "eof" ~> exited

\* What the server wrote reaches the client, also when the server exits or is
\* killed right after, and however denials interleave with it.
OutputReachesClient ==
  \A m \in ServerMessages : m \in Range(serverOut) ~> Shown(m)

\* Docs: on SIGINT or SIGTERM the proxy exits cleanly.  The client's forwarder
\* is blocked in a read of stdin, which the cancelled context does not end.
SignalEndsProxy == signalled ~> exited
=============================================================================
