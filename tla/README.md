# A verification project for mcpscope

mcpscope sits between an MCP client and an MCP server, forwards JSON-RPC
messages in both directions, enforces per-team budgets, records a trace of
every call, streams the traces to dashboards and evaluates alert rules over
them. It is a Go program in which many goroutines share a SQLite database, a
table of pending calls, a fan-out hub, an upstream server behind one mutex and,
in stdio mode, one output stream.
This directory holds TLA+ modules of its core, TLC configurations that check
them on small instances, and TLAPS proofs for instances of any size.

Run things from this directory: `tlc -config MCBudget_quota.cfg MCBudget` checks
a run, `tlapm BudgetProofs.tla` a proof module. Paths below are relative to the
repository's root; `proxy.go` alone is `internal/proxy/proxy.go`.

## Inventory

| Component | Code | State | Operations | What makes it correct |
|---|---|---|---|---|
| budget manager | `internal/budget`, `cmd/budget.go` | table `budgets` (rows of team, window, start), one mutex per manager | CheckAndReserve, RecordTokens, Snapshot, the reset command | limits hold, or are overshot by a known amount; a denied call costs nothing; no increment is lost; every return releases the mutex |
| trace tracker | `proxy.go` 279-357 | pending calls by JSON-RPC id | Record, eviction after 15 minutes | an answer is paired with its own call, once |
| stdio proxy | `proxy.go` 389-556, 776-871 | two forwarders, the pipes, the child process | forward, deny, capture, end of input, signal | frames stay whole; denied frames are not forwarded; the end of input ends everything; nothing the server wrote is lost |
| HTTP proxy | `proxy.go` 558-694, 988-1027 | pending calls of all clients, one upstream mutex, the upstream server | handler, select, shutdown | a call is paired with its own answer and stored, or the loss is logged; every call and the program come to an end |
| event hub, streams | `proxy.go` 359-387, 1178-1260 | map of subscribers, a channel of 32 each | Subscribe, unsubscribe, Publish, handleEvents | no send on a closed channel; a slow client costs only itself; a filter shows what the list shows |
| persistence, retention | `proxy.go` 2047-2098, `internal/store/sqlite.go` | table `traces` | Insert, DeleteOlderThan, TrimToCount | the table is bounded; no row goes that should stay |
| sqlite store | `internal/store/sqlite.go` | the tables | statements and queries | increments are atomic upserts |
| alert rules, notifier | `internal/proxy/alerts.go`, `notifier.go`, rule handlers | tables of rules and events | evaluate after each insert, compare, deliver with retries, record | events of a rule follow each other; a status is told again only for a cause; what an event says of its delivery is true |
| alerting engine | `internal/alerting` | the time each name last fired | tick, query, fire, send | messages are a cooldown apart; a lasting condition is told again; a snapshot shows what was told |
| multi-server router | `cmd/proxy.go` 487-811 | workers, ports, server ids, requests in flight | deployments, route, forward, end | ids and ports differ; a request reaches the server it names; one end ends all |
| HTTP API, rate limiter, metrics | `proxy.go` 1029-1990, 2290-2380 | token buckets, counters | handlers | pages miss no row; no host exceeds burst and rate |
| ingest of SDK traces | `proxy.go` 1937-2045 | none | handleIngestTrace | validated records enter the same path |
| redaction, interceptor, replay, snapshot, diff, export, configuration, telemetry, mock server, SDK, dashboard | see PROJECT.json | little or none | pure rewriting, parsing, queries, user interface | output matches input |

How they interact. A transport (stdio or HTTP) reads a message, asks the budget
manager about it, writes it on, and then captures it: the interceptor
classifies it, the tracker turns call and answer into one record, and
`persistTraceRecord` publishes the record to the hub, inserts it, cuts the
table and evaluates the alert rules. Tokens an answer reports go back to the
budget manager. A multi-server proxy runs one worker per server over one
database, each with a budget manager of its own, behind a router; the first that ends
ends the program. The alerting engine reads the same table by the clock. The
HTTP API reads it for dashboards, page by page, and takes records from SDKs;
both pass a rate limiter. The reset command is another process on the same
database.

What is hard about it. Check and increment of a budget are different SQL
statements, under a mutex that is not shared by all who use the table. Frames
are captured after they are written, by two goroutines, so a call and its
answer may be captured in either order. A forwarder takes the time of a frame
before it blocks for it. Two goroutines write to stdout. The end of the input
must travel through the child to the other forwarder. The hub is called on the
forwarding path. Retention is computed from the record, not from the clock.
All HTTP clients share a table keyed by ids they choose and a mutex that is held
while the upstream server thinks. Rules are evaluated by every goroutine that
inserted a record, with no lock between reading the latest event and writing
the next. The rate limiter reads the clock before it takes its mutex.
PROJECT.json lists each such place under "hazards" with its line and the
properties that watch it.

## Modules

| Module | Models | Uses |
|---|---|---|
| `Quota` | what a budget promises: check and charge in one atomic step | |
| `Budget` | the managers, mutexes and table, statement by statement | refines `Quota` |
| `TraceTracker` | the table of pending calls, and `Record` on it | |
| `Relay` | what one direction of the stdio proxy promises: a pipe that keeps frames whole in number and order | |
| `StdioProxy` | forwarders, pipes, child process, main goroutine | extends `TraceTracker`, refines `Relay` twice |
| `EventHub` | the hub and the event streams | |
| `Persist` | the life of a record from Publish to TrimToCount | extends `EventHub` |
| `HttpProxy` | the handlers, their mutex, the upstream server, the end of `runHTTP` | extends `TraceTracker` |
| `Alerts` | evaluations of the rules of the database, deliveries, events | |
| `Engine` | the goroutine of the alerting engine | |
| `Servers` | ids, ports and routes of several servers, the router, the end of the program | |
| `Limiter` | the token buckets of the API | |
| `Api` | readers that page, SDKs that report, over the table and behind the limiter | extends `Persist`, instantiates `Limiter` |
| `MCBudget`, `MCStdioProxy`, `MCPersist`, `MCHttpProxy`, `MCAlerts`, `MCEngine`, `MCServers`, `MCApi` | values of constants for TLC | |
| `TrackerProofs` | what one `Record` does, for both transports | |
| `BudgetProofs`, `AlertsProofs`, `EngineProofs`, `ServersProofs` | theorems about the module of that name | |
| `StdioProxyProofs`, `HttpProxyProofs` | theorems about the transports | extend `TrackerProofs` |
| `ApiProofs` | theorems about `EventHub`, `Persist`, `Limiter` and `Api` | |

Beside its operations a module has a few *faulty variants*, definitions no
specification uses: an off-by-one, a lock not taken, an error return that
forgets to unlock. Each breaks one of the properties when it takes the place of
the right definition (PROJECT.json "mutants" pairs them), so every property is
known to be able to fail.

### Budget

One step of a request is one SQL statement or one mutex operation of
`CheckAndReserve` and `RecordTokens`. The order is the code's: lock, hour, day,
tokens, charge the hour, charge the day, unlock. Every statement may fail, in
which case the proxy forwards the call anyway (`bypassed`) with whatever was
charged so far. `Stamp` is the time the worker took for the request and `Arrive`
the later moment at which the request is there; `forwardStdio` takes the time
before it reads, so any number of hours may pass between the two. `Reset` is
the operator's command, without any mutex. `Crash` loses all requests underway
and keeps the table. `mgr` is the worker's manager: `prepareConfig` makes one
for each configuration that brings none.

Tokens are billed to the team and the time of the record of the answer
(`payer`, `stamp`, `BillRow`): those of the call when the tracker paired the two;
otherwise the time of the answer and, over stdio, the default team. That a shared
id may pair the answer with somebody else's call is `TraceTracker`'s part.
An answer that was not logged or not stored is not billed.

`counted` and `billed` are auxiliary: the windows whose row still counts a
request. Requests that name no team get the default team; a team without
limits passes every check and is charged all the same, as in the code.

### TraceTracker and StdioProxy

A message is a call, an answer, an ask (MCP servers send requests too) or a
reply. `Record` is `traceTracker.Record`: evict what is too old, then keep a
call, pair a message of the server with the call of its id, or make a single
trace. `pc` is the line of `forwardStdio` a forwarder is at; the denial path is
`maybeBlockBudgetedRequest` with its two writes to stdout and its record. A
frame is written as header and payload, in two steps. Whether a frame is denied
is a free choice here; `Budget` says when it happens. The mutex around the
denial is left out because only one goroutine ever takes it. A frame that cannot
be logged is not recorded, and the loop goes on; an insert that fails comes after
`Record` and changes nothing in this module. A stream that ends inside a header,
or right after one, is for `readFrame` at its end like any other, and `ReadEnd`
closes the other side; one that ends inside a payload leaves it open. `sent`,
`times` and `unlogged` are auxiliary.

`Relay` is the abstract specification of a direction: frames enter a queue, the
first one arrives, or is taken out after its sender was told. `ToServer` maps
the queue to stdin with the frame in the forwarder's hand before it, what
arrived to what the server read whole, and what is refused to the denials the
client has in full; `ToClient` maps to the server's output, with nothing refused.

The client and the server are the environment: the client uses no id of a call
it still waits for, replies to asks it was shown, and may close its end; the
server answers what was delivered, asks, and exits at the end of its input.
`Faults` switches on a server that dies, streams that end inside a frame, a log
that cannot be written, a store that fails when a denial is recorded, and a
signal.

### EventHub and Persist

`Publish` under the read lock is one step that notes the listed channels, then
one `Send` per channel; entering and striking off are single steps that need
the lock; `Close` comes after the lock is released, as in the code. `Persist` runs
one goroutine per record through publish, insert, prune and trim. Each
statement may fail, and a failure ends the goroutine's work where the code
returns. A record carries the time of its request, so records reach the table
out of order; one an SDK reports carries the time of its host.

### HttpProxy

Each call is a handler, `pc` its line: read the body and ask the budget
(`Arrive`), take the upstream mutex and send (`Do`), get headers or an error
(`DoReturns`, `DoFails`), capture the call (`CaptureCall`), read the body and
answer (`Reply`), capture the answer (`CaptureAnswer`). The mutex is held from
`Do` to the return of `client.Do`, on which no timeout is set. A capture is
best effort (`Capture`, `Store`): when the log cannot be written nothing is
recorded; when the insert fails, be it for the context of a client that left,
what was recorded is not stored; either way the handler goes on, and `warned` notes
that "trace capture failed" was logged for the call. `up` is
what the upstream server makes of a call, and `Broken` why a request can fail:
the client left, the connection broke, nobody is there. `server` is a child or
a remote one; `Stop` ends it, `Kill` is the child's end after a cancelled
context. `main` follows the `select` of `runHTTP` in both its orders, with
`shutdownHTTPServer` (`Drain`) in one and not in the other; `ServeFails` is a
listener that breaks, which returns at once. Nothing runs after `main` has
returned (`Running`), because the program ends with it.

### Alerts

`TraceOf` is the sequence of traces; the goroutine that inserted the n-th then
evaluates all rules: `List` reads the rules and `Stamp` the clock, `Query`
computes one status per step, `Compare` takes the rules in order of severity and reads the
latest event, `Deliver` is one attempt at one target, `RecordEvent` inserts.
`Break` is a failing statement or a request given up, at any of these lines;
`EditRule` is the API. The statistics of the store are operators: `StatusOf` is
what `evaluateAlertRuleSQL` makes of the first row of the statistics, which are
grouped by server and method (`ErrorKey`, and by the server's name for latencies,
`LatencyKey`), `ReferenceStatus` the function the tests call, over all traces of
the window. `mates` is auxiliary: the evaluations each overlapped
with.

### Engine

One goroutine, and time as ages so that the state is finite: a tick adds one to
the age of traces, firings and messages, and ages stop where the code
no longer tells them apart. `late` is the age of the `now` that `evaluateOnce`
read, which is what it compares and records while messages take their time. A
tick that finds the ticker's channel full is lost. `ShouldFire` and
`SetLastFired` are keyed by the name of a rule, as in the code. `told` is
auxiliary.

### Servers

`ServerId`, `Port` and `Route` are functions of the command line. A name is a
stem and the numbers at its end, so that `a-2` can be both the name of a server
and the id of the second `a`. `main`, `workers` and `dashboard` follow
`runMultiServerProxy`: whoever ends first ends it (`Return`). Requests to the
router are sent on, answered, or given up by the client's timeout. A worker of
a command reads a nil `Stdin` (`ReadStdin`), which ends the process.

### Limiter and Api

`Stamp` reads the clock before `Take` takes the mutex, refills, and pays.
Tokens are whole, with `Rate` of them per unit of the clock, and `lastRefill` may go
back. `Api` adds to `Persist` readers that page with the offset of the last
answer and SDKs that post a record once; both pass the limiter of their host.
A page is any result the statement may give: ORDER BY leaves rows of one time
in any order.

## Runs

| Run | Instance | What it shows |
|---|---|---|
| `budget_workers` | 3 requests, 2 managers, 1 team, 2 hours, answers billed in any hour, reset of the hour, failing statements, a crash | a limit is overshot by one call at most, rows are exact, a denied call is free |
| `budget_quota` | 2 requests, 1 manager, 2 teams, no resets, fair | limits hold, tokens gate admission, `Budget` implements `Quota`, every waiting call is decided |
| `stdio_traffic` | 2 calls, 1 ask with the id of one of them, clock of 2 values with eviction, denials, frames that cannot be logged | a call with its own id is paired with its own answer, latencies cover the server, a call is traced once, an answer alone only for a cause |
| `stdio_live` | 1 call, 1 ask, denials, dying server, torn streams, signal, fair | the end of input ends the proxy; what the server wrote arrives; each direction implements `Relay` |
| `stdio_frames` | 2 calls, denials | **violated:** a denial is written into a frame |
| `persist_streams` | 2 records, 2 streams with channels of 1, failing store, fair | no send on a closed channel; slow clients cost only themselves and hold nobody up |
| `persist_table` | 4 records (1 from an SDK whose clock may be 1 ahead), age 1, count 2, clock of 3 values, failing store | the table is bounded and keeps what it should |
| `http_clients` | 2 calls of 2 clients, ids of their own, clock of 2 values with eviction, failing log and store, child or remote upstream, a listener that breaks, signal, fair | answers are paired, and stored or the loss is logged; calls and the program end |
| `alerts_rules` | 3 goroutines with traces of 2 servers, 1 rule switched once, webhook then Slack with 2 attempts each, 1 goroutine breaks off | events chain, repeats have a cause or an overlap, the latest event catches up, deliveries are recorded honestly, statistics of one row agree with the tests |
| `engine_rules` | 3 rules (2 of one name), 2 kinds of traces, cooldown of 3 ticks, evaluations of up to 1 tick, fair | messages are apart, snapshots cover them, lasting conditions are told again |
| `servers_router` | every command line of 2 to 4 of 4 targets, ports for 3, 1 request, fair | ids, routes; one end or a signal ends all; requests are answered |
| `api_paging` | 3 records (1 from an SDK), count 2, age 1, 1 reader with pages of 1, burst 2, rate 1 | pages miss no row; the limit holds |

Why these bounds are enough to be interesting.

* Budgets: with a limit of one an hour and two a day, three requests fill the
  hour, then the day, and one is left over to be denied; two managers are the
  smallest race, and two hours of a two-hour day separate the windows from each
  other and let a stamp be stale. `budget_quota` binds the day before the hour,
  so that a call finds the one free and the other spent. It has no resets,
  because a reset between two charges is not one atomic step of `Quota`; the
  other theorems have resets, and all of them any number of requests.
* Stdio: two calls can have their answers captured in either order around each
  other's capture, an ask of the server adds a frame that is nobody's answer and
  is taken for that of the call whose id it has, while the other call has an id of
  its own, and two values of the clock are enough for a stamp to be older than its frame,
  and with a limit of zero for a call to be too old when its answer comes. In
  `stdio_live` two frames go each way, a call and a reply, an ask and an answer:
  enough to be swapped, lost or denied one before the other.
* Streams: a channel of one is full after one record, so two records reach the
  drop; the program's 32 changes only how long that takes.
* Table: four goroutines with a limit of two overlap cuts with inserts, a limit
  of two keeps a newer row from being the excuse for a cut by age, and three values
  of the clock with an age of one give rows that are too old, just old enough,
  and out of order.
* HTTP: two calls contend for the mutex, and one can evict or lose to the other
  while it waits; three do not fit into five minutes. The theorems are about any
  number of calls and about clients that share ids; for two that do TLC also found
  `OwnIdsPair`, `AnsweredIsStored` and `TracedOnce` true, with `IdOf <- Counted`.
* Alerts: two evaluations that overlap and a third one that does not show
  both what goes wrong and that it does not last. A second target makes
  "which one was told" a question, and a second attempt at each tells a retry from
  going on to the next. With an error and a success of one server and an error
  of another, the row that is judged is not all of the window.
* Engine: a rule whose name another has, before and after it; a cooldown of
  three ticks, of which an evaluation may take one away.
* Servers: three servers are needed for a name to collide with the
  number of another, and a fourth finds no port (`LastPort`). The dashboard's port
  lies below the workers', as by default; a worker's port that meets it is refused
  by the same condition (`PortsFit`).
* Api: with three records and a limit of two, rows come and go between the
  pages; a bucket of two is empty while the reader still needs a page.

`CHECK_DEADLOCK FALSE` is in every configuration because each system comes to
rest when all requests, messages or records of the instance are handled.

### Fairness

* `Budget!FairSpec`: weak fairness of `Serve(r)`, the steps of the handler that
  holds request r. Go runs every goroutine that is ready, and SQLite statements
  return or fail. Weak fairness suffices for taking the mutex in the finite
  instance, because each of finitely many holders leaves it for good.
  Arrivals, answers, resets, crashes and the clock are not fair.
* `StdioProxy!FairSpec`: weak fairness of each forwarder, of the return of
  `runStdio`, and of `ServerStops`: a server exits at the end of its input (an
  assumption on the server; one that ignores it keeps the proxy, in the model and
  in the program) and the kernel delivers the kill of a cancelled context.
  The client never has to send, reply or close, and the server never has to
  answer.
* `Persist!FairSpec`: weak fairness of the goroutine of each record. Clients of
  event streams need not read.
* `HttpProxy!FairSpec`: weak fairness of each handler, of `runHTTP` with its
  goroutines, and of the kill of the child. Neither clients nor the upstream
  server have to do anything: `EveryCallReturns` states as its premise that no
  call stays with the upstream server for ever. `Drain` is not conditional on
  time: the timeout of the shutdown is always set.
* `Engine!FairSpec`: the goroutine runs (a send ends after five seconds), and
  time passes.
* `Servers!FairSpec`: the goroutines run, a worker starts or fails to, and the
  timeout of the router's client ends a request. A worker never has to answer, nor
  to end when the context is cancelled: one that is blocked in a read does not.

## What is proved

Every theorem holds for all values of the constants that satisfy the
assumptions stated with them (finitely many requests, managers and calls,
natural limits, at least one manager), and for every interleaving, failure, reset and
crash the modules describe.

**BudgetProofs.** `TypeCorrect` is the types. `MutexInv`: a request inside
CheckAndReserve or RecordTokens holds its manager's mutex; so a manager has at
most one request inside, and the requests of a row that found room and have not
charged it yet (`InFlight`) are at most as many as there are managers, by an injection into
them. `OvershootBounded` is not inductive, since a call may be about to charge;
`OvershootInv` counts those too: the row and its calls in flight stay below the
limit and the number of managers together. A call that joins the ones in flight
has just found room, and the others in flight belong to other managers; a
charge moves a call from one summand to the other. `OvershootIsBounded` follows, and with one
manager `LimitsHold`. `ChargeInv` ties `counted` and `billed` to where a request
is, which gives `BlockedCallsAreFree`, and, with finite sets that gain
exactly one element at a charge, `RowsAreExact`. `TokensGate` rests on
`TokensInv`: with one manager nobody bills between the check of the tokens and
the charge, because both hold the same mutex (a reset can only lower them).
`QuotaIsImplemented` shows that with one manager and no resets `Budget`
implements `Quota`. Its invariant `QuotaInv` adds to these that a request
inside is undecided and its half charge is marked (`Marks`), that the room a
call found is still there when it charges (`RoomFound`), and that what
`Quota` is told of the rows leaves out at most the half charge of one
request (`BarFacts`): all three because nobody else is inside. So the checks and
the charge to the hour are stutters, the charge to the day is the whole
admission, and a failure or a crash between the two is the one that leaves the hour
charged alone.

**TrackerProofs.** Lemmas about one `Record`, on which both transports rest: it
keeps the types (`RecordTypes`) and the keys (`RecordKeyed`); a call is in the
table afterwards (`RecordCall`); an entry that is fresh and not the message's own
stays (`RecordKeeps`); a trace that is new is about the message, and its call was
in the table under the message's id (`RecordTraces`, `RecordMatches`). What is
in the table afterwards was there or is the call (`RecordTable`), every new pair
takes its call out of the table (`RecordPairs`), and so, in a table keyed by id,
a call is traced once (`RecordOnce`).

**StdioProxyProofs.** `TypeCorrect` includes that a forwarder has a frame of
its direction in hand exactly from its read to its capture, which is what the
capture needs. `TableIsKeyed` proves `KeyedById`: every call in the table is
under its own id and every pair has one id, with any reuse of ids, any
eviction and any order of captures. `OwnIdsArePaired` needs no more: the trace of
a call whose id nobody else uses is with its own answer (lemma `OwnIdIsPaired`),
whatever ids the others share. Of those that share one the same is false
(`PairsMatch`), and the program is wrong with it: a server whose own requests use the
client's ids has them taken for answers.

`ForwarderGivesUpForCause` is inductive given the types. The others need to
know where a frame of the client is. `FlowInv` says it: a frame is sent once, and
then it is in stdin, in the forwarder's hand or past, and it is delivered exactly from
the line of its capture on. `DenialIsFinal` adds `ToldInv`: of a frame the client was
told of, even in part, the forwarder is at a line beyond the decision or past
it. `CallsAreTracedOnce` adds that the calls in the table and in the traces
are past (`TableInv`), so the call being captured is in neither.
`LatencyIsHonest` adds the order of the times (`TimesInv`, with
`AnswerInv` for what the server may still answer): a stamp in the table is no
later than the delivery, and a trace ends no earlier than the answer.
`AloneForACause`, an action property, needs that a delivered call with an id of its
own is in hand, waits, is traced, is old or could not be logged (`WaitsInv`), where
being old is counted from the stamp a call has in `times`, which is what the table
has of it (`ReceivedInv`). `LatencyIsHonest` is about calls traced with their own
answers, since a shared id pairs the wrong frames. `ForwarderGivesUpForCause` assumes
that no store fails. Nothing else is assumed of ids, faults and times.

`ServerSideRelays` and `ClientSideRelays` are the two refinements of `Relay`. A
read takes the head of the pipe into the hand and leaves the backlog as it is; the end of
a write is the arrival, and moves the line of the forwarder past the point where
the hand counts. To the server, what is refused grows by the frame at the
head, at the step that completes its denial (`RefusedStep`), and the frame is then
never delivered: this is `ToldInv` again, with `RefusedInv`, that nobody is told
twice. That a frame enters only once is `FlowInv`, with `InFlightIsSent`. To the client,
the denials between the frames show nothing of the server's (`OthersShowNothing`).
No fault and no id is excluded.

**ApiProofs.** About `Persist` first. `TypeCorrect` includes that a record in the
table has been inserted. `HubIsSafe` needs `HubInv`: a publisher's outstanding
channels are listed, listed connections are open, and closed channels belong to
connections that are gone; striking off waits for publishers, so nothing closes
under one. `SlowClientsPayAlone` follows each record that is owed to a stream
(`Accounted`): it is still to be sent, in the channel, taken, or lost to the
stream's own full channel or leaving, and no step of another stream changes
which. `TableIsBounded` is inductive as it stands, given the types: a cut leaves
at most `MaxCount` rows and takes one goroutine out of the allowance, an insert
adds one row and one goroutine. `RowsAreRetained` is an action property and
rests on `TimesNear`: no row is ahead of the clock by more than `Skew`, whoever
reported it. A cut by age then deletes what is older than `MaxAge` by a clock that
is ahead by as much, and a cut by count leaves `MaxCount` rows that are no older.

`AdmissionIsBounded` is about `Limiter` alone and rests on a conservation law
(`Conserved`): what was let through and what the bucket holds are together at
most the burst and the refill up to `lastRefill`. It also holds when a request
with an older time moves `lastRefill` back, because it takes the tokens of that
time back as well; clamping that refill at zero would break it (this is the
faulty variant `RefilledClamped`).

Two refinements join the parts. `ApiImplementsPersist`: every step of a reader
or an SDK is a step of `Persist` or a stutter, so all theorems about `Persist`
hold behind the API. `Api` takes no step of an event stream: there the theorems about
`EventHub` say nothing new, and streams beside pages are a part of no module.
`ApiImplementsLimiter`: it is a step of
`Limiter` with readers and SDKs as callers, or a stutter, and
`RequestsAreLimited` is `AdmissionIsBounded` carried over. `PagesMissNothing` needs
`PagingInv`: a row that was there at the first page and has not been given
yet has at least `offset` rows before it in the reader's order. Inserts only add
to those, a cut that leaves the row leaves all newer ones (`RowsStep`), and a page
gives it or leaves it at the next offset or behind (`PageReaches`); at the end
nothing is behind. Rows of one time are excepted
(`Untied`), because the statement may order them differently from page to page.

**HttpProxyProofs.** `TypeCorrect` includes that the mutex is held exactly by
the handler inside `client.Do`. `TableIsKeyed` is the keys of the table, for
clients that choose any ids. `OwnIdsArePaired` follows without a further
invariant: the pair has one id, and its owner is one call. `AnswersAreStored`
needs the way of a call through its handler. `AnsweredIsStored` is not inductive
alone; `AnswerInv` adds that stamps are not ahead of the clock (so that nobody
evicts what is in time), that an answered call is at the capture of its answer
or past it, that a call with an id of its own is in no trace before its handler
ends, and that it waits in the table from the capture of the call to that of
the answer, unless a failure was logged for it. A capture that stores less than it
traced logs that (`Store`), which is what the property lives by. TLC checked `AnswerInv` on the instance of `http_clients`.
`CallsAreTracedOnce` needs only that what is in the table or in a trace was
captured by its own handler (`CaptureInv`), which does so once, and the lemma on
one `Record`.

**EngineProofs.** The invariant `IInv` adds to the types and to
`SnapshotCoversMessages` that the name whose messages are being sent has fired at
the time of this evaluation (`SentHasFired`). `SnapshotIsHonest` is part of it;
`CooldownIsKept` follows, because a name that may fire again has a firing that is a
cooldown older than `late`, and no message about it is much younger than that.

**ServersProofs.** `IdsAreApart`: of two servers with one name the later one
counts more before it (finite sets), a numbered name gives away its name and its
number, and an id with a number equals a plain name only if names look alike.
`RequestsAreRoutedRight`: the map of the router then has one server for each id
and more than one entry, so that its rule for requests without an id never
applies; and a request that is sent or answered is where `Route` led.

**AlertsProofs.** One inductive invariant, `AlertInv`, carries all theorems;
TLC checked it on the instance of `alerts_rules`.
Its parts:

* `LineInv`, what a goroutine has in hand at each line, and that no two
  evaluations or events have one time;
* `MatesInv`, that `mates` is symmetric and holds every evaluation begun before
  the end of an earlier one; from it comes the lemma the rest turns on,
  `AloneIsLast`: an evaluation that overlaps with no other is, while it runs,
  the last to have begun, and the earlier ones have ended;
* `ToldInv`, that a notification or an event is of a rule its evaluation has
  come to, with the status it found;
* `DeliveryInv`, that the outcome in hand is what the targets accepted so far:
  a target is tried only when none before it accepted (`EventsAreHonest`);
* `ChainInv`, that the latest event a lone evaluation read is still the latest when
  it records its own (`Follows`): nobody else records in between, and its own
  events are of other rules (`LoneEventsChain`);
* `CatchUpInv`, that the rules the last evaluation is done with have its
  status as their latest event (`LastOneCatchesUp`);
* `RepeatsNeedCause` itself: a lone evaluation tells a status only when the
  latest event has another one, so that one lies after the event of the first
  teller (`RepeatsHaveCause`);
* `LatestInv` and `ClockInv`: a rule with events has a latest one, by finite sets, and the
  clock counts the inserts and the begun evaluations, which bounds it.

`RepeatsAreOverlaps` is about evaluations that do overlap. `OverlapInv` says of a
change from its comparison on, and of every event, that an earlier event with the
same status is of an evaluation it met, or has another event after it: one before
the change, or one after it by an evaluation it met. A comparison looked at the
latest event and found another status there, so the known event is not the
latest (`ComparisonExplains`); an event that is recorded later, with an earlier
time, is of an evaluation that was still active when this one began
(`NewEventMet`). `events` and `mates` only grow, so an explanation stays.

`StatisticsAgree` is about a window whose traces are of one server and one method
that is not empty; with several, the statistics have a row for each and the rule
looks at the first, so that the two disagree (`RuleSeesWindow`). It compares two
computations of a percentile: the least duration
that enough rows do not exceed, as the window function of SQL gives it, and the
entry of the sorted list that the tests read. It goes by counting: the rows of a
window are numbered by `Row`, a bijection to an interval (`RowsAreNumbered`), so
a sorted list exists (`SortedExists`), and any such list has at the rank of the
percentile the duration SQL picks (`SortedGivesP95`).

Nothing is assumed of the statements that fail, of how evaluations that do
overlap interleave, or of edits of the rules.

Proofs assume only the named assumptions of the modules (`BudgetAssumption`,
`TrackerAssumption`, `StdioAssumption`, `HttpAssumption`, `HubAssumption`,
`PersistAssumption`, `ApiAssumption` with `LimiterAssumption` in it,
`AlertAssumption`, `EngineAssumption`, `ServersAssumption`), which TLC evaluates
in every run of the module, and what is said with a theorem above.

The types of every module, `DeniedOrForwarded` (which `RelaysToServer`
contains) and `GivesUpForCause` are theorems that no run repeats; nor does one
repeat `TracedOnce` for the HTTP proxy.

Only model-checked: all liveness (`EveryCallDecided`, `EofEndsProxy`,
`OutputReachesClient`, `SlowClientHoldsNobodyUp`, `EveryCallReturns`,
`SignalEndsProxy`, `LastingIsTold`, `FailureEndsAll`, `SignalEndsAll`,
`PostAnswered`), which TLAPS does not do under fairness. Every invariant, every
action property and every refinement of a passing run is a theorem.

## Where the code and its documentation part

One is a run, `stdio_frames`: messages on stdio are framed by
`Content-Length` (`docs/architecture.md:18`). The error of a denied call is written
to stdout by one goroutine, under a mutex, while the other writes the server's
frames there in two pieces without it.

The others are properties that stand in the modules and that no run checks. To
see each fail, change a configuration as said.

| Property | What is said | What the code does | To see it |
|---|---|---|---|
| `CallsWithinLimit` | limits are enforced before a request is forwarded (`docs/architecture.md:37`) | each worker of a multi-server proxy has a manager, and so a mutex, of its own; two workers may both admit the last call. `OvershootBounded` says how bad it gets | `MCBudget_workers.cfg` with INVARIANT CallsWithinLimit |
| `LatencyBeginsWithCall` | latency is end to end (`docs/architecture.md:20`) | it is measured from the time at which the proxy began to wait for the call; the budget window and the time of the row come from the same stamp | `MCStdioProxy_traffic.cfg` with that property |
| StdioProxy's `SignalEndsProxy` | on a signal mcpscope exits cleanly (`docs/operations.md:97`) | in stdio mode it waits for the client to write or close | `MCStdioProxy_live.cfg` with that property |
| `FiltersAsStored` | filters of the list apply to the stream (`docs/architecture.md:64`) | the record of an answered call has no status yet when it is published, so a stream filtered by status shows none of them | `MCPersist_streams.cfg` with `FilterOf <- Successes` and that property |
| `ShutdownWaits` | the shutdown waits for requests in flight (`docs/operations.md`) | when the listener's goroutine is seen first, `runHTTP` waits for the child alone, and not even for it when the listener broke | `MCHttpProxy_clients.cfg` with that as its PROPERTY |
| `RuleSeesWindow` | a rule is about all traces of its window (`internal/proxy/alerts_test.go:14`) | `evaluateAlertRuleSQL` looks at the first row of statistics that are grouped by server and method: the worst for errors, the first by server, name and method for latencies | `MCAlerts_rules.cfg` with that property; for latencies also `TraceOf <- TwoMethods` and `Rules = {slow}` |
| `CommandsRun` | `--server` takes a binary or a URL, any number of times (`cmd/proxy.go:217`) | the workers of several servers get no `Stdin`, and a command's forwarder reads it | `MCServers_router.cfg` with that property |

`PairsMatch` fails as well, of `StdioProxy` in the instance of `stdio_traffic`, whose
ask has the id of a call, and of `HttpProxy` with `IdOf <- Counted`: two clients
that count their calls from one are given each other's pairs in the traces
(never each other's answers). No document says that ids are unique over
clients or over both sides, or that they are not. What the properties say of shared
ids is that no other call suffers from them (`OwnIdsPair`) and that no call is in two
traces all the same (`TracedOnce`).

Three more things the code does are excepted by the properties next to them, and
none catches them: names of servers that look like numbered ones collide
(`Lookalikes`), a rule of the engine may be silenced for good by one of its name
(`Unshadowed`), and tokens of an answer traced alone go to the default team or
to another hour. `AnsweredIsStored` is about what the docs say of every request,
that it is persisted (`docs/architecture.md`), as far as the code keeps it: when the
log or the store fails, the client gets its answer and only a warning is left, which
`internal/proxy/e2e_test.go:362` expects.

One fault is left out of the passing runs that have properties about it:
`"store"`, a store that fails while a denial is recorded, ends the client's
forwarder, against `GivesUpForCause`. Adding it to the `Faults` of
`stdio_traffic`, with that invariant, shows it, and `ForwarderGivesUpForCause`
has to assume it away; the other theorems hold with it. An SDK host whose clock is ahead makes the next cut
delete rows that are younger than the retention: `RetainedForAge` allows for as
much as the clock is ahead (`Skew`), and no document says what should happen.
`EofEndsProxy` is about a clean end: when
the client's stream breaks off inside a payload the forwarder leaves the server's
input open, and the proxy waits for a server that waits for its input.

Seen in passing and not modelled: the buckets of the latency histogram of
`/metrics` are made cumulative twice, and a value above five seconds is in none;
`handleTraceList` drops the filter by trace id; the dashboard asks for its next page with
the filter of the selected server and the offset of the unfiltered list.

## What is not modelled, and why

* Redaction, interceptor, snapshot, diff, audit export and replay are pure
  functions of documents, or sequential clients: they have no state that two
  actors share. Configuration, telemetry, the mock server and the rest of the
  command line are wiring.
* Notifications (messages without id) are forwarded and recorded alone, and take
  part in no property. JSON, wording of errors, metrics, the OpenTelemetry calls
  and logging are data or output.
* Of the HTTP API: authentication compares a constant; statistics, exports and
  single records are queries that nothing pages through. Opening and migrating the
  database is left out.
* Of the dashboard: only the reader that pages. Of the SDK: only that it reports
  once.
* Details abstracted on purpose: writes to the client never fail while the
  stdio server's forwarder runs; a channel that is full drops the record
  with only the loss counted; the tokens of a bucket are whole; the values of
  alert events are left out, their statuses are not; the delays between the
  attempts of a delivery are only time.

## Plan

Done: the budget with its abstract specification, both transports with the
tracker and the promise of a relay, publication and retention, both kinds of
alerting, the router, the limiter and the pages of the API; and a theorem for
every safety and action property and every refinement that the passing runs check.

What would come next, in order:

1. `LatencyCoversServer` for `HttpProxy`, on the lemmas of `TrackerProofs`, with the
   order of times that `LatencyIsHonest` has for the stdio proxy.
2. A bound on the events that overlapping evaluations can record of one status,
   as `OvershootBounded` is for budgets; `RepeatsOverlap` says of each which
   overlap it needs.
3. Models of what is left: the merging of live records and pages in the
   dashboard, the histogram of `/metrics`, and diff as an operator against a
   reference definition.

New proofs go into the proof modules of their components.
