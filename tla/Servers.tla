------------------------------- MODULE Servers ------------------------------
(***************************************************************************)
(* One proxy for several MCP servers (runMultiServerProxy in cmd/proxy.go): *)
(* the ids and ports of the workers, the router in front of them, and how  *)
(* the program ends.  What a worker does with a call is HttpProxy's part;  *)
(* here it answers or it does not.                                         *)
(***************************************************************************)
EXTENDS Integers, Sequences, FiniteSets, FiniteSetsExt

CONSTANTS
  Targets,     \* the values --server may have
  IsUrl,       \* whether one is a URL, or a command
  Stems,       \* names without the numbers at their end
  NameOf,      \* the name of a target, sanitized: its host and port, or its command
  MaxServers,  \* bound on the number of servers
  BasePort, DashboardPort,
  LastPort,    \* 65535
  Requests,    \* the requests to the router
  NoServer     \* no server_id, or one that is not a worker's

\* "a-2" is [stem |-> a, numbers |-> <<2>>].
Names == [stem : Stems, numbers : Seq(Nat)]

ASSUME ServersAssumption ==
  /\ IsUrl \in [Targets -> BOOLEAN]
  /\ NameOf \in [Targets -> Names]
  /\ MaxServers \in Nat \ {0, 1}
  /\ BasePort \in Nat /\ DashboardPort \in Nat /\ LastPort \in Nat
  /\ NoServer \notin Names

VARIABLES
  servers,    \* the targets, in the order of the command line
  main,       \* the line of runMultiServerProxy
  workers,    \* what each worker does
  cancelled,  \* the context is cancelled
  dashboard,  \* the dashboard and the router accept requests
  post,       \* the line of each request's handler
  asked,      \* its server_id
  to,         \* the worker it was sent to
  got         \* how it was answered

requests == <<post, asked, to, got>>
vars     == <<servers, main, workers, cancelled, dashboard, requests>>

-----------------------------------------------------------------------------
(* Ids, ports and routes. *)

Workers(s) == 1 .. Len(s)

Numbered(name, n) == [stem |-> name.stem, numbers |-> Append(name.numbers, n)]

\* The servers before i with the name of i: seen[base] in uniqueServerID.
Seen(s, i) == {j \in 1 .. i - 1 : NameOf[s[j]] = NameOf[s[i]]}

\* Faulty variant of ServerId: the names are not counted.
ServerIdUncounted(s, i) == NameOf[s[i]]

\* uniqueServerID: the second server of a name is "name-2".
ServerId(s, i) ==
  LET count == Cardinality(Seen(s, i))
  IN  IF count = 0 THEN NameOf[s[i]] ELSE Numbered(NameOf[s[i]], count + 1)

Ids(s) == {ServerId(s, i) : i \in Workers(s)}

Port(i) == BasePort + i

\* allocateWorkerPorts returns an error otherwise.
PortsFit(s) == \A i \in Workers(s) : Port(i) \in 1 .. LastPort /\ Port(i) # DashboardPort

\* Faulty variant of Route: requests without an id go to the first worker.
RouteDefault(s, id) ==
  IF id \in Ids(s) THEN Max({i \in Workers(s) : ServerId(s, i) = id}) ELSE 1

\* buildProxyRouter: of the workers with one id the last is in the map.  A
\* request without an id goes to the first worker if the map has one entry.
Route(s, id) ==
  CASE id \in Ids(s) -> Max({i \in Workers(s) : ServerId(s, i) = id})
    [] id \notin Ids(s) /\ Cardinality(Ids(s)) = 1 -> 1
    [] OTHER -> 0

\* A name that looks like the number another name would get.
Lookalikes(s) ==
  \E i, j \in Workers(s) : \E n \in 2 .. Len(s) : NameOf[s[i]] = Numbered(NameOf[s[j]], n)

-----------------------------------------------------------------------------
Mains   == {"deploy", "running", "failed", "returned", "crashed"}
Gone    == main \in {"failed", "returned", "crashed"}

Init ==
  /\ servers \in UNION {[1 .. n -> Targets] : n \in 2 .. MaxServers}
  /\ main = "deploy"
  /\ workers = [i \in Workers(servers) |-> "off"]
  /\ cancelled = FALSE /\ dashboard = FALSE
  /\ post = [r \in Requests |-> "new"]
  /\ asked = [r \in Requests |-> NoServer]
  /\ to = [r \in Requests |-> 0]
  /\ got = [r \in Requests |-> "nothing"]

\* The deployments are computed and the dashboard starts; its port may be taken.
Launch ==
  /\ main = "deploy"
  /\ \/ /\ PortsFit(servers)
        /\ main' = "running" /\ dashboard' = TRUE
        /\ workers' = [i \in Workers(servers) |-> "starting"]
     \/ main' = "failed" /\ UNCHANGED <<dashboard, workers>>
  /\ UNCHANGED <<servers, cancelled, requests>>

WorkerGoes(i, from, dest) ==
  /\ main = "running" /\ workers[i] = from
  /\ workers' = [workers EXCEPT ![i] = dest]

\* A worker listens on its port, if that is free.
Listen(i) ==
  /\ WorkerGoes(i, "starting", "serving") \/ WorkerGoes(i, "starting", "ended")
  /\ UNCHANGED <<servers, main, cancelled, dashboard, requests>>

\* A worker ends: its command does not start, its HTTP server fails, or it
\* notices that the context is cancelled, which one blocked in a read does not.
Fail(i) ==
  /\ WorkerGoes(i, "serving", "ended")
  /\ UNCHANGED <<servers, main, cancelled, dashboard, requests>>

\* The forwarder of a command reads from cfg.Stdin, which is nil.
ReadStdin(i) ==
  /\ main = "running" /\ workers[i] = "serving" /\ ~IsUrl[servers[i]]
  /\ main' = "crashed" /\ dashboard' = FALSE
  /\ UNCHANGED <<servers, workers, cancelled, requests>>

\* The dashboard's server is shut down when the context is cancelled.
CloseDashboard ==
  /\ main = "running" /\ cancelled /\ dashboard
  /\ dashboard' = FALSE
  /\ UNCHANGED <<servers, main, workers, cancelled, requests>>

\* Faulty variants of Return: ends without an error do not count; it waits for
\* all workers.
ReturnOnError ==
  /\ main = "running" /\ ~cancelled
  /\ \E i \in Workers(servers) : workers[i] = "ended"
  /\ main' = "returned" /\ dashboard' = FALSE
  /\ UNCHANGED <<servers, workers, cancelled, requests>>

ReturnAll ==
  /\ main = "running" /\ ~dashboard /\ \A i \in Workers(servers) : workers[i] = "ended"
  /\ main' = "returned" /\ dashboard' = FALSE
  /\ UNCHANGED <<servers, workers, cancelled, requests>>

\* return <-errCh: the first of them ends the program, and the others with it.
Return ==
  /\ main = "running"
  /\ ~dashboard \/ \E i \in Workers(servers) : workers[i] = "ended"
  /\ main' = "returned" /\ dashboard' = FALSE
  /\ UNCHANGED <<servers, workers, cancelled, requests>>

Signal ==
  /\ ~cancelled /\ ~Gone
  /\ cancelled' = TRUE
  /\ UNCHANGED <<servers, main, workers, dashboard, requests>>

-----------------------------------------------------------------------------
(* The handler of buildProxyRouter. *)

\* A request arrives with any server_id and is refused or sent on.
Arrive(r) ==
  /\ post[r] = "new" /\ dashboard /\ main = "running"
  /\ \E id \in Ids(servers) \cup {NoServer} :
       /\ asked' = [asked EXCEPT ![r] = id]
       /\ to' = [to EXCEPT ![r] = Route(servers, id)]
       /\ IF Route(servers, id) = 0
          THEN post' = [post EXCEPT ![r] = "done"] /\ got' = [got EXCEPT ![r] = "unknown"]
          ELSE post' = [post EXCEPT ![r] = "sent"] /\ UNCHANGED got
  /\ UNCHANGED <<servers, main, workers, cancelled, dashboard>>

Finish(r, how) ==
  /\ post[r] = "sent" /\ main = "running"
  /\ post' = [post EXCEPT ![r] = "done"] /\ got' = [got EXCEPT ![r] = how]
  /\ UNCHANGED <<servers, main, workers, cancelled, dashboard, asked, to>>

\* A worker answers; that of a command takes no requests.
Answer(r) ==
  /\ to[r] # 0 /\ workers[to[r]] = "serving"
  /\ Finish(r, IF IsUrl[servers[to[r]]] THEN "answer" ELSE "refused")

\* Faulty variant of GiveUp: no timeout.
GiveUpIfDown(r) == to[r] # 0 /\ workers[to[r]] # "serving" /\ Finish(r, "badGateway")

\* The worker is not there, or the client's timeout of 30 seconds ends it.
GiveUp(r) == Finish(r, "badGateway")

-----------------------------------------------------------------------------
Next ==
  \/ Launch \/ CloseDashboard \/ Return \/ Signal
  \/ \E i \in Workers(servers) : Listen(i) \/ Fail(i) \/ ReadStdin(i)
  \/ \E r \in Requests : Arrive(r) \/ Answer(r) \/ GiveUp(r)

Spec == Init /\ [][Next]_vars

\* Goroutines run and timeouts end waits.  No worker has to end, not even at a
\* signal.
FairSpec ==
  /\ Spec
  /\ WF_vars(Launch) /\ WF_vars(CloseDashboard) /\ WF_vars(Return)
  /\ \A i \in 1 .. MaxServers : WF_vars(i \in Workers(servers) /\ Listen(i))
  /\ \A r \in Requests : WF_vars(GiveUp(r))

-----------------------------------------------------------------------------
\* Every variable has its type, and a request that was sent has a worker.
TypeOK ==
  /\ servers \in Seq(Targets) /\ Len(servers) \in 2 .. MaxServers
  /\ main \in Mains
  /\ workers \in [Workers(servers) -> {"off", "starting", "serving", "ended"}]
  /\ cancelled \in BOOLEAN /\ dashboard \in BOOLEAN
  /\ post \in [Requests -> {"new", "sent", "done"}]
  /\ \A r \in Requests : asked[r] \in Ids(servers) \cup {NoServer}
  /\ to \in [Requests -> 0 .. Len(servers)]
  /\ got \in [Requests -> {"nothing", "unknown", "answer", "refused", "badGateway"}]
  /\ \A r \in Requests : post[r] = "sent" => to[r] # 0

\* Two servers have the same id only if a name looks like a numbered one.
IdsApart ==
  Lookalikes(servers) \/
    \A i, j \in Workers(servers) : ServerId(servers, i) = ServerId(servers, j) => i = j

\* A request is answered by the server it asked for, and one that asked for none
\* by nobody, unless names look alike.
RoutedRight ==
  \A r \in Requests :
    got[r] = "answer" =>
      \/ Lookalikes(servers)
      \/ \A i \in Workers(servers) : asked[r] = ServerId(servers, i) <=> to[r] = i

\* A worker that ended takes the whole program with it.
FailureEndsAll == (\E i \in Workers(servers) : workers[i] = "ended") ~> Gone

\* A signal ends the program.
SignalEndsAll == cancelled ~> Gone

\* The router answers each request while the program runs, whatever its
\* worker does.
PostAnswered == \A r \in Requests : post[r] = "sent" ~> (post[r] = "done" \/ Gone)

\* The help of --server: "Path to the MCP server binary or HTTP URL. Repeat for
\* multiple servers".
CommandsRun == main # "crashed"
=============================================================================
