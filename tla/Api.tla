-------------------------------- MODULE Api ---------------------------------
(***************************************************************************)
(* The HTTP API over the table of traces (newHTTPHandler and its handlers  *)
(* in internal/proxy/proxy.go, traceQuery in internal/store/sqlite.go):    *)
(* clients page through /api/traces and SDKs report to /api/ingest while   *)
(* forwarders insert and cut the rows (Persist).  All these requests pass  *)
(* the limiter first (Limiter).  A page is one SELECT; a client takes the  *)
(* offset of the next one from the answer (handleTraceList, and loadTraces *)
(* and loadMoreTraces in dashboard/src/App.tsx).                           *)
(***************************************************************************)
EXTENDS Persist

CONSTANTS
  Readers,    \* clients that page through the list
  WantedBy,   \* the status each asks for, Unset for any
  PageSize,   \* limit
  Hosts, HostOf, Burst, Rate   \* see Limiter

\* The records that SDKs report.
Reported == {r \in Records : KindOf[r] = "sdk"}

VARIABLES
  line, stamp, bucket, since, admitted,  \* see Limiter
  reading,   \* how far each reader is
  offset,    \* the offset of its next page
  seen,      \* the rows it was given
  began      \* history: the rows in the table at its first page

L == INSTANCE Limiter WITH Callers <- Readers \cup Reported

ASSUME ApiAssumption ==
  /\ Readers \cap Records = {}
  /\ WantedBy \in [Readers -> Statuses \cup {Unset}]
  /\ L!LimiterAssumption
  /\ PageSize \in Nat \ {0}

limit   == <<line, stamp, bucket, since, admitted>>
reader  == <<reading, offset, seen, began>>
apiVars == <<vars, limit, reader>>

-----------------------------------------------------------------------------
(* The SELECT of a page. *)

\* The rows a reader asks for (the WHERE clause of traceQuery).
Matching(d) == {r \in rows : WantedBy[d] \in {Unset, StoredStatus(r)}}

\* The n newest of S (ORDER BY created_at DESC LIMIT n): the statement leaves
\* the order of rows with one time open.
NewestOf(n, S) ==
  {top \in kSubset(Min({n, Cardinality(S)}), S) :
     \A x \in top, y \in S \ top : created[x] >= created[y]}

\* The pages an offset may stand for, without the row that is asked for only
\* to know whether there are more.
PagesAt(d, from) ==
  {page \in SUBSET Matching(d) :
     \E top \in NewestOf(from + PageSize, Matching(d)), before \in NewestOf(from, Matching(d)) :
       before \subseteq top /\ page = top \ before}

HasMore(d, from) == Cardinality(Matching(d)) > from + PageSize

\* Faulty variant of NextOffset: the row that was only looked at counts.
NextOffsetPeeked(d, from, page) == from + Cardinality(page) + (IF HasMore(d, from) THEN 1 ELSE 0)

\* next_offset
NextOffset(d, from, page) == from + Cardinality(page)

-----------------------------------------------------------------------------
ApiInit ==
  /\ Init /\ L!LimiterInit
  /\ reading = [d \in Readers |-> "first"]
  /\ offset = [d \in Readers |-> 0]
  /\ seen = [d \in Readers |-> {}]
  /\ began = [d \in Readers |-> {}]

\* A request that the limiter let through is a page.
Read(d) ==
  /\ line[d] = "admitted" /\ L!Served(d)
  /\ \E page \in PagesAt(d, offset[d]) :
       /\ seen' = [seen EXCEPT ![d] = @ \cup page]
       /\ offset' = [offset EXCEPT ![d] = NextOffset(d, @, page)]
  /\ reading' = [reading EXCEPT ![d] = IF HasMore(d, offset[d]) THEN "more" ELSE "end"]
  /\ began' = IF reading[d] = "first" THEN [began EXCEPT ![d] = rows] ELSE began
  /\ UNCHANGED vars

\* It was refused, or the query failed.  The reader may ask again.
ReadFails(d) ==
  /\ line[d] = "refused" \/ (line[d] = "admitted" /\ StoreFails)
  /\ L!Served(d)
  /\ UNCHANGED <<vars, reader>>

Ask(d) ==
  /\ reading[d] # "end" /\ L!Stamp(d)
  /\ UNCHANGED <<vars, reader>>

\* An SDK posts a record, once; if the limiter refuses it, it is lost.
Report(r) ==
  /\ pc[r] = "new" /\ L!Stamp(r)
  /\ UNCHANGED <<vars, reader>>

\* rateLimitAPI, for either.
Pass(c) == L!Take(c) /\ UNCHANGED <<vars, reader>>

\* A record is made by a forwarder, or by handleIngestTrace.
Make(r) ==
  /\ r \in Reported => line[r] = "admitted"
  /\ \E t \in Time : Arrive(r, t)
  /\ UNCHANGED <<limit, reader>>

ApiNext ==
  \/ \E d \in Readers : Ask(d) \/ Read(d) \/ ReadFails(d)
  \/ \E r \in Reported : Report(r)
  \/ \E c \in Readers \cup Reported : Pass(c)
  \/ \E r \in Records : Make(r) \/ (Work(r) /\ UNCHANGED <<limit, reader>>)
  \/ Tick /\ UNCHANGED <<limit, reader>>

ApiSpec == ApiInit /\ [][ApiNext]_apiVars

-----------------------------------------------------------------------------
\* The only record made at its time: nothing but the time orders rows.
Untied(x) == \A y \in Records \ {x} : pc[y] # "new" => created[y] # created[x]

\* A reader that came to the end was given every row that was there from its
\* first page on and still is, though rows were inserted and cut between its
\* pages and the offsets moved: rows come before it only at the front, and go
\* only at the back.
PagingMissesNone ==
  \A d \in Readers : reading[d] = "end" =>
    \A x \in began[d] \cap Matching(d) : Untied(x) => x \in seen[d]

\* See Limiter; readers and SDKs of one host share its tokens.
AdmissionBounded == L!AdmissionBounded
=============================================================================
