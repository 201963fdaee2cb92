------------------------------ MODULE Limiter -------------------------------
(***************************************************************************)
(* The limit on requests to /api/ (rateLimitAPI in internal/proxy/proxy.go): *)
(* a bucket of tokens for each host, refilled by the time since the last   *)
(* request.  A request takes its time before it takes the mutex, so times  *)
(* reach a bucket out of order.  Tokens are whole here: the clock counts   *)
(* units in which Rate tokens come.                                        *)
(***************************************************************************)
EXTENDS Integers

CONSTANTS
  Callers,   \* those who send requests, one at a time
  Hosts,
  HostOf,    \* the host of a caller (clientIP)
  Burst,     \* capacity
  Rate,      \* refillRate
  MaxTime    \* bound on the clock

\* Assumed where the module is used (Api).
LimiterAssumption ==
  /\ \A c \in Callers : HostOf[c] \in Hosts
  /\ Burst \in Nat \ {0} /\ Rate \in Nat /\ MaxTime \in Nat

VARIABLES
  clock,
  line,      \* what each caller's request is at
  stamp,     \* now, as the request read it
  bucket,    \* tokens and lastRefill of each host, Fresh when it has none
  since,     \* history: the time with which a bucket was made
  admitted   \* history: the requests of each host that were let through

limiterVars == <<line, stamp, bucket, since, admitted>>

Fresh   == [tokens |-> Burst, lastRefill |-> -1]
Buckets == [tokens : Int, lastRefill : -1 .. MaxTime]

LimiterInit ==
  /\ line = [c \in Callers |-> "idle"]
  /\ stamp = [c \in Callers |-> 0]
  /\ bucket = [h \in Hosts |-> Fresh]
  /\ since = [h \in Hosts |-> 0]
  /\ admitted = [h \in Hosts |-> 0]

-----------------------------------------------------------------------------
\* A request reads the clock.
Stamp(c) ==
  /\ line[c] = "idle"
  /\ line' = [line EXCEPT ![c] = "lock"]
  /\ stamp' = [stamp EXCEPT ![c] = clock]
  /\ UNCHANGED <<bucket, since, admitted>>

AtMost(m, n) == IF n < m THEN n ELSE m

\* Faulty variant of Refilled: time never goes back, but lastRefill does.
RefilledClamped(b, now) ==
  AtMost(Burst, b.tokens + Rate * (IF now < b.lastRefill THEN 0 ELSE now - b.lastRefill))

\* What the bucket holds at the time now, less than before if now is earlier.
Refilled(b, now) ==
  IF b.lastRefill = -1 THEN Burst ELSE AtMost(Burst, b.tokens + Rate * (now - b.lastRefill))

\* Under the mutex the bucket is made or refilled, and pays for the request
\* if it can.
Take(c) ==
  LET h    == HostOf[c]
      left == Refilled(bucket[h], stamp[c])
  IN  /\ line[c] = "lock"
      /\ since' = [since EXCEPT ![h] = IF bucket[h].lastRefill = -1 THEN stamp[c] ELSE @]
      /\ IF left < 1
         THEN /\ bucket' = [bucket EXCEPT ![h] = [tokens |-> left, lastRefill |-> stamp[c]]]
              /\ line' = [line EXCEPT ![c] = "refused"]
              /\ UNCHANGED admitted
         ELSE /\ bucket' = [bucket EXCEPT ![h] = [tokens |-> left - 1, lastRefill |-> stamp[c]]]
              /\ line' = [line EXCEPT ![c] = "admitted"]
              /\ admitted' = [admitted EXCEPT ![h] = @ + 1]
      /\ UNCHANGED stamp

\* The handler returns, or the client was told "rate limit exceeded".
Served(c) ==
  /\ line[c] \in {"admitted", "refused"}
  /\ line' = [line EXCEPT ![c] = "idle"]
  /\ UNCHANGED <<stamp, bucket, since, admitted>>

Tick ==
  /\ clock < MaxTime
  /\ clock' = clock + 1
  /\ UNCHANGED limiterVars

Init == clock = 0 /\ LimiterInit

Next ==
  \/ (\E c \in Callers : Stamp(c) \/ Take(c) \/ Served(c)) /\ UNCHANGED clock
  \/ Tick

Spec == Init /\ [][Next]_<<clock, limiterVars>>

-----------------------------------------------------------------------------
LimiterTypeOK ==
  /\ clock \in 0 .. MaxTime
  /\ line \in [Callers -> {"idle", "lock", "admitted", "refused"}]
  /\ stamp \in [Callers -> 0 .. MaxTime]
  /\ bucket \in [Hosts -> Buckets]
  /\ since \in [Hosts -> 0 .. MaxTime]
  /\ admitted \in [Hosts -> Nat]

\* Since its first request a host was let through at most Burst times, and
\* Rate times for every unit of time, in whatever order the times of its
\* requests reach the bucket.
AdmissionBounded ==
  \A h \in Hosts :
    bucket[h].lastRefill # -1 => admitted[h] <= Burst + Rate * (clock - since[h])
=============================================================================
