---------------------------- MODULE ServersProofs ---------------------------
(***************************************************************************)
(* The ids of any number of servers with any names.                        *)
(***************************************************************************)
EXTENDS Servers, FiniteSetTheorems, SequenceTheorems, TLAPS

\* The command line never changes.
ServersType == servers \in UNION {[1 .. n -> Targets] : n \in 2 .. MaxServers}

\* Nothing changes it.
LEMMA ServersStay == Spec => []ServersType
<1>1. Init => ServersType
  BY DEF Init, ServersType
<1>2. ServersType /\ [Next]_vars => ServersType'
  BY DEF ServersType, Next, vars, Launch, CloseDashboard, Return, Signal, Listen, Fail,
         ReadStdin, Arrive, Answer, GiveUp, Finish
<1> QED BY <1>1, <1>2, PTL DEF Spec

-----------------------------------------------------------------------------
\* A command line is a sequence of targets with names.
LEMMA LineFacts ==
  ASSUME ServersType
  PROVE  /\ Len(servers) \in Nat /\ Workers(servers) = 1 .. Len(servers)
         /\ \A i \in Workers(servers) : servers[i] \in Targets /\ NameOf[servers[i]] \in Names
<1>1. PICK n \in 2 .. MaxServers : servers \in [1 .. n -> Targets]
  BY DEF ServersType
<1>2. n \in Nat /\ servers \in Seq(Targets) /\ Len(servers) = n
  BY <1>1, ServersAssumption
<1> QED BY <1>1, <1>2, ServersAssumption DEF Workers

\* The servers with a name are counted one by one.
LEMMA SeenFacts ==
  ASSUME ServersType, NEW i \in Workers(servers)
  PROVE  /\ IsFiniteSet(Seen(servers, i)) /\ Cardinality(Seen(servers, i)) \in 0 .. i - 1
         /\ (Cardinality(Seen(servers, i)) = 0 <=> Seen(servers, i) = {})
<1>1. i \in Nat /\ i >= 1
  BY LineFacts
<1>2. IsFiniteSet(1 .. i - 1) /\ Cardinality(1 .. i - 1) = i - 1
  BY <1>1, FS_Interval
<1>3. Seen(servers, i) \subseteq 1 .. i - 1
  BY DEF Seen
<1>4. IsFiniteSet(Seen(servers, i)) /\ Cardinality(Seen(servers, i)) <= i - 1
  BY <1>2, <1>3, FS_Subset
<1>5. Cardinality(Seen(servers, i)) \in Nat
  BY <1>4, FS_CardinalityType
<1> QED BY <1>1, <1>4, <1>5, FS_EmptySet

\* Of two servers with one name, the later one counts more before it.
LEMMA SeenGrows ==
  ASSUME ServersType, NEW i \in Workers(servers), NEW j \in Workers(servers), i < j,
         NameOf[servers[i]] = NameOf[servers[j]]
  PROVE  Cardinality(Seen(servers, i)) < Cardinality(Seen(servers, j))
<1>1. i \in Nat /\ j \in Nat /\ i >= 1
  BY LineFacts
<1>2. Seen(servers, i) \subseteq Seen(servers, j) /\ i \in Seen(servers, j) /\ i \notin Seen(servers, i)
  BY <1>1 DEF Seen
<1>3. IsFiniteSet(Seen(servers, j))
  BY SeenFacts
<1>4. Seen(servers, i) # Seen(servers, j)
  BY <1>2
<1> QED BY <1>2, <1>3, <1>4, FS_Subset, FS_CardinalityType, SeenFacts

\* The last number of a name tells names apart.
LEMMA LongerApart ==
  ASSUME NEW s \in Seq(Nat), NEW t \in Seq(Nat), NEW m \in Nat, NEW n \in Nat,
         Append(s, m) = Append(t, n)
  PROVE  s = t /\ m = n
<1>1. /\ Len(s) \in Nat /\ Len(t) \in Nat /\ Len(s) = Len(t)
      /\ m = n /\ \A i \in 1 .. Len(s) : s[i] = t[i]
  BY AppendProperties
<1> QED BY <1>1, SeqEqual

\* A numbered name gives away its name and its number.
LEMMA NumberedInjective ==
  ASSUME NEW x \in Names, NEW y \in Names, NEW m \in Nat, NEW n \in Nat,
         Numbered(x, m) = Numbered(y, n)
  PROVE  x = y /\ m = n
<1> DEFINE xs == x.numbers
           ys == y.numbers
<1>1. Numbered(x, m).stem = x.stem /\ Numbered(y, n).stem = y.stem
  BY DEF Numbered
<1>2. Append(xs, m) = Append(ys, n)
  BY DEF Numbered
<1>3. xs \in Seq(Nat) /\ ys \in Seq(Nat)
  BY DEF Names
<1>4. xs = ys /\ m = n
  <2> HIDE DEF xs, ys
  <2> QED BY <1>2, <1>3, LongerApart
<1> QED BY <1>1, <1>4 DEF Names

\* Two servers have two ids, whether both, one or none of them is numbered.
LEMMA OrderedIdsDiffer ==
  ASSUME ServersType, ~Lookalikes(servers),
         NEW i \in Workers(servers), NEW j \in Workers(servers), i < j
  PROVE  ServerId(servers, i) # ServerId(servers, j)
<1> DEFINE ci == Cardinality(Seen(servers, i))
           cj == Cardinality(Seen(servers, j))
           ni == NameOf[servers[i]]
           nj == NameOf[servers[j]]
<1>0. /\ ci \in Nat /\ cj \in Nat /\ ni \in Names /\ nj \in Names
      /\ ci + 1 <= Len(servers) /\ cj + 1 <= Len(servers) /\ Len(servers) \in Nat
  BY SeenFacts, LineFacts
<1>1. CASE ci = 0 /\ cj = 0
  <2>1. ni # nj
    BY <1>1, <1>0, SeenGrows
  <2> QED BY <1>1, <2>1 DEF ServerId
<1>2. CASE ci # 0 /\ cj # 0
  <2>1. ni = nj => ci < cj
    BY SeenGrows
  <2>2. ServerId(servers, i) = Numbered(ni, ci + 1) /\ ServerId(servers, j) = Numbered(nj, cj + 1)
    BY <1>2 DEF ServerId
  <2> HIDE DEF ci, cj, ni, nj
  <2> QED BY <1>0, <2>1, <2>2, NumberedInjective
<1>3. CASE ci = 0 /\ cj # 0
  <2>1. ServerId(servers, i) = ni /\ ServerId(servers, j) = Numbered(nj, cj + 1)
    BY <1>3 DEF ServerId
  <2>2. cj + 1 \in 2 .. Len(servers)
    BY <1>0, <1>3
  <2> QED BY <2>1, <2>2 DEF Lookalikes
<1>4. CASE ci # 0 /\ cj = 0
  <2>1. ServerId(servers, i) = Numbered(ni, ci + 1) /\ ServerId(servers, j) = nj
    BY <1>4 DEF ServerId
  <2>2. ci + 1 \in 2 .. Len(servers)
    BY <1>0, <1>4
  <2> QED BY <2>1, <2>2 DEF Lookalikes
<1> QED BY <1>1, <1>2, <1>3, <1>4

\* However many servers there are and whatever their names, two of them have
\* the same id only if a name looks like a numbered one.
THEOREM IdsAreApart == Spec => []IdsApart
<1>1. ServersType => IdsApart
  <2> SUFFICES ASSUME ServersType, ~Lookalikes(servers),
                      NEW i \in Workers(servers), NEW j \in Workers(servers),
                      ServerId(servers, i) = ServerId(servers, j)
               PROVE  i = j
    BY DEF IdsApart
  <2>1. i \in Nat /\ j \in Nat
    BY LineFacts
  <2> QED BY <2>1, OrderedIdsDiffer
<1> QED BY <1>1, ServersStay, PTL

-----------------------------------------------------------------------------
\* Both kinds of order in one fact.
LEMMA IdsDiffer ==
  ASSUME ServersType, ~Lookalikes(servers),
         NEW i \in Workers(servers), NEW j \in Workers(servers), i # j
  PROVE  ServerId(servers, i) # ServerId(servers, j)
<1>1. i \in Nat /\ j \in Nat
  BY LineFacts
<1>2. i < j \/ j < i
  BY <1>1
<1> QED BY <1>2, OrderedIdsDiffer

\* The map of the router has more than one entry.
LEMMA SeveralIds ==
  ASSUME ServersType, ~Lookalikes(servers)
  PROVE  Cardinality(Ids(servers)) # 1
<1> DEFINE f == [i \in Workers(servers) |-> ServerId(servers, i)]
<1>1. Workers(servers) = 1 .. Len(servers) /\ Len(servers) \in Nat /\ Len(servers) >= 2
  <2>1. PICK n \in 2 .. MaxServers : servers \in [1 .. n -> Targets]
    BY DEF ServersType
  <2>2. n \in Nat /\ n >= 2 /\ servers \in Seq(Targets) /\ Len(servers) = n
    BY <2>1, ServersAssumption
  <2> QED BY <2>2 DEF Workers
<1>2. IsFiniteSet(Workers(servers))
  BY <1>1, FS_Interval
<1>3. f \in Surjection(Workers(servers), Ids(servers))
  BY DEF Surjection, Ids
<1>4. IsFiniteSet(Ids(servers))
  BY <1>2, <1>3, FS_Surjection
<1>5. 1 \in Workers(servers) /\ 2 \in Workers(servers)
  BY <1>1
<1>6. ServerId(servers, 1) # ServerId(servers, 2)
  BY <1>5, IdsDiffer
<1>7. ServerId(servers, 1) \in Ids(servers) /\ ServerId(servers, 2) \in Ids(servers)
  BY <1>5 DEF Ids
<1> QED BY <1>4, <1>6, <1>7, FS_Singleton

\* An id leads to the one server that has it, and no id to none.
LEMMA RouteFacts ==
  ASSUME ServersType, ~Lookalikes(servers), NEW id, Route(servers, id) # 0,
         NEW i \in Workers(servers)
  PROVE  id = ServerId(servers, i) <=> Route(servers, id) = i
<1>1. CASE id \notin Ids(servers)
  <2>1. Cardinality(Ids(servers)) # 1
    BY SeveralIds
  <2> QED BY <1>1, <2>1 DEF Route
<1>2. CASE id \in Ids(servers)
  <2>1. PICK j \in Workers(servers) : id = ServerId(servers, j)
    BY <1>2 DEF Ids
  <2>2. {k \in Workers(servers) : ServerId(servers, k) = id} = {j}
    BY <2>1, IdsDiffer
  <2>3. j \in Nat
    BY LineFacts
  <2>4. Max({j}) = j
    BY <2>3 DEF Max
  <2>5. Route(servers, id) = j
    BY <1>2, <2>2, <2>4 DEF Route
  <2> QED BY <2>1, <2>5, IdsDiffer
<1> QED BY <1>1, <1>2

\* A request on its way, or answered, is where its id led.
RoutesTaken ==
  /\ post \in [Requests -> {"new", "sent", "done"}]
  /\ asked = [r \in Requests |-> asked[r]]
  /\ to = [r \in Requests |-> to[r]]
  /\ got = [r \in Requests |-> got[r]]
  /\ \A r \in Requests :
       post[r] = "sent" \/ got[r] = "answer" =>
         to[r] # 0 /\ to[r] = Route(servers, asked[r])

\* Only Arrive chooses a worker, and only Answer answers.
LEMMA RoutesStay == Spec => []RoutesTaken
<1>1. Init => RoutesTaken
  BY DEF Init, RoutesTaken
<1>2. RoutesTaken /\ [Next]_vars => RoutesTaken'
  <2> SUFFICES ASSUME RoutesTaken, [Next]_vars
               PROVE  RoutesTaken'
    OBVIOUS
  <2>1. ASSUME NEW r \in Requests, Arrive(r)
        PROVE  RoutesTaken'
    <3>1. PICK id \in Ids(servers) \cup {NoServer} :
            /\ asked' = [asked EXCEPT ![r] = id]
            /\ to' = [to EXCEPT ![r] = Route(servers, id)]
            /\ IF Route(servers, id) = 0
               THEN post' = [post EXCEPT ![r] = "done"] /\ got' = [got EXCEPT ![r] = "unknown"]
               ELSE post' = [post EXCEPT ![r] = "sent"] /\ UNCHANGED got
      BY <2>1 DEF Arrive
    <3>2. UNCHANGED servers
      BY <2>1 DEF Arrive
    <3> QED BY <3>1, <3>2 DEF RoutesTaken
  <2>2. ASSUME NEW r \in Requests, Answer(r) \/ GiveUp(r)
        PROVE  RoutesTaken'
    BY <2>2 DEF RoutesTaken, Answer, GiveUp, Finish
  <2>3. CASE UNCHANGED <<servers, requests>>
    BY <2>3 DEF RoutesTaken, requests
  <2> QED BY <2>1, <2>2, <2>3
       DEF Next, vars, Launch, CloseDashboard, Return, Signal, Listen, Fail, ReadStdin
<1> QED BY <1>1, <1>2, PTL DEF Spec

\* However many servers and requests there are, an answer comes from the server
\* the request asked for, unless names look alike.
THEOREM RequestsAreRoutedRight == Spec => []RoutedRight
<1>1. ServersType /\ RoutesTaken => RoutedRight
  BY RouteFacts DEF RoutesTaken, RoutedRight
<1> QED BY <1>1, ServersStay, RoutesStay, PTL
=============================================================================
