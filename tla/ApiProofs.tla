------------------------------ MODULE ApiProofs ------------------------------
(***************************************************************************)
(* Theorems about the records on their way to the event streams and to the *)
(* table (EventHub, Persist) and about the requests that read the table    *)
(* and add to it (Api, with Limiter), for every number of records,         *)
(* subscribers, rows, readers and hosts.                                   *)
(***************************************************************************)
EXTENDS Api, FiniteSetTheorems, SequenceTheorems, TLAPS

-----------------------------------------------------------------------------
\* A channel that is appended to is longer by one and holds one record more.
LEMMA AppendedChannel ==
  ASSUME NEW S, NEW q \in Seq(S), NEW e \in S
  PROVE  /\ Append(q, e) \in Seq(S) /\ Len(Append(q, e)) = Len(q) + 1 /\ Len(q) \in Nat
         /\ Range(q) \subseteq Range(Append(q, e)) /\ e \in Range(Append(q, e))
<1>1. /\ Append(q, e) \in Seq(S) /\ Len(Append(q, e)) = Len(q) + 1 /\ Len(q) \in Nat
      /\ DOMAIN q = 1 .. Len(q) /\ DOMAIN Append(q, e) = 1 .. Len(q) + 1
      /\ \A i \in 1 .. Len(q) : Append(q, e)[i] = q[i]
      /\ Append(q, e)[Len(q) + 1] = e
  OBVIOUS
<1>2. Range(q) \subseteq Range(Append(q, e))
  BY <1>1 DEF Range
<1>3. e \in Range(Append(q, e))
  BY <1>1 DEF Range
<1> QED
  BY <1>1, <1>2, <1>3

\* What was in a channel is still there, or was read.
LEMMA ReadChannel ==
  ASSUME NEW S, NEW q \in Seq(S), q # <<>>
  PROVE  Range(q) \subseteq Range(Tail(q)) \cup {Head(q)}
<1>1. /\ DOMAIN q = 1 .. Len(q) /\ Len(q) \in Nat \ {0} /\ DOMAIN Tail(q) = 1 .. Len(q) - 1
      /\ \A i \in 1 .. Len(q) - 1 : Tail(q)[i] = q[i + 1]
      /\ Head(q) = q[1]
  BY EmptySeq, HeadTailProperties, LenProperties
<1>2. ASSUME NEW i \in 1 .. Len(q)
      PROVE  q[i] \in Range(Tail(q)) \cup {Head(q)}
  <2>1. CASE i = 1
    BY <1>1, <2>1
  <2>2. CASE i # 1
    <3>1. i - 1 \in 1 .. Len(q) - 1 /\ (i - 1) + 1 = i
      BY <1>1, <2>2
    <3>2. Tail(q)[i - 1] = q[i]
      BY <1>1, <3>1
    <3> QED
      BY <1>1, <3>1, <3>2 DEF Range
  <2> QED
    BY <2>1, <2>2
<1> QED
  BY <1>1, <1>2 DEF Range

-----------------------------------------------------------------------------
\* A hub step of a subscriber preserves the hub's types.
LEMMA StreamTypes ==
  ASSUME HubTypeOK, HubAssumption, NEW s \in Subscribers, Stream(s)
  PROVE  HubTypeOK'
<1>1. CASE Subscribe(s)
  BY <1>1 DEF HubTypeOK, Subscribe
<1>2. CASE Receive(s)
  <2>1. Head(chan[s]) \in Records /\ Tail(chan[s]) \in Seq(Records)
        /\ Len(Tail(chan[s])) <= Capacity
    <3>1. /\ chan[s] \in Seq(Records) /\ chan[s] # <<>>
          /\ Len(chan[s]) <= Capacity /\ Capacity \in Nat
      BY <1>2 DEF HubTypeOK, HubAssumption, Receive
    <3>2. Head(chan[s]) \in Records /\ Tail(chan[s]) \in Seq(Records)
          /\ Len(Tail(chan[s])) = Len(chan[s]) - 1 /\ Len(chan[s]) \in Nat
      BY <3>1
    <3> QED
      BY <3>1, <3>2
  <2>2. chan' \in [Subscribers -> Seq(Records)]
        /\ \A t \in Subscribers : Len(chan'[t]) <= Capacity
    BY <1>2, <2>1 DEF HubTypeOK, Receive
  <2>3. taken' \in [Subscribers -> SUBSET Records] /\ shown' \in [Subscribers -> SUBSET Records]
    BY <1>2, <2>1 DEF HubTypeOK, Receive
  <2> QED
    BY <1>2, <2>2, <2>3 DEF HubTypeOK, Receive
<1>3. CASE Unlist(s)
  BY <1>3 DEF HubTypeOK, Unlist
<1>4. CASE Close(s)
  BY <1>4 DEF HubTypeOK, Close
<1> QED
  BY <1>1, <1>2, <1>3, <1>4 DEF Stream

\* So does the send of a publisher.
LEMMA SendTypes ==
  ASSUME HubTypeOK, HubAssumption, NEW r \in Records, NEW s \in Subscribers, Send(r, s)
  PROVE  HubTypeOK'
<1>1. todo' \in [Records -> SUBSET Subscribers] /\ overrun' \subseteq Subscribers
  BY DEF HubTypeOK, Send
<1>2. chan' \in [Subscribers -> Seq(Records)] /\ \A t \in Subscribers : Len(chan'[t]) <= Capacity
  <2>1. CASE Len(chan[s]) < Capacity /\ chan' = [chan EXCEPT ![s] = Append(@, r)]
    <3>1. Append(chan[s], r) \in Seq(Records) /\ Len(Append(chan[s], r)) <= Capacity
      <4>1. chan[s] \in Seq(Records) /\ Capacity \in Nat
        BY DEF HubTypeOK, HubAssumption
      <4>2. /\ Append(chan[s], r) \in Seq(Records)
            /\ Len(Append(chan[s], r)) = Len(chan[s]) + 1 /\ Len(chan[s]) \in Nat
        BY <4>1, AppendedChannel
      <4> QED
        BY <2>1, <4>1, <4>2
    <3> QED
      BY <2>1, <3>1 DEF HubTypeOK
  <2>2. CASE UNCHANGED chan
    BY <2>2 DEF HubTypeOK
  <2> QED
    BY <2>1, <2>2 DEF Send
<1> QED
  BY <1>1, <1>2 DEF HubTypeOK, Send

\* The rows a step leaves are rows there were, or the record it inserts.
LEMMA TypeStep ==
  ASSUME TypeOK, HubAssumption, PersistAssumption, [Next]_vars
  PROVE  TypeOK'
<1> USE DEF Steps, Goto
<1>1. ASSUME NEW r \in Records, NEW s \in Subscribers, Send(r, s),
             UNCHANGED <<clock, pc, created, rows>>
      PROVE  TypeOK'
  <2>1. HubTypeOK'
    BY <1>1, SendTypes DEF TypeOK
  <2> QED
    BY <1>1, <2>1 DEF TypeOK
<1>2. ASSUME NEW s \in Subscribers, Stream(s), UNCHANGED <<clock, pc, created, rows>>
      PROVE  TypeOK'
  <2>1. HubTypeOK'
    BY <1>2, StreamTypes DEF TypeOK
  <2> QED
    BY <1>2, <2>1 DEF TypeOK
<1>3. ASSUME NEW r \in Records, NEW t \in Time, Arrive(r, t)
      PROVE  TypeOK'
  <2>1. HubTypeOK'
    BY <1>3 DEF TypeOK, HubTypeOK, Arrive, Publish
  <2> QED
    BY <1>3, <2>1 DEF TypeOK, Arrive
<1>4. ASSUME UNCHANGED hubVars
      PROVE  TypeOK => HubTypeOK'
  BY <1>4 DEF TypeOK, HubTypeOK, hubVars
<1>5. ASSUME NEW r \in Records, Published(r) \/ Insert(r)
      PROVE  TypeOK'
  BY <1>4, <1>5 DEF TypeOK, Published, Insert
<1>6. ASSUME NEW r \in Records, DeleteOlderThan(r)
      PROVE  TypeOK'
  BY <1>4, <1>6 DEF TypeOK, DeleteOlderThan
<1>7. ASSUME NEW r \in Records, TrimToCount(r)
      PROVE  TypeOK'
  <2>1. rows' \subseteq rows
    BY <1>7 DEF TrimToCount, Newest, kSubset
  <2> QED
    BY <1>4, <1>7, <2>1 DEF TypeOK, TrimToCount
<1>8. CASE Tick
  <2>1. HubTypeOK'
    BY <1>4, <1>8 DEF TypeOK, Tick
  <2>2. clock' \in Time
    BY <1>8 DEF TypeOK, Tick, Time, PersistAssumption
  <2> QED
    BY <1>8, <2>1, <2>2 DEF TypeOK, Tick
<1>9. CASE UNCHANGED vars
  BY <1>4, <1>9 DEF TypeOK, vars
<1>10. ASSUME NEW r \in Records, Work(r)
       PROVE  TypeOK'
  BY <1>1, <1>5, <1>6, <1>7, <1>10 DEF Work
<1> QED
  BY <1>2, <1>3, <1>8, <1>9, <1>10 DEF Next

\* The hub begins with empty channels.
LEMMA InitTypes == Init => TypeOK
<1> SUFFICES ASSUME Init PROVE TypeOK
  OBVIOUS
<1>1. HubTypeOK
  <2>1. \A s \in Subscribers : chan[s] = <<>>
    BY DEF Init, HubInit
  <2>2. <<>> \in Seq(Records) /\ Len(<<>>) = 0 /\ 0 <= Capacity
    BY HubAssumption DEF HubAssumption
  <2>3. chan \in [Subscribers -> Seq(Records)]
    BY <2>2 DEF Init, HubInit
  <2>4. \A s \in Subscribers : Len(chan[s]) <= Capacity
    BY <2>1, <2>2
  <2> QED
    BY <2>3, <2>4 DEF Init, HubInit, HubTypeOK
<1>2. 0 \in Time
  BY PersistAssumption DEF PersistAssumption, Time
<1> QED
  BY <1>1, <1>2 DEF Init, TypeOK, Steps

\* Every variable keeps its type, whatever the number of records and streams.
THEOREM TypeCorrect == Spec => []TypeOK
<1>1. Init => TypeOK
  BY InitTypes
<1>2. TypeOK /\ [Next]_vars => TypeOK'
  BY TypeStep, HubAssumption, PersistAssumption
<1> QED
  BY <1>1, <1>2, PTL DEF Spec

-----------------------------------------------------------------------------
\* The channels a publisher has still to send to are listed, the listed ones
\* are open, and only a connection that is gone has its channel closed.
HubInv ==
  /\ \A r \in Records : todo[r] \subseteq listed
  /\ \A s \in listed : sub[s] = "open"
  /\ \A s \in closed : sub[s] = "gone"

\* Nobody can be struck off, and so nobody closed, under a publisher.
LEMMA HubStep ==
  ASSUME TypeOK, HubInv, [Next]_vars
  PROVE  HubInv'
<1> USE DEF HubInv
<1>1. ASSUME NEW r \in Records, NEW s \in Subscribers, Send(r, s)
      PROVE  HubInv'
  BY <1>1 DEF TypeOK, HubTypeOK, Send
<1>2. ASSUME NEW s \in Subscribers, Subscribe(s)
      PROVE  HubInv'
  BY <1>2 DEF TypeOK, HubTypeOK, Subscribe, Publishing
<1>3. ASSUME NEW s \in Subscribers, Receive(s)
      PROVE  HubInv'
  BY <1>3 DEF Receive
<1>4. ASSUME NEW s \in Subscribers, Unlist(s)
      PROVE  HubInv'
  BY <1>4 DEF TypeOK, HubTypeOK, Unlist, Publishing
<1>5. ASSUME NEW s \in Subscribers, Close(s)
      PROVE  HubInv'
  BY <1>5 DEF TypeOK, HubTypeOK, Close
<1>6. ASSUME NEW r \in Records, NEW t \in Time, Arrive(r, t)
      PROVE  HubInv'
  BY <1>6 DEF TypeOK, HubTypeOK, Arrive, Publish
<1>7. ASSUME UNCHANGED hubVars
      PROVE  HubInv'
  BY <1>7 DEF hubVars
<1> QED
  BY <1>1, <1>2, <1>3, <1>4, <1>5, <1>6, <1>7
  DEF Next, Work, Stream, Published, Insert, DeleteOlderThan, TrimToCount, Tick, vars

\* No send to a closed channel, which would stop the whole process: the lock
\* and the order of delete and close are enough for any number of streams.
THEOREM HubIsSafe == Spec => []NoSendOnClosed
<1>1. Init => HubInv
  BY DEF Init, HubInit, HubInv
<1>2. TypeOK /\ HubInv /\ [Next]_vars => HubInv'
  BY HubStep
<1>3. HubInv => NoSendOnClosed
  BY DEF HubInv, NoSendOnClosed
<1> QED
  BY <1>1, <1>2, <1>3, TypeCorrect, PTL DEF Spec

-----------------------------------------------------------------------------
\* The goroutines that may have left a row beyond the limit.
Uncut == {r \in Records : pc[r] \in {"prune", "trim", "broken"}}

\* Rows and goroutines are finitely many.
LEMMA UncutFinite ==
  ASSUME TypeOK, PersistAssumption
  PROVE  /\ IsFiniteSet(rows) /\ Cardinality(rows) \in Nat
         /\ IsFiniteSet(Uncut) /\ Cardinality(Uncut) \in Nat
<1>1. rows \subseteq Records /\ Uncut \subseteq Records
  BY DEF TypeOK, Uncut
<1> QED
  BY <1>1, FS_Subset, FS_CardinalityType DEF PersistAssumption

\* The bound survives a step that adds no row and takes no goroutine away.
LEMMA BoundKept ==
  ASSUME TypeOK, TypeOK', PersistAssumption, RowsBounded,
         rows' \subseteq rows, Uncut \subseteq Uncut'
  PROVE  RowsBounded'
<1>1. Cardinality(rows') \in Nat /\ Cardinality(Uncut') \in Nat
      /\ IsFiniteSet(rows) /\ IsFiniteSet(Uncut')
  <2>1. rows' \subseteq Records /\ Uncut' \subseteq Records
    BY DEF TypeOK, Uncut
  <2> QED
    BY <2>1, FS_Subset, FS_CardinalityType, UncutFinite DEF PersistAssumption
<1>2. Cardinality(rows') <= Cardinality(rows) /\ Cardinality(Uncut) <= Cardinality(Uncut')
  BY <1>1, FS_Subset
<1> QED
  BY <1>1, <1>2, UncutFinite DEF RowsBounded, Uncut, PersistAssumption

\* An insert adds a row, and a goroutine that has yet to cut.
LEMMA BoundAtInsert ==
  ASSUME TypeOK, PersistAssumption, RowsBounded, NEW r \in Records,
         pc[r] = "insert", rows' = rows \cup {r}, pc' = [pc EXCEPT ![r] = "prune"]
  PROVE  RowsBounded'
<1>1. r \notin Uncut /\ Uncut' = Uncut \cup {r}
  BY DEF Uncut, TypeOK, Steps
<1>2. Cardinality(Uncut') = Cardinality(Uncut) + 1
  BY <1>1, UncutFinite, FS_AddElement
<1>3. r \notin rows
  BY DEF TypeOK
<1>4. Cardinality(rows') = Cardinality(rows) + 1
  BY <1>3, UncutFinite, FS_AddElement
<1> QED
  BY <1>2, <1>4, UncutFinite DEF RowsBounded, Uncut, PersistAssumption

\* A cut leaves MaxCount rows at most.
LEMMA BoundAtCut ==
  ASSUME TypeOK, TypeOK', PersistAssumption, MaxCount > 0, rows' \in Newest
  PROVE  RowsBounded'
<1>1. Cardinality(rows') <= MaxCount
  BY UncutFinite DEF Newest, kSubset, PersistAssumption
<1>2. Cardinality(Uncut') \in Nat
  <2>1. Uncut' \subseteq Records
    BY DEF Uncut
  <2> QED
    BY <2>1, FS_Subset, FS_CardinalityType DEF PersistAssumption
<1>3. Cardinality(rows') \in Nat
  <2>1. rows' \subseteq Records
    BY DEF TypeOK
  <2> QED
    BY <2>1, FS_Subset, FS_CardinalityType DEF PersistAssumption
<1> QED
  BY <1>1, <1>2, <1>3 DEF RowsBounded, Uncut, PersistAssumption

\* One case for every statement that changes the table or moves a goroutine.
LEMMA BoundStep ==
  ASSUME TypeOK, TypeOK', HubAssumption, PersistAssumption, RowsBounded, [Next]_vars
  PROVE  RowsBounded'
<1> USE DEF Goto
<1>1. ASSUME UNCHANGED <<pc, rows>>
      PROVE  RowsBounded'
  BY <1>1 DEF RowsBounded
<1>2. ASSUME NEW r \in Records, NEW t \in Time, Arrive(r, t)
      PROVE  RowsBounded'
  BY <1>2, BoundKept DEF Arrive, Uncut, TypeOK
<1>3. ASSUME NEW r \in Records, Published(r)
      PROVE  RowsBounded'
  BY <1>3, BoundKept DEF Published, Uncut, TypeOK
<1>4. ASSUME NEW r \in Records, Insert(r)
      PROVE  RowsBounded'
  <2>1. CASE rows' = rows \cup {r} /\ Goto(r, "prune")
    BY <1>4, <2>1, BoundAtInsert DEF Insert
  <2>2. CASE Goto(r, "refused") /\ UNCHANGED rows
    BY <1>4, <2>2, BoundKept DEF Insert, Uncut, TypeOK
  <2> QED
    BY <1>4, <2>1, <2>2 DEF Insert
<1>5. ASSUME NEW r \in Records, DeleteOlderThan(r)
      PROVE  RowsBounded'
  <2>1. rows' \subseteq rows /\ Uncut \subseteq Uncut'
    BY <1>5 DEF DeleteOlderThan, Uncut, TypeOK
  <2> QED
    BY <2>1, BoundKept
<1>6. ASSUME NEW r \in Records, TrimToCount(r)
      PROVE  RowsBounded'
  <2>1. CASE MaxCount > 0 /\ rows' \in Newest
    BY <2>1, BoundAtCut
  <2>2. CASE MaxCount = 0
    <3>1. ~(MaxCount > 0)
      BY ONLY <2>2, 0 \in Nat
    <3> QED
      BY <3>1 DEF RowsBounded
  <2>3. CASE Goto(r, "broken") /\ UNCHANGED rows
    BY <1>6, <2>3, BoundKept DEF TrimToCount, Uncut, TypeOK
  <2> QED
    BY <1>6, <2>1, <2>2, <2>3 DEF TrimToCount
<1> QED
  BY <1>1, <1>2, <1>3, <1>4, <1>5, <1>6 DEF Next, Work, Tick, vars

\* However many goroutines insert at once and whatever fails, the table exceeds
\* its limit only by rows whose own cut is still to come, or failed.
THEOREM TableIsBounded == Spec => []RowsBounded
<1>1. Init => RowsBounded
  <2> SUFFICES ASSUME Init PROVE RowsBounded
    OBVIOUS
  <2>1. Cardinality(rows) = 0
    BY FS_EmptySet DEF Init
  <2>2. Cardinality(Uncut) \in Nat
    BY InitTypes, UncutFinite, PersistAssumption
  <2> QED
    BY <2>1, <2>2, PersistAssumption DEF RowsBounded, Uncut, PersistAssumption
<1>2. TypeOK /\ TypeOK' /\ RowsBounded /\ [Next]_vars => RowsBounded'
  BY BoundStep, HubAssumption, PersistAssumption
<1> QED
  BY <1>1, <1>2, TypeCorrect, PTL DEF Spec

-----------------------------------------------------------------------------
\* What a subscriber is owed of a record: the publisher has still to send it,
\* the channel was full, the client is gone, or the record is on its way.
Accounted(r, s) ==
  \/ s \in overrun \cup todo[r]
  \/ sub[s] \in {"leaving", "gone"}
  \/ r \in Range(chan[s]) \cup taken[s]

\* A send puts the record in the channel, or finds it full; the other records
\* in the channel stay in it.
LEMMA SendAccounts ==
  ASSUME TypeOK, NEW r \in Records, NEW s \in Subscribers, Send(r, s),
         NEW x \in Records, NEW t \in owed[x], Accounted(x, t)
  PROVE  Accounted(x, t)'
<1>1. t \in Subscribers /\ chan \in [Subscribers -> Seq(Records)]
  BY DEF TypeOK, HubTypeOK
<1>2. CASE chan' = [chan EXCEPT ![s] = Append(@, r)]
  <2>1. Range(chan[s]) \subseteq Range(Append(chan[s], r)) /\ r \in Range(Append(chan[s], r))
    BY <1>1, AppendedChannel
  <2>2. Range(chan[t]) \subseteq Range(chan'[t]) /\ r \in Range(chan'[s])
    BY <1>1, <1>2, <2>1
  <2>3. UNCHANGED <<sub, taken>> /\ overrun \subseteq overrun'
        /\ \A y \in Records : \A u \in todo[y] : u \in todo'[y] \/ (y = r /\ u = s)
    BY DEF Send, TypeOK, HubTypeOK
  <2> QED
    BY <1>1, <2>2, <2>3 DEF Accounted
<1>3. CASE UNCHANGED chan /\ overrun' = overrun \cup {s}
  BY <1>3 DEF Send, Accounted, TypeOK, HubTypeOK
<1> QED
  BY <1>2, <1>3 DEF Send

\* What a connection takes from its channel it has.
LEMMA ReceiveAccounts ==
  ASSUME TypeOK, NEW s \in Subscribers, Receive(s),
         NEW x \in Records, NEW t \in owed[x], Accounted(x, t)
  PROVE  Accounted(x, t)'
<1>1. t \in Subscribers /\ chan[s] \in Seq(Records) /\ chan[s] # <<>>
  BY DEF TypeOK, HubTypeOK, Receive
<1>2. Range(chan[s]) \subseteq Range(Tail(chan[s])) \cup {Head(chan[s])}
  BY <1>1, ReadChannel
<1>3. /\ UNCHANGED <<todo, sub, overrun>>
      /\ chan' = [chan EXCEPT ![s] = Tail(@)]
      /\ taken' = [taken EXCEPT ![s] = @ \cup {Head(chan[s])}]
  BY DEF Receive
<1>4. Range(chan[t]) \cup taken[t] \subseteq Range(chan'[t]) \cup taken'[t]
  BY <1>1, <1>2, <1>3 DEF TypeOK, HubTypeOK
<1> QED
  BY <1>3, <1>4 DEF Accounted

\* Only a client's own full channel, or its own leaving, costs it a record that
\* was published while it was listed, however slow the other clients are.
THEOREM SlowClientsPayAlone == Spec => []SlowClientCostsOnlyItself
<1> DEFINE Inv == \A r \in Records : \A s \in owed[r] : Accounted(r, s)
<1>1. Init => Inv
  BY DEF Init, HubInit
<1>2. TypeOK /\ Inv /\ [Next]_vars => Inv'
  <2> SUFFICES ASSUME TypeOK, Inv, [Next]_vars PROVE Inv'
    OBVIOUS
  <2> USE DEF TypeOK, HubTypeOK
  <2>1. ASSUME NEW r \in Records, NEW s \in Subscribers, Send(r, s)
        PROVE  Inv'
    <3>1. owed' = owed
      BY <2>1 DEF Send
    <3> QED
      BY <2>1, <3>1, SendAccounts
  <2>2. ASSUME NEW s \in Subscribers, Receive(s)
        PROVE  Inv'
    <3>1. owed' = owed
      BY <2>2 DEF Receive
    <3> QED
      BY <2>2, <3>1, ReceiveAccounts
  <2>3. ASSUME NEW s \in Subscribers, Subscribe(s) \/ Unlist(s) \/ Close(s)
        PROVE  Inv'
    BY <2>3 DEF Subscribe, Unlist, Close, Accounted
  <2>4. ASSUME NEW r \in Records, NEW t \in Time, Arrive(r, t)
        PROVE  Inv'
    BY <2>4 DEF Arrive, Publish, Accounted
  <2>5. CASE UNCHANGED hubVars
    BY <2>5 DEF hubVars, Accounted
  <2> QED
    BY <2>1, <2>2, <2>3, <2>4, <2>5
    DEF Next, Work, Stream, Published, Insert, DeleteOlderThan, TrimToCount, Tick, vars
<1>3. Inv => SlowClientCostsOnlyItself
  BY DEF SlowClientCostsOnlyItself, Accounted
<1> QED
  BY <1>1, <1>2, <1>3, TypeCorrect, PTL DEF Spec

-----------------------------------------------------------------------------
\* No record comes from further ahead than the clocks of the SDKs' hosts are.
TimesNear == \A r \in Records : created[r] <= clock + Skew

\* A record is as near when the clock goes on, and near when it arrives.
LEMMA TimesStep ==
  ASSUME TypeOK, TimesNear, [Next]_vars
  PROVE  TimesNear'
<1>1. /\ clock \in Int /\ created \in [Records -> Int] /\ Skew \in Nat
  BY PersistAssumption DEF TypeOK, Time, PersistAssumption
<1>2. CASE UNCHANGED <<clock, created>>
  BY <1>2 DEF TimesNear
<1>3. CASE Tick
  BY <1>1, <1>3 DEF Tick, TimesNear
<1>4. ASSUME NEW r \in Records, NEW t \in Time, Arrive(r, t)
      PROVE  TimesNear'
  <2>1. t \in Int /\ t <= clock + Skew
    BY <1>1, <1>4, PersistAssumption DEF Arrive, Time, PersistAssumption
  <2> QED
    BY <1>4, <2>1 DEF Arrive, TimesNear, TypeOK
<1> QED
  BY <1>2, <1>3, <1>4
  DEF Next, Work, Stream, Published, Insert, DeleteOlderThan, TrimToCount, vars

\* A cut by number that deletes something leaves MaxCount rows, none of them
\* older than what it deletes.
LEMMA CutLeavesNewest ==
  ASSUME TypeOK, PersistAssumption, MaxCount > 0, rows' \in Newest, NEW x \in rows \ rows'
  PROVE  Cardinality({y \in rows' : created[y] >= created[x]}) >= MaxCount
<1>1. /\ rows' \subseteq rows /\ \A y \in rows' : created[y] >= created[x]
      /\ Cardinality(rows') = IF Cardinality(rows) < MaxCount THEN Cardinality(rows) ELSE MaxCount
  BY UncutFinite DEF Newest, kSubset
<1>2. IsFiniteSet(rows) /\ Cardinality(rows) \in Nat /\ MaxCount \in Nat
  BY UncutFinite DEF PersistAssumption
<1>3. Cardinality(rows') # Cardinality(rows)
  BY <1>1, <1>2, FS_Subset
<1>4. {y \in rows' : created[y] >= created[x]} = rows'
  BY <1>1
<1> QED
  BY <1>1, <1>2, <1>3, <1>4

\* A row goes only when it is older than MaxAge by the clock, but for what an
\* SDK's clock is ahead, or when MaxCount rows no older than it stay: however
\* the inserts and the cuts of other records overlap.
THEOREM RowsAreRetained == Spec => RetainedForAge
<1>1. Init => TimesNear
  BY PersistAssumption DEF Init, TimesNear, PersistAssumption
<1>2. TypeOK /\ TimesNear /\ [Next]_vars => TimesNear'
  BY TimesStep
<1>3. TypeOK /\ TimesNear /\ [Next]_vars =>
        [\A x \in rows \ rows' :
           \/ created[x] < clock + Skew - MaxAge
           \/ MaxCount > 0 /\ Cardinality({y \in rows' : created[y] >= created[x]}) >= MaxCount]_vars
  <2> SUFFICES ASSUME TypeOK, TimesNear, [Next]_vars, NEW x \in rows \ rows'
               PROVE  \/ created[x] < clock + Skew - MaxAge
                      \/ /\ MaxCount > 0
                         /\ Cardinality({y \in rows' : created[y] >= created[x]}) >= MaxCount
    OBVIOUS
  <2>1. PICK r \in Records : DeleteOlderThan(r) \/ TrimToCount(r)
    BY DEF Next, Work, Stream, Published, Insert, Arrive, Tick, vars
  <2>2. CASE DeleteOlderThan(r)
    <3>1. x \in Records /\ created[x] < created[r] - MaxAge
      BY <2>2 DEF DeleteOlderThan, TooOld, TypeOK
    <3>2. created[x] \in Int /\ created[r] \in Int /\ clock \in Int /\ MaxAge \in Int /\ Skew \in Int
      BY <3>1, PersistAssumption DEF TypeOK, Time, PersistAssumption
    <3> QED
      BY <3>1, <3>2 DEF TimesNear
  <2>3. CASE TrimToCount(r)
    <3>1. MaxCount > 0 /\ rows' \in Newest
      BY <2>3 DEF TrimToCount
    <3> QED
      BY <3>1, CutLeavesNewest, PersistAssumption
  <2> QED
    BY <2>1, <2>2, <2>3
<1> QED
  BY <1>1, <1>2, <1>3, TypeCorrect, PTL DEF Spec, RetainedForAge

-----------------------------------------------------------------------------
\* What a bucket holds and what it has paid do not exceed what came into it.
\* Tokens that a time from the past takes away come back with the next one.
Conserved(h) ==
  bucket[h].lastRefill # -1 =>
    /\ bucket[h].lastRefill <= clock /\ since[h] <= clock
    /\ admitted[h] + bucket[h].tokens <= Burst + Rate * (bucket[h].lastRefill - since[h])
    /\ admitted[h] <= Burst + Rate * (clock - since[h])

LimiterInv ==
  /\ L!LimiterTypeOK
  /\ \A c \in Readers \cup Reported : line[c] = "lock" => stamp[c] <= clock
  /\ \A h \in Hosts : Conserved(h) /\ (bucket[h].lastRefill = -1 => admitted[h] = 0)

\* Refills over adjoining times add up, also when a time is negative.
LEMMA Distributes ==
  ASSUME NEW r \in Int, NEW a \in Int, NEW b \in Int, NEW c \in Int
  PROVE  /\ r * (a - b) \in Int
         /\ r * (a - b) + r * (b - c) = r * (a - c)
OBVIOUS

\* A refill is a number.
LEMMA ProductInt ==
  ASSUME NEW r \in Int, NEW a \in Int
  PROVE  r * a \in Int
OBVIOUS

\* More comes in a longer time.
LEMMA Grows ==
  ASSUME NEW r \in Nat, NEW a \in Int, NEW b \in Int, NEW c \in Int, a <= b
  PROVE  r * (a - c) <= r * (b - c)
OBVIOUS

\* What a request takes from the bucket it adds to the admitted.
LEMMA TakeKeeps ==
  ASSUME L!LimiterAssumption, LimiterInv, NEW c \in Readers \cup Reported, L!Take(c), UNCHANGED clock
  PROVE  LimiterInv'
<1> DEFINE h    == HostOf[c]
           now  == stamp[c]
           left == L!Refilled(bucket[h], now)
<1>1. /\ h \in Hosts /\ now \in 0 .. MaxTime /\ now <= clock
      /\ clock \in Nat /\ MaxTime \in Nat /\ Burst \in Nat /\ Burst > 0 /\ Rate \in Nat
      /\ bucket[h] \in L!Buckets /\ since[h] \in 0 .. MaxTime /\ admitted[h] \in Nat
  BY DEF L!LimiterAssumption, LimiterInv, L!LimiterTypeOK, L!Take
<1>2. /\ bucket[h].tokens \in Int /\ bucket[h].lastRefill \in -1 .. MaxTime
  BY <1>1 DEF L!Buckets
<1>3. left \in Int
  <2>1. now - bucket[h].lastRefill \in Int /\ Burst \in Int /\ Rate \in Int
    BY <1>1, <1>2
  <2>2. Rate * (now - bucket[h].lastRefill) \in Int
    BY <2>1, ProductInt
  <2> DEFINE all == bucket[h].tokens + Rate * (now - bucket[h].lastRefill)
  <2>3. all \in Int
    BY <2>2, <1>2
  <2>4. left = IF bucket[h].lastRefill = -1 THEN Burst ELSE L!AtMost(Burst, all)
    BY DEF L!Refilled
  <2> HIDE DEF all, left
  <2> QED BY <2>1, <2>3, <2>4 DEF L!AtMost
<1>4. since'[h] \in 0 .. MaxTime /\ since'[h] <= clock
      /\ admitted[h] + left <= Burst + Rate * (now - since'[h])
  <2>1. CASE bucket[h].lastRefill = -1
    <3>1. since'[h] = now /\ admitted[h] = 0 /\ left = Burst
      BY <1>1, <2>1 DEF L!Take, LimiterInv, L!LimiterTypeOK, L!Refilled
    <3> QED BY <3>1, <1>1
  <2>2. CASE bucket[h].lastRefill # -1
    <3> DEFINE b      == bucket[h]
               refill == Rate * (now - b.lastRefill)
               before == Rate * (b.lastRefill - since[h])
               whole  == Rate * (now - since[h])
    <3>1. since'[h] = since[h]
      BY <1>1, <2>2 DEF L!Take, LimiterInv, L!LimiterTypeOK
    <3>2. b.lastRefill \in Int /\ now \in Int /\ since[h] \in Int /\ Rate \in Int /\ Burst \in Int
      BY <1>1, <1>2
    <3>3. refill \in Int /\ before \in Int /\ refill + before = whole
      BY <3>2, Distributes
    <3>4. left <= b.tokens + refill
      <4> DEFINE all == b.tokens + refill
      <4>1. left = L!AtMost(Burst, all)
        BY <2>2 DEF L!Refilled
      <4>2. all \in Int
        BY <3>3, <1>2
      <4>3. left <= all
        <5> HIDE DEF all, left
        <5> QED BY <4>1, <4>2, <3>2 DEF L!AtMost
      <4> QED BY <4>3
    <3>5. since[h] <= clock /\ admitted[h] + b.tokens <= Burst + before
      BY <1>1, <2>2 DEF LimiterInv, Conserved
    <3>6. admitted[h] + left <= Burst + whole
      <4> HIDE DEF left, refill, before, whole
      <4> QED BY <3>2, <3>3, <3>4, <3>5, <1>1, <1>2, <1>3
    <3> QED BY <3>1, <3>5, <3>6, <1>1
  <2> QED BY <2>1, <2>2
<1>5. Rate * (now - since'[h]) <= Rate * (clock - since'[h])
  BY <1>1, <1>4, Grows
<1>6. L!LimiterTypeOK'
  <2>1. /\ [tokens |-> left, lastRefill |-> now] \in L!Buckets
        /\ [tokens |-> left - 1, lastRefill |-> now] \in L!Buckets
    <3> HIDE DEF left
    <3>1. left \in Int /\ left - 1 \in Int /\ now \in -1 .. MaxTime
      BY <1>1, <1>3
    <3> QED
      BY <3>1 DEF L!Buckets
  <2>2. bucket' \in [Hosts -> L!Buckets]
    <3>1. bucket \in [Hosts -> L!Buckets]
      BY DEF LimiterInv, L!LimiterTypeOK
    <3>2. \/ bucket' = [bucket EXCEPT ![h] = [tokens |-> left, lastRefill |-> now]]
          \/ bucket' = [bucket EXCEPT ![h] = [tokens |-> left - 1, lastRefill |-> now]]
      BY DEF L!Take
    <3> HIDE DEF left
    <3> QED
      BY <2>1, <3>1, <3>2
  <2>3. /\ since' \in [Hosts -> 0 .. MaxTime] /\ UNCHANGED stamp
        /\ line' \in [Readers \cup Reported -> {"idle", "lock", "admitted", "refused"}]
    BY <1>1 DEF L!Take, LimiterInv, L!LimiterTypeOK
  <2>4. admitted' \in [Hosts -> Nat]
    BY <1>1 DEF L!Take, LimiterInv, L!LimiterTypeOK
  <2> QED
    BY <1>1, <2>2, <2>3, <2>4 DEF LimiterInv, L!LimiterTypeOK
<1>7. \A d \in Readers \cup Reported : line'[d] = "lock" => stamp'[d] <= clock'
  BY DEF L!Take, LimiterInv, L!LimiterTypeOK
<1>8. ASSUME NEW g \in Hosts
      PROVE  Conserved(g)' /\ (bucket'[g].lastRefill = -1 => admitted'[g] = 0)
  <2>1. CASE g # h
    BY <2>1 DEF L!Take, LimiterInv, L!LimiterTypeOK, Conserved
  <2>2. CASE g = h
    <3> HIDE DEF left
    <3>1. CASE left < 1
      <4>1. bucket'[h] = [tokens |-> left, lastRefill |-> now] /\ admitted'[h] = admitted[h]
        BY <1>1, <3>1 DEF L!Take, LimiterInv, L!LimiterTypeOK, left
      <4>2. admitted[h] <= Burst + Rate * (clock - since'[h])
        <5>1. CASE bucket[h].lastRefill = -1
          <6>1. admitted[h] = 0 /\ since'[h] = now
            BY <5>1, <1>1 DEF L!Take, LimiterInv, L!LimiterTypeOK
          <6>2. Rate * (now - now) <= Rate * (clock - now) /\ Rate * (now - now) = 0
            BY <1>1, Grows
          <6>3. Rate * (clock - now) \in Int
            BY <1>1, Distributes
          <6> QED BY <6>1, <6>2, <6>3, <1>1
        <5>2. CASE bucket[h].lastRefill # -1
          BY <5>2, <1>1 DEF L!Take, LimiterInv, L!LimiterTypeOK, Conserved
        <5> QED BY <5>1, <5>2
      <4> QED BY <2>2, <4>1, <4>2, <1>1, <1>4 DEF Conserved, L!Take
    <3>2. CASE ~(left < 1)
      <4>1. bucket'[h] = [tokens |-> left - 1, lastRefill |-> now] /\ admitted'[h] = admitted[h] + 1
        BY <1>1, <3>2 DEF L!Take, LimiterInv, L!LimiterTypeOK, left
      <4>2. Rate * (now - since'[h]) \in Int /\ Rate * (clock - since'[h]) \in Int
        <5>1. now - since'[h] \in Int /\ clock - since'[h] \in Int /\ Rate \in Int
          BY <1>1, <1>4
        <5> QED BY <5>1, ProductInt
      <4>3. /\ admitted'[h] + (left - 1) <= Burst + Rate * (now - since'[h])
            /\ admitted'[h] <= Burst + Rate * (clock - since'[h])
        <5> DEFINE until == Rate * (now - since'[h])
                   ever  == Rate * (clock - since'[h])
        <5>1. until \in Int /\ ever \in Int /\ until <= ever /\ admitted[h] + left <= Burst + until
          BY <4>2, <1>4, <1>5
        <5>2. admitted'[h] + (left - 1) <= Burst + until /\ admitted'[h] <= Burst + ever
          <6> HIDE DEF until, ever
          <6> QED BY <4>1, <5>1, <1>1, <1>3, <3>2
        <5> QED BY <5>2
      <4> QED BY <2>2, <4>1, <4>3, <1>1, <1>4 DEF Conserved, L!Take
    <3> QED BY <3>1, <3>2
  <2> QED BY <2>1, <2>2
<1> QED BY <1>6, <1>7, <1>8 DEF LimiterInv

\* Time only adds to what may be admitted.
LEMMA TickKeeps ==
  ASSUME L!LimiterAssumption, LimiterInv, L!Tick
  PROVE  LimiterInv'
<1>1. clock \in Nat /\ clock' = clock + 1 /\ clock' \in 0 .. MaxTime /\ Burst \in Nat /\ Rate \in Nat
  BY DEF L!Tick, LimiterInv, L!LimiterTypeOK, L!LimiterAssumption
<1>2. L!LimiterTypeOK' /\ \A c \in Readers \cup Reported : line'[c] = "lock" => stamp'[c] <= clock'
  BY <1>1 DEF L!Tick, L!limiterVars, LimiterInv, L!LimiterTypeOK
<1>3. ASSUME NEW h \in Hosts, bucket[h].lastRefill # -1
      PROVE  Conserved(h)'
  <2>1. /\ since[h] \in Nat /\ admitted[h] \in Nat /\ bucket[h].lastRefill \in Int
        /\ bucket[h].tokens \in Int
    BY DEF LimiterInv, L!LimiterTypeOK, L!Buckets
  <2>2. Rate * (clock - since[h]) <= Rate * (clock' - since[h])
    BY <1>1, <2>1, Grows
  <2>3. Rate * (clock - since[h]) \in Int /\ Rate * (clock' - since[h]) \in Int
    BY <1>1, <2>1, Distributes
  <2> QED BY <1>1, <1>3, <2>1, <2>2, <2>3 DEF LimiterInv, Conserved, L!Tick, L!limiterVars
<1> QED BY <1>2, <1>3 DEF LimiterInv, L!Tick, L!limiterVars, Conserved

\* The bucket never holds more than what came in and was not taken out.
LEMMA InvHolds ==
  ASSUME L!LimiterAssumption
  PROVE  L!Spec => []LimiterInv
<1>1. L!Init => LimiterInv
  BY DEF L!LimiterAssumption, L!Init, L!LimiterInit, LimiterInv, L!LimiterTypeOK, Conserved, L!Fresh, L!Buckets
<1>2. LimiterInv /\ [L!Next]_<<clock, L!limiterVars>> => LimiterInv'
  <2> SUFFICES ASSUME LimiterInv, [L!Next]_<<clock, L!limiterVars>> PROVE LimiterInv'
    OBVIOUS
  <2>1. CASE UNCHANGED <<clock, L!limiterVars>>
    BY <2>1 DEF LimiterInv, L!LimiterTypeOK, Conserved, L!limiterVars
  <2>2. ASSUME NEW c \in Readers \cup Reported, L!Stamp(c), UNCHANGED clock PROVE LimiterInv'
    BY <2>2 DEF L!Stamp, LimiterInv, L!LimiterTypeOK, Conserved
  <2>3. ASSUME NEW c \in Readers \cup Reported, L!Take(c), UNCHANGED clock PROVE LimiterInv'
    BY <2>3, TakeKeeps
  <2>4. ASSUME NEW c \in Readers \cup Reported, L!Served(c), UNCHANGED clock PROVE LimiterInv'
    BY <2>4 DEF L!Served, LimiterInv, L!LimiterTypeOK, Conserved
  <2>5. CASE L!Tick
    BY <2>5, TickKeeps
  <2> QED BY <2>1, <2>2, <2>3, <2>4, <2>5 DEF L!Next
<1> QED BY <1>1, <1>2, PTL DEF L!Spec

\* A host is let through at most Burst times and Rate times per unit of time,
\* whatever the order in which the times of its requests reach rateLimitAPI.
THEOREM AdmissionIsBounded ==
  ASSUME L!LimiterAssumption
  PROVE  L!Spec => []L!AdmissionBounded
<1>1. LimiterInv => L!AdmissionBounded
  BY DEF LimiterInv, Conserved, L!AdmissionBounded
<1> QED BY <1>1, InvHolds, PTL

-----------------------------------------------------------------------------
\* The API is one of the users of the store: whatever requests do, the records
\* go the way Persist says.
THEOREM ApiImplementsPersist == ApiSpec => Spec
<1>1. ApiInit => Init
  BY DEF ApiInit
<1>2. [ApiNext]_apiVars => [Next]_vars
  <2> SUFFICES ASSUME [ApiNext]_apiVars PROVE [Next]_vars
    OBVIOUS
  <2>1. CASE UNCHANGED apiVars
    BY <2>1 DEF apiVars
  <2>2. ASSUME NEW d \in Readers, Ask(d) \/ Read(d) \/ ReadFails(d)
        PROVE  UNCHANGED vars
    BY <2>2 DEF Ask, Read, ReadFails
  <2>3. ASSUME NEW r \in Reported, Report(r)
        PROVE  UNCHANGED vars
    BY <2>3 DEF Report
  <2>4. ASSUME NEW c \in Readers \cup Reported, Pass(c)
        PROVE  UNCHANGED vars
    BY <2>4 DEF Pass
  <2>5. ASSUME NEW r \in Records, Make(r) \/ Work(r)
        PROVE  Next
    BY <2>5 DEF Make, Next
  <2>6. CASE Tick
    BY <2>6 DEF Next
  <2> QED
    BY <2>1, <2>2, <2>3, <2>4, <2>5, <2>6 DEF ApiNext
<1> QED
  BY <1>1, <1>2, PTL DEF ApiSpec, Spec

\* The API implements Limiter: readers and SDKs are its callers, and nothing in
\* the API admits a request past the bucket of its host.
THEOREM ApiImplementsLimiter == ApiSpec => L!Spec
<1>1. ApiInit => L!Init
  BY DEF ApiInit, Init, L!Init
<1>2. [ApiNext]_apiVars => [L!Next]_<<clock, L!limiterVars>>
  <2> SUFFICES ASSUME [ApiNext]_apiVars PROVE L!Next \/ UNCHANGED <<clock, L!limiterVars>>
    OBVIOUS
  <2>1. CASE UNCHANGED apiVars
    BY <2>1 DEF apiVars, vars, limit, L!limiterVars
  <2>2. ASSUME NEW d \in Readers, Ask(d) \/ Read(d) \/ ReadFails(d)
        PROVE  L!Next
    <3>1. (L!Stamp(d) \/ L!Served(d)) /\ UNCHANGED clock
      BY <2>2 DEF Ask, Read, ReadFails, vars
    <3> QED
      BY <3>1 DEF L!Next
  <2>3. ASSUME NEW r \in Reported, Report(r)
        PROVE  L!Next
    <3>1. L!Stamp(r) /\ UNCHANGED clock
      BY <2>3 DEF Report, vars
    <3> QED
      BY <3>1 DEF L!Next
  <2>4. ASSUME NEW c \in Readers \cup Reported, Pass(c)
        PROVE  L!Next
    <3>1. L!Take(c) /\ UNCHANGED clock
      BY <2>4 DEF Pass, vars
    <3> QED
      BY <3>1 DEF L!Next
  <2>5. ASSUME NEW r \in Records, Make(r) \/ (Work(r) /\ UNCHANGED <<limit, reader>>)
        PROVE  UNCHANGED <<clock, L!limiterVars>>
    BY <2>5 DEF Make, Arrive, Work, Published, Insert, DeleteOlderThan, TrimToCount,
                limit, L!limiterVars
  <2>6. CASE Tick /\ UNCHANGED <<limit, reader>>
    <3>1. L!Tick
      BY <2>6 DEF Tick, limit, L!Tick, L!limiterVars
    <3> QED
      BY <3>1 DEF L!Next
  <2> QED
    BY <2>1, <2>2, <2>3, <2>4, <2>5, <2>6 DEF ApiNext
<1> QED
  BY <1>1, <1>2, PTL DEF ApiSpec, L!Spec

\* So the readers and the SDKs of a host are let through at most Burst times and
\* Rate times per unit of time together.
THEOREM RequestsAreLimited == ApiSpec => []AdmissionBounded
<1>1. L!LimiterAssumption
  BY ApiAssumption DEF ApiAssumption
<1>2. L!Spec => []L!AdmissionBounded
  BY <1>1, AdmissionIsBounded
<1>3. L!AdmissionBounded => AdmissionBounded
  BY DEF AdmissionBounded
<1> QED
  BY <1>2, <1>3, ApiImplementsLimiter, PTL

-----------------------------------------------------------------------------
\* Readers and what was in the table when they began: rows never go back.
ReaderTypes ==
  /\ reading \in [Readers -> {"first", "more", "end"}]
  /\ offset \in [Readers -> Nat]
  /\ seen \in [Readers -> SUBSET Records]
  /\ began \in [Readers -> SUBSET Records]
  /\ \A d \in Readers :
       /\ began[d] \subseteq {r \in Records : pc[r] \in {"prune", "trim", "done", "broken"}}
       /\ reading[d] = "first" => offset[d] = 0

\* The rows that come before x in the list of a reader.
Newer(d, x) == {y \in Matching(d) : created[y] > created[x]}

\* A row that was there from the first page on and that the reader was not
\* given yet is not before its offset: as many rows as that come before it.
PagingInv ==
  \A d \in Readers : \A x \in began[d] \cap Matching(d) :
    Untied(x) => \/ x \in seen[d]
                 \/ reading[d] # "end" /\ Cardinality(Newer(d, x)) >= offset[d]

\* The smaller of two numbers.
LEMMA MinOfTwo ==
  ASSUME NEW a \in Nat, NEW b \in Nat
  PROVE  /\ Min({a, b}) \in {a, b}
         /\ Min({a, b}) <= a /\ Min({a, b}) <= b
<1>1. \E x \in {a, b} : \A y \in {a, b} : x =< y
  BY a <= b \/ b <= a
<1>2. Min({a, b}) \in {a, b} /\ \A y \in {a, b} : Min({a, b}) =< y
  BY <1>1 DEF Min
<1> QED
  BY <1>2

\* The newest n rows of a finite table, or all of them.
LEMMA NewestAre ==
  ASSUME NEW S, IsFiniteSet(S), NEW n \in Nat, NEW top \in NewestOf(n, S)
  PROVE  /\ top \subseteq S /\ IsFiniteSet(top) /\ Cardinality(top) \in Nat
         /\ Cardinality(top) \in {n, Cardinality(S)} /\ Cardinality(top) <= n
         /\ Cardinality(S) \in Nat /\ Cardinality(top) <= Cardinality(S)
         /\ \A x \in top, y \in S \ top : created[x] >= created[y]
<1>1. Cardinality(S) \in Nat
  BY FS_CardinalityType
<1>2. top \subseteq S /\ Cardinality(top) = Min({n, Cardinality(S)})
  BY DEF NewestOf, kSubset
<1>3. IsFiniteSet(top)
  BY <1>2, FS_Subset
<1>4. Cardinality(top) \in Nat
  BY <1>3, FS_CardinalityType
<1>5. \A x \in top, y \in S \ top : created[x] >= created[y]
  BY DEF NewestOf
<1> QED
  BY <1>1, <1>2, <1>3, <1>4, <1>5, MinOfTwo

\* What a page leaves out lies behind it, and behind the rows before it.
LEMMA PageReaches ==
  ASSUME TypeOK, PersistAssumption, ApiAssumption,
         NEW d \in Readers, NEW x \in Matching(d), Untied(x),
         NEW from \in Nat, NEW page \in PagesAt(d, from), Cardinality(Newer(d, x)) >= from
  PROVE  \/ x \in page
         \/ HasMore(d, from) /\ Cardinality(Newer(d, x)) >= NextOffset(d, from, page)
<1> DEFINE M == Matching(d)
           N == Newer(d, x)
<1>1. M \subseteq rows /\ rows \subseteq Records
      /\ \A y \in rows : pc[y] # "new" /\ created[y] \in Int
  BY DEF Matching, TypeOK, Time
<1>2. IsFiniteSet(M) /\ IsFiniteSet(N) /\ N \subseteq M
  <2>1. IsFiniteSet(rows) /\ N \subseteq M
    BY UncutFinite DEF Newer
  <2>2. IsFiniteSet(M)
    BY <1>1, <2>1, FS_Subset
  <2> QED
    BY <2>1, <2>2, FS_Subset
<1>3. PICK top \in NewestOf(from + PageSize, M), before \in NewestOf(from, M) :
        before \subseteq top /\ page = top \ before
  BY DEF PagesAt
<1>4. from + PageSize \in Nat /\ PageSize \in Nat \ {0}
  BY DEF ApiAssumption
<1> HIDE DEF M
<1>5. /\ top \subseteq M /\ IsFiniteSet(top) /\ Cardinality(top) \in Nat
      /\ Cardinality(top) \in {from + PageSize, Cardinality(M)}
      /\ Cardinality(M) \in Nat /\ Cardinality(top) <= Cardinality(M)
      /\ \A a \in top, b \in M \ top : created[a] >= created[b]
  BY <1>2, <1>4, NewestAre
<1>6. /\ before \subseteq M /\ IsFiniteSet(before) /\ Cardinality(before) \in Nat
      /\ Cardinality(before) \in {from, Cardinality(M)} /\ Cardinality(before) <= from
      /\ \A a \in before, b \in M \ before : created[a] >= created[b]
  BY <1>2, NewestAre
<1>7. x \in M
  BY DEF M
<1>8. x \notin before
  <2> SUFFICES ASSUME x \in before PROVE FALSE
    OBVIOUS
  <2>1. N \subseteq before \ {x}
    <3> SUFFICES ASSUME NEW y \in N PROVE y \in before \ {x}
      OBVIOUS
    <3>1. y \in M /\ created[y] > created[x] /\ created[y] \in Int /\ created[x] \in Int
      BY <1>1, <1>2, <1>7 DEF Newer, M
    <3>2. y \in before
      BY <1>6, <3>1
    <3> QED
      BY <3>1, <3>2
  <2>2. IsFiniteSet(before \ {x}) /\ Cardinality(before \ {x}) = Cardinality(before) - 1
    BY <1>6, FS_RemoveElement
  <2>3. Cardinality(N) <= Cardinality(before \ {x})
    BY <2>1, <2>2, FS_Subset
  <2>4. Cardinality(N) \in Nat
    BY <1>2, FS_CardinalityType
  <2> HIDE DEF N
  <2>5. Cardinality(N) >= from
    BY DEF N
  <2> QED
    BY <1>6, <2>2, <2>3, <2>4, <2>5
<1>9. CASE x \in top
  BY <1>3, <1>8, <1>9
<1>10. CASE x \notin top
  <2>1. top \subseteq N
    <3> SUFFICES ASSUME NEW y \in top PROVE y \in N
      OBVIOUS
    <3>1. y \in M /\ y # x /\ created[y] >= created[x]
      BY <1>5, <1>7, <1>10
    <3>2. created[y] # created[x] /\ created[y] \in Int /\ created[x] \in Int
      BY <1>1, <1>7, <3>1 DEF Untied, M
    <3> QED
      BY <3>1, <3>2 DEF Newer, M
  <2>2. Cardinality(top) <= Cardinality(N)
    BY <1>2, <2>1, FS_Subset
  <2>3. Cardinality(top) # Cardinality(M)
    BY <1>2, <1>5, <1>7, <1>10, FS_Subset
  <2>4. Cardinality(top) = from + PageSize /\ Cardinality(M) > from + PageSize
    BY <1>4, <1>5, <2>3
  <2>5. Cardinality(before) = from
    BY <1>4, <1>6, <2>4, <1>5
  <2>6. Cardinality(page) = PageSize
    <3>1. IsFiniteSet(page) /\ page \cap before = {} /\ page \cup before = top
      BY <1>3, <1>5, FS_Subset
    <3>2. Cardinality(top) = Cardinality(page) + Cardinality(before) - Cardinality({})
      BY <1>6, <3>1, FS_Union
    <3>3. Cardinality({}) = 0 /\ Cardinality(page) \in Nat
      BY <3>1, FS_EmptySet, FS_CardinalityType
    <3> QED
      BY <1>4, <2>4, <2>5, <3>2, <3>3
  <2>7. HasMore(d, from)
    BY <2>4 DEF HasMore, M
  <2>8. NextOffset(d, from, page) = Cardinality(top)
    BY <2>4, <2>6 DEF NextOffset
  <2> QED
    BY <2>2, <2>7, <2>8
<1> QED
  BY <1>9, <1>10

\* The record of a row keeps its time, a row is new when its goroutine inserts
\* it, and what goes is no newer than what stays.
LEMMA RowsStep ==
  ASSUME TypeOK, PersistAssumption, [Next]_vars
  PROVE  /\ \A r \in Records : pc[r] # "new" => pc'[r] # "new" /\ created'[r] = created[r]
         /\ \A r \in Records : pc[r] \in {"prune", "trim", "done", "broken"} =>
                                 pc'[r] \in {"prune", "trim", "done", "broken"}
         /\ \A x \in rows' \ rows : pc[x] = "insert"
         /\ \A x \in rows \cap rows', y \in rows : created[y] > created[x] => y \in rows'
<1>1. rows \subseteq Records /\ \A r \in Records : created[r] \in Int
  BY DEF TypeOK, Time
<1>2. CASE UNCHANGED <<pc, created, rows>>
  BY <1>2
<1>3. ASSUME NEW r \in Records, NEW t \in Time, Arrive(r, t)
      PROVE  /\ pc' = [pc EXCEPT ![r] = "publish"] /\ created' = [created EXCEPT ![r] = t]
             /\ pc[r] = "new" /\ rows' = rows
  BY <1>3 DEF Arrive, Goto
<1>4. ASSUME NEW r \in Records, Published(r) \/ Insert(r)
      PROVE  /\ created' = created
             /\ \/ pc[r] = "publish" /\ pc' = [pc EXCEPT ![r] = "insert"] /\ rows' = rows
                \/ pc[r] = "insert" /\ pc' = [pc EXCEPT ![r] = "prune"] /\ rows' = rows \cup {r}
                \/ pc[r] = "insert" /\ pc' = [pc EXCEPT ![r] = "refused"] /\ rows' = rows
  BY <1>4 DEF Published, Insert, Goto
<1>5. ASSUME NEW r \in Records, DeleteOlderThan(r) \/ TrimToCount(r)
      PROVE  /\ created' = created /\ pc[r] \in {"prune", "trim"} /\ rows' \subseteq rows
             /\ \E step \in {"trim", "done", "broken"} : pc' = [pc EXCEPT ![r] = step]
             /\ \A x \in rows', y \in rows : created[y] > created[x] => y \in rows'
  <2>1. CASE rows' = rows
    BY <1>5, <2>1 DEF DeleteOlderThan, TrimToCount, Goto
  <2>2. CASE DeleteOlderThan(r) /\ rows' = rows \ TooOld(r)
    <3>1. /\ created' = created /\ pc[r] = "prune" /\ rows' \subseteq rows
          /\ \E step \in {"trim", "done", "broken"} : pc' = [pc EXCEPT ![r] = step]
      BY <2>2 DEF DeleteOlderThan, Goto
    <3>2. ASSUME NEW x \in rows', NEW y \in rows, created[y] > created[x]
          PROVE  y \in rows'
      <4>1. x \in rows /\ ~ (created[x] < created[r] - MaxAge)
        BY <2>2 DEF TooOld
      <4>2. ~ (created[y] < created[r] - MaxAge)
        BY <1>1, <3>2, <4>1 DEF PersistAssumption
      <4> QED
        BY <2>2, <4>2 DEF TooOld
    <3> QED
      BY <3>1, <3>2
  <2>3. CASE TrimToCount(r) /\ rows' \in Newest
    <3>1. /\ created' = created /\ pc[r] = "trim"
          /\ \E step \in {"trim", "done", "broken"} : pc' = [pc EXCEPT ![r] = step]
      BY <2>3 DEF TrimToCount, Goto
    <3>2. rows' \subseteq rows /\ \A x \in rows', y \in rows \ rows' : created[x] >= created[y]
      BY <2>3 DEF Newest, kSubset
    <3>3. ASSUME NEW x \in rows', NEW y \in rows, created[y] > created[x]
          PROVE  y \in rows'
      <4> SUFFICES ASSUME y \notin rows' PROVE FALSE
        OBVIOUS
      <4>1. created[x] >= created[y] /\ created[x] \in Int /\ created[y] \in Int
        BY <1>1, <3>2
      <4> QED
        BY <3>3, <4>1
    <3> QED
      BY <3>1, <3>2, <3>3
  <2> QED
    BY <1>5, <2>1, <2>2, <2>3 DEF DeleteOlderThan, TrimToCount
<1>6. CASE \E r \in Records, t \in Time : Arrive(r, t)
  BY <1>1, <1>3, <1>6 DEF TypeOK
<1>7. CASE \E r \in Records : Published(r) \/ Insert(r)
  BY <1>1, <1>4, <1>7 DEF TypeOK
<1>8. CASE \E r \in Records : DeleteOlderThan(r) \/ TrimToCount(r)
  BY <1>1, <1>5, <1>8 DEF TypeOK
<1> QED
  BY <1>2, <1>6, <1>7, <1>8 DEF Next, Work, Stream, Tick, vars

\* An insert or a cut moves no row that a reader still has to be given before
\* its offset.
LEMMA PagingHolds ==
  ASSUME TypeOK, PersistAssumption, ReaderTypes, PagingInv, [Next]_vars,
         NEW d \in Readers, NEW x \in began[d] \cap Matching(d)', Untied(x)'
  PROVE  /\ x \in Matching(d) /\ Untied(x)
         /\ Cardinality(Newer(d, x)) \in Nat /\ Cardinality(Newer(d, x)') \in Nat
         /\ Cardinality(Newer(d, x)) <= Cardinality(Newer(d, x)')
<1>1. x \in Records /\ pc[x] \in {"prune", "trim", "done", "broken"} /\ x \in rows'
  BY DEF ReaderTypes, Matching
<1>2. x \in rows /\ x \in Matching(d)
  BY <1>1, RowsStep DEF Matching
<1>3. Untied(x)
  BY <1>1, RowsStep DEF Untied
<1>4. Newer(d, x) \subseteq Newer(d, x)'
  <2> SUFFICES ASSUME NEW y \in Newer(d, x) PROVE y \in Newer(d, x)'
    OBVIOUS
  <2>1. y \in rows /\ WantedBy[d] \in {Unset, StoredStatus(y)} /\ created[y] > created[x]
    BY DEF Newer, Matching
  <2>2. y \in Records /\ pc[y] # "new" /\ pc[x] # "new"
    BY <1>1, <2>1 DEF TypeOK
  <2>3. y \in rows' /\ created'[y] = created[y] /\ created'[x] = created[x]
    BY <1>1, <1>2, <2>1, <2>2, RowsStep
  <2> QED
    BY <2>1, <2>3 DEF Newer, Matching
<1>5. IsFiniteSet(Newer(d, x)') /\ IsFiniteSet(Newer(d, x))
  <2>1. rows' \subseteq Records
    <3>1. \A r \in Records : Insert(r) => rows' \subseteq Records
      BY DEF Insert, TypeOK
    <3>2. \A r \in Records : DeleteOlderThan(r) \/ TrimToCount(r) => rows' \subseteq Records
      BY DEF DeleteOlderThan, TrimToCount, Newest, kSubset, TypeOK
    <3>3. rows \subseteq Records
      BY DEF TypeOK
    <3> QED
      BY <3>1, <3>2, <3>3 DEF Next, Work, Stream, Tick, vars, Arrive, Published
  <2>2. Newer(d, x)' \subseteq Records
    BY <2>1 DEF Newer, Matching
  <2> QED
    BY <1>4, <2>2, FS_Subset DEF PersistAssumption
<1> QED
  BY <1>2, <1>3, <1>4, <1>5, FS_Subset, FS_CardinalityType

\* Readers keep their types.
LEMMA ReaderTypesStep ==
  ASSUME TypeOK, PersistAssumption, ApiAssumption, ReaderTypes, [ApiNext]_apiVars, [Next]_vars
  PROVE  ReaderTypes'
<1>1. \A r \in Records : pc[r] \in {"prune", "trim", "done", "broken"} =>
                           pc'[r] \in {"prune", "trim", "done", "broken"}
  BY RowsStep
<1>2. CASE UNCHANGED reader
  BY <1>1, <1>2 DEF reader, ReaderTypes
<1>3. ASSUME NEW d \in Readers, Read(d)
      PROVE  ReaderTypes'
  <2>1. UNCHANGED vars
    BY <1>3 DEF Read
  <2>2. PICK page \in PagesAt(d, offset[d]) :
          /\ seen' = [seen EXCEPT ![d] = @ \cup page]
          /\ offset' = [offset EXCEPT ![d] = NextOffset(d, @, page)]
    BY <1>3 DEF Read
  <2>3. page \subseteq rows /\ rows \subseteq Records
    BY DEF PagesAt, Matching, TypeOK
  <2>4. Cardinality(page) \in Nat
    BY <2>3, UncutFinite, FS_Subset, FS_CardinalityType
  <2>5. NextOffset(d, offset[d], page) \in Nat
    BY <2>4 DEF NextOffset, ReaderTypes
  <2>6. /\ offset' \in [Readers -> Nat] /\ seen' \in [Readers -> SUBSET Records]
        /\ reading' \in [Readers -> {"first", "more", "end"}]
    BY <1>3, <2>2, <2>3, <2>5 DEF ReaderTypes, Read
  <2>7. began' \in [Readers -> SUBSET Records] /\ \A e \in Readers : began'[e] \in {began[e], rows}
    BY <1>3, <2>3 DEF ReaderTypes, Read
  <2>8. \A e \in Readers : reading'[e] = "first" => offset'[e] = 0
    BY <1>3, <2>2 DEF ReaderTypes, Read
  <2>9. \A e \in Readers :
          began'[e] \subseteq {r \in Records : pc'[r] \in {"prune", "trim", "done", "broken"}}
    <3>1. pc' = pc
      BY <2>1 DEF vars
    <3> QED
      BY <2>7, <3>1 DEF ReaderTypes, TypeOK
  <2> QED
    BY <2>6, <2>7, <2>8, <2>9 DEF ReaderTypes
<1> QED
  BY <1>2, <1>3 DEF ApiNext, apiVars, Ask, ReadFails, Report, Pass, Make

\* One case for the page a reader is given, one for everything else.
LEMMA PagingStep ==
  ASSUME TypeOK, PersistAssumption, ApiAssumption, ReaderTypes, PagingInv,
         [ApiNext]_apiVars, [Next]_vars
  PROVE  PagingInv'
<1>1. CASE UNCHANGED reader
  <2> SUFFICES ASSUME NEW d \in Readers, NEW x \in began[d] \cap Matching(d)', Untied(x)'
               PROVE  x \in seen[d] \/ (reading[d] # "end" /\ Cardinality(Newer(d, x)') >= offset[d])
    BY <1>1 DEF reader, PagingInv
  <2>1. /\ x \in Matching(d) /\ Untied(x)
        /\ Cardinality(Newer(d, x)) \in Nat /\ Cardinality(Newer(d, x)') \in Nat
        /\ Cardinality(Newer(d, x)) <= Cardinality(Newer(d, x)')
    BY PagingHolds
  <2>2. x \in seen[d] \/ (reading[d] # "end" /\ Cardinality(Newer(d, x)) >= offset[d])
    BY <2>1 DEF PagingInv
  <2>3. offset[d] \in Nat
    BY DEF ReaderTypes
  <2> QED
    BY <2>1, <2>2, <2>3
<1>2. ASSUME NEW d \in Readers, Read(d)
      PROVE  PagingInv'
  <2>1. UNCHANGED <<pc, created, rows>> /\ began' = IF reading[d] = "first" THEN [began EXCEPT ![d] = rows] ELSE began
    BY <1>2 DEF Read, vars
  <2>2. PICK page \in PagesAt(d, offset[d]) :
          /\ seen' = [seen EXCEPT ![d] = @ \cup page]
          /\ offset' = [offset EXCEPT ![d] = NextOffset(d, @, page)]
    BY <1>2 DEF Read
  <2>3. reading' = [reading EXCEPT ![d] = IF HasMore(d, offset[d]) THEN "more" ELSE "end"]
    BY <1>2 DEF Read
  <2> SUFFICES ASSUME NEW e \in Readers, NEW x \in began'[e] \cap Matching(e), Untied(x)
               PROVE  \/ x \in seen'[e]
                      \/ reading'[e] # "end" /\ Cardinality(Newer(e, x)) >= offset'[e]
    BY <2>1 DEF PagingInv, Matching, Untied, Newer
  <2>4. CASE e # d
    BY <2>1, <2>2, <2>3, <2>4 DEF PagingInv, ReaderTypes
  <2>5. CASE e = d
    <3>1. /\ seen'[d] = seen[d] \cup page /\ offset'[d] = NextOffset(d, offset[d], page)
          /\ reading'[d] = IF HasMore(d, offset[d]) THEN "more" ELSE "end"
      BY <2>2, <2>3 DEF ReaderTypes
    <3>2. offset[d] \in Nat
      BY DEF ReaderTypes
    <3>3. x \in seen[d] \/ Cardinality(Newer(d, x)) >= offset[d]
      <4>1. CASE reading[d] = "first"
        <5>1. Newer(d, x) \subseteq rows
          BY DEF Newer, Matching
        <5>2. Cardinality(Newer(d, x)) \in Nat
          BY <5>1, UncutFinite, FS_Subset, FS_CardinalityType
        <5>3. offset[d] = 0
          BY <4>1 DEF ReaderTypes
        <5> QED
          BY <5>2, <5>3
      <4>2. CASE reading[d] # "first"
        BY <2>1, <2>5, <4>2 DEF PagingInv
      <4> QED
        BY <4>1, <4>2
    <3>4. Cardinality(Newer(d, x)) >= offset[d] =>
            \/ x \in page
            \/ HasMore(d, offset[d]) /\ Cardinality(Newer(d, x)) >= NextOffset(d, offset[d], page)
      BY <2>5, <3>2, PageReaches
    <3> QED
      BY <2>5, <3>1, <3>3, <3>4
  <2> QED
    BY <2>4, <2>5
<1> QED
  BY <1>1, <1>2 DEF ApiNext, apiVars, Ask, ReadFails, Report, Pass, Make

\* A reader that came to the end missed no row that was there all the time,
\* while rows were inserted and cut between its pages.
THEOREM PagesMissNothing == ApiSpec => []PagingMissesNone
<1>1. ApiInit => ReaderTypes /\ PagingInv
  BY DEF ApiInit, ReaderTypes, PagingInv
<1>2. TypeOK /\ ReaderTypes /\ PagingInv /\ [ApiNext]_apiVars /\ [Next]_vars
        => ReaderTypes' /\ PagingInv'
  BY ReaderTypesStep, PagingStep, PersistAssumption, ApiAssumption
<1>3. PagingInv => PagingMissesNone
  BY DEF PagingInv, PagingMissesNone
<1>4. Spec => []TypeOK
  BY TypeCorrect
<1> QED
  BY <1>1, <1>2, <1>3, <1>4, ApiImplementsPersist, PTL DEF ApiSpec, Spec
=============================================================================
