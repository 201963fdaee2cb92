------------------------------ MODULE EventHub ------------------------------
(***************************************************************************)
(* The hub that fans records out to the dashboard's event streams          *)
(* (traceEventHub and handleEvents in internal/proxy/proxy.go).            *)
(*                                                                         *)
(* A subscriber is one connection to /events; it comes and goes once.  Its *)
(* channel is sent to by publishers, without blocking, under the read      *)
(* lock; it is entered in and struck off the hub's map under the write     *)
(* lock, and closed when that lock is no longer held.  The critical        *)
(* sections of the write lock are single steps here, so the lock is free   *)
(* for a writer when nobody is publishing.                                 *)
(***************************************************************************)
EXTENDS Naturals, Sequences, FiniteSets, SequencesExt

CONSTANTS
  Records,      \* the records to publish
  Subscribers,  \* the connections to /events
  Capacity,     \* of a subscriber's channel, 32 in the program
  KindOf,       \* what each record is, one of Kinds
  IsError,      \* the records with is_error
  FilterOf      \* the status each subscriber asks for, Unset for any

Kinds    == {"pair",     \* a call with its answer: the tracker leaves Status empty
             "single",   \* any other message
             "blocked",  \* a call the budget denied
             "sdk"}      \* a record an SDK posted to /api/ingest
Statuses == {"success", "error", "blocked"}
Unset    == "unset"   \* the empty string

ASSUME HubAssumption ==
  /\ Capacity \in Nat \ {0}
  /\ KindOf \in [Records -> Kinds]
  /\ IsError \subseteq Records
  /\ FilterOf \in [Subscribers -> Statuses \cup {Unset}]

VARIABLES
  todo,     \* the channels a publisher has still to send to
  owed,     \* the subscribers listed when it began
  listed,   \* the map of the hub
  chan,     \* the records in each channel
  sub,      \* what each connection is doing
  closed,   \* the closed channels
  taken,    \* the records each connection took from its channel
  shown,    \* the records it wrote to its client
  overrun   \* the subscribers that lost a record because their channel was full

hubVars == <<todo, owed, listed, chan, sub, closed, taken, shown, overrun>>

\* The status a record carries when it is published.
Status(r) ==
  CASE KindOf[r] = "pair"    -> Unset
    [] KindOf[r] = "blocked" -> "blocked"
    [] OTHER                 -> IF r \in IsError THEN "error" ELSE "success"

\* The status in its row: an empty one is filled in (traceStatusOrDefault).
StoredStatus(r) ==
  IF Status(r) # Unset THEN Status(r) ELSE IF r \in IsError THEN "error" ELSE "success"

Publishing == {r \in Records : todo[r] # {}}

-----------------------------------------------------------------------------
\* Faulty variants, none of them part of a specification.

\* A full channel ends the loop over the subscribers.
SendStopsAtFull(r, s) ==
  /\ s \in todo[r]
  /\ IF Len(chan[s]) < Capacity
     THEN /\ chan' = [chan EXCEPT ![s] = Append(@, r)]
          /\ todo' = [todo EXCEPT ![r] = @ \ {s}]
          /\ UNCHANGED overrun
     ELSE /\ overrun' = overrun \cup {s}
          /\ todo' = [todo EXCEPT ![r] = {}]
          /\ UNCHANGED chan
  /\ UNCHANGED <<owed, listed, sub, closed, taken, shown>>

\* A full channel is waited for.
SendBlocks(r, s) ==
  /\ s \in todo[r]
  /\ Len(chan[s]) < Capacity
  /\ chan' = [chan EXCEPT ![s] = Append(@, r)]
  /\ todo' = [todo EXCEPT ![r] = @ \ {s}]
  /\ UNCHANGED <<owed, listed, sub, closed, taken, shown, overrun>>

\* A channel is struck off without the lock.
UnlistUnlocked(s) ==
  /\ sub[s] = "open"
  /\ listed' = listed \ {s}
  /\ sub' = [sub EXCEPT ![s] = "leaving"]
  /\ UNCHANGED <<todo, owed, chan, closed, taken, shown, overrun>>

-----------------------------------------------------------------------------
HubInit ==
  /\ todo = [r \in Records |-> {}]
  /\ owed = [r \in Records |-> {}]
  /\ listed = {}
  /\ chan = [s \in Subscribers |-> <<>>]
  /\ sub = [s \in Subscribers |-> "new"]
  /\ closed = {}
  /\ taken = [s \in Subscribers |-> {}]
  /\ shown = [s \in Subscribers |-> {}]
  /\ overrun = {}

\* Publish takes the read lock: the map is fixed until it is done.
Publish(r) ==
  /\ todo' = [todo EXCEPT ![r] = listed]
  /\ owed' = [owed EXCEPT ![r] = listed]
  /\ UNCHANGED <<listed, chan, sub, closed, taken, shown, overrun>>

\* The select of Publish: send, or drop the record when the channel is full.
Send(r, s) ==
  /\ s \in todo[r]
  /\ todo' = [todo EXCEPT ![r] = @ \ {s}]
  /\ \/ /\ Len(chan[s]) < Capacity
        /\ chan' = [chan EXCEPT ![s] = Append(@, r)]
        /\ UNCHANGED overrun
     \/ /\ Len(chan[s]) = Capacity
        /\ overrun' = overrun \cup {s}
        /\ UNCHANGED chan
  /\ UNCHANGED <<owed, listed, sub, closed, taken, shown>>

Subscribe(s) ==
  /\ sub[s] = "new"
  /\ Publishing = {}
  /\ listed' = listed \cup {s}
  /\ sub' = [sub EXCEPT ![s] = "open"]
  /\ UNCHANGED <<todo, owed, chan, closed, taken, shown, overrun>>

\* handleEvents takes a record and writes it, if the filter lets it through.
Receive(s) ==
  /\ sub[s] = "open"
  /\ chan[s] # <<>>
  /\ chan' = [chan EXCEPT ![s] = Tail(@)]
  /\ taken' = [taken EXCEPT ![s] = @ \cup {Head(chan[s])}]
  /\ shown' = IF FilterOf[s] \in {Unset, Status(Head(chan[s]))}
              THEN [shown EXCEPT ![s] = @ \cup {Head(chan[s])}] ELSE shown
  /\ UNCHANGED <<todo, owed, listed, sub, closed, overrun>>

\* The client went away: unsubscribe strikes the channel off, then closes it.
Unlist(s) ==
  /\ sub[s] = "open"
  /\ Publishing = {}
  /\ listed' = listed \ {s}
  /\ sub' = [sub EXCEPT ![s] = "leaving"]
  /\ UNCHANGED <<todo, owed, chan, closed, taken, shown, overrun>>

Close(s) ==
  /\ sub[s] = "leaving"
  /\ closed' = closed \cup {s}
  /\ sub' = [sub EXCEPT ![s] = "gone"]
  /\ UNCHANGED <<todo, owed, listed, chan, taken, shown, overrun>>

-----------------------------------------------------------------------------
HubTypeOK ==
  /\ todo \in [Records -> SUBSET Subscribers]
  /\ owed \in [Records -> SUBSET Subscribers]
  /\ listed \subseteq Subscribers
  /\ chan \in [Subscribers -> Seq(Records)]
  /\ \A s \in Subscribers : Len(chan[s]) <= Capacity
  /\ sub \in [Subscribers -> {"new", "open", "leaving", "gone"}]
  /\ closed \subseteq Subscribers /\ overrun \subseteq Subscribers
  /\ taken \in [Subscribers -> SUBSET Records]
  /\ shown \in [Subscribers -> SUBSET Records]

\* No publisher is about to send to a channel that is closed (a panic): a
\* channel is closed only after it was struck off, and a publisher that saw
\* it listed holds the lock against that.
NoSendOnClosed == \A r \in Records : todo[r] \cap closed = {}

\* A client that keeps up gets every record published while it was connected,
\* whatever the others do: it may still be underway, but only the client's own
\* full channel loses it one.
SlowClientCostsOnlyItself ==
  \A r \in Records : \A s \in owed[r] :
    \/ s \in overrun \cup todo[r]
    \/ sub[s] \in {"leaving", "gone"}
    \/ r \in Range(chan[s]) \cup taken[s]

\* Docs: the query's filter is applied to each subscriber.  A record is shown
\* live when the list would show its row for the same status.  The tracker
\* leaves the status of a correlated call empty; the row has it filled in.
FiltersAsStored ==
  \A s \in Subscribers : \A r \in taken[s] :
    r \in shown[s] <=> FilterOf[s] \in {Unset, StoredStatus(r)}
=============================================================================
