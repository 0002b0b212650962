----------------------------- MODULE EventStream -----------------------------
(***************************************************************************)
(* The event streams of volumes: the broker of volume/application.go and   *)
(* the handler of GET /volumes/{name}/events, beside the requests and      *)
(* goroutines of VolumeService that publish to them.                       *)
(***************************************************************************)
EXTENDS VolumeService, Sequences

CONSTANTS
    Streams,        \* clients that can have an event stream open
    Capacity        \* events a subscriber's channel holds

\* 16 for the service.  A goroutine makes at most 2 * MaxAttempts moves to states
\* that do not end a stream, so a subscriber needs room for one more event than
\* that per goroutine at work on its volume.
ASSUME CapacityAssumption == Capacity \in Nat \ {0}

VARIABLE stream     \* the handler of each stream, with its channel

streamVars == <<vars, stream>>

Closed == [pc |-> "closed"]

\* States after which the handler ends the stream.
Terminal == {"available", "attached", "deleted", "error"}

Handling == [pc : {"current", "tell", "follow"}, name : Names, queue : Seq(States)]

StreamTypeOK ==
    /\ TypeOK
    /\ stream \in [Streams -> Handling \cup {Closed}]
    /\ \A s \in Streams : stream[s] # Closed => Len(stream[s].queue) <= Capacity

StreamInit == Init /\ stream = [s \in Streams |-> Closed]

-----------------------------------------------------------------------------
\* Faulty: the handler subscribes after it has sent the current state.
ReceivesLate(s, n) == stream[s].pc = "follow" /\ stream[s].name = n

\* The broker has a channel of this handler for the name.
Receives(s, n) == stream[s] # Closed /\ stream[s].name = n

\* Faulty: the channel is not buffered,
PublishUnbuffered(n, state) ==
    stream' = [s \in Streams |->
                  IF Receives(s, n) /\ stream[s].pc = "follow" /\ stream[s].queue = <<>>
                  THEN [stream[s] EXCEPT !.queue = <<state>>]
                  ELSE stream[s]]

\* or grows without bound.
PublishUnbounded(n, state) ==
    stream' = [s \in Streams |->
                  IF Receives(s, n)
                  THEN [stream[s] EXCEPT !.queue = Append(@, state)]
                  ELSE stream[s]]

\* The broker sends to every subscriber whose channel has room.
Publish(n, state) ==
    stream' = [s \in Streams |->
                  IF Receives(s, n) /\ Len(stream[s].queue) < Capacity
                  THEN [stream[s] EXCEPT !.queue = Append(@, state)]
                  ELSE stream[s]]

\* A request's or goroutine's step; the end of applyEvent publishes, the end of
\* ReconcileVolume does not.
Apply(t) ==
    /\ Step(t)
    /\ IF At(t, "record") /\ task[t].op # "reconcile"
       THEN Publish(task[t].name, task[t].vol.state)
       ELSE UNCHANGED stream

\* The handler subscribes to a volume that exists.
Subscribe(s, n) ==
    /\ stream[s] = Closed
    /\ db[n] # NoRow
    /\ stream' = [stream EXCEPT ![s] = [pc |-> "current", name |-> n, queue |-> <<>>]]
    /\ UNCHANGED vars

\* Unsubscribe, which also closes the channel.
Unsubscribe(s) == stream' = [stream EXCEPT ![s] = Closed]

\* The handler loads the volume to send its current state, and ends with it if
\* it is terminal; it goes on without when the row cannot be loaded.
Current(s) ==
    /\ stream[s].pc = "current"
    /\ \/ /\ IF db[stream[s].name].state \in Terminal
             THEN Unsubscribe(s)
             ELSE stream' = [stream EXCEPT ![s].pc = "tell"]
          /\ UNCHANGED faults
       \/ DbFails /\ stream' = [stream EXCEPT ![s].pc = "follow"]
    /\ UNCHANGED <<db, audit, backend, task, closing>>

\* The client has taken the current state.
Tell(s) ==
    /\ stream[s].pc = "tell"
    /\ stream' = [stream EXCEPT ![s].pc = "follow"]
    /\ UNCHANGED vars

\* The handler sends the next event, and ends with it if it is terminal.
Follow(s) ==
    /\ stream[s].pc = "follow"
    /\ stream[s].queue # <<>>
    /\ IF Head(stream[s].queue) \in Terminal
       THEN Unsubscribe(s)
       ELSE stream' = [stream EXCEPT ![s].queue = Tail(@)]
    /\ UNCHANGED vars

\* The client disconnects, a write times out or the service stops.
Leave(s) ==
    /\ stream[s] # Closed
    /\ Unsubscribe(s)
    /\ UNCHANGED vars

-----------------------------------------------------------------------------
\* Streams beside requests of clients that wait for each other.
StreamNext ==
    \/ \E t \in Tasks, op \in Ops, n \in Names, node \in Nodes \cup {NoNode} :
            Orderly(op, n) /\ Arrive(t, op, n, node) /\ UNCHANGED stream
    \/ \E t \in Tasks : Apply(t)
    \/ Close /\ UNCHANGED stream
    \/ \E s \in Streams, n \in Names : Subscribe(s, n)
    \/ \E s \in Streams : Current(s) \/ Tell(s) \/ Follow(s) \/ Leave(s)

StreamSpec == StreamInit /\ [][StreamNext]_streamVars

\* Goroutines run, and a handler's client takes what it is sent.
StreamFairness ==
    /\ \A t \in Tasks : WF_streamVars(Apply(t))
    /\ \A s \in Streams : WF_streamVars(Current(s) \/ Tell(s) \/ Follow(s))

FairStreamSpec == StreamSpec /\ StreamFairness

-----------------------------------------------------------------------------
\* A task is about to publish a terminal state of the name.
Announces(t, n) ==
    /\ At(t, "record")
    /\ task[t].op # "reconcile"
    /\ task[t].name = n
    /\ task[t].vol.state \in Terminal

\* A client that waits for a volume which has come to rest is about to hear of
\* it: subscribing before the current state is read leaves no gap, and the channel
\* has room for the final event unless it holds an earlier one that ends the stream.
EndIsComing ==
    \A s \in Streams :
        stream[s].pc \in {"tell", "follow"} /\ db[stream[s].name].state \in Terminal =>
            \/ \E i \in 1..Len(stream[s].queue) : stream[s].queue[i] \in Terminal
            \/ \E t \in Tasks : Announces(t, stream[s].name)

\* The stream of a volume that has come to rest ends.
StreamsEnd ==
    \A s \in Streams :
        stream[s].pc = "follow" /\ db[stream[s].name].state \in Terminal
            ~> stream[s].pc = "closed"

=============================================================================
