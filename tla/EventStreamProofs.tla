-------------------------- MODULE EventStreamProofs --------------------------
(***************************************************************************)
(* Theorems about EventStream: the channels of the subscribers, and the    *)
(* final event that a client waits for.                                    *)
(***************************************************************************)
EXTENDS EventStream, VolumeSerialProofs

-----------------------------------------------------------------------------
(* Type correctness. *)

StreamTypes ==
    /\ stream \in [Streams -> Handling \cup {Closed}]
    /\ \A s \in Streams : stream[s] # Closed => Len(stream[s].queue) <= Capacity

\* An open stream is a handler with a queue of states.
LEMMA OpenStream ==
    ASSUME StreamTypes, NEW s \in Streams, stream[s].pc # "closed"
    PROVE  /\ stream[s] # Closed /\ stream[s] \in Handling
           /\ stream[s].queue \in Seq(States) /\ Len(stream[s].queue) \in Nat
           /\ Len(stream[s].queue) <= Capacity
BY DEF StreamTypes, Closed, Handling

\* A handler that stays one of the four kinds keeps the streams well formed.
LEMMA StreamBecomes ==
    ASSUME StreamTypes, NEW s \in Streams, NEW h, stream' = [stream EXCEPT ![s] = h],
           \/ h = Closed
           \/ h \in Handling /\ Len(h.queue) <= Capacity
    PROVE  StreamTypes'
BY DEF StreamTypes

\* What is published is a state, and goes only where there is room.
LEMMA PublishTypes ==
    ASSUME StreamTypes, NEW n, NEW state \in States, Publish(n, state)
    PROVE  StreamTypes'
<1> DEFINE sent(s) == [stream[s] EXCEPT !.queue = Append(@, state)]
           new(s) == IF Receives(s, n) /\ Len(stream[s].queue) < Capacity
                     THEN sent(s) ELSE stream[s]
<1>1. stream' = [s \in Streams |-> new(s)]
  BY DEF Publish
<1>2. ASSUME NEW s \in Streams, stream[s] # Closed, Len(stream[s].queue) < Capacity
      PROVE  sent(s) \in Handling /\ Len(sent(s).queue) <= Capacity
  <2>1. stream[s] \in Handling /\ stream[s].queue \in Seq(States)
    BY <1>2 DEF StreamTypes, Handling
  <2>2. /\ Append(stream[s].queue, state) \in Seq(States)
        /\ Len(Append(stream[s].queue, state)) <= Capacity
    BY <1>2, <2>1, CapacityAssumption
  <2>. QED  BY <2>1, <2>2 DEF Handling
<1>3. \A s \in Streams : /\ new(s) \in Handling \cup {Closed}
                         /\ new(s) # Closed => Len(new(s).queue) <= Capacity
  BY <1>2 DEF StreamTypes, Receives
<1> HIDE DEF new
<1>. QED  BY <1>1, <1>3 DEF StreamTypes

\* What a task is about to publish is a state.
LEMMA RecordsState ==
    ASSUME TypeInv, NEW t \in Tasks, At(t, "record")
    PROVE  task[t].vol.state \in States
BY AtJob DEF At, Coherent, Row

\* What is left of a queue after its first event.
LEMMA TailRests ==
    ASSUME NEW S, NEW q \in Seq(S), q # <<>>
    PROVE  /\ Tail(q) \in Seq(S)
           /\ Len(q) \in Nat \ {0} /\ Len(Tail(q)) = Len(q) - 1
           /\ Head(q) = q[1]
           /\ \A i \in 1..(Len(q) - 1) : Tail(q)[i] = q[i + 1]
OBVIOUS

\* The steps of a handler, by what becomes of it.
LEMMA HandlerMoves ==
    ASSUME StreamTypes, NEW s \in Streams, Current(s) \/ Tell(s) \/ Follow(s) \/ Leave(s)
    PROVE  \E h : /\ stream' = [stream EXCEPT ![s] = h]
                  /\ \/ h = Closed
                     \/ h \in Handling /\ Len(h.queue) <= Capacity
<1> DEFINE r == stream[s]
<1>1. r.pc # "closed"
  BY DEF Current, Tell, Follow, Leave, StreamTypes, Handling, Closed
<1>2. r \in Handling /\ r.queue \in Seq(States) /\ Len(r.queue) <= Capacity
  BY <1>1, OpenStream
<1>3. \A pc \in {"tell", "follow"} : [r EXCEPT !.pc = pc] \in Handling
  BY <1>2 DEF Handling
<1>4. r.queue # <<>> => /\ [r EXCEPT !.queue = Tail(@)] \in Handling
                        /\ Len(Tail(r.queue)) <= Capacity
  <2>1. r.queue # <<>> => Tail(r.queue) \in Seq(States) /\ Len(Tail(r.queue)) <= Capacity
    BY <1>2, TailRests, CapacityAssumption
  <2>. QED  BY <1>2, <2>1 DEF Handling
<1>5. \/ Unsubscribe(s)
      \/ stream' = [stream EXCEPT ![s].pc = "tell"]
      \/ stream' = [stream EXCEPT ![s].pc = "follow"]
      \/ r.queue # <<>> /\ stream' = [stream EXCEPT ![s].queue = Tail(@)]
  BY DEF Current, Tell, Follow, Leave
<1>6. CASE Unsubscribe(s)
  BY <1>6 DEF Unsubscribe
<1>7. ASSUME NEW pc \in {"tell", "follow"}, stream' = [stream EXCEPT ![s].pc = pc]
      PROVE  \E h : /\ stream' = [stream EXCEPT ![s] = h]
                    /\ h \in Handling /\ Len(h.queue) <= Capacity
  <2> DEFINE h == [r EXCEPT !.pc = pc]
  <2>1. h.queue = r.queue /\ stream' = [stream EXCEPT ![s] = h]
    BY <1>2, <1>7 DEF Handling
  <2>. QED  BY <1>2, <1>3, <2>1
<1>8. CASE r.queue # <<>> /\ stream' = [stream EXCEPT ![s].queue = Tail(@)]
  <2> DEFINE h == [r EXCEPT !.queue = Tail(@)]
  <2>1. h.queue = Tail(r.queue) /\ stream' = [stream EXCEPT ![s] = h]
    BY <1>2, <1>8 DEF Handling
  <2>. QED  BY <1>4, <1>8, <2>1
<1>. QED  BY <1>5, <1>6, <1>7, <1>8

\* Handlers, publications and clients that leave keep the types, and with them the
\* room of each channel: publish drops what does not fit.
LEMMA StreamTypeStep ==
    ASSUME TypeInv, StreamTypes, [StreamNext]_streamVars
    PROVE  TypeInv' /\ StreamTypes'
<1>1. ASSUME UNCHANGED stream
      PROVE  StreamTypes'
  BY <1>1 DEF StreamTypes
<1>2. ASSUME [Next]_vars
      PROVE  TypeInv'
  BY <1>2, TypeStep
<1>3. ASSUME NEW t \in Tasks, Apply(t)
      PROVE  TypeInv' /\ StreamTypes'
  <2>1. TypeInv'
    BY <1>2, <1>3 DEF Apply, Next
  <2>2. CASE At(t, "record") /\ Publish(task[t].name, task[t].vol.state)
    BY <2>1, <2>2, RecordsState, PublishTypes
  <2>. QED  BY <1>1, <1>3, <2>1, <2>2 DEF Apply
<1>4. ASSUME NEW s \in Streams, NEW n \in Names, Subscribe(s, n)
      PROVE  TypeInv' /\ StreamTypes'
  <2> DEFINE h == [pc |-> "current", name |-> n, queue |-> <<>>]
  <2>1. h \in Handling /\ Len(h.queue) <= Capacity
    BY CapacityAssumption DEF Handling
  <2>2. stream' = [stream EXCEPT ![s] = h] /\ UNCHANGED vars
    BY <1>4 DEF Subscribe
  <2> HIDE DEF h
  <2>. QED  BY <1>2, <2>1, <2>2, StreamBecomes
<1>5. ASSUME NEW s \in Streams, Current(s) \/ Tell(s) \/ Follow(s) \/ Leave(s)
      PROVE  TypeInv' /\ StreamTypes'
  <2>1. StreamTypes'
    BY <1>5, HandlerMoves, StreamBecomes
  <2>2. UNCHANGED <<db, audit, backend, task, closing>> /\ faults' \in 0..MaxFaults
    BY <1>5, FaultType DEF Current, Tell, Follow, Leave, vars, TypeInv, TypeOK
  <2>3. TypeInv'
    BY <2>2 DEF TypeInv, TypeOK
  <2>. QED  BY <2>1, <2>3
<1>6. CASE \E t \in Tasks, op \in Ops, n \in Names, node \in Nodes \cup {NoNode} :
               Orderly(op, n) /\ Arrive(t, op, n, node) /\ UNCHANGED stream
  BY <1>1, <1>2, <1>6 DEF Next
<1>7. CASE Close /\ UNCHANGED stream
  BY <1>1, <1>2, <1>7 DEF Next
<1>8. CASE UNCHANGED streamVars
  BY <1>1, <1>2, <1>8 DEF streamVars
<1>. QED  BY <1>3, <1>4, <1>5, <1>6, <1>7, <1>8 DEF StreamNext

\* At first nobody is subscribed.
LEMMA StreamTypeInit == StreamInit => TypeInv /\ StreamTypes
BY TypeInit DEF StreamInit, StreamTypes

\* No subscriber's channel ever holds more than it has room for.
THEOREM StreamTypeCorrect == StreamSpec => []StreamTypeOK
<1>1. TypeInv /\ StreamTypes => StreamTypeOK
  BY DEF TypeInv, StreamTypes, StreamTypeOK
<1>. QED  BY <1>1, StreamTypeInit, StreamTypeStep, PTL DEF StreamSpec

-----------------------------------------------------------------------------
(* The final event, when one request at a time is under way for a volume. *)

\* The queue holds an event that ends the stream.
Ending(q) == \E i \in 1..Len(q) : q[i] \in Terminal

\* How many events that end no stream the task that drives an operation has published:
\* the acceptance, and a failure and a retry with every attempt before this one.
Published(j) ==
    IF j.pc = "record" /\ j.event \in Driven THEN 0
    ELSE IF \/ j.pc = "backoff"
            \/ j.pc \in {"load", "update", "record"} /\ j.event \in {"retry", "fail"}
         THEN 2 * j.attempt
         ELSE 2 * j.attempt - 1

\* A goroutine counts its attempts from 1, and the last event it publishes ends streams.
Counted(j) ==
    /\ j.pc \in {"begin", "call", "load", "backoff"} => j.attempt >= 1
    /\ j.pc \in {"update", "record"} /\ j.event \in WorkerEvents => j.attempt >= 1
    /\ j.pc = "record" /\ j.op # "reconcile" /\ j.event \notin Driven \cup {"error", "retry"} =>
          j.vol.state \in Terminal

\* A stream's queue ends the stream, or holds no more than the operation on the volume
\* has published so far; with the volume at rest it is empty or its end is announced.
Supplied(r) ==
    LET n == r.name
        q == r.queue
        state == db[n].state
    IN  \/ Ending(q)
        \/ /\ state \in Transitional
           /\ Len(q) <= 2 * MaxAttempts
           /\ \A t \in Tasks :
                 Driving(task[t]) /\ task[t].name = n => Len(q) <= Published(task[t])
        \/ /\ state \notin Transitional
           /\ \/ q = <<>> /\ (r.pc = "current" \/ state \notin Terminal)
              \/ Len(q) <= 2 * MaxAttempts /\ \E t \in Tasks : Announces(t, n)

EndInv ==
    /\ \A t \in Tasks : task[t] # Idle => Counted(task[t])
    /\ \A s \in Streams : stream[s] # Closed => Supplied(stream[s])


-----------------------------------------------------------------------------
(* How the steps of a task count. *)

\* An operation publishes two events at most for each of its attempts before the one
\* that ends streams.
LEMMA PublishedBounds ==
    ASSUME NEW j \in Job, Driving(j), Counted(j)
    PROVE  Published(j) \in 0..(2 * MaxAttempts)
<1>1. j.attempt \in 0..MaxAttempts /\ MaxAttempts \in Nat
  BY MaxAttemptsAssumption DEF Job
<1>2. \/ j.pc = "record" /\ j.event \in Driven
      \/ j.attempt >= 1
  BY DEF Driving, Counted, WorkerEvents
<1>. QED  BY <1>1, <1>2 DEF Published

\* Only acceptances, failures and retries lead to states that end no stream.
LEMMA EndEdges ==
    ASSUME NEW src, NEW e, NEW dst, <<src, e, dst>> \in Transitions,
           e \notin Driven \cup {"error", "retry"}
    PROVE  dst \in Terminal
BY DrivenOps DEF Transitions, Terminal

\* A task ends, keeps its attempt, or goes on after its audit row as the loop says.
LEMMA AttemptSteps ==
    ASSUME Repo = "inmemory", TypeInv, NEW t \in Tasks, Step(t)
    PROVE  LET j == task[t]
               k == task'[t]
           IN  /\ \/ k = Idle
                  \/ j.pc # "record" /\ k.attempt = j.attempt
                  \/ /\ j.pc = "record" /\ k.pc = "begin" /\ k.event = j.event
                     /\ \/ j.event \in Driven /\ k.attempt = 1
                        \/ j.event = "retry" /\ k.attempt = j.attempt + 1
                  \/ /\ j.pc = "record" /\ j.event = "error" /\ k.attempt = j.attempt
                     /\ \/ k.pc = "backoff" /\ k.event = "error"
                        \/ k.pc = "load" /\ k.event = "fail"
               /\ j.pc = "load" => k.pc # "begin"
               /\ k = Idle => /\ j.pc # "update"
                              /\ j.pc = "record" => j.event \notin Driven \cup {"error", "retry"}
<1> DEFINE j == task[t]
           k == task'[t]
<1>1. j \in Job /\ Coherent(j)
  BY StepCases
<1>2. ~DbFails
  BY DEF DbFails
<1>3. ASSUME NEW f, Become(t, f)
      PROVE  k = f
  BY <1>3, BecomeEffect
<1>4. Finish(t) => k = Idle
  BY <1>3 DEF Finish
<1>5. ASSUME NEW v, ApplyEvent(t, j, v)
      PROVE  k = Idle \/ (k.attempt = j.attempt /\ k.pc = "update")
  <2> DEFINE w == [v EXCEPT !.state = Transition(v.state, j.event)]
             u == [j EXCEPT !.pc = "update", !.vol = w]
  <2>1. Finish(t) \/ Become(t, u)
    BY <1>5 DEF ApplyEvent
  <2>2. u.attempt = j.attempt /\ u.pc = "update"
    BY <1>1 DEF Job
  <2>3. Become(t, u) => k = u
    BY <1>3
  <2> HIDE DEF u
  <2>. QED  BY <1>4, <2>1, <2>2, <2>3
<1>6. CASE Record(t)
  <2>1. k = Continue(j) /\ j.pc = "record"
    BY <1>3, <1>6 DEF Record, At
  <2>2. CASE j.event \in Driven
    <3>1. Continue(j) = [j EXCEPT !.pc = "begin", !.vol = NoRow, !.attempt = 1]
      BY <2>2, DrivenOps DEF Continue, SuccessEvent
    <3>2. k.pc = "begin" /\ k.event = j.event /\ k.attempt = 1
      BY <1>1, <2>1, <2>2, <3>1 DEF Job
    <3>3. k # Idle
      BY <3>2 DEF Idle
    <3>. QED  BY <2>1, <2>2, <3>2, <3>3
  <2>3. CASE j.event = "error" /\ j.attempt < MaxAttempts
    <3>1. Continue(j) = [j EXCEPT !.pc = "backoff", !.vol = NoRow]
      BY <1>1, <2>3, HandlerEvents, MaxAttemptsAssumption DEF Continue, Job
    <3>2. k.pc = "backoff" /\ k.event = "error" /\ k.attempt = j.attempt
      BY <1>1, <2>1, <2>3, <3>1 DEF Job
    <3>3. k # Idle
      BY <3>2 DEF Idle
    <3>. QED  BY <2>1, <2>3, <3>2, <3>3
  <2>4. CASE j.event = "error" /\ j.attempt = MaxAttempts
    <3>1. Continue(j) = [j EXCEPT !.pc = "load", !.vol = NoRow, !.event = "fail"]
      BY <1>1, <2>4, HandlerEvents, MaxAttemptsAssumption DEF Continue, Job
    <3>2. k.pc = "load" /\ k.event = "fail" /\ k.attempt = j.attempt
      BY <1>1, <2>1, <2>4, <3>1 DEF Job
    <3>3. k # Idle
      BY <3>2 DEF Idle
    <3>. QED  BY <2>1, <2>4, <3>2, <3>3
  <2>5. CASE j.event = "retry"
    <3>1. Continue(j) = [j EXCEPT !.pc = "begin", !.vol = NoRow, !.attempt = @ + 1]
      BY <2>5, HandlerEvents DEF Continue
    <3>2. k.pc = "begin" /\ k.event = "retry" /\ k.attempt = j.attempt + 1
      BY <1>1, <2>1, <2>5, <3>1 DEF Job
    <3>3. k # Idle
      BY <3>2 DEF Idle
    <3>. QED  BY <2>1, <2>5, <3>2, <3>3
  <2>6. CASE j.event \notin Driven \cup {"error", "retry"}
    <3>1. Continue(j) = Idle
      BY <2>6, DrivenOps DEF Continue
    <3>. QED  BY <2>1, <2>6, <3>1
  <2>. QED
    BY <1>1, <2>2, <2>3, <2>4, <2>5, <2>6, MaxAttemptsAssumption DEF Job
<1>7. CASE Update(t)
  <2>1. j.pc = "update" /\ k = [j EXCEPT !.pc = "record"]
    BY <1>2, <1>3, <1>7 DEF Update, WriteFails, At
  <2>. QED  BY <1>1, <2>1 DEF Job, Idle
<1>8. CASE Call(t)
  <2>1. j.pc = "call"
    BY <1>8 DEF Call, At
  <2>2. \E e : Become(t, [j EXCEPT !.pc = "load", !.event = e])
    BY <1>8 DEF Call
  <2>3. k.attempt = j.attempt
    BY <1>1, <1>3, <2>2 DEF Job
  <2>. QED  BY <2>1, <2>3
<1>9. CASE Lookup(t) \/ Save(t) \/ SetNode(t) \/ Load(t)
  <2>1. j.pc \in {"lookup", "save", "setnode", "load"}
    BY <1>9 DEF Lookup, Save, SetNode, Load, At
  <2>2. \/ Finish(t)
        \/ \E v : ApplyEvent(t, j, v)
        \/ \E pc, v : Become(t, [j EXCEPT !.pc = pc, !.vol = v])
    BY <1>2, <1>9 DEF Lookup, LookupCreate, LookupDelete, LookupAttach, LookupDetach,
                      LookupReconcile, LookupNothing, Save, SetNode, Load
  <2>3. k = Idle \/ k.attempt = j.attempt
    BY <1>1, <1>3, <1>4, <1>5, <2>2 DEF Job
  <2>4. j.pc = "load" => k.pc # "begin"
    <3>1. j.pc = "load" => Load(t)
      BY <1>9 DEF Lookup, Save, SetNode, At
    <3>2. Load(t) => k = Idle \/ k.pc = "update"
      BY <1>2, <1>5 DEF Load
    <3>. QED  BY <3>1, <3>2 DEF Idle
  <2>. QED  BY <2>1, <2>3, <2>4
<1>10. CASE Inspect(t) \/ Begin(t) \/ Backoff(t)
  <2>1. j.pc \in {"inspect", "begin", "backoff"}
    BY <1>10 DEF Inspect, Begin, Backoff, At
  <2>2. \/ Finish(t)
        \/ \E pc, v : Become(t, [j EXCEPT !.pc = pc, !.vol = v])
        \/ Become(t, [j EXCEPT !.pc = "call"])
        \/ Become(t, [j EXCEPT !.pc = "load", !.event = "retry"])
    BY <1>10 DEF Inspect, Begin, Backoff
  <2>3. k = Idle \/ k.attempt = j.attempt
    BY <1>1, <1>3, <1>4, <2>2 DEF Job
  <2>. QED  BY <2>1, <2>3
<1>. QED  BY <1>6, <1>7, <1>8, <1>9, <1>10 DEF Step

\* Only a task that is about to write its row starts to drive an operation.
LEMMA CountedSteps ==
    ASSUME Repo = "inmemory", TypeInv, TypeInv', SerialInv, NEW t \in Tasks, Step(t),
           Counted(task[t]), task'[t] # Idle
    PROVE  LET j == task[t]
               k == task'[t]
           IN  /\ Counted(k)
               /\ Driving(k) =>
                     /\ Driving(j) \/ (j.pc = "update" /\ j.event \in Driven)
                     /\ Driving(j) => Published(j) <= Published(k)
                     /\ j.pc = "record" => Published(j) + 1 <= Published(k)
<1> DEFINE j == task[t]
           k == task'[t]
<1>1. j \in Job /\ Coherent(j) /\ StepCase(t)
  BY StepCases
<1>2. k \in Job /\ Coherent(k)
  BY DEF TypeInv, TaskState
<1>3. /\ \/ j.pc # "record" /\ k.attempt = j.attempt
         \/ /\ j.pc = "record" /\ k.pc = "begin" /\ k.event = j.event
            /\ \/ j.event \in Driven /\ k.attempt = 1
               \/ j.event = "retry" /\ k.attempt = j.attempt + 1
         \/ /\ j.pc = "record" /\ j.event = "error" /\ k.attempt = j.attempt
            /\ \/ k.pc = "backoff" /\ k.event = "error"
               \/ k.pc = "load" /\ k.event = "fail"
      /\ j.attempt \in Nat /\ k.attempt \in Nat
  <2>1. j.attempt \in Nat /\ k.attempt \in Nat
    BY <1>1, <1>2 DEF Job
  <2>. QED  BY <2>1, AttemptSteps
<1>4. Driven \cap WorkerEvents = {} /\ "reconcile" \notin WorkerEvents
  BY DrivenOps DEF WorkerEvents
<1>5. CASE Finds(t) \/ Writes(t) \/ Takes(t)
  <2>1. /\ k.pc \in {"save", "setnode", "inspect", "update"}
        /\ k.event \in Ops
    BY <1>1, <1>5 DEF Finds, Writes, Takes, Applied, Coherent, Job
  <2>. QED  BY <2>1, <1>4, DrivenOps DEF Counted, Driving
<1>6. CASE Persists(t)
  <2>1. j.pc = "update" /\ k.pc = "record" /\ k.event = j.event /\ k.op = j.op
        /\ k.vol = j.vol /\ k.attempt = j.attempt
    BY <1>3, <1>6 DEF Persists, Same
  <2>2. ASSUME j.op # "reconcile", j.event \notin Driven \cup {"error", "retry"}
        PROVE  j.vol.state \in Terminal
    <3>1. Claim(j, db[j.name], backend[j.name])
      BY <2>1 DEF SerialInv, Idle
    <3>2. <<db[j.name].state, j.event, j.vol.state>> \in Transitions
      BY <2>1, <2>2, <3>1 DEF Claim
    <3>. QED  BY <2>2, <3>2, EndEdges
  <2>3. Counted(k)
    BY <2>1, <2>2 DEF Counted
  <2>4. CASE j.event \in Driven
    <3>1. ~Driving(j)
      BY <1>4, <2>1, <2>4 DEF Driving
    <3>. QED  BY <2>1, <2>3, <2>4, <3>1
  <2>5. CASE j.event \in {"error", "retry"}
    <3>1. Driving(j) /\ Published(k) = Published(j)
      BY <2>1, <2>5, DrivenOps DEF Driving, Published, WorkerEvents
    <3>. QED  BY <1>3, <2>1, <2>3, <3>1 DEF Published
  <2>6. CASE j.event \notin Driven \cup {"error", "retry"}
    BY <2>1, <2>3, <2>6 DEF Driving
  <2>. QED  BY <2>4, <2>5, <2>6
<1>7. CASE Loops(t)
  <2>1. CASE j.pc = "record" /\ k.pc = "begin"
    <3>1. Published(k) = 2 * k.attempt - 1 /\ (Driving(k) => Driving(j))
      BY <1>3, <2>1 DEF Published, Driving
    <3>2. Published(j) = IF j.event = "retry" THEN 2 * j.attempt ELSE 0
      <4>1. j.event \in Driven => j.event # "retry"
        BY DrivenOps
      <4>. QED  BY <1>3, <2>1, <4>1 DEF Published
    <3>3. j.event = "retry" => k.attempt = j.attempt + 1
      BY <1>3, <1>4, <2>1, DrivenOps
    <3>4. j.event # "retry" => k.attempt = 1
      BY <1>3, <2>1
    <3>5. Counted(k)
      BY <1>3, <2>1, <3>3, <3>4 DEF Counted
    <3>. QED  BY <1>3, <3>1, <3>2, <3>3, <3>4, <3>5
  <2>2. CASE j.pc = "record" /\ k.pc # "begin"
    <3>1. /\ j.event = "error" /\ k.attempt = j.attempt
          /\ k.pc = "backoff" \/ (k.pc = "load" /\ k.event = "fail")
      BY <1>3, <2>2
    <3>2. Published(k) = 2 * j.attempt /\ Published(j) = 2 * j.attempt - 1
      BY <2>2, <3>1, DrivenOps DEF Published
    <3>3. Counted(k) /\ Driving(j)
      BY <2>2, <3>1 DEF Counted, Driving, WorkerEvents
    <3>. QED  BY <1>3, <3>2, <3>3
  <2>3. CASE j.pc # "record"
    <3>1. /\ k.attempt = j.attempt
          /\ \/ j.pc = "begin" /\ k.pc = "call" /\ k.event = j.event
             \/ j.pc = "backoff" /\ k.pc = "load" /\ k.event = "retry"
      BY <1>3, <1>7, <2>3, AttemptSteps DEF Loops
    <3>2. Published(k) = Published(j) /\ Driving(j) /\ Counted(k)
      BY <3>1 DEF Published, Driving, Counted
    <3>. QED  BY <1>3, <2>3, <3>1, <3>2 DEF Published
  <2>. QED  BY <2>1, <2>2, <2>3
<1>8. CASE Calls(t)
  <2>1. j.pc = "call" /\ k.pc = "load" /\ k.attempt = j.attempt
    BY <1>3, <1>8 DEF Calls
  <2>2. k.event \notin {"retry", "fail"}
    BY <1>1, <1>8, CallServes, DrivenOps DEF SuccessEvent
  <2>. QED  BY <1>3, <2>1, <2>2 DEF Counted, Driving, Published
<1>9. CASE Loads(t)
  <2>1. j.pc = "load" /\ k.pc = "update" /\ k.attempt = j.attempt /\ k.event = j.event
    BY <1>3, <1>9 DEF Loads, Applied
  <2>. QED  BY <1>3, <2>1 DEF Counted, Driving, Published
<1>10. ~Ends(t)
  BY DEF Ends
<1>. QED  BY <1>1, <1>5, <1>6, <1>7, <1>8, <1>9, <1>10 DEF StepCase


-----------------------------------------------------------------------------
(* How the steps of tasks and streams keep the queues supplied. *)

\* A publication makes a queue longer, and one that ends streams makes it end.
LEMMA AppendEnds ==
    ASSUME NEW q \in Seq(States), NEW state \in States
    PROVE  /\ Len(Append(q, state)) = Len(q) + 1 /\ Len(q) \in Nat
           /\ Ending(q) \/ state \in Terminal => Ending(Append(q, state))
<1>1. /\ Len(Append(q, state)) = Len(q) + 1 /\ Len(q) \in Nat
      /\ \A i \in 1..Len(q) : Append(q, state)[i] = q[i]
      /\ Append(q, state)[Len(q) + 1] = state
  OBVIOUS
<1>2. Ending(q) => Ending(Append(q, state))
  BY <1>1 DEF Ending
<1>3. state \in Terminal => Ending(Append(q, state))
  BY <1>1 DEF Ending
<1>. QED  BY <1>1, <1>2, <1>3

\* A handler that takes an event which ends nothing leaves the one that does.
LEMMA TailEnds ==
    ASSUME NEW q \in Seq(States), q # <<>>, Head(q) \notin Terminal, Ending(q)
    PROVE  Ending(Tail(q))
<1>1. PICK i \in 1..Len(q) : q[i] \in Terminal
  BY DEF Ending
<1>2. i - 1 \in 1..Len(Tail(q)) /\ Tail(q)[i - 1] = q[i]
  BY <1>1, TailRests
<1>. QED  BY <1>1, <1>2 DEF Ending

\* What a publication leaves in a stream.
LEMMA PublishEffect ==
    ASSUME StreamTypes, NEW n, NEW state, Publish(n, state), NEW s \in Streams
    PROVE  \/ stream'[s] = stream[s] /\ stream[s] # Closed /\ stream[s].name = n
                                     /\ Len(stream[s].queue) >= Capacity
           \/ stream'[s] = stream[s] /\ (stream[s] = Closed \/ stream[s].name # n)
           \/ /\ stream[s] # Closed /\ stream[s].name = n
              /\ Len(stream[s].queue) < Capacity
              /\ stream'[s] # Closed
              /\ stream'[s].name = n /\ stream'[s].pc = stream[s].pc
              /\ stream'[s].queue = Append(stream[s].queue, state)
<1>1. stream'[s] = IF Receives(s, n) /\ Len(stream[s].queue) < Capacity
                   THEN [stream[s] EXCEPT !.queue = Append(@, state)]
                   ELSE stream[s]
  BY DEF Publish
<1>2. stream[s] # Closed => stream[s] \in Handling /\ Len(stream[s].queue) \in Nat
  BY DEF StreamTypes, Handling
<1>3. Receives(s, n) <=> stream[s] # Closed /\ stream[s].name = n
  BY DEF Receives
<1>4. CASE Receives(s, n) /\ Len(stream[s].queue) < Capacity
  <2> DEFINE h == [stream[s] EXCEPT !.queue = Append(@, state)]
  <2>1. /\ h.queue = Append(stream[s].queue, state)
        /\ h.name = stream[s].name /\ h.pc = stream[s].pc
    BY <1>2, <1>3, <1>4 DEF Handling
  <2>2. h.pc # "closed"
    BY <1>2, <1>3, <1>4, <2>1 DEF Handling
  <2>3. h # Closed
    BY <2>2 DEF Closed
  <2>. QED  BY <1>1, <1>3, <1>4, <2>1, <2>3
<1>5. CASE ~(Receives(s, n) /\ Len(stream[s].queue) < Capacity)
  BY <1>1, <1>2, <1>3, <1>5, CapacityAssumption
<1>. QED  BY <1>4, <1>5

\* A step of the only task that is about a stream's volume keeps the stream supplied.
LEMMA SupplyHere ==
    ASSUME Repo = "inmemory", InTurn, Capacity > 2 * MaxAttempts,
           TypeInv, TypeInv', StreamTypes, SerialInv,
           NEW t \in Tasks, Apply(t), Counted(task[t]),
           NEW s \in Streams, stream[s] # Closed, stream'[s] # Closed, Supplied(stream[s]),
           stream[s].name = task[t].name
    PROVE  Supplied(stream[s])'
<1> DEFINE j == task[t]
           k == task'[t]
           n == j.name
           q == stream[s].queue
           r == stream'[s]
           old == db[n].state
           new == db'[n].state
           pc == stream[s].pc
           Announcing == /\ k.pc = "record" /\ k.op # "reconcile"
                         /\ k.name = n /\ k.vol.state \in Terminal
<1>1. /\ j \in Job /\ Coherent(j) /\ n \in Names /\ j # Idle
      /\ Step(t) /\ StepCase(t)
  <2>1. Step(t)
    BY DEF Apply
  <2>2. j \in Job /\ Coherent(j) /\ StepCase(t)
    BY <2>1, StepCases
  <2>. QED  BY <2>1, <2>2 DEF Job, Idle
<1>2. /\ q \in Seq(States) /\ Len(q) \in Nat /\ MaxAttempts \in Nat
      /\ Capacity \in Nat
  BY CapacityAssumption, MaxAttemptsAssumption DEF StreamTypes, Handling
<1>3. /\ \A u \in Tasks : task[u] # Idle /\ task[u].name = n => u = t
      /\ \A u \in Tasks : task'[u] # Idle /\ task'[u].name = n => u = t
      /\ Claim(j, db[n], backend[n])
  <2>1. \A u \in Tasks : task[u] # Idle /\ task[u].name = n => u = t
    BY <1>1 DEF InTurn
  <2>2. \A u \in Tasks \ {t} : task'[u] = task[u]
    BY <1>1, StepCases
  <2>. QED  BY <1>1, <2>1, <2>2 DEF SerialInv
<1>4. /\ \/ Ending(q)
         \/ /\ old \in Transitional /\ Len(q) <= 2 * MaxAttempts
            /\ Driving(j) => Len(q) <= Published(j)
         \/ /\ old \notin Transitional
            /\ \/ q = <<>> /\ (pc = "current" \/ old \notin Terminal)
               \/ Len(q) <= 2 * MaxAttempts /\ Announces(t, n)
  <2>1. \A u \in Tasks : Announces(u, n) => u = t
    <3>1. \A u \in Tasks : Announces(u, n) => task[u] # Idle /\ task[u].name = n
      BY DEF Announces, At, Idle
    <3>. QED  BY <1>3, <3>1
  <2>. QED  BY <1>1, <2>1 DEF Supplied
<1>5. k # Idle =>
          /\ k.name = n /\ Counted(k)
          /\ Driving(k) =>
                /\ Driving(j) \/ (j.pc = "update" /\ j.event \in Driven)
                /\ Driving(j) => Published(j) <= Published(k)
                /\ j.pc = "record" => Published(j) + 1 <= Published(k)
                /\ Published(k) \in 0..(2 * MaxAttempts)
  <2>1. k # Idle => k \in Job /\ Coherent(k) /\ k.name = n
    <3>1. k # Idle => k \in Job /\ Coherent(k)
      BY DEF TypeInv, TaskState
    <3>. QED  BY <1>1, <3>1, RolesStay
  <2>2. k # Idle => Counted(k)
    BY <1>1, CountedSteps
  <2>3. k # Idle /\ Driving(k) => Published(k) \in 0..(2 * MaxAttempts)
    BY <2>1, <2>2, PublishedBounds
  <2>. QED  BY <1>1, <2>1, <2>2, <2>3, CountedSteps
<1>6. ~Driving(Idle) /\ (Driving(j) => Published(j) \in 0..(2 * MaxAttempts))
  BY <1>1, PublishedBounds DEF Driving, Idle
<1>7. Driving(j) => old \in Transitional
  BY <1>1, DriverRow
<1>8. SUFFICES /\ r.name = n
               /\ \/ Ending(r.queue)
                  \/ /\ new \in Transitional /\ Len(r.queue) <= 2 * MaxAttempts
                     /\ Driving(k) => Len(r.queue) <= Published(k)
                  \/ /\ new \notin Transitional
                     /\ \/ r.queue = <<>> /\ (r.pc = "current" \/ new \notin Terminal)
                        \/ Len(r.queue) <= 2 * MaxAttempts /\ Announcing
  <2>1. r.name = n /\ Announcing => \E u \in Tasks : Announces(u, stream[s].name)'
    BY DEF Announces, At
  <2>2. \A u \in Tasks : Driving(task'[u]) /\ task'[u].name = n => u = t
    <3>1. \A u \in Tasks : Driving(task'[u]) => task'[u] # Idle
      BY <1>6
    <3>. QED  BY <1>3, <3>1
  <2>. QED  BY <1>8, <2>1, <2>2 DEF Supplied
<1>9. CASE At(t, "record") /\ j.op # "reconcile"
  <2>1. UNCHANGED db /\ j.pc = "record" /\ j.vol.state \in States
    BY <1>1, <1>9, RecordsState
       DEF At, StepCase, Ends, Finds, Writes, Takes, Persists, Loops, Calls, Loads
  <2>2. Publish(n, j.vol.state)
    BY <1>9 DEF Apply
  <2>3. \/ r = stream[s] /\ Len(q) >= Capacity
        \/ /\ r.name = n /\ r.pc = pc
           /\ r.queue = Append(q, j.vol.state)
    BY <2>2, PublishEffect
  <2>4. CASE Ending(q)
    BY <1>2, <2>1, <2>3, <2>4, AppendEnds
  <2>5. CASE ~Ending(q)
    <3>1. Len(q) <= 2 * MaxAttempts
      BY <1>2, <1>4, <2>5
    <3>2. r.name = n /\ r.pc = pc /\ r.queue = Append(q, j.vol.state)
      BY <1>2, <2>3, <3>1
    <3>3. CASE j.vol.state \in Terminal
      BY <1>2, <2>1, <3>2, <3>3, AppendEnds
    <3>4. CASE j.vol.state \notin Terminal
      <4>1. j.event \in Driven \cup {"error", "retry"}
        BY <1>9, <2>1, <3>4 DEF Counted
      <4>2. Driving(j) /\ k # Idle
        BY <1>1, <2>1, <4>1, AttemptSteps DEF Driving
      <4>3. Driving(k)
        <5>1. k.pc \in {"begin", "backoff", "load"}
          BY <1>1, <2>1, <4>2
             DEF StepCase, Ends, Finds, Writes, Takes, Persists, Loops, Calls, Loads
        <5>. QED  BY <5>1 DEF Driving
      <4>4. old \in Transitional /\ Len(q) <= Published(j)
        BY <1>4, <1>7, <2>5, <4>2
      <4>5. /\ Len(q) + 1 <= Published(k) /\ Published(k) <= 2 * MaxAttempts
            /\ Published(k) \in Nat
        BY <1>2, <1>5, <1>6, <2>1, <4>2, <4>3, <4>4
      <4>6. new = old /\ Len(r.queue) = Len(q) + 1
        BY <1>2, <2>1, <3>2, AppendEnds
      <4>. QED  BY <1>2, <3>2, <4>4, <4>5, <4>6
    <3>. QED  BY <3>3, <3>4
  <2>. QED  BY <2>4, <2>5
<1>10. CASE ~(At(t, "record") /\ j.op # "reconcile")
  <2>1. r = stream[s] /\ ~Announces(t, n)
    BY <1>10 DEF Apply, Announces
  <2>2. CASE Ending(q)
    BY <2>1, <2>2
  <2>3. CASE ~Ending(q) /\ UNCHANGED db /\ j.pc # "update"
    <3>1. Driving(k) => Driving(j)
      BY <1>5, <1>6, <2>3
    <3>2. Driving(k) /\ Len(q) <= Published(j) => Len(q) <= Published(k)
      BY <1>2, <1>5, <1>6, <3>1
    <3>. QED  BY <1>4, <2>1, <2>3, <3>1, <3>2
  <2>4. CASE ~Ending(q) /\ j.pc \in {"save", "setnode"} /\ Write(n, j.vol)
                        /\ (j.pc = "save" => db[n] = NoRow)
    <3>1. new = j.vol.state
      BY <1>1, <2>4 DEF Write, TypeInv, TypeOK
    <3>2. ~Driving(j)
      BY <2>4 DEF Driving
    <3>3. ~Driving(k)
      BY <1>5, <1>6, <2>4, <3>2
    <3>4. \/ old = "none" /\ new = "pending"
          \/ old = "available" /\ new = "available"
      BY <1>1, <1>3, <2>4, <3>1 DEF Claim, Coherent, NoRow
    <3>5. /\ old \notin Transitional /\ new \notin Transitional
          /\ new \in Terminal => old \in Terminal
      BY <3>4 DEF Transitional, InProgress, FailedStates, Terminal
    <3>. QED  BY <1>4, <2>1, <2>4, <3>5
  <2>5. CASE ~Ending(q) /\ j.pc = "update"
    <3>1. Persists(t)
      BY <1>1, <2>5, AttemptSteps
         DEF StepCase, Ends, Finds, Writes, Takes, Persists, Loops, Calls, Loads
    <3>2. /\ new = j.vol.state /\ k.pc = "record" /\ k.event = j.event /\ k.op = j.op
          /\ k.vol = j.vol /\ k.name = n
      BY <1>1, <3>1 DEF Persists, Write, Same, TypeInv, TypeOK
    <3>3. k # Idle
      BY <3>2 DEF Idle
    <3>4. CASE j.op = "reconcile"
      <4>1. old = "error" /\ new \in {"available", "attached"}
        BY <1>3, <2>5, <3>2, <3>4 DEF Claim, AsFound
      <4>2. old \notin Transitional /\ new \notin Transitional /\ old \in Terminal
        BY <4>1 DEF Transitional, InProgress, FailedStates, Terminal
      <4>. QED  BY <1>4, <2>1, <2>5, <4>2
    <3>5. CASE j.op # "reconcile" /\ j.event \in Driven
      <4>1. <<old, j.event, new>> \in Transitions
        BY <1>3, <2>5, <3>2, <3>5 DEF Claim
      <4>2. new = Underway[j.event] /\ old \notin Transitional
        BY <3>5, <4>1, AcceptEdges
      <4>3. new \in Transitional
        BY <3>5, <4>2, DrivenOps DEF Underway, Transitional, InProgress
      <4>4. q = <<>> /\ Published(k) = 0
        BY <1>4, <2>1, <2>5, <3>2, <3>5, <4>2 DEF Published
      <4>. QED  BY <1>2, <2>1, <4>3, <4>4
    <3>6. CASE j.op # "reconcile" /\ j.event \notin Driven
      <4>1. <<old, j.event, new>> \in Transitions
        BY <1>3, <2>5, <3>2, <3>6 DEF Claim
      <4>2. Driving(j)
        <5>1. j.event \in Driven \cup WorkerEvents
          BY <1>1, <2>5, <3>6, DrivenOps DEF Job, Coherent
        <5>. QED  BY <2>5, <3>6, <5>1 DEF Driving
      <4>3. Len(q) <= Published(j) /\ Len(q) <= 2 * MaxAttempts
        BY <1>4, <1>7, <2>5, <4>2
      <4>4. CASE j.event \in {"error", "retry"}
        <5>1. Driving(k)
          BY <3>2, <4>4 DEF Driving
        <5>2. Len(q) <= Published(k)
          BY <1>2, <1>5, <1>6, <3>3, <4>2, <4>3, <5>1
        <5>3. new \in Transitional
          BY <4>1, <4>4 DEF Transitions, Transitional, InProgress, FailedStates
        <5>. QED  BY <2>1, <4>3, <5>2, <5>3
      <4>5. CASE j.event \notin {"error", "retry"}
        <5>1. new \in Terminal
          BY <3>6, <4>1, <4>5, EndEdges
        <5>2. Announcing
          BY <3>2, <3>6, <5>1
        <5>3. new \notin Transitional
          BY <5>1 DEF Transitional, InProgress, FailedStates, Terminal
        <5>. QED  BY <2>1, <4>3, <5>2, <5>3
      <4>. QED  BY <4>4, <4>5
    <3>. QED  BY <3>4, <3>5, <3>6
  <2>6. \/ UNCHANGED db /\ j.pc # "update"
        \/ /\ j.pc \in {"save", "setnode"} /\ Write(n, j.vol)
           /\ j.pc = "save" => db[n] = NoRow
        \/ j.pc = "update"
    BY <1>1
       DEF StepCase, Ends, Finds, Writes, Takes, Persists, Loops, Calls, Loads
  <2>. QED  BY <2>2, <2>3, <2>4, <2>5, <2>6
<1>. QED  BY <1>9, <1>10


\* It keeps every other stream supplied too: neither its volume nor what is announced
\* for it changes.
LEMMA SupplyElsewhere ==
    ASSUME TypeInv, TypeInv', SerialInv, StreamTypes,
           NEW t \in Tasks, Apply(t),
           NEW s \in Streams, stream[s] # Closed, Supplied(stream[s]),
           stream[s].name # task[t].name, stream[s].name \in Names
    PROVE  Supplied(stream[s])'
<1> DEFINE n == stream[s].name
<1>1. /\ task[t] \in Job /\ Coherent(task[t]) /\ StepCase(t)
      /\ \A u \in Tasks \ {t} : task'[u] = task[u]
  BY StepCases DEF Apply
<1>2. stream'[s] = stream[s]
  BY PublishEffect DEF Apply
<1>3. db'[n] = db[n]
  BY <1>1, OwnerChanges DEF TypeInv, TypeOK
<1>4. ~Driving(Idle) /\ Idle.pc # "record"
  BY DEF Driving, Idle
<1>5. task'[t] # Idle => task'[t].name # n
  <2>1. task'[t] # Idle => Coherent(task'[t])
    BY DEF TypeInv, TaskState
  <2>. QED  BY <1>1, <2>1, RolesStay
<1>6. \A u \in Tasks :
          Driving(task'[u]) /\ task'[u].name = n <=> Driving(task[u]) /\ task[u].name = n
  BY <1>1, <1>4, <1>5
<1>7. \A u \in Tasks : Driving(task[u]) /\ task[u].name = n => task'[u] = task[u]
  BY <1>1
<1>8. ASSUME NEW u \in Tasks, Announces(u, n)
      PROVE  Announces(u, stream[s].name)'
  BY <1>1, <1>2, <1>8 DEF Announces, At
<1>. QED  BY <1>2, <1>3, <1>6, <1>7, <1>8 DEF Supplied

\* What a stream's own handler does.
LEMMA SupplyMine ==
    ASSUME Repo = "inmemory", TypeInv, StreamTypes, EndInv, NEW s \in Streams, UNCHANGED vars,
           Current(s) \/ Tell(s) \/ Follow(s), Supplied(stream[s]), stream'[s] # Closed
    PROVE  Supplied(stream[s])'
<1> DEFINE r == stream[s]
           q == r.queue
<1>1. r.pc \in {"current", "tell", "follow"}
  BY DEF Current, Tell, Follow
<1>2. r \in Handling /\ q \in Seq(States) /\ r.name \in Names
  <2>1. r.pc # "closed"
    BY <1>1
  <2>. QED  BY <2>1, OpenStream DEF Handling
<1>3. ~Unsubscribe(s)
  BY DEF Unsubscribe, StreamTypes
<1>4. CASE Current(s)
  <2>1. stream' = [stream EXCEPT ![s].pc = "tell"] /\ db[r.name].state \notin Terminal
    BY <1>3, <1>4 DEF Current, DbFails
  <2>2. stream'[s].queue = q /\ stream'[s].name = r.name
    BY <1>2, <2>1 DEF StreamTypes, Handling
  <2>. QED  BY <2>1, <2>2 DEF vars, Supplied, Announces, At
<1>5. CASE Tell(s)
  <2>1. stream' = [stream EXCEPT ![s].pc = "follow"] /\ r.pc = "tell"
    BY <1>5 DEF Tell
  <2>2. stream'[s].queue = q /\ stream'[s].name = r.name
    BY <1>2, <2>1 DEF StreamTypes, Handling
  <2>. QED  BY <2>1, <2>2 DEF vars, Supplied, Announces, At
<1>6. CASE Follow(s)
  <2>1. /\ stream' = [stream EXCEPT ![s].queue = Tail(@)] /\ r.pc = "follow"
        /\ q # <<>> /\ Head(q) \notin Terminal
    BY <1>3, <1>6 DEF Follow
  <2>2. stream'[s].queue = Tail(q) /\ stream'[s].name = r.name
    BY <1>2, <2>1 DEF StreamTypes, Handling
  <2>3. Ending(q) => Ending(Tail(q))
    BY <1>2, <2>1, TailEnds
  <2>4. Len(q) \in Nat /\ Len(Tail(q)) \in Nat /\ Len(Tail(q)) <= Len(q)
    BY <1>2, <2>1, TailRests
  <2>5. CASE Ending(q)
    <3>1. Ending(stream[s].queue)'
      BY <2>2, <2>3, <2>5 DEF Ending
    <3>. QED  BY <3>1 DEF Supplied
  <2>6. CASE ~Ending(q)
    <3>1. CASE db[r.name].state \in Transitional
      <4>1. /\ Len(q) <= 2 * MaxAttempts
            /\ \A t \in Tasks :
                  Driving(task[t]) /\ task[t].name = r.name => Len(q) <= Published(task[t])
        BY <2>6, <3>1 DEF Supplied
      <4>2. \A t \in Tasks : Driving(task[t]) => Published(task[t]) \in Nat
        <5>1. ASSUME NEW t \in Tasks, Driving(task[t])
              PROVE  task[t] \in Job /\ Counted(task[t])
          <6>1. task[t].pc # "idle" /\ task[t] # Idle
            BY <5>1 DEF Driving, Idle
          <6>. QED  BY <6>1, AtJob DEF EndInv
        <5>. QED  BY <5>1, PublishedBounds, MaxAttemptsAssumption
      <4>3. /\ Len(Tail(q)) <= 2 * MaxAttempts
            /\ \A t \in Tasks :
                  Driving(task[t]) /\ task[t].name = r.name
                     => Len(Tail(q)) <= Published(task[t])
        BY <2>4, <4>1, <4>2, MaxAttemptsAssumption
      <4>. QED  BY <2>2, <3>1, <4>3 DEF vars, Supplied
    <3>2. CASE db[r.name].state \notin Transitional
      <4>1. Len(q) <= 2 * MaxAttempts /\ \E t \in Tasks : Announces(t, r.name)
        BY <2>1, <2>6, <3>2 DEF Supplied
      <4>2. Len(Tail(q)) <= 2 * MaxAttempts
        BY <2>4, <4>1, MaxAttemptsAssumption
      <4>. QED  BY <2>2, <3>2, <4>1, <4>2 DEF vars, Supplied, Announces, At
    <3>. QED  BY <3>1, <3>2
  <2>. QED  BY <2>5, <2>6
<1>. QED  BY <1>4, <1>5, <1>6

\* A publication finds room as long as a queue holds no more than its operation has
\* published, and a handler that goes on only empties it.
LEMMA EndStep ==
    ASSUME Repo = "inmemory", InTurn, Capacity > 2 * MaxAttempts,
           TypeInv, TypeInv', StreamTypes, StreamTypes', SerialInv, EndInv,
           [StreamNext]_streamVars
    PROVE  EndInv'
<1>1. \A s \in Streams : stream[s] # Closed => stream[s] \in Handling /\ stream[s].name \in Names
  BY DEF StreamTypes, Handling
<1>2. ASSUME UNCHANGED <<db, task>>, NEW s \in Streams, stream'[s] = stream[s],
             Supplied(stream[s])
      PROVE  Supplied(stream[s])'
  BY <1>2 DEF Supplied, Announces, At
<1>3. ASSUME UNCHANGED <<db, task, stream>>
      PROVE  EndInv'
  <2>1. \A t \in Tasks : task'[t] # Idle => Counted(task'[t])
    BY <1>3 DEF EndInv
  <2>2. ASSUME NEW s \in Streams, stream'[s] # Closed
        PROVE  Supplied(stream[s])'
    BY <1>2, <1>3, <2>2 DEF EndInv
  <2>. QED  BY <2>1, <2>2 DEF EndInv
<1>4. ASSUME NEW t \in Tasks, NEW op \in Ops, NEW n \in Names,
             NEW node \in Nodes \cup {NoNode}, Arrive(t, op, n, node), UNCHANGED stream
      PROVE  EndInv'
  <2> DEFINE k == [pc |-> "lookup", op |-> op, name |-> n, node |-> node,
                   vol |-> NoRow, event |-> op, attempt |-> 0]
  <2>1. /\ task'[t] = k /\ \A u \in Tasks \ {t} : task'[u] = task[u]
        /\ UNCHANGED db /\ task[t].pc = "idle"
    BY <1>4, BecomeEffect DEF Arrive, At
  <2>2. Counted(k) /\ ~Driving(k) /\ k.pc = "lookup"
    BY DEF Counted, Driving
  <2> HIDE DEF k
  <2>3. \A u \in Tasks : task'[u] # Idle => Counted(task'[u])
    BY <2>1, <2>2 DEF EndInv
  <2>4. ASSUME NEW s \in Streams, stream'[s] # Closed
        PROVE  Supplied(stream[s])'
    <3>1. Supplied(stream[s]) /\ stream'[s] = stream[s]
      BY <1>4, <2>4 DEF EndInv
    <3>2. \A u \in Tasks : Driving(task'[u]) => task'[u] = task[u]
      BY <2>1, <2>2
    <3>3. \A u \in Tasks : Announces(u, stream[s].name) => Announces(u, stream[s].name)'
      BY <2>1, <3>1 DEF Announces, At
    <3>. QED  BY <2>1, <3>1, <3>2, <3>3 DEF Supplied
  <2>. QED  BY <2>3, <2>4 DEF EndInv
<1>5. ASSUME NEW t \in Tasks, Apply(t)
      PROVE  EndInv'
  <2>1. Step(t) /\ task[t] # Idle /\ \A u \in Tasks \ {t} : task'[u] = task[u]
    <3>1. Step(t)
      BY <1>5 DEF Apply
    <3>2. task[t] \in Job /\ \A u \in Tasks \ {t} : task'[u] = task[u]
      BY <3>1, StepCases
    <3>3. task[t].pc # "idle"
      BY <3>2 DEF Job
    <3>. QED  BY <3>1, <3>2, <3>3 DEF Idle
  <2>2. Counted(task[t])
    BY <2>1 DEF EndInv
  <2>3. \A u \in Tasks : task'[u] # Idle => Counted(task'[u])
    BY <2>1, <2>2, CountedSteps DEF EndInv
  <2>4. ASSUME NEW s \in Streams, stream'[s] # Closed
        PROVE  Supplied(stream[s])'
    <3>1. stream[s] # Closed
      BY <1>5, <2>4, PublishEffect DEF Apply
    <3>2. Supplied(stream[s]) /\ stream[s].name \in Names
      BY <1>1, <3>1 DEF EndInv
    <3>3. CASE stream[s].name = task[t].name
      BY <1>5, <2>2, <2>4, <3>1, <3>2, <3>3, SupplyHere
    <3>4. CASE stream[s].name # task[t].name
      BY <1>5, <3>1, <3>2, <3>4, SupplyElsewhere
    <3>. QED  BY <3>3, <3>4
  <2>. QED  BY <2>3, <2>4 DEF EndInv
<1>6. ASSUME NEW s \in Streams, NEW n \in Names, Subscribe(s, n)
      PROVE  EndInv'
  <2> DEFINE h == [pc |-> "current", name |-> n, queue |-> <<>>]
  <2>1. UNCHANGED <<db, task>> /\ stream'[s] = h
        /\ \A r \in Streams \ {s} : stream'[r] = stream[r]
    BY <1>6 DEF Subscribe, vars, StreamTypes
  <2>2. \A t \in Tasks : task'[t] # Idle => Counted(task'[t])
    BY <2>1 DEF EndInv
  <2>3. \A t \in Tasks : Driving(task[t]) => 0 <= Published(task[t])
    <3>1. ASSUME NEW t \in Tasks, Driving(task[t])
          PROVE  task[t] \in Job /\ Counted(task[t])
      <4>1. task[t].pc # "idle" /\ task[t] # Idle
        BY <3>1 DEF Driving, Idle
      <4>. QED  BY <4>1, AtJob DEF EndInv
    <3>. QED  BY <3>1, PublishedBounds
  <2>4. Supplied(h)
    <3>1. /\ h.name = n /\ h.queue = <<>> /\ h.pc = "current"
          /\ Len(h.queue) = 0 /\ 0 <= 2 * MaxAttempts
      BY MaxAttemptsAssumption
    <3> HIDE DEF h
    <3>. QED  BY <2>3, <3>1 DEF Supplied
  <2>5. ASSUME NEW r \in Streams, stream'[r] # Closed
        PROVE  Supplied(stream[r])'
    <3>1. CASE r = s
      BY <2>1, <2>4, <3>1 DEF Supplied, Announces, At
    <3>2. CASE r # s
      <4>1. stream'[r] = stream[r]
        BY <2>1, <3>2
      <4>. QED  BY <1>2, <2>1, <2>5, <4>1 DEF EndInv
    <3>. QED  BY <3>1, <3>2
  <2>. QED  BY <2>2, <2>5 DEF EndInv
<1>7. ASSUME NEW s \in Streams, Current(s) \/ Tell(s) \/ Follow(s) \/ Leave(s)
      PROVE  EndInv'
  <2>1. UNCHANGED vars
    BY <1>7 DEF Current, Tell, Follow, Leave, DbFails, vars
  <2>2. \A t \in Tasks : task'[t] # Idle => Counted(task'[t])
    BY <2>1 DEF EndInv, vars
  <2>3. PICK h : stream' = [stream EXCEPT ![s] = h]
    BY <1>7, HandlerMoves
  <2>4. \A r \in Streams \ {s} : stream'[r] = stream[r]
    BY <2>3 DEF StreamTypes
  <2>5. ASSUME NEW r \in Streams, stream'[r] # Closed
        PROVE  Supplied(stream[r])'
    <3>1. CASE r = s
      <4>1. ~Leave(s)
        BY <2>5, <3>1 DEF Leave, Unsubscribe, StreamTypes
      <4>2. stream[s] # Closed
        BY <1>7, <4>1 DEF Current, Tell, Follow, Closed
      <4>. QED  BY <1>7, <2>1, <2>5, <3>1, <4>1, <4>2, SupplyMine DEF EndInv
    <3>2. CASE r # s
      <4>1. stream'[r] = stream[r]
        BY <2>4, <3>2
      <4>. QED  BY <1>2, <2>1, <2>5, <4>1 DEF EndInv, vars
    <3>. QED  BY <3>1, <3>2
  <2>. QED  BY <2>2, <2>5 DEF EndInv
<1>8. CASE Close /\ UNCHANGED stream
  BY <1>3, <1>8 DEF Close
<1>9. CASE UNCHANGED streamVars
  BY <1>3, <1>9 DEF streamVars, vars
<1>. QED  BY <1>4, <1>5, <1>6, <1>7, <1>8, <1>9 DEF StreamNext

-----------------------------------------------------------------------------
\* With a repository that does not fail, streams only look on.
LEMMA StreamsLookOn ==
    ASSUME Repo = "inmemory"
    PROVE  StreamSpec => SerialSpec
<1>1. ASSUME StreamNext
      PROVE  [SerialNext]_vars
  <2>1. ~DbFails
    BY DEF DbFails
  <2>2. ASSUME NEW s \in Streams, Current(s) \/ Tell(s) \/ Follow(s) \/ Leave(s)
        PROVE  UNCHANGED vars
    BY <2>1, <2>2 DEF Current, Tell, Follow, Leave, vars
  <2>. QED  BY <1>1, <2>2 DEF StreamNext, SerialNext, Apply, Subscribe
<1>2. [StreamNext]_streamVars => [SerialNext]_vars
  BY <1>1 DEF streamVars
<1>3. StreamInit => Init
  BY DEF StreamInit
<1>. QED  BY <1>2, <1>3, PTL DEF StreamSpec, SerialSpec

\* A client that waits for a volume that has come to rest is about to hear of it, for
\* every number of attempts that a channel has room for, as long as the requests on a
\* volume come one after the other.
THEOREM TheEndIsComing ==
    ASSUME Repo = "inmemory", Capacity > 2 * MaxAttempts
    PROVE  StreamSpec /\ []InTurn => []EndIsComing
<1>1. StreamInit => EndInv
  BY DEF StreamInit, Init, EndInv
<1>2. /\ TypeInv /\ TypeInv' /\ StreamTypes /\ StreamTypes' /\ SerialInv /\ InTurn /\ EndInv
      /\ [StreamNext]_streamVars
      => EndInv'
  BY EndStep
<1>3. TypeInv /\ StreamTypes /\ EndInv => EndIsComing
  <2>1. ASSUME StreamTypes, EndInv, NEW s \in Streams, stream[s].pc \in {"tell", "follow"},
               db[stream[s].name].state \in Terminal
        PROVE  \/ \E i \in 1..Len(stream[s].queue) : stream[s].queue[i] \in Terminal
               \/ \E t \in Tasks : Announces(t, stream[s].name)
    <3>1. Supplied(stream[s])
      BY <2>1 DEF EndInv, Closed
    <3>2. db[stream[s].name].state \notin Transitional
      BY <2>1 DEF Terminal, Transitional, InProgress, FailedStates
    <3>. QED  BY <2>1, <3>1, <3>2 DEF Supplied, Ending
  <2>. QED  BY <2>1 DEF EndIsComing
<1>4. StreamSpec => [](TypeInv /\ SerialInv)
  BY StreamsLookOn, SerialInvariant
<1>5. StreamSpec => [](TypeInv /\ StreamTypes)
  BY StreamTypeInit, StreamTypeStep, PTL DEF StreamSpec
<1>. QED  BY <1>1, <1>2, <1>3, <1>4, <1>5, PTL DEF StreamSpec

\* Beside streams as without them, the audit trail keeps up with the rows.
THEOREM AuditIsUpToDateForStreams ==
    ASSUME Repo = "inmemory"
    PROVE  StreamSpec /\ []InTurn => []AuditKeepsUp
BY StreamsLookOn, SerialIsNext, AuditIsUpToDate

=============================================================================
