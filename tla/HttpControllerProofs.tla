------------------------ MODULE HttpControllerProofs ------------------------
(***************************************************************************)
(* Theorems about HttpController: what the handlers answer, and what they  *)
(* find when they load a volume beside the goroutine they have started.    *)
(***************************************************************************)
EXTENDS HttpController, VolumeSerialProofs

-----------------------------------------------------------------------------
(* Exchanges and the tasks that serve them. *)

\* A request is with its handler as long as the handler's task says so.
Serving(t) ==
    /\ exchange[t].pc = "app" <=> Handler(t)
    /\ exchange[t].pc = "app" =>
          /\ exchange[t].op = task[t].op
          /\ exchange[t].name = task[t].name
          /\ exchange[t].node = task[t].node

HttpInv ==
    /\ exchange \in [Tasks -> Exchange \cup {Free}]
    /\ answer \in Statuses \cup {Silent}
    /\ \A t \in Tasks : Serving(t)

\* The steps of the controller and of whoever runs it: everybody else leaves the
\* requests alone.
Aside ==
    /\ UNCHANGED <<db, audit, backend, task, faults, exchange>>
    /\ answer' = Silent
    /\ closing' \in {"open", "canceled", "drained", "timedout"}

HttpAny ==
    \/ \E t \in Tasks, op \in Ops, n \in Names, node \in Nodes \cup {NoNode} :
          Receive(t, op, n, node)
    \/ \E t \in Tasks : Reject(t) \/ HttpStep(t) \/ Show(t)
    \/ Aside

\* The same for clients that wait for each other, and a shutdown that is not undone.
HttpOrderly ==
    \/ \E t \in Tasks, op \in Ops, n \in Names, node \in Nodes \cup {NoNode} :
          OrderlyClient(op, n) /\ Receive(t, op, n, node)
    \/ \E t \in Tasks : Reject(t) \/ HttpStep(t) \/ Show(t)
    \/ Aside /\ (Canceled => Canceled')

OrderlyService == HttpInit /\ [][HttpOrderly]_httpVars

\* What an error or a success is answered with.
LEMMA AnswerType ==
    /\ \A err : mapAppError(err) \in Statuses
    /\ \A op \in Ops : Success[op] \in {200, 201, 202}
BY DEF mapAppError, Statuses, Success, Ops

\* A handler's step leads to a handler again, to the goroutine it has started after
\* its last one, or to its end.
LEMMA HandlerGoesOn ==
    ASSUME TypeInv, NEW t \in Tasks, Handler(t), Step(t)
    PROVE  /\ At(t, "record") => ~Handler(t)'
           /\ ~At(t, "record") /\ task'[t] # Idle =>
                 /\ Handler(t)'
                 /\ Same(task'[t], task[t])
<1> DEFINE j == task[t]
           k == task'[t]
<1>1. j \in Job /\ Coherent(j) /\ StepCase(t)
  BY StepCases
<1>2. /\ j.pc \in {"lookup", "save", "setnode", "inspect", "update", "record"}
      /\ j.event \notin WorkerEvents
  BY <1>1 DEF Handler, Worker, Job, Coherent, Ops, WorkerEvents
<1> USE DEF Handler, Worker, At
<1>3. CASE Ends(t)      BY <1>3 DEF Ends, Idle
<1>4. CASE Finds(t)     BY <1>2, <1>4 DEF Finds, Applied
<1>5. CASE Writes(t)    BY <1>2, <1>5 DEF Writes, Applied
<1>6. CASE Takes(t)     BY <1>2, <1>6 DEF Takes
<1>7. CASE Persists(t)  BY <1>2, <1>7 DEF Persists
<1>8. CASE Loops(t)     BY <1>2, <1>8 DEF Loops, WorkerEvents
<1>9. CASE Calls(t)     BY <1>2, <1>9 DEF Calls
<1>10. CASE Loads(t)    BY <1>2, <1>10 DEF Loads
<1>. QED  BY <1>1, <1>3, <1>4, <1>5, <1>6, <1>7, <1>8, <1>9, <1>10 DEF StepCase

\* A step that leaves a request to another task alone.
LEMMA OtherServing ==
    ASSUME HttpInv, NEW t \in Tasks, NEW u \in Tasks, u # t,
           task'[u] = task[u], exchange'[u] = exchange[u]
    PROVE  Serving(u)'
BY DEF HttpInv, Serving, Handler, Worker

\* A task whose handler is done with its request.
LEMMA FreeServes ==
    ASSUME NEW t \in Tasks, exchange'[t] = Free, ~Handler(t)'
    PROVE  Serving(t)'
<1>1. exchange'[t].pc # "app"
  BY DEF Free
<1>. QED  BY <1>1 DEF Serving

\* A step in a handler: the request goes on with it, waits for the volume that it is
\* answered with, or is answered.
LEMMA HandleServes ==
    ASSUME TypeInv, TypeInv', HttpInv, NEW t \in Tasks, Handle(t)
    PROVE  HttpInv'
<1> DEFINE j == task[t]
           k == task'[t]
           x == exchange[t]
           y == exchange'[t]
<1>1. /\ x.pc = "app" /\ x \in Exchange /\ x.op \in Ops
      /\ Handler(t) /\ Step(t) /\ Serving(t)
  BY DEF Handle, HttpInv, Serving, Free, Exchange
<1>2. \A u \in Tasks \ {t} : task'[u] = task[u]
  BY <1>1, StepCases
<1>3. SUFFICES /\ y \in Exchange \cup {Free}
               /\ exchange' = [exchange EXCEPT ![t] = y]
               /\ answer' \in Statuses \cup {Silent}
               /\ Serving(t)'
  <2>1. exchange' \in [Tasks -> Exchange \cup {Free}]
    BY <1>3 DEF HttpInv
  <2>2. \A u \in Tasks \ {t} : exchange'[u] = exchange[u]
    BY <1>3 DEF HttpInv
  <2>. QED  BY <1>2, <1>3, <2>1, <2>2, OtherServing DEF HttpInv
<1>4. CASE At(t, "record") /\ x.op \in {"attach", "detach"}
  <2> DEFINE z == [x EXCEPT !.pc = "show"]
  <2>1. exchange' = [exchange EXCEPT ![t] = z] /\ answer' = Silent
    BY <1>4 DEF Handle
  <2>2. z \in Exchange /\ z.pc = "show"
    BY <1>1 DEF Exchange
  <2>3. y = z
    BY <2>1 DEF HttpInv
  <2>4. ~Handler(t)'
    BY <1>1, <1>4, HandlerGoesOn
  <2>. QED  BY <2>1, <2>2, <2>3, <2>4 DEF Serving
<1>5. CASE At(t, "record") /\ x.op \in {"create", "delete", "reconcile"}
  <2>1. exchange' = [exchange EXCEPT ![t] = Free] /\ answer' = Success[x.op]
    BY <1>5 DEF Handle
  <2>2. y = Free /\ ~Handler(t)'
    BY <1>1, <1>5, <2>1, HandlerGoesOn DEF HttpInv
  <2>3. Success[x.op] \in {200, 201, 202}
    BY <1>1, AnswerType
  <2>4. answer' \in Statuses
    BY <2>1, <2>3 DEF Statuses
  <2>. QED  BY <2>1, <2>2, <2>4, FreeServes
<1>6. CASE ~At(t, "record") /\ k # Idle
  <2>1. exchange' = exchange /\ answer' = Silent
    BY <1>6 DEF Handle
  <2>2. y = x /\ exchange' = [exchange EXCEPT ![t] = y]
    BY <2>1 DEF HttpInv
  <2>3. Handler(t)' /\ Same(k, j)
    BY <1>1, <1>6, HandlerGoesOn
  <2>4. Serving(t)'
    BY <1>1, <2>2, <2>3 DEF Serving, Same
  <2>. QED  BY <1>1, <2>1, <2>2, <2>4
<1>7. CASE ~At(t, "record") /\ k = Idle
  <2>1. exchange' = [exchange EXCEPT ![t] = Free] /\ answer' \in Refusals(t)
    BY <1>7 DEF Handle
  <2>2. y = Free /\ ~Handler(t)'
    BY <1>7, <2>1 DEF HttpInv, Handler, Idle
  <2>3. answer' \in Statuses
    BY <2>1, AnswerType DEF Refusals, Statuses
  <2>. QED  BY <2>1, <2>2, <2>3, FreeServes
<1>. QED  BY <1>1, <1>4, <1>5, <1>6, <1>7 DEF Ops

\* The request and its task stay together over all steps, whoever the clients are.
LEMMA HttpServes ==
    ASSUME TypeInv, TypeInv', HttpInv, HttpAny
    PROVE  HttpInv'
<1>1. ASSUME NEW t \in Tasks, NEW op \in Ops, NEW n \in Names,
             NEW node \in Nodes \cup {NoNode}, Receive(t, op, n, node)
      PROVE  HttpInv'
  <2> DEFINE z == [pc |-> "app", op |-> op, name |-> n, node |-> node]
             k == [pc |-> "lookup", op |-> op, name |-> n, node |-> node,
                   vol |-> NoRow, event |-> op, attempt |-> 0]
  <2>1. /\ exchange' = [exchange EXCEPT ![t] = z] /\ answer' = Silent
        /\ task'[t] = k /\ \A u \in Tasks \ {t} : task'[u] = task[u]
    BY <1>1, BecomeEffect DEF Receive, Arrive
  <2>2. z \in Exchange
    BY DEF Exchange
  <2>3. Serving(t)'
    BY <2>1 DEF Serving, HttpInv, Handler, Worker
  <2>. QED  BY <2>1, <2>2, <2>3, OtherServing DEF HttpInv
<1>2. ASSUME NEW t \in Tasks, Reject(t)
      PROVE  HttpInv'
  BY <1>2 DEF Reject, vars, HttpInv, Serving, Handler, Worker, Statuses
<1>3. ASSUME NEW t \in Tasks, Run(t)
      PROVE  HttpInv'
  <2>1. /\ Worker(t) /\ Step(t) /\ answer' = Silent /\ exchange' = exchange
    BY <1>3 DEF Run
  <2>2. \A u \in Tasks \ {t} : task'[u] = task[u]
    BY <2>1, StepCases
  <2>3. ~Handler(t) /\ ~Handler(t)'
    <3>1. task'[t] # Idle => Coherent(task'[t])
      BY DEF TypeInv, TaskState
    <3>. QED  BY <2>1, <3>1, StepCases, RolesStay DEF Handler, Idle
  <2>4. Serving(t)'
    BY <2>1, <2>3 DEF HttpInv, Serving
  <2>. QED  BY <2>1, <2>2, <2>4, OtherServing DEF HttpInv
<1>4. ASSUME NEW t \in Tasks, Show(t)
      PROVE  HttpInv'
  <2>1. /\ exchange[t].pc = "show" /\ exchange[t] \in Exchange
        /\ exchange' = [exchange EXCEPT ![t] = Free] /\ task' = task
    BY <1>4 DEF Show, HttpInv, Free
  <2>2. answer' \in Statuses
    BY <1>4, <2>1, AnswerType DEF Show, Statuses, Exchange
  <2>3. Serving(t)'
    BY <2>1 DEF HttpInv, Serving, Handler, Worker, Free
  <2>4. exchange' \in [Tasks -> Exchange \cup {Free}]
    BY <2>1 DEF HttpInv
  <2>5. \A u \in Tasks \ {t} : exchange'[u] = exchange[u]
    BY <2>1 DEF HttpInv
  <2>. QED  BY <2>1, <2>2, <2>3, <2>4, <2>5, OtherServing DEF HttpInv
<1>5. CASE Aside
  BY <1>5 DEF Aside, HttpInv, Serving, Handler, Worker
<1>. QED  BY <1>1, <1>2, <1>3, <1>4, <1>5, HandleServes DEF HttpAny, HttpStep

\* A step beside orderly clients is one of the service, or a fault of the database that
\* only the handler sees, or one of the shutdown.
LEMMA HttpIsSerial ==
    ASSUME TypeInv, [HttpOrderly]_httpVars
    PROVE  /\ \/ [SerialNext]_vars
              \/ /\ UNCHANGED <<db, audit, backend, task>>
                 /\ faults' \in 0..MaxFaults
                 /\ closing' \in {"open", "canceled", "drained", "timedout"}
                 /\ Canceled => Canceled'
           /\ [HttpAny]_httpVars
<1>1. ASSUME NEW t \in Tasks, NEW op \in Ops, NEW n \in Names,
             NEW node \in Nodes \cup {NoNode}, OrderlyClient(op, n), Receive(t, op, n, node)
      PROVE  SerialNext /\ HttpAny
  BY <1>1 DEF OrderlyClient, Receive, SerialNext, HttpAny
<1>2. ASSUME NEW t \in Tasks, Reject(t)
      PROVE  UNCHANGED vars /\ HttpAny
  BY <1>2 DEF Reject, HttpAny
<1>3. ASSUME NEW t \in Tasks, HttpStep(t)
      PROVE  SerialNext /\ HttpAny
  BY <1>3 DEF HttpStep, Handle, Run, SerialNext, HttpAny
<1>4. ASSUME NEW t \in Tasks, Show(t)
      PROVE  /\ UNCHANGED <<db, audit, backend, task, closing>>
             /\ faults' \in 0..MaxFaults
             /\ HttpAny
  <2>1. faults' \in 0..MaxFaults
    BY <1>4, FaultType DEF Show, TypeInv
  <2>. QED  BY <1>4, <2>1 DEF Show, HttpAny
<1>5. CASE Aside /\ (Canceled => Canceled')
  BY <1>5 DEF Aside, HttpAny, TypeInv, TypeOK
<1>6. CASE UNCHANGED httpVars
  BY <1>6 DEF httpVars
<1>7. \A t \in Tasks : Show(t) => UNCHANGED Canceled /\ closing' = closing
  BY DEF Show, Canceled
<1>8. closing \in {"open", "canceled", "drained", "timedout"}
  BY DEF TypeInv, TypeOK
<1>. QED  BY <1>1, <1>2, <1>3, <1>4, <1>5, <1>6, <1>7, <1>8 DEF HttpOrderly

\* Such a fault or shutdown disturbs nobody.
LEMMA AsideStays ==
    ASSUME TypeInv, SerialInv, UNCHANGED <<db, audit, backend, task>>,
           faults' \in 0..MaxFaults,
           closing' \in {"open", "canceled", "drained", "timedout"}
    PROVE  TypeInv' /\ SerialInv'
BY DEF TypeInv, TypeOK, SerialInv, HandlersApart, OwnersApart, Handler, Worker

\* A step of orderly clients, handlers and goroutines keeps all three invariants.
LEMMA HttpStays ==
    ASSUME TypeInv, SerialInv, HttpInv, [HttpOrderly]_httpVars
    PROVE  TypeInv' /\ SerialInv' /\ HttpInv'
<1>1. TypeInv' /\ SerialInv'
  <2>1. [SerialNext]_vars => [Next]_vars
    BY DEF SerialNext, Next
  <2>. QED  BY <2>1, HttpIsSerial, AsideStays, TypeStep, SerialStep
<1>2. ASSUME UNCHANGED httpVars
      PROVE  HttpInv'
  BY <1>2 DEF httpVars, vars, HttpInv, Serving, Handler, Worker
<1>. QED  BY <1>1, <1>2, HttpIsSerial, HttpServes

\* At first no request is under way.
LEMMA HttpInvInit == HttpInit => TypeInv /\ SerialInv /\ HttpInv
<1>1. HttpInit => HttpInv
  BY DEF HttpInit, Init, HttpInv, Serving, Handler, Free, Idle
<1>. QED  BY <1>1, TypeInit, SerialInit DEF HttpInit

\* The invariants of the handlers hold, beside those of the application.
LEMMA HttpInvariant == OrderlyService => [](TypeInv /\ SerialInv /\ HttpInv)
BY HttpInvInit, HttpStays, PTL DEF OrderlyService

\* The controller with the feature's Close is such a service.
LEMMA HttpIsOrderly == HttpSpec => OrderlyService
<1>1. ASSUME HttpNext
      PROVE  HttpOrderly
  <2>1. CASE Close /\ answer' = Silent /\ UNCHANGED exchange
    BY <2>1 DEF Close, Aside, Canceled, HttpOrderly
  <2>. QED  BY <1>1, <2>1 DEF HttpNext, HttpOrderly
<1>2. [HttpNext]_httpVars => [HttpOrderly]_httpVars
  BY <1>1
<1>. QED  BY <1>2, PTL DEF HttpSpec, OrderlyService

-----------------------------------------------------------------------------
(* What clients are told. *)

\* A request is with its handler exactly while a task carries it out, under its own
\* name, and every answer is a status of the API.
THEOREM HttpTypes == HttpSpec => []HttpTypeOK
<1>1. TypeInv /\ HttpInv => HttpTypeOK
  BY DEF TypeInv, HttpInv, HttpTypeOK, Serving
<1>. QED  BY <1>1, HttpInvariant, HttpIsOrderly, PTL

\* What a handler that is about to answer an accepted request knows.
LEMMA AcceptedRow ==
    ASSUME TypeInv, SerialInv, HttpInv, NEW t \in Tasks, exchange[t].pc = "app",
           At(t, "record")
    PROVE  LET row == db[exchange[t].name]
           IN  /\ exchange[t].op = "create" => row.state = "creating"
               /\ exchange[t].op = "delete" => row.state = "deleting"
               /\ exchange[t].op = "reconcile" => AsBackend(row, backend[exchange[t].name])
<1> DEFINE j == task[t]
           row == db[j.name]
           b == backend[j.name]
<1>1. exchange[t].op = j.op /\ exchange[t].name = j.name /\ Handler(t)
  BY DEF HttpInv, Serving
<1>2. j.pc = "record" /\ j # Idle
  BY DEF At, Idle
<1>3. j \in Job /\ Coherent(j) /\ Claim(j, row, b)
  BY <1>2, AtJob DEF SerialInv
<1>4. j.event = j.op
  BY <1>1, <1>2, <1>3 DEF Handler, Worker, Job, Coherent
<1>5. j.op \in Driven => row.state = Underway[j.op]
  BY <1>2, <1>3, <1>4 DEF Claim
<1>6. j.op = "reconcile" => AsFound(row, b)
  BY <1>2, <1>3, <1>4 DEF Claim
<1>7. b \in BackendVolume /\ WellFormed(b)
  BY <1>3 DEF TypeInv, TypeOK, SerialInv, Job
<1>8. AsFound(row, b) => AsBackend(row, b)
  BY <1>7 DEF AsFound, AsBackend, WellFormed, BackendVolume
<1>. QED  BY <1>1, <1>5, <1>6, <1>8, DrivenOps DEF Underway

\* What an acceptance says is so.
LEMMA OrderlyAcceptance == OrderlyService => AcceptanceIsTrue
<1> DEFINE Said(t) ==
              LET row  == db'[exchange[t].name]
                  real == backend'[exchange[t].name]
              IN  exchange[t].pc = "app" /\ exchange'[t] = Free =>
                     /\ answer' = 201 => row.state = "creating"
                     /\ answer' = 202 => row.state = "deleting"
                     /\ answer' = 200 => AsBackend(row, real)
<1>1. ASSUME TypeInv, SerialInv, HttpInv, [HttpOrderly]_httpVars
      PROVE  \A t \in Tasks : Said(t)
  <2> SUFFICES ASSUME NEW t \in Tasks, exchange[t].pc = "app", exchange'[t] = Free,
                      answer' \in {200, 201, 202}
               PROVE  Said(t)
    OBVIOUS
  <2>1. exchange[t] # exchange'[t] /\ exchange[t] \in Exchange /\ exchange[t].op \in Ops
    BY <1>1 DEF Free, HttpInv, Exchange
  <2>2. Handle(t)
    <3>1. ASSUME NEW u \in Tasks, NEW op \in Ops, NEW n \in Names,
                 NEW node \in Nodes \cup {NoNode}, Receive(u, op, n, node)
          PROVE  FALSE
      BY <3>1 DEF Receive, Silent
    <3>2. ASSUME NEW u \in Tasks, Handle(u), u # t
          PROVE  FALSE
      BY <1>1, <2>1, <3>2 DEF Handle, HttpInv
    <3>3. ASSUME NEW u \in Tasks, Show(u)
          PROVE  FALSE
      BY <1>1, <2>1, <3>3 DEF Show, HttpInv
    <3>4. HttpAny
      BY <1>1, <2>1, HttpIsSerial DEF httpVars
    <3>. QED
      BY <2>1, <3>1, <3>2, <3>3, <3>4 DEF HttpAny, HttpStep, Reject, Run, Aside
  <2>3. At(t, "record") /\ answer' = Success[exchange[t].op]
    <3>1. Free.pc = "free"
      BY DEF Free
    <3>2. exchange' = [exchange EXCEPT ![t].pc = "show"] => exchange'[t].pc = "show"
      BY <1>1, <2>1 DEF HttpInv, Exchange
    <3>3. \A s \in Refusals(t) : s \notin {200, 201, 202}
      BY DEF Refusals, mapAppError
    <3>. QED  BY <2>1, <2>2, <3>1, <3>2, <3>3 DEF Handle
  <2>4. UNCHANGED <<db, backend>>
    <3>1. Record(t)
      BY <2>2, <2>3 DEF Handle, At, Step, Lookup, Save, SetNode, Inspect, Update, Begin,
                        Call, Load, Backoff
    <3>. QED  BY <3>1 DEF Record
  <2>5. \/ exchange[t].op = "create" /\ answer' = 201
        \/ exchange[t].op = "reconcile" /\ answer' = 200
        \/ exchange[t].op = "delete" /\ answer' = 202
    <3>1. exchange[t].op \in {"create", "delete", "reconcile"}
      <4>1. exchange' = [exchange EXCEPT ![t].pc = "show"] => exchange'[t].pc = "show"
        BY <1>1, <2>1 DEF HttpInv, Exchange
      <4>2. Free.pc = "free"
        BY DEF Free
      <4>. QED  BY <2>2, <2>3, <4>1, <4>2 DEF Handle
    <3>. QED  BY <2>3, <3>1 DEF Success
  <2>. QED  BY <1>1, <2>3, <2>4, <2>5, AcceptedRow
<1>2. AcceptanceIsTrue <=> [][\A t \in Tasks : Said(t)]_httpVars
  BY PTL DEF AcceptanceIsTrue
<1>. QED  BY <1>1, <1>2, HttpInvariant, PTL DEF OrderlyService

\* A client that is told that its volume is created or deleted, or reconciled, is told
\* what is so at that moment: a reconciled volume is as the backend has it.
THEOREM AcceptancesAreTrue == HttpSpec => AcceptanceIsTrue
BY HttpIsOrderly, OrderlyAcceptance

-----------------------------------------------------------------------------
(* What an accepted attach or detach answers with. *)

\* A client waits for its answer before the next request on the same name.
ExchangesApart ==
    \A t, u \in Tasks :
        /\ exchange[t] # Free /\ exchange[u] # Free
        /\ exchange[t].name = exchange[u].name
        => t = u

\* A row on the way of the request x.
OnItsWay(x, row) ==
    /\ x.op = "attach" =>
          /\ row.state \in {"attaching", "attaching_failed", "attached", "error"}
          /\ row.node = x.node
    /\ x.op = "detach" =>
          \/ row.state \in {"detaching", "detaching_failed", "error"}
          \/ row.state = "available" /\ row.node = NoNode

\* While the handler loads the volume to answer with, nobody owns it but the
\* goroutine of the same request.
Shown(t) ==
    exchange[t].pc = "show" =>
        /\ OnItsWay(exchange[t], db[exchange[t].name])
        /\ \A u \in Tasks :
              Engaged(task[u]) /\ task[u].name = exchange[t].name =>
                  u = t /\ task[t].op = exchange[t].op

BodyInv == ExchangesApart /\ \A t \in Tasks : Shown(t)

\* Only a task with a copy of the row writes it.
LEMMA WhoWrites ==
    ASSUME NEW t \in Tasks, StepCase(t)
    PROVE  \/ UNCHANGED db
           \/ /\ task[t].pc \in {"save", "setnode", "update"}
              /\ db' = [db EXCEPT ![task[t].name] = task[t].vol]
BY DEF StepCase, Ends, Finds, Writes, Takes, Persists, Loops, Calls, Loads, Write

\* The goroutine keeps the row on the request's way.
LEMMA StaysOnItsWay ==
    ASSUME TypeInv, SerialInv, NEW t \in Tasks, At(t, "update"), Worker(t),
           NEW x, x.op = task[t].op, OnItsWay(x, db[task[t].name])
    PROVE  OnItsWay(x, task[t].vol)
<1> DEFINE j == task[t]
           row == db[j.name]
<1>1. j \in Job /\ Coherent(j) /\ j # Idle /\ j.pc = "update" /\ j.event \in WorkerEvents
  <2>1. j.pc # "idle" /\ j # Idle /\ j.pc = "update" /\ j.event \in WorkerEvents
    BY DEF At, Worker, Idle
  <2>. QED  BY <2>1, AtJob
<1>2. /\ j.op \in Driven
      /\ row.state \in {Underway[j.op], Stumbled[j.op]}
      /\ j.event \in {SuccessEvent[j.op], "error", "retry", "fail"}
  BY <1>1, DrivenOps DEF SerialInv, Claim, Driving, WorkerEvents
<1>3. /\ <<row.state, j.event, j.vol.state>> \in Transitions
      /\ j.vol.node = IF j.event = "detached" THEN NoNode ELSE row.node
  <2>1. j.op # "reconcile"
    BY <1>2, DrivenOps
  <2>. QED  BY <1>1, <2>1 DEF SerialInv, Claim
<1>4. CASE j.op = "attach"
  <2>1. /\ row.state \in {"attaching", "attaching_failed"}
        /\ j.event \in {"attached", "error", "retry", "fail"}
    BY <1>2, <1>4 DEF Underway, Stumbled, SuccessEvent
  <2>2. j.vol.state \in {"attaching", "attaching_failed", "attached", "error"}
    BY <1>3, <2>1 DEF Transitions
  <2>. QED  BY <1>3, <1>4, <2>1, <2>2 DEF OnItsWay
<1>5. CASE j.op = "detach"
  <2>1. /\ row.state \in {"detaching", "detaching_failed"}
        /\ j.event \in {"detached", "error", "retry", "fail"}
    BY <1>2, <1>5 DEF Underway, Stumbled, SuccessEvent
  <2>2. \/ j.event = "detached" /\ j.vol.state = "available"
        \/ j.vol.state \in {"detaching", "detaching_failed", "error"}
    BY <1>3, <2>1 DEF Transitions
  <2>. QED  BY <1>3, <1>5, <2>2 DEF OnItsWay
<1>. QED  BY <1>4, <1>5 DEF OnItsWay

\* The step of a task, for the answer of another request,
LEMMA OtherBody ==
    ASSUME TypeInv, TypeInv', SerialInv, HttpInv, BodyInv,
           NEW u \in Tasks, Step(u), NEW t \in Tasks, t # u, exchange'[t] = exchange[t]
    PROVE  Shown(t)'
<1> SUFFICES ASSUME exchange[t].pc = "show"
             PROVE  /\ OnItsWay(exchange[t], db'[exchange[t].name])
                    /\ \A v \in Tasks :
                          Engaged(task'[v]) /\ task'[v].name = exchange[t].name =>
                              v = t /\ task'[t].op = exchange[t].op
  BY DEF Shown
<1> DEFINE n == exchange[t].name
<1>1. /\ task[u] \in Job /\ Coherent(task[u]) /\ StepCase(u)
      /\ \A v \in Tasks \ {u} : task'[v] = task[v]
  BY StepCases
<1>2. /\ exchange[t] # Free /\ n \in Names
      /\ ~(Handler(u) /\ task[u].name = n)
      /\ ~(Engaged(task[u]) /\ task[u].name = n)
      /\ OnItsWay(exchange[t], db[n])
      /\ ~Handler(t)
  <2>1. exchange[t] # Free /\ n \in Names
    BY DEF Free, HttpInv, Exchange
  <2>2. Handler(u) => exchange[u] # Free /\ exchange[u].name = task[u].name
    BY DEF HttpInv, Serving, Free
  <2>. QED  BY <2>1, <2>2 DEF BodyInv, ExchangesApart, Shown, HttpInv, Serving
<1>3. db'[n] = db[n]
  <2>1. CASE task[u].name = n
    BY <1>1, <1>2, <2>1, WhoWrites DEF Engaged
  <2>2. CASE task[u].name # n
    BY <1>1, <1>2, <2>2, WhoWrites DEF TypeInv, TypeOK
  <2>. QED  BY <2>1, <2>2
<1>4. ASSUME NEW v \in Tasks, Engaged(task'[v]), task'[v].name = n
      PROVE  v = t /\ task'[t].op = exchange[t].op
  <2>1. CASE v = u
    <3>1. Coherent(task'[u]) /\ task'[u] # Idle
      BY <1>4, <2>1 DEF Engaged, Idle, TypeInv, TaskState
    <3>2. task[u].name = n /\ (Engaged(task[u]) \/ Finds(u))
      BY <1>1, <1>4, <2>1, <3>1, RolesStay
    <3>3. Finds(u) => Handler(u)
      BY DEF Finds, Handler, Worker
    <3>. QED  BY <1>2, <3>2, <3>3
  <2>2. CASE v # u
    BY <1>1, <1>4, <2>2 DEF BodyInv, Shown
  <2>. QED  BY <2>1, <2>2
<1>. QED  BY <1>2, <1>3, <1>4

\* for the answer of its own request,
LEMMA OwnBody ==
    ASSUME TypeInv, TypeInv', SerialInv, HttpInv, BodyInv,
           NEW t \in Tasks, Run(t)
    PROVE  Shown(t)'
<1> SUFFICES ASSUME exchange[t].pc = "show"
             PROVE  /\ OnItsWay(exchange[t], db'[exchange[t].name])
                    /\ \A v \in Tasks :
                          Engaged(task'[v]) /\ task'[v].name = exchange[t].name =>
                              v = t /\ task'[t].op = exchange[t].op
  BY DEF Shown, Run
<1> DEFINE n == exchange[t].name
<1>1. /\ task[t] \in Job /\ Coherent(task[t]) /\ StepCase(t)
      /\ \A v \in Tasks \ {t} : task'[v] = task[v]
      /\ Worker(t)
  BY StepCases DEF Run
<1>2. /\ n \in Names /\ OnItsWay(exchange[t], db[n])
      /\ Engaged(task[t]) /\ task[t].name = n => task[t].op = exchange[t].op
  BY DEF HttpInv, Exchange, Free, BodyInv, Shown
<1>3. OnItsWay(exchange[t], db'[n])
  <2>1. \/ UNCHANGED db
        \/ /\ At(t, "update") /\ db' = [db EXCEPT ![task[t].name] = task[t].vol]
    BY <1>1, WhoWrites DEF At, Worker
  <2>2. CASE At(t, "update") /\ db' = [db EXCEPT ![n] = task[t].vol] /\ task[t].name = n
    <3>1. db'[n] = task[t].vol /\ task[t].op = exchange[t].op
      BY <1>2, <2>2 DEF TypeInv, TypeOK, Engaged, At
    <3>. QED  BY <1>1, <1>2, <2>2, <3>1, StaysOnItsWay
  <2>3. CASE task[t].name # n
    BY <1>1, <1>2, <2>1, <2>3 DEF TypeInv, TypeOK
  <2>. QED  BY <1>2, <2>1, <2>2, <2>3
<1>4. ASSUME NEW v \in Tasks, Engaged(task'[v]), task'[v].name = n
      PROVE  v = t /\ task'[t].op = exchange[t].op
  <2>1. CASE v = t
    <3>1. Coherent(task'[t]) /\ task'[t] # Idle
      BY <1>4, <2>1 DEF Engaged, Idle, TypeInv, TaskState
    <3>2. Same(task'[t], task[t]) /\ (Engaged(task[t]) \/ Finds(t))
      BY <1>1, <1>4, <2>1, <3>1, RolesStay
    <3>3. ~Finds(t)
      BY <1>1 DEF Finds, Worker
    <3>. QED  BY <1>2, <1>4, <2>1, <3>2, <3>3 DEF Same
  <2>2. CASE v # t
    BY <1>1, <1>4, <2>2 DEF BodyInv, Shown
  <2>. QED  BY <2>1, <2>2
<1>. QED  BY <1>3, <1>4

\* and when the handler begins to load the volume.
LEMMA FirstBody ==
    ASSUME TypeInv, TypeInv', SerialInv, HttpInv,
           NEW t \in Tasks, exchange[t].pc = "app", Step(t), At(t, "record"),
           exchange[t].op \in {"attach", "detach"},
           exchange' = [exchange EXCEPT ![t].pc = "show"]
    PROVE  Shown(t)'
<1> DEFINE j == task[t]
           n == j.name
<1>1. /\ j \in Job /\ Coherent(j) /\ j # Idle /\ j.pc = "record" /\ StepCase(t)
      /\ \A v \in Tasks \ {t} : task'[v] = task[v]
  BY StepCases DEF At, Idle
<1>2. /\ exchange[t].op = j.op /\ exchange[t].name = n /\ exchange[t].node = j.node
      /\ Handler(t)
  BY DEF HttpInv, Serving
<1>3. j.event = j.op /\ j.op \in Driven
  BY <1>1, <1>2, DrivenOps DEF Handler, Worker, Job, Coherent
<1>4. Engaged(j) /\ Driving(j)
  BY <1>1, <1>3 DEF Engaged, Driving
<1>5. OnItsWay(exchange[t], db[n])
  <2>1. db[n].state = Underway[j.op] /\ (j.op = "attach" => db[n].node = j.node)
    BY <1>1, <1>3, <1>4 DEF SerialInv, Claim
  <2>. QED  BY <1>2, <2>1 DEF OnItsWay, Underway
<1>6. db' = db
  BY <1>1, WhoWrites
<1>7. /\ exchange'[t].op = j.op /\ exchange'[t].name = n /\ exchange'[t].node = j.node
      /\ OnItsWay(exchange'[t], db'[n])
  <2>1. exchange[t] \in Exchange
    BY DEF HttpInv, Free
  <2>2. /\ exchange'[t].op = exchange[t].op /\ exchange'[t].name = exchange[t].name
        /\ exchange'[t].node = exchange[t].node
    BY <2>1 DEF HttpInv, Exchange
  <2>. QED  BY <1>2, <1>5, <1>6, <2>2 DEF OnItsWay
<1>8. ASSUME NEW v \in Tasks, Engaged(task'[v]), task'[v].name = n
      PROVE  v = t /\ task'[t].op = j.op
  <2>1. v = t
    BY <1>1, <1>4, <1>8 DEF SerialInv, OwnersApart
  <2>2. Coherent(task'[t]) /\ task'[t] # Idle
    BY <1>8, <2>1 DEF Engaged, Idle, TypeInv, TaskState
  <2>. QED  BY <1>1, <2>1, <2>2, RolesStay DEF Same
<1>. QED  BY <1>7, <1>8 DEF Shown

\* What a handler is about to load stays on the way of its operation, over the steps
\* of its own goroutine and of everybody else.
LEMMA BodyStays ==
    ASSUME TypeInv, TypeInv', SerialInv, HttpInv, BodyInv, [HttpOrderly]_httpVars
    PROVE  BodyInv'
<1>1. ASSUME NEW t \in Tasks, NEW op \in Ops, NEW n \in Names,
             NEW node \in Nodes \cup {NoNode}, OrderlyClient(op, n), Receive(t, op, n, node)
      PROVE  BodyInv'
  <2> DEFINE z == [pc |-> "app", op |-> op, name |-> n, node |-> node]
             k == [pc |-> "lookup", op |-> op, name |-> n, node |-> node,
                   vol |-> NoRow, event |-> op, attempt |-> 0]
  <2>1. /\ exchange'[t] = z /\ \A u \in Tasks \ {t} : exchange'[u] = exchange[u]
        /\ task'[t] = k /\ \A u \in Tasks \ {t} : task'[u] = task[u]
        /\ db' = db
    BY <1>1, BecomeEffect DEF Receive, Arrive, HttpInv
  <2>2. \A u \in Tasks : exchange[u] # Free => exchange[u].name # n
    BY <1>1 DEF OrderlyClient
  <2>3. ExchangesApart'
    BY <2>1, <2>2 DEF BodyInv, ExchangesApart
  <2>4. ~Engaged(k)
    BY DEF Engaged
  <2>5. ASSUME NEW u \in Tasks
        PROVE  Shown(u)'
    BY <2>1, <2>4 DEF BodyInv, Shown
  <2>. QED  BY <2>3, <2>5 DEF BodyInv
<1>2. ASSUME NEW t \in Tasks, Reject(t)
      PROVE  BodyInv'
  BY <1>2 DEF Reject, vars, BodyInv, ExchangesApart, Shown
<1>3. ASSUME NEW t \in Tasks, Handle(t)
      PROVE  BodyInv'
  <2> DEFINE x == exchange[t]
             y == exchange'[t]
  <2>1. /\ \A u \in Tasks \ {t} : exchange'[u] = exchange[u]
        /\ x \in Exchange /\ x # Free
        /\ y # Free => y.name = x.name
    BY <1>3 DEF Handle, HttpInv, Exchange, Free
  <2>2. ExchangesApart'
    BY <2>1 DEF BodyInv, ExchangesApart
  <2>3. Shown(t)'
    <3>1. CASE /\ At(t, "record") /\ x.op \in {"attach", "detach"}
               /\ exchange' = [exchange EXCEPT ![t].pc = "show"]
      BY <1>3, <3>1, FirstBody DEF Handle
    <3>2. CASE exchange' = [exchange EXCEPT ![t] = Free]
      <4>1. y.pc # "show"
        BY <3>2 DEF HttpInv, Free
      <4>. QED  BY <4>1 DEF Shown
    <3>3. CASE UNCHANGED exchange
      <4>1. y.pc # "show"
        BY <1>3, <3>3 DEF Handle
      <4>. QED  BY <4>1 DEF Shown
    <3>. QED  BY <1>3, <3>1, <3>2, <3>3 DEF Handle
  <2>4. ASSUME NEW u \in Tasks, u # t
        PROVE  Shown(u)'
    BY <1>3, <2>1, <2>4, OtherBody DEF Handle
  <2>. QED  BY <2>2, <2>3, <2>4 DEF BodyInv
<1>4. ASSUME NEW t \in Tasks, Run(t)
      PROVE  BodyInv'
  <2>1. ExchangesApart'
    BY <1>4 DEF Run, BodyInv, ExchangesApart
  <2>2. ASSUME NEW u \in Tasks
        PROVE  Shown(u)'
    BY <1>4, OwnBody, OtherBody DEF Run
  <2>. QED  BY <2>1, <2>2 DEF BodyInv
<1>5. ASSUME NEW t \in Tasks, Show(t)
      PROVE  BodyInv'
  <2>1. /\ \A u \in Tasks \ {t} : exchange'[u] = exchange[u]
        /\ exchange'[t] = Free /\ Free.pc # "show"
        /\ UNCHANGED <<db, task>>
    BY <1>5 DEF Show, HttpInv, Free
  <2>. QED  BY <2>1 DEF BodyInv, ExchangesApart, Shown
<1>6. CASE Aside
  BY <1>6 DEF Aside, BodyInv, ExchangesApart, Shown
<1>7. CASE UNCHANGED httpVars
  BY <1>7 DEF httpVars, vars, BodyInv, ExchangesApart, Shown
<1>. QED  BY <1>1, <1>2, <1>3, <1>4, <1>5, <1>6, <1>7 DEF HttpOrderly, HttpStep

\* What a handler is about to answer with is about its request.
LEMMA OrderlyBodies == OrderlyService => []BodyIsAboutRequest
<1>1. HttpInit => BodyInv
  BY DEF HttpInit, BodyInv, ExchangesApart, Shown, Free
<1>2. BodyInv => BodyIsAboutRequest
  BY DEF BodyInv, Shown, OnItsWay, BodyIsAboutRequest
<1>3. TypeInv /\ SerialInv /\ HttpInv /\ BodyInv /\ [HttpOrderly]_httpVars => BodyInv'
  BY HttpStays, BodyStays
<1>. QED  BY <1>1, <1>2, <1>3, HttpInvariant, PTL DEF OrderlyService

\* The volume in the answer to an accepted attach or detach is on that operation's
\* way, however far its goroutine has come by then.
THEOREM BodiesAreAboutTheirRequests == HttpSpec => []BodyIsAboutRequest
BY HttpIsOrderly, OrderlyBodies

-----------------------------------------------------------------------------
(* A volume in progress is never left alone, with a repository that does not fail. *)

\* A task that drives the volume n, and will find it in a state that accepts its
\* next event.
Keeps(t, n) ==
    /\ task[t].name = n /\ Driving(task[t])
    /\ \/ task[t].pc \in {"begin", "call"}
       \/ task[t].pc = "load" /\ task[t].event \notin {"retry", "fail"}
       => db[n].state = Underway[task[t].op]

AttendedInv ==
    \A n \in Names :
        db[n].state \in Transitional => Canceled \/ \E t \in Tasks : Keeps(t, n)

\* The in-memory repository carries out what it is asked.
LEMMA InMemory ==
    ASSUME Repo = "inmemory"
    PROVE  ~DbFails
BY DEF DbFails

\* A write that leaves a volume in progress is followed by its audit row and by the
\* goroutine's next attempt.
LEMMA UpdateKeeps ==
    ASSUME Repo = "inmemory", TypeInv, SerialInv, NEW t \in Tasks, NEW n \in Names,
           Update(t), task[t].name = n, db'[n].state \in Transitional
    PROVE  Keeps(t, n)'
<1> DEFINE j == task[t]
           k == task'[t]
<1>1. j \in Job /\ Coherent(j) /\ j # Idle /\ j.pc = "update"
  <2>1. j.pc = "update" /\ j # Idle
    BY DEF Update, At, Idle
  <2>. QED  BY <2>1, AtJob
<1>2. Write(n, j.vol) /\ Become(t, [j EXCEPT !.pc = "record"])
  BY InMemory DEF Update, WriteFails
<1>3. /\ k.pc = "record" /\ k.name = n /\ k.event = j.event
      /\ db'[n] = j.vol
  BY <1>1, <1>2, BecomeEffect DEF Job, Write, TypeInv, TypeOK
<1>4. j.op # "reconcile" /\ <<db[n].state, j.event, j.vol.state>> \in Transitions
  BY <1>1, <1>3 DEF SerialInv, Claim, AsFound, Transitional, InProgress, FailedStates
<1>5. j.event \in Driven \cup {"error", "retry"}
  <2>1. j.vol.state \in Transitional
    BY <1>3
  <2>. QED
    BY <1>1, <1>4, <2>1, DrivenOps
       DEF Transitions, Transitional, InProgress, FailedStates
<1>. QED  BY <1>3, <1>5 DEF Keeps, Driving

\* The goroutine that drives a volume goes on until the volume is at rest.
LEMMA KeeperGoesOn ==
    ASSUME Repo = "inmemory", TypeInv, SerialInv, NEW t \in Tasks, NEW n \in Names,
           Keeps(t, n), Step(t), ~Canceled, db'[n].state \in Transitional
    PROVE  Keeps(t, n)'
<1> DEFINE j == task[t]
           k == task'[t]
           row == db[n]
<1>1. /\ j \in Job /\ Coherent(j) /\ j # Idle /\ j.name = n /\ Driving(j)
      /\ j.op \in Driven /\ row.state \in {Underway[j.op], Stumbled[j.op]}
      /\ row.state \in Transitional /\ row \in Row
  <2>1. j.pc # "idle" /\ j # Idle /\ j.name = n /\ Driving(j)
    BY DEF Keeps, Driving, Idle
  <2>2. j \in Job /\ Coherent(j) /\ row.state \in Transitional
    BY <2>1, AtJob, DriverRow
  <2>3. row # NoRow
    BY <2>2 DEF NoRow, Transitional, InProgress, FailedStates
  <2>. QED  BY <2>1, <2>2, <2>3, RowExists DEF SerialInv, Claim, TypeInv
<1>2. j.pc \in {"update", "record", "begin", "call", "load", "backoff"}
  BY <1>1 DEF Driving
<1>3. CASE Update(t)
  BY <1>1, <1>3, UpdateKeeps
<1>4. CASE Record(t)
  <2>1. j.pc = "record" /\ UNCHANGED db /\ k = Continue(j)
    BY <1>4, BecomeEffect DEF Record, At
  <2>2. j.event \in Driven \cup {"error", "retry"}
    BY <1>1, <2>1 DEF Driving
  <2>3. /\ j.event \in Driven \cup {"retry"} => row.state = Underway[j.op]
    BY <1>1, <2>1 DEF SerialInv, Claim
  <2>4. CASE j.event \in Driven
    <3>1. k = [j EXCEPT !.pc = "begin", !.vol = NoRow, !.attempt = 1]
      BY <2>1, <2>4, DrivenOps DEF Continue
    <3>. QED  BY <1>1, <2>1, <2>3, <2>4, <3>1 DEF Keeps, Driving, Job
  <2>5. CASE j.event = "error" /\ j.attempt < MaxAttempts
    <3>1. k = [j EXCEPT !.pc = "backoff", !.vol = NoRow]
      BY <2>1, <2>5, HandlerEvents, MaxAttemptsAssumption DEF Continue, Job
    <3>. QED  BY <1>1, <3>1 DEF Keeps, Driving, Job
  <2>6. CASE j.event = "error" /\ j.attempt = MaxAttempts
    <3>1. k = [j EXCEPT !.pc = "load", !.vol = NoRow, !.event = "fail"]
      BY <2>1, <2>6, HandlerEvents, MaxAttemptsAssumption DEF Continue, Job
    <3>. QED  BY <1>1, <3>1 DEF Keeps, Driving, Job
  <2>7. CASE j.event = "retry"
    <3>1. k = [j EXCEPT !.pc = "begin", !.vol = NoRow, !.attempt = @ + 1]
      BY <2>1, <2>7, HandlerEvents DEF Continue
    <3>. QED  BY <1>1, <2>1, <2>3, <2>7, <3>1 DEF Keeps, Driving, Job
  <2>8. j.attempt < MaxAttempts \/ j.attempt = MaxAttempts
    BY <1>1, MaxAttemptsAssumption DEF Job
  <2>. QED  BY <2>2, <2>4, <2>5, <2>6, <2>7, <2>8
<1>5. CASE Begin(t)
  <2>1. j.pc = "begin" /\ UNCHANGED db /\ k = [j EXCEPT !.pc = "call"]
    BY <1>5, BecomeEffect DEF Begin, At
  <2>. QED  BY <1>1, <2>1 DEF Keeps, Driving, Job
<1>6. CASE Call(t)
  <2> DEFINE f(e) == [j EXCEPT !.pc = "load", !.event = e]
  <2>1. j.pc = "call" /\ UNCHANGED db
    BY <1>6 DEF Call, At
  <2>2. \E e : Become(t, f(e))
    BY <1>6 DEF Call
  <2>3. \A e : f(e).pc = "load" /\ f(e).name = j.name /\ f(e).op = j.op
    BY <1>1 DEF Job
  <2> HIDE DEF f
  <2>4. k.pc = "load" /\ k.name = n /\ k.op = j.op
    BY <1>1, <2>2, <2>3, BecomeEffect
  <2>. QED  BY <1>1, <2>1, <2>4 DEF Keeps, Driving
<1>7. CASE Load(t)
  <2>1. j.pc = "load" /\ UNCHANGED db /\ ApplyEvent(t, j, Loaded(j))
    BY <1>7, InMemory DEF Load, At
  <2>2. Loaded(j).state = row.state
    BY <1>1 DEF Loaded, Row
  <2>3. CanTransition(row.state, j.event)
    <3>1. j.event \in {SuccessEvent[j.op], "error", "retry", "fail"}
      BY <1>1, <2>1, DrivenOps DEF SerialInv, Claim, Driving, Coherent, WorkerEvents
    <3>2. j.event \in {"retry", "fail"} => row.state = Stumbled[j.op]
      BY <1>1, <2>1 DEF SerialInv, Claim
    <3>3. j.event \notin {"retry", "fail"} => row.state = Underway[j.op]
      BY <2>1 DEF Keeps
    <3>4. \E dst \in States : <<Underway[j.op], SuccessEvent[j.op], dst>> \in Transitions
      BY <1>1, DrivenOps
         DEF Underway, SuccessEvent, Transitions, States, Transitional, InProgress
    <3>5. \E dst \in States : <<Underway[j.op], "error", dst>> \in Transitions
      BY <1>1, DrivenOps
         DEF Underway, Transitions, States, Transitional, FailedStates
    <3>6. \A e \in {"retry", "fail"} :
              \E dst \in States : <<Stumbled[j.op], e, dst>> \in Transitions
      BY <1>1, DrivenOps
         DEF Stumbled, Transitions, States, Transitional, InProgress
    <3>. QED  BY <3>1, <3>2, <3>3, <3>4, <3>5, <3>6 DEF CanTransition
  <2>4. ~ContextDone(t)
    BY <2>1 DEF ContextDone, Handler, Worker
  <2>5. \E v : k = [j EXCEPT !.pc = "update", !.vol = v]
    BY <2>1, <2>2, <2>3, <2>4, BecomeEffect DEF ApplyEvent
  <2>6. k.pc = "update" /\ k.name = n /\ k.event = j.event
    BY <1>1, <2>5 DEF Job
  <2>. QED  BY <1>1, <2>1, <2>6 DEF Keeps, Driving, Coherent
<1>8. CASE Backoff(t)
  <2>1. /\ j.pc = "backoff" /\ UNCHANGED db
        /\ k = [j EXCEPT !.pc = "load", !.event = "retry"]
    BY <1>8, BecomeEffect DEF Backoff, At
  <2>. QED  BY <1>1, <2>1 DEF Keeps, Driving, Job
<1>. QED
  BY <1>2, <1>3, <1>4, <1>5, <1>6, <1>7, <1>8
     DEF Step, Lookup, Save, SetNode, Inspect, At

\* A task that leaves a volume in progress leaves it to the goroutine it becomes, and
\* only its own task moves the volume on.
LEMMA AttendedStep ==
    ASSUME Repo = "inmemory", TypeInv, TypeInv', SerialInv, AttendedInv, [SerialNext]_vars
    PROVE  AttendedInv'
<1> SUFFICES ASSUME NEW n \in Names, db'[n].state \in Transitional, ~Canceled'
             PROVE  \E t \in Tasks : Keeps(t, n)'
  BY DEF AttendedInv
<1>1. ASSUME NEW t \in Tasks, Step(t)
      PROVE  \E u \in Tasks : Keeps(u, n)'
  <2>1. /\ task[t] \in Job /\ Coherent(task[t]) /\ StepCase(t) /\ UNCHANGED closing
        /\ \A u \in Tasks \ {t} : task'[u] = task[u]
    BY <1>1, StepCases
  <2>2. ~Canceled
    BY <2>1 DEF Canceled
  <2>3. CASE db'[n] # db[n] /\ ~Update(t)
    <3>1. /\ task[t].pc \in {"save", "setnode", "update"} /\ task[t] # Idle
          /\ task[t].name = n /\ db'[n] = task[t].vol
      BY <2>1, <2>3, WhoWrites DEF TypeInv, TypeOK, Idle
    <3>2. task[t].pc \in {"save", "setnode"}
      BY <1>1, <2>3, <3>1
         DEF Step, Lookup, Save, SetNode, Inspect, Record, Begin, Call, Load, Backoff, At
    <3>3. task[t].vol.state \in {"pending", "available"}
      BY <2>1, <3>1, <3>2 DEF Coherent, SerialInv, Claim
    <3>. QED  BY <3>1, <3>3 DEF Transitional, InProgress, FailedStates
  <2>4. CASE Update(t) /\ task[t].name = n
    BY <2>4, UpdateKeeps
  <2>5. CASE db'[n] = db[n] /\ ~(Update(t) /\ task[t].name = n)
    <3>1. PICK u \in Tasks : Keeps(u, n)
      BY <2>2, <2>5 DEF AttendedInv
    <3>2. CASE u = t
      BY <1>1, <2>2, <3>1, <3>2, KeeperGoesOn
    <3>3. CASE u # t
      BY <2>1, <2>5, <3>1, <3>3 DEF Keeps
    <3>. QED  BY <3>2, <3>3
  <2>6. Update(t) /\ task[t].name # n => db'[n] = db[n]
    BY <2>1, WhoWrites DEF TypeInv, TypeOK
  <2>. QED  BY <2>3, <2>4, <2>5, <2>6
<1>2. ASSUME NEW t \in Tasks, NEW op \in Ops, NEW m \in Names,
             NEW node \in Nodes \cup {NoNode}, Arrive(t, op, m, node)
      PROVE  \E u \in Tasks : Keeps(u, n)'
  <2>1. At(t, "idle") /\ UNCHANGED <<db, closing>> /\ \A u \in Tasks \ {t} : task'[u] = task[u]
    BY <1>2, BecomeEffect DEF Arrive
  <2>2. PICK u \in Tasks : Keeps(u, n)
    BY <2>1 DEF AttendedInv, Canceled
  <2>3. u # t
    BY <2>1, <2>2 DEF Keeps, Driving, At
  <2>. QED  BY <2>1, <2>2, <2>3 DEF Keeps
<1>3. CASE Close
  BY <1>3 DEF Close, Canceled
<1>4. CASE UNCHANGED vars
  BY <1>4 DEF vars, AttendedInv, Keeps, Canceled
<1>. QED  BY <1>1, <1>2, <1>3, <1>4 DEF SerialNext

\* What drives a volume goes on until the shutdown.
LEMMA OrderlyProgress ==
    ASSUME Repo = "inmemory"
    PROVE  OrderlyService => []Attended
<1>1. HttpInit => AttendedInv
  BY DEF HttpInit, Init, AttendedInv, NoRow, Transitional, InProgress, FailedStates
<1>2. ASSUME TypeInv, TypeInv', SerialInv, AttendedInv, [HttpOrderly]_httpVars
      PROVE  AttendedInv'
  <2>1. UNCHANGED <<db, task>> /\ (Canceled => Canceled') => AttendedInv'
    BY <1>2 DEF AttendedInv, Keeps
  <2>. QED  BY <1>2, <2>1, HttpIsSerial, AttendedStep
<1>3. AttendedInv => Attended
  BY DEF AttendedInv, Keeps, Driving, Attended, Attends
<1>. QED  BY <1>1, <1>2, <1>3, HttpInvariant, PTL DEF OrderlyService

\* With the in-memory repository, a volume in progress always has a task at work on it
\* while the service runs.
THEOREM ProgressIsAttended ==
    ASSUME Repo = "inmemory"
    PROVE  HttpSpec => []Attended
BY HttpIsOrderly, OrderlyProgress

-----------------------------------------------------------------------------
(* The service behind its controller. *)

\* A step of the service, or one that the rows and the storage do not show.
LEMMA HttpIsSeen ==
    ASSUME TypeInv, [HttpOrderly]_httpVars
    PROVE  [SerialNext]_vars \/ UNCHANGED <<db, backend, task>>
BY HttpIsSerial

\* The controller and whoever closes the service do what the life cycle promises.
LEMMA OrderlyLifecycle == OrderlyService => ImplementsLifecycle
<1>1. HttpInit => Lifecycle!Init
  BY LifecycleInit DEF HttpInit
<1>2. TypeInv /\ SerialInv /\ [HttpOrderly]_httpVars => [Lifecycle!Next]_Lifecycle!vars
  <2>1. UNCHANGED <<db, backend>> => UNCHANGED Lifecycle!vars
    BY DEF Lifecycle!vars
  <2>. QED  BY <2>1, HttpIsSeen, LifecycleStep
<1>. QED
  BY <1>1, <1>2, HttpInvariant, PTL DEF OrderlyService, ImplementsLifecycle, Lifecycle!Spec

\* Rows follow the FSM, those at rest are true and name their nodes, and one goroutine
\* is at work on each.
LEMMA OrderlyRows ==
    OrderlyService => /\ FollowsFsm /\ []StableStateIsTrue
                      /\ []MountIsNamed /\ []OneAtWork
<1>1. OrderlyService => []StableStateIsTrue /\ []MountIsNamed
  <2>1. HttpInit => RowsAreTrue /\ MountIsNamed
    BY TrueRowsInit DEF HttpInit, Init, MountIsNamed, Absent
  <2>2. TypeInv /\ SerialInv /\ RowsAreTrue /\ [HttpOrderly]_httpVars => RowsAreTrue'
    <3>1. RowsAreTrue /\ UNCHANGED <<db, backend, task>> => RowsAreTrue'
      BY DEF RowsAreTrue
    <3>. QED  BY <3>1, HttpIsSeen, TrueRowsStay
  <2>3. TypeInv /\ SerialInv /\ RowsAreTrue /\ MountIsNamed /\ [HttpOrderly]_httpVars
            => MountIsNamed'
    <3>1. MountIsNamed /\ UNCHANGED <<db, backend, task>> => MountIsNamed'
      BY DEF MountIsNamed, RowNames
    <3>. QED  BY <3>1, HttpIsSeen, NamedRowsStay
  <2>. QED
    BY <2>1, <2>2, <2>3, TrueRowsRest, HttpInvariant, PTL DEF OrderlyService
<1>2. OrderlyService => FollowsFsm
  <2>1. FollowsFsm <=> [][RowsMove]_vars
    BY PTL DEF FollowsFsm, RowsMove
  <2>2. TypeInv /\ SerialInv /\ [HttpOrderly]_httpVars => [RowsMove]_vars
    <3>1. UNCHANGED <<db, backend, task>> => RowsMove
      BY DEF RowsMove
    <3>. QED  BY <3>1, HttpIsSeen, RowsMoveStep
  <2>. QED  BY <2>1, <2>2, HttpInvariant, PTL DEF OrderlyService
<1>3. SerialInv => OneAtWork
  BY DEF SerialInv, OwnersApart, Engaged, OneAtWork, AtWork
<1>. QED  BY <1>1, <1>2, <1>3, HttpInvariant, PTL

\* What a handler reads with a fault of its own is no step of the application's, but
\* the life cycle does not see it.
THEOREM ControllerImplementsLifecycle == HttpSpec => ImplementsLifecycle
BY HttpIsOrderly, OrderlyLifecycle

=============================================================================
