--------------------------- MODULE HttpController ---------------------------
(***************************************************************************)
(* The handlers of the routes that change volumes (controller_http.go):    *)
(* what they answer, and what they still do once the application has       *)
(* accepted a request.  A handler calls the application first; the         *)
(* handlers of attach and detach then load the volume they answer with,    *)
(* beside the goroutine that the application has started.                  *)
(***************************************************************************)
EXTENDS VolumeService

VARIABLES
    exchange,   \* what the handler of each request is doing
    answer      \* the status the last step sent to a client, if it sent one

httpVars == <<vars, exchange, answer>>

Free   == [pc |-> "free"]
Silent == 0

Exchange ==
    [pc   : {"app", "show"},
     op   : Ops,
     name : Names,
     node : Nodes \cup {NoNode}]

Statuses == {200, 201, 202, 400, 404, 409, 500, 503}

HttpTypeOK ==
    /\ TypeOK
    /\ exchange \in [Tasks -> Exchange \cup {Free}]
    /\ answer \in Statuses \cup {Silent}
    /\ \A t \in Tasks : exchange[t].pc = "app" <=> Handler(t)
    /\ \A t \in Tasks : exchange[t].pc = "app" => exchange[t].name = task[t].name

HttpInit ==
    /\ Init
    /\ exchange = [t \in Tasks |-> Free]
    /\ answer = Silent

-----------------------------------------------------------------------------
\* The status an operation answers when the application has carried it out.
Success ==
    [create |-> 201, delete |-> 202, attach |-> 202, detach |-> 202, reconcile |-> 200]

mapAppError(err) ==
    CASE err = "ErrVolumeNotFound"     -> 404
      [] err = "ErrVolumeExists"       -> 409
      [] err = "ErrInvalidTransition"  -> 409
      [] err = "ErrInvalidSize"        -> 400
      [] err = "ErrBackendUnavailable" -> 503
      [] OTHER                         -> 500

\* The error with which the application ends t's request at its next call when
\* the database answers and the context is not done.
Reason(t) ==
    LET j == task[t]
        row == db[j.name]
    IN CASE At(t, "lookup") /\ j.op = "create" /\ row # NoRow -> "ErrVolumeExists"
         [] At(t, "lookup") /\ j.op # "create" /\ row = NoRow -> "ErrVolumeNotFound"
         [] At(t, "lookup") /\ j.op = "reconcile" -> "ErrInvalidTransition"
         [] /\ At(t, "lookup")
            /\ j.op \in {"delete", "detach"}
            /\ ~CanTransition(row.state, j.op) -> "ErrInvalidTransition"
         [] At(t, "setnode") /\ ~CanTransition(j.vol.state, j.op) -> "ErrInvalidTransition"
         [] At(t, "inspect") -> "ErrBackendUnavailable"
         [] OTHER -> "other"

\* What may be answered to a request that ends with an error: after a fault of
\* the database or of the context, 500.
Refusals(t) ==
    LET cut == \/ faults' # faults
               \/ Canceled /\ Repo = "postgres" /\ ~At(t, "inspect")
    IN (IF faults' # faults THEN {} ELSE {mapAppError(Reason(t))})
           \cup (IF cut THEN {500} ELSE {})

-----------------------------------------------------------------------------
\* A request whose body passes the handler's checks.
Receive(t, op, n, node) ==
    /\ exchange[t] = Free
    /\ Arrive(t, op, n, node)
    /\ exchange' = [exchange EXCEPT ![t] =
                       [pc |-> "app", op |-> op, name |-> n, node |-> node]]
    /\ answer' = Silent

\* A body that is not JSON, has no name or node, or a size that is not positive.
Reject(t) ==
    /\ exchange[t] = Free
    /\ answer' = 400
    /\ UNCHANGED <<vars, exchange>>

\* A step of the application in the handler.  After its last one the handler
\* answers, or loads the volume to answer with.
Handle(t) ==
    /\ exchange[t].pc = "app"
    /\ Step(t)
    /\ LET op == exchange[t].op
       IN \/ /\ At(t, "record") /\ op \in {"attach", "detach"}
             /\ exchange' = [exchange EXCEPT ![t].pc = "show"]
             /\ answer' = Silent
          \/ /\ At(t, "record") /\ op \in {"create", "delete", "reconcile"}
             /\ exchange' = [exchange EXCEPT ![t] = Free]
             /\ answer' = Success[op]
          \/ /\ ~At(t, "record") /\ task'[t] # Idle
             /\ answer' = Silent
             /\ UNCHANGED exchange
          \/ /\ ~At(t, "record") /\ task'[t] = Idle
             /\ exchange' = [exchange EXCEPT ![t] = Free]
             /\ answer' \in Refusals(t)

\* A step of the goroutine a request started.
Run(t) ==
    /\ Worker(t)
    /\ Step(t)
    /\ answer' = Silent
    /\ UNCHANGED exchange

\* Faulty: the handler answers when the volume has come to rest.
ShowAtRest(t) ==
    /\ exchange[t].pc = "show"
    /\ db[exchange[t].name].state \notin Transitional
    /\ exchange' = [exchange EXCEPT ![t] = Free]
    /\ answer' = Success[exchange[t].op]
    /\ UNCHANGED vars

\* The load of the volume that an accepted attach or detach answers with.
Show(t) ==
    /\ exchange[t].pc = "show"
    /\ exchange' = [exchange EXCEPT ![t] = Free]
    /\ \/ /\ answer' = IF db[exchange[t].name] # NoRow THEN Success[exchange[t].op]
                       ELSE mapAppError("ErrVolumeNotFound")
          /\ UNCHANGED faults
       \/ /\ DbFails
          /\ answer' = 500
    /\ UNCHANGED <<db, audit, backend, task, closing>>

HttpStep(t) == Handle(t) \/ Run(t)

\* A client waits for the answer to its request on a name before the next one,
\* and asks for an attach when the volume is available.
OrderlyClient(op, n) ==
    /\ Orderly(op, n)
    /\ \A t \in Tasks : exchange[t] # Free => exchange[t].name # n

HttpNext ==
    \/ \E t \in Tasks, op \in Ops, n \in Names, node \in Nodes \cup {NoNode} :
            OrderlyClient(op, n) /\ Receive(t, op, n, node)
    \/ \E t \in Tasks : Reject(t)
    \/ \E t \in Tasks : HttpStep(t) \/ Show(t)
    \/ Close /\ answer' = Silent /\ UNCHANGED exchange

HttpSpec == HttpInit /\ [][HttpNext]_httpVars

\* The handler that loads the volume and the goroutine run side by side.
HttpFairness ==
    \A t \in Tasks : WF_httpVars(HttpStep(t)) /\ WF_httpVars(Show(t))

FairHttpSpec == HttpSpec /\ HttpFairness

-----------------------------------------------------------------------------
\* The volume in the answer to an accepted attach or detach is on that
\* operation's way, however far the goroutine has come by then: not one that an
\* earlier goroutine left or a later request moved on.
BodyIsAboutRequest ==
    \A t \in Tasks :
        LET row == db[exchange[t].name]
        IN /\ exchange[t].pc = "show" /\ exchange[t].op = "attach" =>
                 /\ row.state \in {"attaching", "attaching_failed", "attached", "error"}
                 /\ row.node = exchange[t].node
           /\ exchange[t].pc = "show" /\ exchange[t].op = "detach" =>
                 \/ row.state \in {"detaching", "detaching_failed", "error"}
                 \/ row.state = "available" /\ row.node = NoNode

\* A task that is bound to move the volume on.
Attends(t, n) ==
    /\ task[t].pc \in {"update", "record", "begin", "call", "load", "backoff"}
    /\ task[t].name = n

\* A volume in progress is never left alone: while the service runs and its
\* database answers, some task is at work on it.
Attended ==
    \A n \in Names :
        db[n].state \in Transitional => Canceled \/ \E t \in Tasks : Attends(t, n)

\* The row is as the backend has the volume.
AsBackend(row, real) ==
    row.state = real.state /\ row.node = real.node

\* What an acceptance says is so at the moment it is sent: the volume is shown under
\* way to what was asked, and a reconciled one as the backend has it, although two
\* database calls have followed the backend's answer: no goroutine of the operation
\* that failed is still at work on it.
AcceptanceIsTrue ==
    [][\A t \in Tasks :
          LET row  == db'[exchange[t].name]
              real == backend'[exchange[t].name]
          IN  exchange[t].pc = "app" /\ exchange'[t] = Free =>
                 /\ answer' = 201 => row.state = "creating"
                 /\ answer' = 202 => row.state = "deleting"
                 /\ answer' = 200 => AsBackend(row, real)]_httpVars

\* Every request is answered.
RequestsAnswered == \A t \in Tasks : exchange[t] # Free ~> exchange[t] = Free

=============================================================================
