---------------------------- MODULE VolumeService ----------------------------
(***************************************************************************)
(* The volume application (volume/application.go) with its repository, its *)
(* storage backend and the shutdown of the feature that owns it.           *)
(*                                                                         *)
(* A task is one accepted request: first the HTTP handler's goroutine,     *)
(* then, if the request was accepted, the retry goroutine it starts.  The  *)
(* code holds no lock between a load of a row and its update, so every     *)
(* database call and every backend call is a step of its own; what happens *)
(* on a task's local copy of the row goes with the call before it.         *)
(***************************************************************************)
EXTENDS VolumeFSM, StorageBackend, Naturals

CONSTANTS
    Names,          \* volume names clients use
    Tasks,          \* requests the service can have under way at once
    Repo,           \* which repository holds the rows
    MaxAttempts,    \* RetryPolicy.MaxAttempts
    MaxFaults       \* bound: contexts cut, database and cluster errors

ASSUME RepoAssumption == Repo \in {"inmemory", "postgres"}
ASSUME MaxAttemptsAssumption == MaxAttempts \in Nat \ {0}
ASSUME MaxFaultsAssumption == MaxFaults \in Nat

VARIABLES
    db,         \* the volumes table: a row per name
    audit,      \* to_state of the last volume_events row of each name
    backend,    \* the storage backend's volume of each name
    task,       \* what each task does next, with its local variables
    closing,    \* how far VolumeFeature.Close has come
    faults      \* faults so far

vars == <<db, audit, backend, task, closing, faults>>

-----------------------------------------------------------------------------
Row   == [state : States, node : Nodes \cup {NoNode}]
NoRow == [state |-> "none", node |-> NoNode]

Ops == {"create", "delete", "attach", "detach", "reconcile"}

\* The event an operation's goroutine fires when the backend call succeeded.
SuccessEvent ==
    [create |-> "ready", delete |-> "deleted",
     attach |-> "attached", detach |-> "detached"]

WorkerEvents ==
    {"ready", "deleted", "attached", "detached", "error", "retry", "fail"}

Idle == [pc |-> "idle"]

\* pc names the next call; vol is the local copy *storage.Volume; event is the
\* FSM event under way; attempt counts the retry loop, 0 in the handler.
Job ==
    [pc      : {"lookup", "save", "setnode", "inspect", "update", "record",
                "begin", "call", "load", "backoff"},
     op      : Ops,
     name    : Names,
     node    : Nodes \cup {NoNode},
     vol     : Row \cup {NoRow},
     event   : Ops \cup WorkerEvents,
     attempt : 0..MaxAttempts]

TypeOK ==
    /\ db \in [Names -> Row \cup {NoRow}]
    /\ audit \in [Names -> States \cup {"none"}]
    /\ backend \in [Names -> BackendVolume]
    /\ task \in [Tasks -> Job \cup {Idle}]
    /\ closing \in {"open", "canceled", "drained", "timedout"}
    /\ faults \in 0..MaxFaults

Init ==
    /\ db = [n \in Names |-> NoRow]
    /\ audit = [n \in Names |-> "none"]
    /\ backend = [n \in Names |-> Absent]
    /\ task = [t \in Tasks |-> Idle]
    /\ closing = "open"
    /\ faults = 0

-----------------------------------------------------------------------------
At(t, pc)     == task[t].pc = pc
Become(t, j)  == task' = [task EXCEPT ![t] = j]
Finish(t)     == Become(t, Idle)

\* A task that the WaitGroup counts: a retry goroutine.
Worker(t) ==
    \/ task[t].pc \in {"begin", "call", "load", "backoff"}
    \/ task[t].pc \in {"update", "record"} /\ task[t].event \in WorkerEvents

\* A task that is still a handler, answering its client.
Handler(t) == task[t].pc # "idle" /\ ~Worker(t)

Canceled == closing # "open"

Fault == faults < MaxFaults /\ faults' = faults + 1

\* The context a step runs under is done: bgCtx once Close has canceled it
\* (a termination signal cancels the requests with it), a request's also when
\* its client goes away.
ContextDone(t) ==
    \/ Canceled /\ UNCHANGED faults
    \/ Handler(t) /\ Fault

\* A database call returns an error.  The in-memory repository ignores
\* contexts and has none of its own.
DbFails ==
    /\ Repo = "postgres"
    /\ \/ Canceled /\ UNCHANGED faults
       \/ Fault

\* Faulty: the caller goes on when the FSM rejects the event,
ApplyEventIgnored(t, j, v) ==
    /\ Become(t, [j EXCEPT !.pc = IF CanTransition(v.state, j.event) THEN "update" ELSE "record",
                           !.vol = IF CanTransition(v.state, j.event)
                                   THEN [v EXCEPT !.state = Transition(v.state, j.event)]
                                   ELSE v])
    /\ UNCHANGED faults

\* or the new state never reaches the row.
ApplyEventUnsaved(t, j, v) ==
    /\ CanTransition(v.state, j.event)
    /\ Become(t, [j EXCEPT !.pc = "record",
                           !.vol = [v EXCEPT !.state = Transition(v.state, j.event)]])
    /\ UNCHANGED faults

\* applyEvent up to its database calls, on the local copy v: the FSM accepts
\* the event, rejects it, or refuses because the context is done.
ApplyEvent(t, j, v) ==
    \/ /\ CanTransition(v.state, j.event)
       /\ Become(t, [j EXCEPT !.pc = "update",
                              !.vol = [v EXCEPT !.state = Transition(v.state, j.event)]])
       /\ UNCHANGED faults
    \/ /\ ~CanTransition(v.state, j.event)
       /\ Finish(t)
       /\ UNCHANGED faults
    \/ /\ CanTransition(v.state, j.event)
       /\ ContextDone(t)
       /\ Finish(t)

\* UpdateVolume and SaveVolume, answered: the row takes the local copy.
Write(n, v) == db' = [db EXCEPT ![n] = v]

\* The same call returning an error, before or after the row was written.
WriteFails(n, v) == DbFails /\ (Write(n, v) \/ UNCHANGED db)

-----------------------------------------------------------------------------
(* The handlers of the five operations. *)

Arrive(t, op, n, node) ==
    /\ At(t, "idle")
    /\ op = "attach" <=> node # NoNode
    /\ Become(t, [pc |-> "lookup", op |-> op, name |-> n, node |-> node,
                  vol |-> NoRow, event |-> op, attempt |-> 0])
    /\ UNCHANGED <<db, audit, backend, closing, faults>>

\* LoadVolume, and what each operation does with the row it finds.
LookupCreate(t, j, row) ==
    \/ /\ row = NoRow
       /\ Become(t, [j EXCEPT !.pc = "save",
                              !.vol = [state |-> "pending", node |-> NoNode]])
       /\ UNCHANGED faults
    \/ row # NoRow /\ Finish(t) /\ UNCHANGED faults

LookupDelete(t, j, row) == row # NoRow /\ ApplyEvent(t, j, row)

LookupDetach(t, j, row) == row # NoRow /\ ApplyEvent(t, j, row)

\* Faulty: the node is not recorded.
LookupAttachUnnamed(t, j, row) ==
    /\ row # NoRow
    /\ Become(t, [j EXCEPT !.pc = "setnode", !.vol = row])
    /\ UNCHANGED faults

LookupAttach(t, j, row) ==
    /\ row # NoRow
    /\ Become(t, [j EXCEPT !.pc = "setnode", !.vol = [row EXCEPT !.node = j.node]])
    /\ UNCHANGED faults

\* Faulty: a volume is reconciled whatever state it is in.
LookupReconcileAnytime(t, j, row) ==
    /\ row # NoRow
    /\ Become(t, [j EXCEPT !.pc = "inspect", !.vol = row])
    /\ UNCHANGED faults

LookupReconcile(t, j, row) ==
    \/ /\ row.state = "error"
       /\ Become(t, [j EXCEPT !.pc = "inspect", !.vol = row])
       /\ UNCHANGED faults
    \/ row.state # "error" /\ Finish(t) /\ UNCHANGED faults

\* loadOrNotFound: nothing to delete, attach or detach, or an error of the load.
LookupNothing(t, j, row) ==
    \/ /\ j.op \in {"delete", "attach", "detach"} /\ row = NoRow
       /\ Finish(t)
       /\ UNCHANGED faults
    \/ DbFails /\ Finish(t)

Lookup(t) ==
    /\ At(t, "lookup")
    /\ LET j == task[t]
           row == db[j.name]
       IN \/ j.op = "create" /\ LookupCreate(t, j, row)
          \/ j.op = "delete" /\ LookupDelete(t, j, row)
          \/ j.op = "attach" /\ LookupAttach(t, j, row)
          \/ j.op = "detach" /\ LookupDetach(t, j, row)
          \/ j.op = "reconcile" /\ LookupReconcile(t, j, row)
          \/ LookupNothing(t, j, row)
    /\ UNCHANGED <<db, audit, backend, closing>>

\* Faulty: the insert overwrites a row that another request inserted.
SaveOverwriting(t) ==
    /\ At(t, "save")
    /\ Write(task[t].name, task[t].vol)
    /\ ApplyEvent(t, task[t], task[t].vol)
    /\ UNCHANGED <<audit, backend, closing>>

\* CreateVolume inserts the row, which the name's uniqueness may refuse.
Save(t) ==
    /\ At(t, "save")
    /\ LET j == task[t]
       IN \/ /\ db[j.name] = NoRow
             /\ Write(j.name, j.vol)
             /\ ApplyEvent(t, j, j.vol)
          \/ /\ db[j.name] # NoRow
             /\ Finish(t)
             /\ UNCHANGED <<db, faults>>
          \/ /\ db[j.name] = NoRow
             /\ WriteFails(j.name, j.vol)
             /\ Finish(t)
    /\ UNCHANGED <<audit, backend, closing>>

\* AttachVolume writes its copy of the row, with the node, before the FSM is
\* asked whether the volume can be attached.
SetNode(t) ==
    /\ At(t, "setnode")
    /\ LET j == task[t]
       IN \/ /\ Write(j.name, j.vol)
             /\ ApplyEvent(t, j, j.vol)
          \/ /\ WriteFails(j.name, j.vol)
             /\ Finish(t)
    /\ UNCHANGED <<audit, backend, closing>>

\* ReconcileVolume asks the backend and takes over what it answers.  (Its branch
\* for an absent volume, back to pending, waits for an answer no backend gives.)
Inspect(t) ==
    /\ At(t, "inspect")
    /\ LET j == task[t]
           real == backend[j.name]
       IN \/ /\ GetVolume(real) = "error"
             /\ Finish(t)
          \/ /\ GetVolume(real) = "found"
             /\ Become(t, [j EXCEPT !.pc = "update",
                                    !.vol = [state |-> IF real.node # NoNode
                                                       THEN "attached" ELSE "available",
                                             node |-> real.node]])
    /\ UNCHANGED <<db, audit, backend, closing, faults>>

-----------------------------------------------------------------------------
(* The end of applyEvent, and of ReconcileVolume: UpdateVolume, SaveEvent. *)

Update(t) ==
    /\ At(t, "update")
    /\ LET j == task[t]
       IN \/ /\ Write(j.name, j.vol)
             /\ Become(t, [j EXCEPT !.pc = "record"])
             /\ UNCHANGED faults
          \/ /\ WriteFails(j.name, j.vol)
             /\ Finish(t)
    /\ UNCHANGED <<audit, backend, closing>>

\* Faulty: the loop never compares the attempt with MaxAttempts,
ContinueUncapped(j) ==
    CASE j.event \in DOMAIN SuccessEvent ->
             [j EXCEPT !.pc = "begin", !.vol = NoRow, !.attempt = 1]
      [] j.event = "error" -> [j EXCEPT !.pc = "backoff", !.vol = NoRow]
      [] j.event = "retry" -> [j EXCEPT !.pc = "begin", !.vol = NoRow, !.attempt = @ + 1]
      [] OTHER -> Idle

\* never counts an attempt,
ContinueForever(j) ==
    CASE j.event \in DOMAIN SuccessEvent ->
             [j EXCEPT !.pc = "begin", !.vol = NoRow, !.attempt = 1]
      [] j.event = "error" -> [j EXCEPT !.pc = "backoff", !.vol = NoRow]
      [] j.event = "retry" -> [j EXCEPT !.pc = "begin", !.vol = NoRow]
      [] OTHER -> Idle

\* or leaves the volume as it is after the last attempt.
ContinueSilently(j) ==
    CASE j.event \in DOMAIN SuccessEvent ->
             [j EXCEPT !.pc = "begin", !.vol = NoRow, !.attempt = 1]
      [] j.event = "error" /\ j.attempt < MaxAttempts ->
             [j EXCEPT !.pc = "backoff", !.vol = NoRow]
      [] j.event = "retry" -> [j EXCEPT !.pc = "begin", !.vol = NoRow, !.attempt = @ + 1]
      [] OTHER -> Idle

\* What a task does once its event is applied: a handler starts the goroutine,
\* a goroutine backs off, fails for good, tries again or is done.
Continue(j) ==
    CASE j.event \in DOMAIN SuccessEvent ->
             [j EXCEPT !.pc = "begin", !.vol = NoRow, !.attempt = 1]
      [] j.event = "error" /\ j.attempt < MaxAttempts ->
             [j EXCEPT !.pc = "backoff", !.vol = NoRow]
      [] j.event = "error" /\ j.attempt = MaxAttempts ->
             [j EXCEPT !.pc = "load", !.vol = NoRow, !.event = "fail"]
      [] j.event = "retry" ->
             [j EXCEPT !.pc = "begin", !.vol = NoRow, !.attempt = @ + 1]
      [] OTHER -> Idle

\* Faulty: a reconciliation leaves no audit row.
RecordOfEvents(t) ==
    /\ At(t, "record")
    /\ Become(t, Continue(task[t]))
    /\ audit' = IF task[t].op = "reconcile" THEN audit
                ELSE [audit EXCEPT ![task[t].name] = task[t].vol.state]
    /\ UNCHANGED <<db, backend, closing, faults>>

\* SaveEvent: an error is logged and otherwise ignored.
Record(t) ==
    /\ At(t, "record")
    /\ LET j == task[t]
       IN /\ Become(t, Continue(j))
          /\ \/ audit' = [audit EXCEPT ![j.name] = j.vol.state] /\ UNCHANGED faults
             \/ DbFails /\ UNCHANGED audit
    /\ UNCHANGED <<db, backend, closing>>

-----------------------------------------------------------------------------
(* The retry goroutine, runWithRetry. *)

\* Faulty: an attempt is made whether bgCtx is done or not,
BeginUnchecked(t) ==
    /\ At(t, "begin")
    /\ Become(t, [task[t] EXCEPT !.pc = "call"])
    /\ UNCHANGED <<db, audit, backend, closing, faults>>

\* or a goroutine that must not go on does not return.
BeginWaiting(t) ==
    /\ At(t, "begin")
    /\ ~Canceled
    /\ Become(t, [task[t] EXCEPT !.pc = "call"])
    /\ UNCHANGED <<db, audit, backend, closing, faults>>

\* The check of bgCtx before each attempt.
Begin(t) ==
    /\ At(t, "begin")
    /\ IF Canceled THEN Finish(t) ELSE Become(t, [task[t] EXCEPT !.pc = "call"])
    /\ UNCHANGED <<db, audit, backend, closing, faults>>

\* What the backend may answer to the goroutine's operation.
Replies(j) ==
    CASE j.op = "create" -> CreateVolume(backend[j.name])
      [] j.op = "delete" -> DeleteVolume(backend[j.name])
      [] j.op = "attach" -> AttachVolume(backend[j.name], j.node)
      [] j.op = "detach" -> DetachVolume(backend[j.name])

Call(t) ==
    /\ At(t, "call")
    /\ LET j == task[t]
       IN \E r \in Replies(j) :
             /\ backend' = [backend EXCEPT ![j.name] = r.vol]
             /\ IF r.fault THEN Fault ELSE UNCHANGED faults
             /\ Become(t, [j EXCEPT !.pc = "load",
                                    !.event = IF r.ok THEN SuccessEvent[j.op]
                                                      ELSE "error"])
    /\ UNCHANGED <<db, audit, closing>>

\* Faulty: every success clears the node.
LoadedClearing(j) == [db[j.name] EXCEPT !.node = NoNode]

\* postSuccess: a detach clears the node before its success is persisted.
Loaded(j) ==
    IF j.event = "detached"
    THEN [db[j.name] EXCEPT !.node = NoNode]
    ELSE db[j.name]

\* LoadVolume and the event that follows it.  When the load of a retry fails
\* the event is skipped and the loop goes on.
Load(t) ==
    /\ At(t, "load")
    /\ LET j == task[t]
       IN \/ /\ db[j.name] # NoRow
             /\ ApplyEvent(t, j, Loaded(j))
          \/ /\ DbFails
             /\ IF j.event = "retry"
                THEN Become(t, [j EXCEPT !.pc = "begin", !.attempt = @ + 1])
                ELSE Finish(t)
    /\ UNCHANGED <<db, audit, backend, closing>>

\* The back-off ends with the timer or with the shutdown, whichever select takes.
Backoff(t) ==
    /\ At(t, "backoff")
    /\ \/ Become(t, [task[t] EXCEPT !.pc = "load", !.event = "retry"])
       \/ Canceled /\ Finish(t)
    /\ UNCHANGED <<db, audit, backend, closing, faults>>

-----------------------------------------------------------------------------
(* VolumeFeature.Close: cancel bgCtx, then wait for the goroutines or give up. *)

\* Faulty: the wait for the goroutines is left out.
CloseUnwaited ==
    /\ \/ closing = "open" /\ closing' = "canceled"
       \/ closing = "canceled" /\ closing' = "drained"
    /\ UNCHANGED <<db, audit, backend, task, faults>>

Close ==
    /\ \/ closing = "open" /\ closing' = "canceled"
       \/ closing = "canceled" /\ (\A t \in Tasks : ~Worker(t)) /\ closing' = "drained"
       \/ closing = "canceled" /\ (\E t \in Tasks : Worker(t)) /\ closing' = "timedout"
    /\ UNCHANGED <<db, audit, backend, task, faults>>

-----------------------------------------------------------------------------
\* One step of a request or goroutine that is under way.
Step(t) ==
    \/ Lookup(t) \/ Save(t) \/ SetNode(t) \/ Inspect(t)
    \/ Update(t) \/ Record(t)
    \/ Begin(t) \/ Call(t) \/ Load(t) \/ Backoff(t)

Next ==
    \/ \E t \in Tasks, op \in Ops, n \in Names, node \in Nodes \cup {NoNode} :
            Arrive(t, op, n, node)
    \/ \E t \in Tasks : Step(t)
    \/ Close

Spec == Init /\ [][Next]_vars

(***************************************************************************)
(* Clients that wait for each other: at most one request on a name is with *)
(* its handler, and a volume is only asked to be attached when it is       *)
(* available (AttachVolume overwrites the row whatever its state is).      *)
(***************************************************************************)
Orderly(op, n) ==
    /\ \A t \in Tasks : Handler(t) => task[t].name # n
    /\ op = "attach" => db[n].state \in {"none", "available"}

SerialNext ==
    \/ \E t \in Tasks, op \in Ops, n \in Names, node \in Nodes \cup {NoNode} :
            Orderly(op, n) /\ Arrive(t, op, n, node)
    \/ \E t \in Tasks : Step(t)
    \/ Close

SerialSpec == Init /\ [][SerialNext]_vars

(***************************************************************************)
(* The Go runtime runs every runnable goroutine, calls return within their *)
(* timeouts and timers fire: each task under way takes its next step.      *)
(***************************************************************************)
TaskFairness == \A t \in Tasks : WF_vars(Step(t))

FairSpec       == Spec /\ TaskFairness
FairSerialSpec == SerialSpec /\ TaskFairness

-----------------------------------------------------------------------------
(* Whatever requests race with each other. *)

HoldsNode ==
    {"attaching", "attached", "detaching", "attaching_failed", "detaching_failed"}

\* A volume the API shows on its way to, on, or on its way from a node names some
\* node: no lost update puts the state one request wrote together with the node
\* that the goroutine of another's detach cleared.  Which node it is, racing
\* attaches can get wrong (RowNamesMount); MountIsNamed says when it is right.
NodeRecorded ==
    \A n \in Names : db[n].state \in HoldsNode => db[n].node # NoNode

\* A creation goes on from the insert of the row to the end of its goroutine.
Creating(t, n) ==
    /\ task[t].pc \in {"update", "record", "begin", "call", "load", "backoff"}
    /\ task[t].op = "create"
    /\ task[t].name = n

\* However many clients create the same name at once, one goroutine provisions
\* it: the loads before the insert may race, the insert decides.
OneCreator ==
    \A n \in Names, t, u \in Tasks : Creating(t, n) /\ Creating(u, n) => t = u

\* A volume shown as deleted is gone from the backend and stays gone, even when
\* creations, retries and reconciliations of the same name race the deletion.
DeletedMeansGone ==
    \A n \in Names : db[n].state = "deleted" => ~Present(backend[n])

\* When Close reports that all goroutines have exited, none calls the backend,
\* writes a row or sleeps any more: at most one that a late handler started is
\* about to find its context canceled.
DrainedMeansQuiet ==
    closing = "drained" => \A t \in Tasks : Worker(t) => At(t, "begin")

-----------------------------------------------------------------------------
(* When clients wait for each other. *)

\* The moves the life cycle of volume/fsm.go draws, reconcile included.
LifecycleEdges ==
    {<<"none", "pending">>}
        \cup {<<tr[1], tr[3]>> : tr \in Transitions}
        \cup {"error"} \X {"pending", "available", "attached"}

\* Every change of a row's state is a move of the life cycle.
FollowsFsm ==
    [][\A n \in Names :
          db'[n].state # db[n].state => <<db[n].state, db'[n].state>> \in LifecycleEdges]_vars

\* What clients are shown and what the backend holds, as the abstract
\* specification sees them.
Lifecycle ==
    INSTANCE VolumeLifecycle WITH
        shown <- db,
        real  <- [n \in Names |-> [state |-> backend[n].state, node |-> backend[n].node]]

\* Handlers, retries, faults and shutdown only ever do what the life cycle
\* promises: the backend changes under the operation the row announces, and an
\* operation is shown as done only when the backend agrees.
ImplementsLifecycle == Lifecycle!Spec

\* A resting state tells the truth: a volume shown as available is in the
\* backend and free, one shown as attached is attached to the very node its row
\* names, one not yet created or deleted is not there.
StableStateIsTrue == Lifecycle!Truthful

\* Whatever a row's state: from the moment the backend mounts a volume to the
\* moment it lets go of it, through retries, failures and the error state, the row
\* names the very node, so that a volume is never mounted where nobody can tell.
MountIsNamed ==
    \A n \in Names : backend[n].state = "attached" => db[n].node = backend[n].node

\* A goroutine between the start of its first attempt and the end of its last.
AtWork(t, n) ==
    /\ task[t].pc \in {"begin", "call", "backoff"}
    /\ task[t].name = n

\* The FSM is the only lock there is: as long as one goroutine may call the backend
\* for a volume, no other request on it is accepted, whatever fails.
OneAtWork ==
    \A n \in Names, t, u \in Tasks : AtWork(t, n) /\ AtWork(u, n) => t = u

\* Short of errors of the database, and with one request at a time, the audit trail
\* keeps up: when no task is about to write its audit row, the last one tells the
\* volume's state (a row is inserted as pending without one).  Two requests that
\* follow close on each other may write theirs in either order.
AuditKeepsUp ==
    \A n \in Names :
        /\ db[n].state \notin {"none", "pending"}
        /\ \A t \in Tasks : At(t, "record") => task[t].name # n
        => audit[n] = db[n].state

-----------------------------------------------------------------------------
(* Liveness. *)

\* Every request is answered and every goroutine ends.
TasksFinish == \A t \in Tasks : task[t].pc # "idle" ~> task[t].pc = "idle"

\* An operation in progress reaches a resting state unless the service stops.
Settles ==
    \A n \in Names :
        db[n].state \in Transitional ~> db[n].state \notin Transitional \/ Canceled

-----------------------------------------------------------------------------
(* What the repository says and the code does not do. *)

\* A row shown as attached names the node the volume is mounted on.
RowNamesMount ==
    \A n \in Names :
        db[n].state = "attached" /\ backend[n].state = "attached"
            => db[n].node = backend[n].node

=============================================================================
