------------------------- MODULE VolumeServiceProofs -------------------------
(***************************************************************************)
(* Theorems about VolumeService, for every set of names, tasks and nodes,  *)
(* both backends, both repositories and any retry policy.                  *)
(***************************************************************************)
EXTENDS VolumeService, TLAPS

-----------------------------------------------------------------------------
(* The life cycle and the backends. *)

\* An accepted event leads along an edge of the transition table.
LEMMA TransitionIsEdge ==
    ASSUME NEW s, NEW e, CanTransition(s, e)
    PROVE  /\ Transition(s, e) \in States
           /\ <<s, e, Transition(s, e)>> \in Transitions
BY DEF CanTransition, Transition

\* The three kinds of reply carry the volume they were given.
LEMMA ReplyCarries ==
    ASSUME NEW b, NEW r, r \in Refuse(b) \/ r \in Accept(b) \/ r \in Break(b)
    PROVE  r.vol = b
BY DEF Refuse, Accept, Break

\* What the operations make of a volume is well formed.
LEMMA VolumeType ==
    ASSUME NEW b \in BackendVolume, NEW x \in Nodes \cup {NoNode}, NEW i \in BOOLEAN
    PROVE  /\ Absent \in BackendVolume
           /\ Attached(b, x) \in BackendVolume
           /\ Detached(b) \in BackendVolume
           /\ [b EXCEPT !.image = i] \in BackendVolume
BY DEF BackendVolume, Absent, Attached, Detached

\* Whatever a backend answers, its volume is well formed.
LEMMA RepliesType ==
    ASSUME NEW b \in BackendVolume, NEW x \in Nodes \cup {NoNode},
           NEW r, \/ r \in CreateVolume(b)
                  \/ r \in DeleteVolume(b)
                  \/ r \in AttachVolume(b, x)
                  \/ r \in DetachVolume(b)
    PROVE  r.vol \in BackendVolume
<1>1. CASE r \in CreateVolume(b)
  BY <1>1, ReplyCarries, VolumeType DEF CreateVolume, MockCreate, CephCreate
<1>2. CASE r \in DeleteVolume(b)
  BY <1>2, ReplyCarries, VolumeType DEF DeleteVolume, MockDelete, CephDelete
<1>3. CASE r \in AttachVolume(b, x)
  BY <1>3, ReplyCarries, VolumeType DEF AttachVolume, MockAttach, CephAttach
<1>4. CASE r \in DetachVolume(b)
  BY <1>4, ReplyCarries, VolumeType DEF DetachVolume, MockDetach, CephDetach
<1>. QED  BY <1>1, <1>2, <1>3, <1>4

-----------------------------------------------------------------------------
(* Type correctness. *)

\* What a job's program counter says about its local variables: the copy of the
\* row is there while it is used, the event is the handler's own until the
\* backend was called, a reconciliation never enters the retry loop, and a retry
\* is pending only while an attempt is left.
Coherent(j) ==
    /\ j.pc \in {"save", "setnode", "update", "record"} => j.vol \in Row
    /\ j.pc \in {"lookup", "save", "setnode", "inspect"} => j.event = j.op
    /\ j.event \in Ops => j.event = j.op
    /\ j.pc = "save" => j.op = "create" /\ j.vol.state = "pending"
    /\ j.pc = "setnode" => j.op = "attach" /\ j.vol.node = j.node
    /\ j.pc = "inspect" => j.op = "reconcile"
    /\ j.op = "attach" => j.node # NoNode
    /\ j.op = "reconcile" =>
          j.event = "reconcile" /\ j.pc \in {"lookup", "inspect", "update", "record"}
    /\ j.pc \in {"begin", "call"} => j.event \in {j.op, "retry"}
    /\ j.pc = "load" => j.event \in WorkerEvents
    /\ j.event = "deleted" => j.op = "delete"
    /\ j.pc = "backoff" => j.event = "error" /\ j.attempt < MaxAttempts
    /\ j.pc \in {"load", "update", "record"} /\ j.event = "retry" => j.attempt < MaxAttempts

TaskState == {j \in Job : Coherent(j)} \cup {Idle}

TypeInv == TypeOK /\ task \in [Tasks -> TaskState]

\* A fault that happens fits the budget.
LEMMA FaultType ==
    ASSUME TypeOK, Fault \/ DbFails \/ UNCHANGED faults
    PROVE  faults' \in 0..MaxFaults
BY MaxFaultsAssumption DEF TypeOK, Fault, DbFails

\* Writing a well-formed row, or not, keeps the table well formed.
LEMMA WriteType ==
    ASSUME TypeOK, NEW n \in Names, NEW v \in Row, Write(n, v) \/ UNCHANGED db
    PROVE  db' \in [Names -> Row \cup {NoRow}]
BY DEF TypeOK, Write

\* A task that becomes a coherent job or idle keeps the tasks well formed.
LEMMA BecomeType ==
    ASSUME TypeInv, NEW t \in Tasks, NEW j \in TaskState, Become(t, j)
    PROVE  task' \in [Tasks -> TaskState]
BY DEF TypeInv, Become

\* A task that has ended is idle.
LEMMA FinishType ==
    ASSUME TypeInv, NEW t \in Tasks, Finish(t)
    PROVE  task' \in [Tasks -> TaskState]
BY BecomeType DEF Finish, TaskState

\* A task under way is a coherent job.
LEMMA AtJob ==
    ASSUME TypeInv, NEW t \in Tasks, task[t].pc # "idle"
    PROVE  task[t] \in Job /\ Coherent(task[t])
BY DEF TypeInv, TaskState, Idle

\* applyEvent leaves a job about to update its row, or none.
LEMMA ApplyEventType ==
    ASSUME TypeInv, NEW t \in Tasks, NEW j \in Job, NEW v \in Row,
           Coherent(j), j.op # "reconcile",
           j.event = "retry" => j.attempt < MaxAttempts,
           ApplyEvent(t, j, v)
    PROVE  /\ task' \in [Tasks -> TaskState]
           /\ faults' \in 0..MaxFaults
<1>1. faults' \in 0..MaxFaults
  BY FaultType DEF ApplyEvent, ContextDone, TypeInv
<1>2. CASE CanTransition(v.state, j.event)
  <2> DEFINE w == [v EXCEPT !.state = Transition(v.state, j.event)]
             k == [j EXCEPT !.pc = "update", !.vol = w]
  <2>1. w \in Row
    BY <1>2, TransitionIsEdge DEF Row
  <2>2. k \in TaskState
    BY <2>1 DEF Job, TaskState, Coherent
  <2>3. Become(t, k) \/ Finish(t)
    BY <1>2 DEF ApplyEvent
  <2>. QED  BY <1>1, <2>2, <2>3, BecomeType, FinishType
<1>3. CASE ~CanTransition(v.state, j.event)
  BY <1>1, <1>3, FinishType DEF ApplyEvent
<1>. QED  BY <1>2, <1>3

\* The events that a handler fires before it starts a goroutine.
LEMMA HandlerEvents == DOMAIN SuccessEvent = {"create", "delete", "attach", "detach"}
BY DEF SuccessEvent

\* A recorded job goes on as a coherent job, or the task ends.
LEMMA ContinueType ==
    ASSUME NEW j \in Job, Coherent(j), j.pc = "record"
    PROVE  Continue(j) \in TaskState
<1>1. CASE j.event \in DOMAIN SuccessEvent
  <2>1. Continue(j) = [j EXCEPT !.pc = "begin", !.vol = NoRow, !.attempt = 1]
    BY <1>1 DEF Continue, SuccessEvent
  <2>2. Continue(j) \in Job
    <3>1. 1 \in 0..MaxAttempts
      BY MaxAttemptsAssumption
    <3>. QED  BY <2>1, <3>1 DEF Job
  <2>3. Coherent(Continue(j))
    BY <1>1, <2>1, HandlerEvents DEF Coherent, Job, Ops
  <2>. QED  BY <2>2, <2>3 DEF TaskState
<1>2. CASE j.event = "error" /\ j.attempt < MaxAttempts
  <2>1. Continue(j) = [j EXCEPT !.pc = "backoff", !.vol = NoRow]
    BY <1>2, HandlerEvents, MaxAttemptsAssumption DEF Continue, Job
  <2>. QED  BY <1>2, <2>1, MaxAttemptsAssumption DEF TaskState, Coherent, Job
<1>3. CASE j.event = "error" /\ j.attempt = MaxAttempts
  <2>1. Continue(j) = [j EXCEPT !.pc = "load", !.vol = NoRow, !.event = "fail"]
    BY <1>3, HandlerEvents, MaxAttemptsAssumption DEF Continue, Job
  <2>. QED  BY <1>3, <2>1 DEF TaskState, Coherent, Job, Ops, WorkerEvents
<1>4. CASE j.event = "retry"
  <2>1. Continue(j) = [j EXCEPT !.pc = "begin", !.vol = NoRow, !.attempt = @ + 1]
    BY <1>4, HandlerEvents DEF Continue
  <2>2. Continue(j) \in Job
    <3>1. j.attempt + 1 \in 0..MaxAttempts
      BY <1>4, MaxAttemptsAssumption DEF Job, Coherent
    <3>. QED  BY <2>1, <3>1 DEF Job
  <2>3. Coherent(Continue(j))
    BY <1>4, <2>1 DEF Coherent, Job
  <2>. QED  BY <2>2, <2>3 DEF TaskState
<1>5. CASE /\ j.event \notin DOMAIN SuccessEvent
           /\ j.event # "error"
           /\ j.event # "retry"
  <2>1. Continue(j) = Idle
    BY <1>5 DEF Continue
  <2>. QED  BY <2>1 DEF TaskState
<1>. QED
  BY <1>1, <1>2, <1>3, <1>4, <1>5, MaxAttemptsAssumption DEF Job

\* The type invariant and the coherence of the tasks are inductive.
LEMMA TypeInit == Init => TypeInv
BY MaxFaultsAssumption
   DEF Init, TypeInv, TypeOK, TaskState, NoRow, Absent, BackendVolume

\* Every action keeps the types and ties a task's variables to its program counter.
LEMMA TypeStep ==
    ASSUME TypeInv, [Next]_vars
    PROVE  TypeInv'
<1> USE DEF TypeInv
<1> SUFFICES /\ db' \in [Names -> Row \cup {NoRow}]
             /\ audit' \in [Names -> States \cup {"none"}]
             /\ backend' \in [Names -> BackendVolume]
             /\ task' \in [Tasks -> TaskState]
             /\ closing' \in {"open", "canceled", "drained", "timedout"}
             /\ faults' \in 0..MaxFaults
  BY DEF TypeOK, TaskState
<1>1. ASSUME NEW t \in Tasks, NEW op \in Ops, NEW n \in Names,
             NEW node \in Nodes \cup {NoNode}, Arrive(t, op, n, node)
      PROVE  task' \in [Tasks -> TaskState]
  <2> DEFINE j == [pc |-> "lookup", op |-> op, name |-> n, node |-> node,
                   vol |-> NoRow, event |-> op, attempt |-> 0]
  <2>1. j \in Job
    <3>1. 0 \in 0..MaxAttempts
      BY MaxAttemptsAssumption
    <3>. QED  BY <3>1 DEF Job
  <2>2. Coherent(j)
    BY <1>1 DEF Coherent, Ops, Arrive
  <2>3. Become(t, j)
    BY <1>1 DEF Arrive
  <2>. QED  BY <2>1, <2>2, <2>3, BecomeType DEF TaskState
<1>2. ASSUME NEW t \in Tasks, Lookup(t)
      PROVE  task' \in [Tasks -> TaskState] /\ faults' \in 0..MaxFaults
  <2> DEFINE j == task[t]
             row == db[j.name]
  <2>1. j \in Job /\ Coherent(j) /\ j.pc = "lookup" /\ row \in Row \cup {NoRow}
    BY <1>2, AtJob DEF Lookup, At, Job, TypeOK
  <2>2. CASE /\ j.op = "create"
             /\ Become(t, [j EXCEPT !.pc = "save",
                                    !.vol = [state |-> "pending", node |-> NoNode]])
             /\ UNCHANGED faults
    <3>1. [j EXCEPT !.pc = "save", !.vol = [state |-> "pending", node |-> NoNode]]
              \in TaskState
      BY <2>1, <2>2 DEF TaskState, Job, Coherent, Row, States
    <3>. QED  BY <2>2, <3>1, BecomeType, FaultType
  <2>3. CASE j.op \in {"delete", "detach"} /\ row # NoRow /\ ApplyEvent(t, j, row)
    BY <2>1, <2>3, ApplyEventType DEF Coherent, Job, Ops
  <2>4. CASE /\ j.op = "attach" /\ row # NoRow
             /\ Become(t, [j EXCEPT !.pc = "setnode", !.vol = [row EXCEPT !.node = j.node]])
             /\ UNCHANGED faults
    <3>1. [j EXCEPT !.pc = "setnode", !.vol = [row EXCEPT !.node = j.node]] \in TaskState
      BY <2>1, <2>4 DEF TaskState, Job, Coherent, Row
    <3>. QED  BY <2>4, <3>1, BecomeType, FaultType
  <2>5. CASE /\ j.op = "reconcile"
             /\ Become(t, [j EXCEPT !.pc = "inspect", !.vol = row])
             /\ UNCHANGED faults
    <3>1. [j EXCEPT !.pc = "inspect", !.vol = row] \in TaskState
      BY <2>1, <2>5 DEF TaskState, Job, Coherent
    <3>. QED  BY <2>5, <3>1, BecomeType, FaultType
  <2>6. CASE Finish(t) /\ (DbFails \/ UNCHANGED faults)
    BY <2>6, FinishType, FaultType
  <2>. QED
    BY <1>2, <2>2, <2>3, <2>4, <2>5, <2>6
    DEF Lookup, LookupCreate, LookupDelete, LookupAttach, LookupDetach, LookupReconcile,
        LookupNothing
<1>3. ASSUME NEW t \in Tasks, Save(t)
      PROVE  /\ task' \in [Tasks -> TaskState]
             /\ faults' \in 0..MaxFaults
             /\ db' \in [Names -> Row \cup {NoRow}]
  <2> DEFINE j == task[t]
  <2>1. j \in Job /\ Coherent(j) /\ j.pc = "save"
    BY <1>3, AtJob DEF Save, At
  <2>2. /\ j.vol \in Row
        /\ j.name \in Names
        /\ j.op # "reconcile" /\ j.event # "retry"
    BY <2>1 DEF Coherent, Job, Ops
  <2>3. CASE Write(j.name, j.vol) /\ ApplyEvent(t, j, j.vol)
    BY <2>1, <2>2, <2>3, ApplyEventType, WriteType
  <2>4. CASE Finish(t) /\ UNCHANGED <<db, faults>>
    BY <2>4, FinishType, FaultType DEF TypeOK
  <2>5. CASE Finish(t) /\ WriteFails(j.name, j.vol)
    BY <2>2, <2>5, FinishType, FaultType, WriteType DEF WriteFails
  <2>. QED  BY <1>3, <2>3, <2>4, <2>5 DEF Save
<1>4. ASSUME NEW t \in Tasks, SetNode(t)
      PROVE  /\ task' \in [Tasks -> TaskState]
             /\ faults' \in 0..MaxFaults
             /\ db' \in [Names -> Row \cup {NoRow}]
  <2> DEFINE j == task[t]
  <2>1. j \in Job /\ Coherent(j) /\ j.pc = "setnode"
    BY <1>4, AtJob DEF SetNode, At
  <2>2. /\ j.vol \in Row
        /\ j.name \in Names
        /\ j.op # "reconcile" /\ j.event # "retry"
    BY <2>1 DEF Coherent, Job, Ops
  <2>3. CASE Write(j.name, j.vol) /\ ApplyEvent(t, j, j.vol)
    BY <2>1, <2>2, <2>3, ApplyEventType, WriteType
  <2>4. CASE Finish(t) /\ WriteFails(j.name, j.vol)
    BY <2>2, <2>4, FinishType, FaultType, WriteType DEF WriteFails
  <2>. QED  BY <1>4, <2>3, <2>4 DEF SetNode
<1>5. ASSUME NEW t \in Tasks, Inspect(t)
      PROVE  task' \in [Tasks -> TaskState]
  <2> DEFINE j == task[t]
             real == backend[j.name]
             w == [state |-> IF real.node # NoNode THEN "attached" ELSE "available",
                   node |-> real.node]
             p == [state |-> "pending", node |-> NoNode]
  <2>1. j \in Job /\ Coherent(j) /\ j.pc = "inspect"
    BY <1>5, AtJob DEF Inspect, At
  <2>2. real \in BackendVolume
    BY <2>1 DEF TypeOK, Job
  <2>3. w \in Row /\ p \in Row
    BY <2>2 DEF Row, States, BackendVolume
  <2>4. ASSUME NEW v \in Row
        PROVE  [j EXCEPT !.pc = "update", !.vol = v] \in TaskState
    BY <2>1 DEF TaskState, Job, Coherent, Ops
  <2>5. \/ Finish(t)
        \/ Become(t, [j EXCEPT !.pc = "update", !.vol = w])
        \/ Become(t, [j EXCEPT !.pc = "update", !.vol = p])
    BY <1>5 DEF Inspect
  <2>. QED  BY <2>3, <2>4, <2>5, BecomeType, FinishType
<1>6. ASSUME NEW t \in Tasks, Update(t)
      PROVE  /\ task' \in [Tasks -> TaskState]
             /\ faults' \in 0..MaxFaults
             /\ db' \in [Names -> Row \cup {NoRow}]
  <2> DEFINE j == task[t]
  <2>1. j \in Job /\ Coherent(j) /\ j.pc = "update"
    BY <1>6, AtJob DEF Update, At
  <2>2. j.vol \in Row /\ j.name \in Names
    BY <2>1 DEF Coherent, Job
  <2>3. CASE /\ Write(j.name, j.vol)
             /\ Become(t, [j EXCEPT !.pc = "record"])
             /\ UNCHANGED faults
    <3>1. [j EXCEPT !.pc = "record"] \in TaskState
      BY <2>1 DEF TaskState, Job, Coherent
    <3>. QED  BY <2>2, <2>3, <3>1, BecomeType, WriteType, FaultType
  <2>4. CASE Finish(t) /\ WriteFails(j.name, j.vol)
    BY <2>2, <2>4, FinishType, FaultType, WriteType DEF WriteFails
  <2>. QED  BY <1>6, <2>3, <2>4 DEF Update
<1>7. ASSUME NEW t \in Tasks, Record(t)
      PROVE  /\ task' \in [Tasks -> TaskState]
             /\ faults' \in 0..MaxFaults
             /\ audit' \in [Names -> States \cup {"none"}]
  <2> DEFINE j == task[t]
  <2>1. j \in Job /\ Coherent(j) /\ j.pc = "record"
    BY <1>7, AtJob DEF Record, At
  <2>2. j.vol \in Row /\ j.name \in Names
    BY <2>1 DEF Coherent, Job
  <2>3. /\ Become(t, Continue(j))
        /\ DbFails \/ UNCHANGED faults
        /\ \/ audit' = [audit EXCEPT ![j.name] = j.vol.state]
           \/ UNCHANGED audit
    BY <1>7 DEF Record
  <2>. QED  BY <2>1, <2>2, <2>3, ContinueType, BecomeType, FaultType DEF TypeOK, Row
<1>8. ASSUME NEW t \in Tasks, Begin(t)
      PROVE  task' \in [Tasks -> TaskState]
  <2>1. task[t] \in Job /\ Coherent(task[t]) /\ task[t].pc = "begin"
    BY <1>8, AtJob DEF Begin, At
  <2>2. [task[t] EXCEPT !.pc = "call"] \in TaskState
    BY <2>1 DEF TaskState, Job, Coherent
  <2>. QED  BY <1>8, <2>2, BecomeType, FinishType DEF Begin
<1>9. ASSUME NEW t \in Tasks, Call(t)
      PROVE  /\ task' \in [Tasks -> TaskState]
             /\ faults' \in 0..MaxFaults
             /\ backend' \in [Names -> BackendVolume]
  <2> DEFINE j == task[t]
  <2>1. j \in Job /\ Coherent(j) /\ j.pc = "call"
    BY <1>9, AtJob DEF Call, At
  <2>2. PICK r \in Replies(j) :
            /\ backend' = [backend EXCEPT ![j.name] = r.vol]
            /\ IF r.fault THEN Fault ELSE UNCHANGED faults
            /\ Become(t, [j EXCEPT !.pc = "load",
                                   !.event = IF r.ok THEN SuccessEvent[j.op] ELSE "error"])
    BY <1>9 DEF Call
  <2>3. j.op \in {"create", "delete", "attach", "detach"}
    BY <2>1 DEF Coherent, Job, Ops
  <2>4. backend[j.name] \in BackendVolume /\ j.name \in Names /\ j.node \in Nodes \cup {NoNode}
    BY <2>1 DEF TypeOK, Job
  <2>5. r.vol \in BackendVolume
    BY <2>2, <2>3, <2>4, RepliesType DEF Replies
  <2> DEFINE e == IF r.ok THEN SuccessEvent[j.op] ELSE "error"
             k == [j EXCEPT !.pc = "load", !.event = e]
  <2>6. k \in TaskState
    <3>1. /\ e \in {"ready", "deleted", "attached", "detached", "error"}
          /\ e = "deleted" => j.op = "delete"
      BY <2>3 DEF SuccessEvent
    <3>. HIDE DEF e
    <3>2. k \in Job
      BY <2>1, <3>1 DEF Job, WorkerEvents
    <3>3. Coherent(k)
      BY <2>1, <2>3, <3>1 DEF Job, Coherent, Ops, WorkerEvents
    <3>. QED  BY <3>2, <3>3 DEF TaskState
  <2>. QED  BY <2>2, <2>4, <2>5, <2>6, BecomeType, FaultType DEF TypeOK
<1>10. ASSUME NEW t \in Tasks, Load(t)
       PROVE  task' \in [Tasks -> TaskState] /\ faults' \in 0..MaxFaults
  <2> DEFINE j == task[t]
  <2>1. j \in Job /\ Coherent(j) /\ j.pc = "load"
    BY <1>10, AtJob DEF Load, At
  <2>2. /\ j.op # "reconcile"
        /\ j.event = "retry" => j.attempt < MaxAttempts
        /\ j.name \in Names
    BY <2>1 DEF Coherent, Job
  <2>3. CASE db[j.name] # NoRow /\ ApplyEvent(t, j, Loaded(j))
    <3>1. Loaded(j) \in Row
      BY <2>2, <2>3 DEF Loaded, TypeOK, Row
    <3>. QED  BY <2>1, <2>2, <2>3, <3>1, ApplyEventType
  <2>4. CASE /\ DbFails
             /\ j.event = "retry"
             /\ Become(t, [j EXCEPT !.pc = "begin", !.attempt = @ + 1])
    <3>1. j.attempt + 1 \in 0..MaxAttempts
      BY <2>1, <2>2, <2>4, MaxAttemptsAssumption DEF Job
    <3>2. [j EXCEPT !.pc = "begin", !.attempt = @ + 1] \in Job
      BY <2>1, <3>1 DEF Job
    <3>3. Coherent([j EXCEPT !.pc = "begin", !.attempt = @ + 1])
      BY <2>1, <2>4 DEF Coherent, Job
    <3>. QED  BY <2>4, <3>2, <3>3, BecomeType, FaultType DEF TaskState
  <2>5. CASE DbFails /\ Finish(t)
    BY <2>5, FinishType, FaultType
  <2>. QED  BY <1>10, <2>3, <2>4, <2>5 DEF Load
<1>11. ASSUME NEW t \in Tasks, Backoff(t)
       PROVE  task' \in [Tasks -> TaskState]
  <2>1. task[t] \in Job /\ Coherent(task[t]) /\ task[t].pc = "backoff"
    BY <1>11, AtJob DEF Backoff, At
  <2>2. [task[t] EXCEPT !.pc = "load", !.event = "retry"] \in TaskState
    BY <2>1 DEF TaskState, Job, Coherent, Ops, WorkerEvents
  <2>. QED  BY <1>11, <2>2, BecomeType, FinishType DEF Backoff
<1>12. CASE \E t \in Tasks, op \in Ops, n \in Names, node \in Nodes \cup {NoNode} :
               Arrive(t, op, n, node)
  BY <1>12, <1>1 DEF Arrive, TypeOK
<1>13. CASE \E t \in Tasks : Step(t)
  <2> SUFFICES ASSUME NEW t \in Tasks, Step(t)
               PROVE  /\ db' \in [Names -> Row \cup {NoRow}]
                      /\ audit' \in [Names -> States \cup {"none"}]
                      /\ backend' \in [Names -> BackendVolume]
                      /\ task' \in [Tasks -> TaskState]
                      /\ closing' \in {"open", "canceled", "drained", "timedout"}
                      /\ faults' \in 0..MaxFaults
    BY <1>13
  <2>1. CASE Lookup(t)   BY <2>1, <1>2 DEF Lookup, TypeOK
  <2>2. CASE Save(t)     BY <2>2, <1>3 DEF Save, TypeOK
  <2>3. CASE SetNode(t)  BY <2>3, <1>4 DEF SetNode, TypeOK
  <2>4. CASE Inspect(t)  BY <2>4, <1>5 DEF Inspect, TypeOK
  <2>5. CASE Update(t)   BY <2>5, <1>6 DEF Update, TypeOK
  <2>6. CASE Record(t)   BY <2>6, <1>7 DEF Record, TypeOK
  <2>7. CASE Begin(t)    BY <2>7, <1>8 DEF Begin, TypeOK
  <2>8. CASE Call(t)     BY <2>8, <1>9 DEF Call, TypeOK
  <2>9. CASE Load(t)     BY <2>9, <1>10 DEF Load, TypeOK
  <2>10. CASE Backoff(t) BY <2>10, <1>11 DEF Backoff, TypeOK
  <2>. QED
    BY <2>1, <2>2, <2>3, <2>4, <2>5, <2>6, <2>7, <2>8, <2>9, <2>10 DEF Step
<1>14. CASE Close
  BY <1>14 DEF Close, TypeOK
<1>15. CASE UNCHANGED vars
  BY <1>15 DEF vars, TypeOK
<1>. QED  BY <1>12, <1>13, <1>14, <1>15 DEF Next

\* The types and what a task's program counter says of its variables always hold.
THEOREM TypeInvariant == Spec => []TypeInv
<1>. QED  BY TypeInit, TypeStep, PTL DEF Spec

\* Every variable keeps its type, whatever requests race.
THEOREM TypeCorrect == Spec => []TypeOK
<1>1. TypeInv => TypeOK
  BY DEF TypeInv
<1>. QED  BY <1>1, TypeInvariant, PTL

=============================================================================
