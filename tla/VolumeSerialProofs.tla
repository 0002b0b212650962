------------------------- MODULE VolumeSerialProofs -------------------------
(***************************************************************************)
(* VolumeService under SerialSpec, where clients wait for each other: one  *)
(* task at a time owns a volume, the rows follow the life cycle and tell   *)
(* the truth about the storage, and the service implements what            *)
(* VolumeLifecycle promises.                                               *)
(***************************************************************************)
EXTENDS VolumeSafetyProofs

-----------------------------------------------------------------------------
(* The inductive invariant. *)

\* The state that shows an operation under way, and the one that shows that its
\* last attempt failed.
Underway ==
    [create |-> "creating", delete |-> "deleting",
     attach |-> "attaching", detach |-> "detaching"]

Stumbled ==
    [create |-> "creating_failed", delete |-> "deleting_failed",
     attach |-> "attaching_failed", detach |-> "detaching_failed"]

Driven == DOMAIN Underway

\* A task that will still write its volume's row or call the backend for it, or that
\* is about to answer for the row it wrote: a handler after its load, a goroutine
\* until it records the end of its last attempt.
Engaged(j) ==
    \/ j.pc \in {"save", "setnode", "inspect", "update", "begin", "call", "load", "backoff"}
    \/ j.pc = "record" /\ j.event \in Driven \cup {"error", "retry", "reconcile"}

\* An engaged task that has had its request accepted: the row announces it.
Driving(j) ==
    \/ j.pc \in {"begin", "call", "load", "backoff"}
    \/ j.pc = "update" /\ j.event \in WorkerEvents
    \/ j.pc = "record" /\ j.event \in Driven \cup {"error", "retry"}

\* The storage is as a successful call of the operation left it.
Reached(op, b, node) ==
    CASE op = "create" -> b.state = "available" /\ b.node = NoNode
      [] op = "delete" -> b.state = "absent"
      [] op = "attach" -> b.state = "attached" /\ b.node = node
      [] op = "detach" -> b.state = "available" /\ b.node = NoNode

\* The row says what the storage is.
AsFound(row, b) ==
    \/ b.state = "available" /\ row.state = "available" /\ row.node = NoNode
    \/ b.state = "attached" /\ row.state = "attached" /\ row.node = b.node

\* What a job knows about the row and the storage of its volume.
Claim(j, row, b) ==
    /\ j.pc = "lookup" /\ j.op = "attach" => row.state \in {"none", "available"}
    /\ j.pc = "save" => j.vol.node = NoNode
    /\ j.pc = "setnode" => row.state = "available" /\ j.vol.state = "available"
    /\ j.pc \in {"inspect", "update"} /\ j.op = "reconcile" => row.state = "error"
    /\ Driving(j) =>
          /\ j.op \in Driven
          /\ row.state \in {Underway[j.op], Stumbled[j.op]}
          /\ j.op = "attach" => row.node = j.node
          /\ j.event \in Driven \cup {SuccessEvent[j.op], "error", "retry", "fail"}
          /\ j.event = SuccessEvent[j.op] => Reached(j.op, b, j.node)
    /\ j.pc = "load" /\ j.event \in {"retry", "fail"} =>
          row.state = Stumbled[j.op]
    /\ j.pc = "backoff" => row.state = Stumbled[j.op]
    /\ j.pc = "record" =>
          /\ j.event \in Driven \cup {"retry"} => row.state = Underway[j.op]
          /\ j.event = "error" => row.state = Stumbled[j.op]
    /\ j.pc = "update" /\ j.op # "reconcile" =>
          /\ <<row.state, j.event, j.vol.state>> \in Transitions
          /\ j.op = "attach" => row.node = j.node
          /\ j.vol.node = IF j.event = "detached" THEN NoNode ELSE row.node
    /\ j.pc = "update" /\ j.op = "reconcile" => AsFound(j.vol, b)
    /\ j.pc = "record" /\ j.event = "reconcile" => AsFound(row, b)

\* The requests on one name do not overlap, neither do the tasks that own it.
HandlersApart ==
    \A t, u \in Tasks :
        Handler(t) /\ Handler(u) /\ task[t].name = task[u].name => t = u

OwnersApart ==
    \A t, u \in Tasks :
        /\ Engaged(task[t]) /\ Engaged(task[u])
        /\ task[t].name = task[u].name
        => t = u

\* The storage of a volume names a node exactly when it is attached.
WellFormed(b) ==
    b.state = "attached" <=> b.node # NoNode

\* A resting row tells the truth about the storage.
RowIsTrue(row, b) ==
    /\ row.state \in {"none", "pending", "deleted"} => ~Present(b)
    /\ row.state = "available" => b.state = "available"
    /\ row.state = "attached" => b.state = "attached" /\ b.node = row.node

\* The row of a mounted volume names the node it is mounted on.
RowNames(row, b) == b.state = "attached" => row.node = b.node

SerialInv ==
    /\ HandlersApart
    /\ OwnersApart
    /\ \A t \in Tasks :
          task[t] # Idle => Claim(task[t], db[task[t].name], backend[task[t].name])
    /\ \A n \in Names : WellFormed(backend[n])

RowsAreTrue == \A n \in Names : RowIsTrue(db[n], backend[n])

-----------------------------------------------------------------------------
(* Events, moves of a row, and replies. *)

\* All operations but the reconciliation have a goroutine.
LEMMA DrivenOps ==
    /\ Driven = {"create", "delete", "attach", "detach"}
    /\ Driven = DOMAIN SuccessEvent
    /\ Ops = Driven \cup {"reconcile"}
BY DEF Driven, Underway, SuccessEvent, Ops

\* The events of a goroutine, from the states its operation can be in.
LEMMA DrivenEdges ==
    ASSUME NEW op \in Driven, NEW s \in {Underway[op], Stumbled[op]}, NEW e, NEW d,
           <<s, e, d>> \in Transitions
    PROVE  /\ e \notin Driven
           /\ e = SuccessEvent[op] => s = Underway[op]
           /\ e = "error" => s = Underway[op] /\ d = Stumbled[op]
           /\ e = "retry" => d = Underway[op]
BY DrivenOps DEF Underway, Stumbled, SuccessEvent, Transitions

\* An accepted request is announced by the row.
LEMMA AcceptEdges ==
    ASSUME NEW op \in Driven, NEW s, NEW d, <<s, op, d>> \in Transitions
    PROVE  /\ d = Underway[op]
           /\ s \notin {"error", "none"} \cup Transitional
BY DrivenOps DEF Underway, Transitions, Transitional, InProgress, FailedStates

\* A write of v over row while the storage is b: what the tasks that own a volume
\* do to its row.
RowMove(row, v, b) ==
    \/ row = NoRow /\ v = [state |-> "pending", node |-> NoNode]
    \/ row.state = "available" /\ v.state = "available" /\ v.node \in Nodes
    \/ \E e \in Driven \cup {"error", "retry", "fail"} :
          /\ <<row.state, e, v.state>> \in Transitions
          /\ v.node = row.node
          /\ e = "attach" => row.node \in Nodes
    \/ \E op \in Driven :
          /\ <<row.state, SuccessEvent[op], v.state>> \in Transitions
          /\ op = "attach" => row.node \in Nodes
          /\ Reached(op, b, row.node)
          /\ v.node = IF op = "detach" THEN NoNode ELSE row.node
    \/ row.state = "error" /\ AsFound(v, b)

\* What the operations make of a volume.
LEMMA Shapes ==
    ASSUME NEW b \in BackendVolume, NEW x
    PROVE  /\ Absent.state = "absent" /\ Absent.node = NoNode
           /\ Attached(b, x).state = "attached" /\ Attached(b, x).node = x
           /\ Detached(b).state = "available" /\ Detached(b).node = NoNode
           /\ \A i \in BOOLEAN :
                 /\ [b EXCEPT !.image = i].state = b.state
                 /\ [b EXCEPT !.image = i].node = b.node
                 /\ [Detached(b) EXCEPT !.image = i].state = "available"
                 /\ [Detached(b) EXCEPT !.image = i].node = NoNode
BY DEF BackendVolume, Absent, Attached, Detached

\* The three kinds of reply: only an acceptance is without an error.
LEMMA ReplyMeans ==
    ASSUME NEW b, NEW r
    PROVE  /\ r \in Refuse(b) \/ r \in Break(b) => ~r.ok /\ r.vol = b
           /\ r \in Accept(b) => r.vol = b
BY DEF Refuse, Accept, Break

\* What a successful call needs and does: a creation needs the volume to be missing,
\* an attachment and a detachment need it to be there.
Serves(op, b, v, node) ==
    /\ Reached(op, v, node)
    /\ WellFormed(v)
    /\ op = "create" => ~Present(b)
    /\ op \in {"attach", "detach"} => Present(b)

\* A reply to the call of an operation that is under way: the storage stays as it
\* was or becomes what the operation is for, and a success means the latter.
LEMMA RepliesServe ==
    ASSUME NEW b \in BackendVolume, WellFormed(b), NEW j, j.op \in Driven,
           backend[j.name] = b, j.op = "attach" => j.node \in Nodes,
           NEW r \in Replies(j)
    PROVE  \/ ~r.ok /\ r.vol.state = b.state /\ r.vol.node = b.node
           \/ Serves(j.op, b, r.vol, j.node)
<1>1. CASE j.op = "create"
  <2> DEFINE w == [b EXCEPT !.image = TRUE]
             d == [Detached(b) EXCEPT !.image = TRUE]
  <2>1. r \in CreateVolume(b)
    BY <1>1 DEF Replies
  <2>2. \/ r \in Refuse(b) \/ r \in Break(b) \/ r \in Break(w)
        \/ ~Present(b) /\ (r \in Accept(Detached(b)) \/ r \in Accept(d))
    BY <2>1 DEF CreateVolume, MockCreate, CephCreate
  <2>3. ASSUME ~Present(b), r.vol.state = "available", r.vol.node = NoNode
        PROVE  Serves(j.op, b, r.vol, j.node)
    BY <1>1, <2>3 DEF Serves, Reached, WellFormed
  <2>4. /\ w.state = b.state /\ w.node = b.node
        /\ d.state = "available" /\ d.node = NoNode
    BY Shapes
  <2> HIDE DEF w, d
  <2>. QED  BY <2>2, <2>3, <2>4, ReplyMeans, Shapes
<1>2. CASE j.op = "delete"
  <2> DEFINE w == [b EXCEPT !.image = FALSE]
  <2>1. r \in DeleteVolume(b)
    BY <1>2 DEF Replies
  <2>2. \/ r \in Refuse(b) \/ r \in Break(b) \/ r \in Break(w)
        \/ r \in Accept(Absent)
    BY <2>1 DEF DeleteVolume, MockDelete, CephDelete
  <2>3. ASSUME r.vol.state = "absent", r.vol.node = NoNode
        PROVE  Serves(j.op, b, r.vol, j.node)
    BY <1>2, <2>3 DEF Serves, Reached, WellFormed
  <2>4. w.state = b.state /\ w.node = b.node
    BY Shapes
  <2> HIDE DEF w
  <2>. QED  BY <2>2, <2>3, <2>4, ReplyMeans, Shapes
<1>3. CASE j.op = "attach"
  <2>1. r \in AttachVolume(b, j.node)
    BY <1>3 DEF Replies
  <2>2. r \in Refuse(b) \/ (Present(b) /\ r \in Accept(Attached(b, j.node)))
    BY <2>1 DEF AttachVolume, MockAttach, CephAttach, Present
  <2>3. ASSUME Present(b), r.vol.state = "attached", r.vol.node = j.node
        PROVE  Serves(j.op, b, r.vol, j.node)
    BY <1>3, <2>3, NodesAssumption DEF Serves, Reached, WellFormed
  <2>. QED  BY <2>2, <2>3, ReplyMeans, Shapes
<1>4. CASE j.op = "detach"
  <2>1. r \in DetachVolume(b)
    BY <1>4 DEF Replies
  <2>2. r \in Refuse(b) \/ (Present(b) /\ r \in Accept(Detached(b)))
    BY <2>1 DEF DetachVolume, MockDetach, CephDetach, Present
  <2>3. ASSUME Present(b), r.vol.state = "available", r.vol.node = NoNode
        PROVE  Serves(j.op, b, r.vol, j.node)
    BY <1>4, <2>3 DEF Serves, Reached, WellFormed
  <2>. QED  BY <2>2, <2>3, ReplyMeans, Shapes
<1>. QED  BY <1>1, <1>2, <1>3, <1>4, DrivenOps

\* A move of the row that keeps to the storage keeps the row true,
LEMMA MoveIsTrue ==
    ASSUME NEW row \in Row \cup {NoRow}, NEW v \in Row, NEW b \in BackendVolume,
           WellFormed(b), RowIsTrue(row, b), RowMove(row, v, b)
    PROVE  RowIsTrue(v, b)
<1>1. CASE row = NoRow /\ v = [state |-> "pending", node |-> NoNode]
  BY <1>1 DEF RowIsTrue, NoRow
<1>2. CASE row.state = "available" /\ v.state = "available"
  BY <1>2 DEF RowIsTrue
<1>3. ASSUME NEW e \in Driven \cup {"error", "retry", "fail"},
             <<row.state, e, v.state>> \in Transitions
      PROVE  RowIsTrue(v, b)
  <2>1. v.state \in Transitional \cup {"error"}
    BY <1>3, DrivenOps DEF Transitions, Transitional, InProgress, FailedStates
  <2>. QED  BY <2>1 DEF RowIsTrue, Transitional, InProgress, FailedStates
<1>4. ASSUME NEW op \in Driven,
             <<row.state, SuccessEvent[op], v.state>> \in Transitions,
             Reached(op, b, row.node),
             v.node = IF op = "detach" THEN NoNode ELSE row.node
      PROVE  RowIsTrue(v, b)
  <2>1. /\ op = "create" => v.state = "available"
        /\ op = "delete" => v.state = "deleted"
        /\ op = "attach" => v.state = "attached"
        /\ op = "detach" => v.state = "available"
    BY <1>4, DrivenOps DEF Transitions, SuccessEvent
  <2>. QED  BY <1>4, <2>1, DrivenOps DEF RowIsTrue, Reached, Present
<1>5. CASE AsFound(v, b)
  BY <1>5 DEF AsFound, RowIsTrue
<1>. QED  BY <1>1, <1>2, <1>3, <1>4, <1>5 DEF RowMove

\* keeps naming the node of a mounted volume,
LEMMA MoveIsNamed ==
    ASSUME NEW row \in Row \cup {NoRow}, NEW v \in Row, NEW b \in BackendVolume,
           RowIsTrue(row, b), RowNames(row, b), RowMove(row, v, b)
    PROVE  RowNames(v, b)
<1>1. CASE row = NoRow \/ row.state = "available"
  <2>1. b.state # "attached"
    BY <1>1 DEF RowIsTrue, NoRow, Present
  <2>. QED  BY <2>1 DEF RowNames
<1>2. ASSUME NEW op \in Driven, Reached(op, b, row.node),
             v.node = IF op = "detach" THEN NoNode ELSE row.node
      PROVE  RowNames(v, b)
  BY <1>2 DEF RowNames, Reached
<1>3. CASE v.node = row.node \/ AsFound(v, b)
  BY <1>3 DEF RowNames, AsFound
<1>. QED  BY <1>1, <1>2, <1>3 DEF RowMove

\* and is a move of the life cycle.
LEMMA MoveIsEdge ==
    ASSUME NEW row, NEW v, NEW b, RowMove(row, v, b), v.state # row.state
    PROVE  <<row.state, v.state>> \in LifecycleEdges
<1>1. ASSUME NEW e, <<row.state, e, v.state>> \in Transitions
      PROVE  <<row.state, v.state>> \in LifecycleEdges
  <2> DEFINE tr == <<row.state, e, v.state>>
  <2>1. tr[1] = row.state /\ tr[3] = v.state
    OBVIOUS
  <2>2. tr \in Transitions
    BY <1>1
  <2> HIDE DEF tr
  <2>3. <<tr[1], tr[3]>> \in {<<x[1], x[3]>> : x \in Transitions}
    BY <2>2
  <2>. QED  BY <2>1, <2>3 DEF LifecycleEdges
<1>2. CASE row = NoRow /\ v = [state |-> "pending", node |-> NoNode]
  BY <1>2 DEF NoRow, LifecycleEdges
<1>3. CASE row.state = "error" /\ v.state \in {"available", "attached"}
  BY <1>3 DEF LifecycleEdges
<1>. QED
  <2>1. \/ row = NoRow /\ v = [state |-> "pending", node |-> NoNode]
        \/ row.state = "available" /\ v.state = "available"
        \/ \E e : <<row.state, e, v.state>> \in Transitions
        \/ row.state = "error" /\ v.state \in {"available", "attached"}
    BY DEF RowMove, AsFound
  <2>2. CASE \E e : <<row.state, e, v.state>> \in Transitions
    BY <2>2, <1>1
  <2>3. CASE row.state = "available" /\ v.state = "available"
    BY <2>3
  <2>. QED  BY <2>1, <2>2, <2>3, <1>2, <1>3

-----------------------------------------------------------------------------
(* Who owns a volume. *)

\* An engaged task is still a handler or drives an accepted operation.
LEMMA OwnerKinds ==
    ASSUME TypeInv, NEW t \in Tasks, Engaged(task[t])
    PROVE  /\ task[t] # Idle
           /\ task[t] \in Job /\ Coherent(task[t])
           /\ Handler(t) \/ Driving(task[t])
<1>1. task[t].pc # "idle"
  BY DEF Engaged
<1>2. task[t] # Idle
  BY <1>1 DEF Idle
<1>3. Handler(t) \/ Driving(task[t])
  BY <1>1 DEF Handler, Worker, Engaged, Driving, WorkerEvents
<1>. QED  BY <1>1, <1>2, <1>3, AtJob

\* While a task drives an operation, its volume's row is in a transitional state.
LEMMA DriverRow ==
    ASSUME TypeInv, SerialInv, NEW t \in Tasks, Driving(task[t])
    PROVE  db[task[t].name].state \in Transitional
<1>1. Engaged(task[t]) /\ task[t] # Idle
  BY DEF Driving, Engaged, Idle
<1>2. /\ task[t].op \in Driven
      /\ db[task[t].name].state \in {Underway[task[t].op], Stumbled[task[t].op]}
  BY <1>1 DEF SerialInv, Claim
<1>. QED
  BY <1>2, DrivenOps DEF Underway, Stumbled, Transitional, InProgress, FailedStates

\* A task that neither owns its volume nor is about to attach it knows nothing that
\* could become false.
LEMMA NoClaim ==
    ASSUME NEW j, ~Engaged(j), ~(j.pc = "lookup" /\ j.op = "attach"), NEW row, NEW b
    PROVE  Claim(j, row, b)
BY DEF Claim, Engaged, Driving

\* While a task owns a volume, no other task on it has such a claim.
LEMMA Alone ==
    ASSUME TypeInv, SerialInv, NEW t \in Tasks, NEW u \in Tasks, t # u,
           Engaged(task[t]), task[u] # Idle, task[u].name = task[t].name
    PROVE  ~Engaged(task[u]) /\ ~(task[u].pc = "lookup" /\ task[u].op = "attach")
<1>1. ~Engaged(task[u])
  BY DEF SerialInv, OwnersApart
<1>2. ASSUME task[u].pc = "lookup", task[u].op = "attach"
      PROVE  FALSE
  <2>1. Handler(u)
    BY <1>2 DEF Handler, Worker
  <2>2. ~Handler(t)
    BY <2>1 DEF SerialInv, HandlersApart
  <2>3. db[task[t].name].state \in Transitional
    BY <2>2, OwnerKinds, DriverRow
  <2>4. db[task[u].name].state \in {"none", "available"}
    BY <1>2 DEF SerialInv, Claim
  <2>. QED  BY <2>3, <2>4 DEF Transitional, InProgress, FailedStates
<1>. QED  BY <1>1, <1>2

\* What an engaged task writes over its volume's row is a move that keeps to the
\* storage.
LEMMA OwnerWrites ==
    ASSUME TypeInv, SerialInv, NEW t \in Tasks,
           task[t].pc \in {"save", "setnode", "update"},
           task[t].pc = "save" => db[task[t].name] = NoRow
    PROVE  /\ task[t].vol \in Row
           /\ RowMove(db[task[t].name], task[t].vol, backend[task[t].name])
<1> DEFINE j == task[t]
           row == db[j.name]
           b == backend[j.name]
<1>1. /\ j \in Job /\ Coherent(j) /\ j # Idle
      /\ Claim(j, row, b)
  <2>1. j.pc # "idle" /\ j # Idle
    BY DEF Idle
  <2>. QED  BY <2>1, AtJob DEF SerialInv
<1>2. j.vol \in Row
  BY <1>1 DEF Coherent
<1>3. j.op = "attach" => j.node \in Nodes
  BY <1>1 DEF Coherent, Job
<1>4. CASE j.pc = "save"
  <2>1. j.vol.state = "pending" /\ j.vol.node = NoNode
    BY <1>1, <1>4 DEF Claim, Coherent
  <2>. QED  BY <1>2, <1>4, <2>1 DEF RowMove, Row
<1>5. CASE j.pc = "setnode"
  BY <1>1, <1>2, <1>3, <1>5 DEF RowMove, Claim, Coherent
<1>6. CASE j.pc = "update" /\ j.op = "reconcile"
  BY <1>1, <1>2, <1>6 DEF RowMove, Claim
<1>7. CASE j.pc = "update" /\ j.op # "reconcile"
  <2>1. /\ <<row.state, j.event, j.vol.state>> \in Transitions
        /\ j.vol.node = IF j.event = "detached" THEN NoNode ELSE row.node
        /\ j.op = "attach" => row.node \in Nodes
    BY <1>1, <1>3, <1>7 DEF Claim
  <2>2. CASE j.event \in Driven
    <3>1. j.event = j.op /\ j.event # "detached"
      BY <1>1, <2>2, DrivenOps DEF Coherent
    <3>. QED  BY <1>2, <2>1, <2>2, <3>1 DEF RowMove
  <2>3. CASE j.event \in {"error", "retry", "fail"}
    BY <1>2, <2>1, <2>3 DEF RowMove
  <2>4. CASE j.event = SuccessEvent[j.op] /\ j.event \in WorkerEvents
    <3>1. Driving(j) /\ j.op \in Driven
      BY <1>1, <1>7, <2>4 DEF Driving, Claim
    <3>2. j.op = "attach" => row.node = j.node
      BY <1>1, <3>1 DEF Claim
    <3>3. Reached(j.op, b, row.node)
      BY <1>1, <2>4, <3>1, <3>2, DrivenOps DEF Claim, Reached
    <3>4. j.event = "detached" <=> j.op = "detach"
      BY <2>4, <3>1, DrivenOps DEF SuccessEvent
    <3>. QED  BY <1>2, <2>1, <2>4, <3>1, <3>3, <3>4 DEF RowMove
  <2>5. j.event \in Driven \cup WorkerEvents
    BY <1>1, <1>7, DrivenOps DEF Job, Coherent
  <2>6. j.event \in WorkerEvents =>
            j.event \in Driven \cup {SuccessEvent[j.op], "error", "retry", "fail"}
    BY <1>1, <1>7 DEF Claim, Driving
  <2>. QED  BY <2>2, <2>3, <2>4, <2>5, <2>6
<1>. QED  BY <1>2, <1>4, <1>5, <1>6, <1>7

-----------------------------------------------------------------------------
(* The invariant is inductive. *)

\* The claim of the stepping task after its step, case by case.
LEMMA ClaimFound ==
    ASSUME TypeInv, SerialInv, NEW t \in Tasks, task[t] \in Job, Coherent(task[t]),
           Finds(t)
    PROVE  /\ \A u \in Tasks : Engaged(task[u]) => task[u].name # task[t].name
           /\ LET k == task'[t] IN Claim(k, db'[k.name], backend'[k.name])
<1> DEFINE j == task[t]
           k == task'[t]
           row == db[j.name]
           b == backend[j.name]
<1>1. /\ j.pc = "lookup" /\ j # Idle /\ k.name = j.name /\ k.event = j.op
      /\ Handler(t) /\ ~Engaged(j)
      /\ UNCHANGED <<db, backend>>
      /\ Claim(j, row, b)
  BY DEF Finds, Same, Coherent, SerialInv, Idle, Handler, Worker, Engaged
<1>2. row # NoRow => row.state # "none"
  BY NoRowIsNoState DEF TypeInv, TypeOK, Job, Row, States, Transitional, InProgress,
                        FailedStates
<1>3. row.state \notin Transitional /\ Claim(k, row, b)
  <2>1. CASE row = NoRow /\ k.pc = "save" /\ k.vol = [state |-> "pending", node |-> NoNode]
    <3>1. Claim(k, row, b)
      BY <2>1 DEF Claim, Driving
    <3>. QED
      BY <2>1, <3>1 DEF NoRow, Transitional, InProgress, FailedStates
  <2>2. CASE j.op \in {"delete", "detach"} /\ Applied(k, j, row)
    <3>1. row.state \notin Transitional
      BY <1>1, <2>2, DrivenOps, AcceptEdges DEF Applied, Coherent
    <3>2. Claim(k, row, b)
      BY <1>1, <2>2 DEF Claim, Applied, Same, Driving, WorkerEvents
    <3>. QED  BY <3>1, <3>2
  <2>3. CASE row # NoRow /\ j.op = "attach" /\ k.pc = "setnode" /\ k.vol.state = row.state
    <3>1. row.state = "available"
      BY <1>1, <1>2, <2>3 DEF Claim
    <3>. QED
      BY <2>3, <3>1 DEF Claim, Driving, Transitional, InProgress, FailedStates
  <2>4. CASE k.pc = "inspect" /\ row.state = "error"
    BY <2>4 DEF Claim, Driving, Transitional, InProgress, FailedStates
  <2>. QED  BY <2>1, <2>2, <2>3, <2>4 DEF Finds
<1>4. ASSUME NEW u \in Tasks, Engaged(task[u]), task[u].name = j.name
      PROVE  FALSE
  <2>1. ~Handler(u)
    BY <1>1, <1>4 DEF SerialInv, HandlersApart
  <2>. QED  BY <1>3, <1>4, <2>1, OwnerKinds, DriverRow
<1>. QED  BY <1>1, <1>3, <1>4

\* What a task knows after it wrote its row.
LEMMA ClaimWritten ==
    ASSUME TypeInv, SerialInv, NEW t \in Tasks, task[t] \in Job, Coherent(task[t]),
           Writes(t) \/ Persists(t)
    PROVE  LET k == task'[t] IN Claim(k, db'[k.name], backend'[k.name])
<1> DEFINE j == task[t]
           k == task'[t]
           row == db[j.name]
           b == backend[j.name]
<1>1. /\ j # Idle /\ Same(k, j) /\ k.event = j.event /\ UNCHANGED backend
      /\ db'[k.name] = j.vol
      /\ Claim(j, row, b)
  BY DEF Writes, Persists, Applied, Same, SerialInv, Write, TypeInv, TypeOK, Job, Idle
<1>2. CASE Writes(t)
  <2>1. /\ j.event = j.op /\ j.op \in {"create", "attach"} /\ j.event \notin WorkerEvents
        /\ j.op = "attach" => j.vol.node = j.node
    BY <1>2 DEF Writes, Coherent, WorkerEvents
  <2>2. /\ k.pc = "update" /\ <<j.vol.state, j.event, k.vol.state>> \in Transitions
        /\ k.vol.node = j.vol.node
    BY <1>2 DEF Writes, Applied
  <2>. QED  BY <1>1, <2>1, <2>2 DEF Claim, Driving, Same, Ops
<1>3. CASE Persists(t) /\ j.op = "reconcile"
  <2>1. k.pc = "record" /\ k.event = "reconcile" /\ k.op = "reconcile"
    BY <1>1, <1>3 DEF Persists, Coherent, Same
  <2>2. AsFound(j.vol, b)
    BY <1>1, <1>3 DEF Persists, Claim
  <2>. QED  BY <1>1, <2>1, <2>2, DrivenOps DEF Claim, Driving, Same
<1>4. CASE Persists(t) /\ j.op # "reconcile"
  <2>1. /\ j.pc = "update" /\ k.pc = "record"
        /\ <<row.state, j.event, j.vol.state>> \in Transitions
        /\ j.op = "attach" => row.node = j.node
        /\ j.vol.node = IF j.event = "detached" THEN NoNode ELSE row.node
        /\ j.op \in Driven
    BY <1>1, <1>4, DrivenOps DEF Persists, Claim, Job
  <2>2. j.event # "reconcile"
    BY <1>4 DEF Coherent, Ops
  <2>3. CASE j.event \in Driven
    <3>1. j.event = j.op
      BY <2>3, DrivenOps DEF Coherent
    <3>2. j.vol.state = Underway[j.op] /\ j.event \notin {"detached", "error", SuccessEvent[j.op]}
      BY <2>1, <2>3, <3>1, AcceptEdges, DrivenOps DEF SuccessEvent
    <3>. QED  BY <1>1, <2>1, <2>3, <2>2, <3>2 DEF Claim, Driving, Same
  <2>4. CASE j.event \in {"error", "retry"}
    <3>1. row.state \in {Underway[j.op], Stumbled[j.op]}
      BY <1>1, <2>1, <2>4 DEF Claim, Driving, WorkerEvents
    <3>2. /\ j.event = "error" => j.vol.state = Stumbled[j.op]
          /\ j.event = "retry" => j.vol.state = Underway[j.op]
      BY <2>1, <3>1, DrivenEdges
    <3>3. j.event \notin Driven /\ j.event # SuccessEvent[j.op] /\ j.event # "detached"
      BY <2>1, <2>4, DrivenOps DEF SuccessEvent
    <3>. QED  BY <1>1, <2>1, <2>4, <3>2, <3>3 DEF Claim, Driving, Same
  <2>5. CASE j.event \notin Driven \cup {"error", "retry"}
    BY <1>1, <2>1, <2>5, <2>2, NoClaim DEF Engaged
  <2>. QED  BY <2>3, <2>4, <2>5
<1>. QED  BY <1>2, <1>3, <1>4

\* What a task knows after a step that left its row alone: it took the backend's
\* word, waited for its next attempt, or loaded the row.
LEMMA ClaimKept ==
    ASSUME TypeInv, SerialInv, NEW t \in Tasks, task[t] \in Job, Coherent(task[t]),
           Coherent(task'[t]), Takes(t) \/ Loops(t) \/ Loads(t)
    PROVE  LET k == task'[t] IN Claim(k, db'[k.name], backend'[k.name])
<1> DEFINE j == task[t]
           k == task'[t]
           row == db[j.name]
           b == backend[j.name]
<1>1. /\ j # Idle /\ Same(k, j) /\ UNCHANGED <<db, backend>>
      /\ Claim(j, row, b)
  BY DEF Takes, Loops, Loads, Applied, Same, SerialInv, Idle
<1> SUFFICES Claim(k, row, b)
  BY <1>1 DEF Same
<1>2. CASE Takes(t)
  <2>1. /\ k.pc = "update" /\ k.op = "reconcile" /\ k.event = "reconcile"
        /\ row.state = "error"
    BY <1>1, <1>2 DEF Takes, Coherent, Same, Claim
  <2>2. b \in BackendVolume /\ WellFormed(b)
    BY DEF TypeInv, TypeOK, SerialInv, Job
  <2>3. AsFound(k.vol, b)
    BY <1>2, <2>2 DEF Takes, Present, BackendVolume, WellFormed, AsFound
  <2>. QED  BY <2>1, <2>3 DEF Claim, Driving, WorkerEvents
<1>3. CASE Loops(t)
  <2>1. CASE j.pc = "record" /\ k.pc = "begin" /\ k.event = j.event
    <3>1. k.event \in {j.op, "retry"} /\ j.op \in Driven
      BY <1>1, <2>1, DrivenOps DEF Coherent, Job, Same
    <3>2. Driving(j)
      BY <2>1, <3>1 DEF Driving
    <3>3. row.state = Underway[j.op]
      BY <1>1, <2>1, <3>1 DEF Claim
    <3>. QED  BY <1>1, <2>1, <3>1, <3>2, <3>3 DEF Claim, Driving, Same
  <2>2. CASE /\ j.pc = "record" /\ j.event = "error"
             /\ \/ k.pc = "backoff" /\ k.event = "error"
                \/ k.pc = "load" /\ k.event = "fail"
    <3>1. Driving(j) /\ row.state = Stumbled[j.op] /\ j.op \in Driven
      BY <1>1, <2>2 DEF Claim, Driving
    <3>2. SuccessEvent[j.op] \notin {"error", "fail"}
      BY <3>1, DrivenOps DEF SuccessEvent
    <3>. QED  BY <1>1, <2>2, <3>1, <3>2 DEF Claim, Driving, Same
  <2>3. CASE j.pc = "begin" /\ k.pc = "call" /\ k.event = j.event
    BY <1>1, <2>3 DEF Claim, Driving, Same
  <2>4. CASE \/ j.pc = "load" /\ k.pc = "begin" /\ j.event = "retry" /\ k.event = "retry"
             \/ j.pc = "backoff" /\ k.pc = "load" /\ k.event = "retry"
    <3>1. Driving(j) /\ row.state = Stumbled[j.op] /\ j.op \in Driven
      BY <1>1, <2>4 DEF Claim, Driving
    <3>2. SuccessEvent[j.op] # "retry"
      BY <3>1, DrivenOps DEF SuccessEvent
    <3>. QED  BY <1>1, <2>4, <3>1, <3>2 DEF Claim, Driving, Same
  <2>. QED  BY <1>3, <2>1, <2>2, <2>3, <2>4 DEF Loops
<1>4. CASE Loads(t)
  <2>1. /\ j.pc = "load" /\ k.pc = "update" /\ k.event = j.event
        /\ <<row.state, j.event, k.vol.state>> \in Transitions
        /\ k.vol.node = IF j.event = "detached" THEN NoNode ELSE row.node
        /\ j.op \in Driven
    <3>1. row \in Row
      BY <1>4, RowExists DEF Loads, TypeInv, Job
    <3>2. /\ Loaded(j).state = row.state
          /\ Loaded(j).node = IF j.event = "detached" THEN NoNode ELSE row.node
      BY <3>1 DEF Loaded, Row
    <3>. QED  BY <1>1, <1>4, <3>2 DEF Loads, Applied, Claim, Driving
  <2>2. Driving(j) /\ j.op # "reconcile"
    BY <2>1, DrivenOps DEF Driving
  <2>. QED  BY <1>1, <2>1, <2>2 DEF Claim, Driving, Same
<1>. QED  BY <1>2, <1>3, <1>4

\* What a call does to the storage of its volume.
LEMMA CallServes ==
    ASSUME TypeInv, SerialInv, NEW t \in Tasks, task[t] \in Job, Coherent(task[t]),
           Calls(t)
    PROVE  LET j == task[t]
               b == backend[j.name]
               c == backend'[j.name]
           IN  /\ j.op \in Driven /\ Driving(j)
               /\ j.op = "attach" => j.node \in Nodes
               /\ backend' = [backend EXCEPT ![j.name] = c]
               /\ WellFormed(c)
               /\ \/ task'[t].event = "error" /\ c.state = b.state /\ c.node = b.node
                  \/ Serves(j.op, b, c, j.node)
               /\ task'[t].event \in {"error", SuccessEvent[j.op]}
<1> DEFINE j == task[t]
           b == backend[j.name]
           c == backend'[j.name]
<1>1. /\ j # Idle /\ Driving(j) /\ j.op \in Driven
      /\ j.op = "attach" => j.node \in Nodes
  <2>1. j # Idle /\ Driving(j)
    BY DEF Calls, Driving, Idle
  <2>2. Claim(j, db[j.name], b)
    BY <2>1 DEF SerialInv
  <2>. QED  BY <2>1, <2>2 DEF Claim, Coherent, Job
<1>2. b \in BackendVolume /\ WellFormed(b) /\ j.name \in Names
  BY DEF TypeInv, TypeOK, SerialInv, Job
<1>3. PICK r \in Replies(j) :
          /\ backend' = [backend EXCEPT ![j.name] = r.vol]
          /\ task'[t].event = IF r.ok THEN SuccessEvent[j.op] ELSE "error"
  BY DEF Calls
<1>4. c = r.vol
  BY <1>2, <1>3 DEF TypeInv, TypeOK
<1>5. \/ task'[t].event = "error" /\ c.state = b.state /\ c.node = b.node
      \/ Serves(j.op, b, c, j.node)
  <2>1. \/ ~r.ok /\ r.vol.state = b.state /\ r.vol.node = b.node
        \/ Serves(j.op, b, r.vol, j.node)
    BY <1>1, <1>2, RepliesServe
  <2>. QED  BY <1>3, <1>4, <2>1
<1>6. WellFormed(c)
  BY <1>2, <1>5 DEF WellFormed, Serves
<1>7. /\ backend' = [backend EXCEPT ![j.name] = c]
      /\ task'[t].event \in {"error", SuccessEvent[j.op]}
  BY <1>3, <1>4
<1>. QED  BY <1>1, <1>5, <1>6, <1>7

\* What a task knows after it called the backend.
LEMMA ClaimCalled ==
    ASSUME TypeInv, SerialInv, NEW t \in Tasks, task[t] \in Job, Coherent(task[t]),
           Calls(t)
    PROVE  LET k == task'[t] IN Claim(k, db'[k.name], backend'[k.name])
<1> DEFINE j == task[t]
           k == task'[t]
           row == db[j.name]
           b == backend[j.name]
           c == backend'[j.name]
<1>1. j # Idle /\ Claim(j, row, b)
  BY DEF Calls, SerialInv, Idle
<1>2. /\ j.pc = "call" /\ k.pc = "load" /\ Same(k, j) /\ UNCHANGED db
      /\ Driving(j) /\ j.op \in Driven
      /\ k.event \in {"error", SuccessEvent[j.op]}
      /\ k.event = "error" \/ Serves(j.op, b, c, j.node)
  <2>1. j.pc = "call" /\ k.pc = "load" /\ Same(k, j) /\ UNCHANGED db
    BY DEF Calls
  <2>2. /\ Driving(j) /\ j.op \in Driven
        /\ k.event \in {"error", SuccessEvent[j.op]}
        /\ k.event = "error" \/ Serves(j.op, b, c, j.node)
    BY CallServes
  <2>. QED  BY <2>1, <2>2
<1>3. k.event = SuccessEvent[j.op] => Reached(j.op, c, j.node)
  BY <1>2, DrivenOps DEF SuccessEvent, Serves
<1>4. SuccessEvent[j.op] \notin {"retry", "fail"}
  BY <1>2, DrivenOps DEF SuccessEvent
<1>. QED  BY <1>1, <1>2, <1>3, <1>4 DEF Claim, Driving, Same

\* A step changes the row or the storage of a volume only if its task owns the volume;
\* a row then makes a move, the storage serves the operation under way.
LEMMA OwnerChanges ==
    ASSUME TypeInv, SerialInv, NEW t \in Tasks, task[t] \in Job, Coherent(task[t]),
           StepCase(t)
    PROVE  LET j == task[t]
               n == j.name
           IN  \/ UNCHANGED <<db, backend>>
               \/ /\ Engaged(j) /\ UNCHANGED backend
                  /\ j.vol \in Row /\ db' = [db EXCEPT ![n] = j.vol]
                  /\ RowMove(db[n], j.vol, backend[n])
               \/ /\ Engaged(j) /\ Calls(t) /\ UNCHANGED db
<1> DEFINE j == task[t]
<1>1. ASSUME j.pc \in {"save", "setnode", "update"}, UNCHANGED backend,
             j.pc = "save" => db[j.name] = NoRow,
             Write(j.name, j.vol)
      PROVE  /\ Engaged(j) /\ UNCHANGED backend
             /\ j.vol \in Row /\ db' = [db EXCEPT ![j.name] = j.vol]
             /\ RowMove(db[j.name], j.vol, backend[j.name])
  BY <1>1, OwnerWrites DEF Write, Engaged
<1>2. CASE Ends(t)
  BY <1>1, <1>2 DEF Ends
<1>3. CASE Writes(t)
  BY <1>1, <1>3 DEF Writes
<1>4. CASE Persists(t)
  BY <1>1, <1>4 DEF Persists
<1>5. CASE Calls(t)
  BY <1>5 DEF Calls, Engaged
<1>6. CASE Finds(t) \/ Takes(t) \/ Loops(t) \/ Loads(t)
  BY <1>6 DEF Finds, Takes, Loops, Loads
<1>. QED  BY <1>2, <1>3, <1>4, <1>5, <1>6 DEF StepCase

\* A goroutine does not become a handler again, and a task comes to own a volume
\* only by its handler's load.
LEMMA RolesStay ==
    ASSUME TypeInv, NEW t \in Tasks, task[t] \in Job, Coherent(task[t]),
           Coherent(task'[t]), StepCase(t), task'[t] # Idle
    PROVE  /\ Same(task'[t], task[t])
           /\ task'[t].name = task[t].name
           /\ Handler(t)' => Handler(t)
           /\ Engaged(task'[t]) => Engaged(task[t]) \/ Finds(t)
<1> USE DEF Handler, Worker, Engaged, Same
<1>1. CASE Finds(t)     BY <1>1 DEF Finds, Applied
<1>2. CASE Writes(t)    BY <1>2, DrivenOps DEF Writes, Applied, Coherent
<1>3. CASE Takes(t)     BY <1>3 DEF Takes
<1>4. CASE Persists(t)  BY <1>4 DEF Persists
<1>5. CASE Loops(t)
  <2>1. ASSUME task[t].pc = "record", task'[t].pc = "begin", task'[t].event = task[t].event,
               Same(task'[t], task[t])
        PROVE  Engaged(task[t])
    BY <2>1, DrivenOps DEF Coherent, Job
  <2>. QED  BY <1>5, <2>1 DEF Loops
<1>6. CASE Calls(t)     BY <1>6 DEF Calls
<1>7. CASE Loads(t)     BY <1>7 DEF Loads, Applied, Coherent
<1>. QED
  BY <1>1, <1>2, <1>3, <1>4, <1>5, <1>6, <1>7 DEF StepCase, Ends

\* What a step does to one volume: nothing, a move of its row that keeps to the
\* storage, or a call while the row announces the operation.
LEMMA StepMoves ==
    ASSUME TypeInv, SerialInv, NEW t \in Tasks, Step(t), NEW n \in Names
    PROVE  \/ db'[n] = db[n] /\ backend'[n] = backend[n]
           \/ /\ db'[n] \in Row /\ backend'[n] = backend[n]
              /\ RowMove(db[n], db'[n], backend[n])
           \/ /\ db[n].state \in Transitional /\ db'[n] = db[n]
              /\ WellFormed(backend'[n])
              /\ RowNames(db[n], backend[n]) => RowNames(db[n], backend'[n])
<1> DEFINE j == task[t]
<1>1. j \in Job /\ Coherent(j) /\ j.name \in Names /\ StepCase(t)
  BY StepCases DEF Job
<1>2. CASE UNCHANGED <<db, backend>>
  BY <1>2
<1>3. CASE /\ UNCHANGED backend /\ j.vol \in Row
           /\ db' = [db EXCEPT ![j.name] = j.vol]
           /\ RowMove(db[j.name], j.vol, backend[j.name])
  <2>1. db'[n] = IF n = j.name THEN j.vol ELSE db[n]
    BY <1>3 DEF TypeInv, TypeOK
  <2>. QED  BY <1>3, <2>1
<1>4. CASE Calls(t) /\ UNCHANGED db
  <2>1. /\ Driving(j) /\ WellFormed(backend'[j.name])
        /\ n # j.name => backend'[n] = backend[n]
    BY <1>1, <1>4, CallServes DEF TypeInv, TypeOK
  <2>2. db[j.name].state \in Transitional
    BY <2>1, DriverRow
  <2>3. RowNames(db[j.name], backend[j.name]) => RowNames(db[j.name], backend'[j.name])
    <3> DEFINE b == backend[j.name]
               c == backend'[j.name]
    <3>1. j.op \in Driven /\ ((c.state = b.state /\ c.node = b.node) \/ Serves(j.op, b, c, j.node))
      BY <1>1, <1>4, CallServes
    <3>2. j # Idle
      BY <1>4 DEF Calls, Idle
    <3>3. j.op = "attach" => db[j.name].node = j.node
      BY <2>1, <3>2 DEF SerialInv, Claim
    <3>4. ASSUME Serves(j.op, b, c, j.node), c.state = "attached"
          PROVE  db[j.name].node = c.node
      BY <3>1, <3>3, <3>4, DrivenOps DEF Serves, Reached
    <3>. QED  BY <3>1, <3>4 DEF RowNames
  <2>. QED  BY <1>4, <2>1, <2>2, <2>3
<1>. QED  BY <1>1, <1>2, <1>3, <1>4, OwnerChanges

\* The steps of the tasks preserve the invariant: the claim of the task that steps is
\* its next one, and all others are about volumes it does not own.
LEMMA SerialTask ==
    ASSUME TypeInv, TypeInv', SerialInv, NEW t \in Tasks, Step(t)
    PROVE  SerialInv'
<1> DEFINE j == task[t]
           k == task'[t]
<1>1. /\ j \in Job /\ Coherent(j) /\ j.name \in Names
      /\ \A u \in Tasks \ {t} : task'[u] = task[u]
      /\ StepCase(t)
  BY StepCases DEF Job
<1>2. k # Idle => Coherent(k)
  BY DEF TypeInv, TaskState
<1>3. k # Idle =>
          /\ k.name = j.name
          /\ Handler(t)' => Handler(t)
          /\ Engaged(k) => Engaged(j) \/ Finds(t)
  BY <1>1, <1>2, RolesStay
<1>4. k # Idle => Claim(k, db'[k.name], backend'[k.name])
  BY <1>1, <1>2, ClaimFound, ClaimWritten, ClaimKept, ClaimCalled DEF StepCase, Ends
<1>5. \/ UNCHANGED <<db, backend>>
      \/ /\ Engaged(j)
         /\ \A n \in Names \ {j.name} : db'[n] = db[n] /\ backend'[n] = backend[n]
  <2>1. CASE Engaged(j) /\ Calls(t) /\ UNCHANGED db
    <3>1. \A n \in Names \ {j.name} : backend'[n] = backend[n]
      BY <1>1, <2>1, CallServes DEF TypeInv, TypeOK
    <3>. QED  BY <2>1, <3>1
  <2>2. CASE Engaged(j) /\ UNCHANGED backend /\ db' = [db EXCEPT ![j.name] = j.vol]
    BY <2>2 DEF TypeInv, TypeOK
  <2>. QED  BY <1>1, <2>1, <2>2, OwnerChanges
<1>6. ASSUME NEW u \in Tasks, u # t, task[u] # Idle
      PROVE  Claim(task[u], db'[task[u].name], backend'[task[u].name])
  <2>1. task[u].name \in Names /\ Claim(task[u], db[task[u].name], backend[task[u].name])
    BY <1>6 DEF TypeInv, TaskState, Job, SerialInv
  <2>2. CASE UNCHANGED <<db, backend>> \/ task[u].name # j.name
    BY <1>5, <2>1, <2>2
  <2>3. CASE Engaged(j) /\ task[u].name = j.name
    BY <1>6, <2>3, Alone, NoClaim
  <2>. QED  BY <1>5, <2>2, <2>3
<1>7. \A u \in Tasks : task'[u] # Idle =>
          Claim(task'[u], db'[task'[u].name], backend'[task'[u].name])
  BY <1>1, <1>4, <1>6
<1>8. HandlersApart'
  BY <1>1, <1>3 DEF SerialInv, HandlersApart, Handler, Worker, Idle
<1>9. OwnersApart'
  <2>1. Engaged(k) => k # Idle
    BY DEF Engaged, Idle
  <2>2. \A u \in Tasks \ {t} :
           Engaged(task[u]) /\ Engaged(k) => task[u].name # k.name
    BY <1>1, <1>3, <2>1, ClaimFound DEF SerialInv, OwnersApart
  <2>. QED  BY <1>1, <2>2 DEF SerialInv, OwnersApart
<1>10. ASSUME NEW n \in Names
       PROVE  WellFormed(backend'[n])
  BY StepMoves DEF SerialInv
<1>. QED  BY <1>7, <1>8, <1>9, <1>10 DEF SerialInv

\* So do the arrivals of clients that wait for each other, and the shutdown.
LEMMA SerialStep ==
    ASSUME TypeInv, TypeInv', SerialInv, [SerialNext]_vars
    PROVE  SerialInv'
<1>1. CASE UNCHANGED vars
  BY <1>1 DEF vars, SerialInv, HandlersApart, OwnersApart, Handler, Worker
<1>2. CASE Close
  BY <1>2 DEF Close, SerialInv, HandlersApart, OwnersApart, Handler, Worker
<1>3. ASSUME NEW t \in Tasks, NEW op \in Ops, NEW n \in Names,
             NEW node \in Nodes \cup {NoNode}, Orderly(op, n), Arrive(t, op, n, node)
      PROVE  SerialInv'
  <2> DEFINE k == [pc |-> "lookup", op |-> op, name |-> n, node |-> node,
                   vol |-> NoRow, event |-> op, attempt |-> 0]
  <2>1. /\ task'[t] = k /\ \A u \in Tasks \ {t} : task'[u] = task[u]
        /\ UNCHANGED <<db, backend>>
    BY <1>3, BecomeEffect DEF Arrive
  <2>2. ~Engaged(k) /\ (op = "attach" => db[n].state \in {"none", "available"})
    BY <1>3 DEF Engaged, Orderly
  <2>3. Claim(k, db[n], backend[n])
    BY <2>2 DEF Claim, Driving
  <2>4. HandlersApart'
    BY <1>3, <2>1 DEF SerialInv, HandlersApart, Orderly, Handler, Worker
  <2>5. OwnersApart'
    BY <2>1, <2>2 DEF SerialInv, OwnersApart
  <2>. QED  BY <2>1, <2>3, <2>4, <2>5 DEF SerialInv
<1>. QED  BY <1>1, <1>2, <1>3, SerialTask DEF SerialNext

\* At first nobody owns a volume.
LEMMA SerialInit == Init => SerialInv
BY DEF Init, SerialInv, HandlersApart, OwnersApart, Handler, Engaged, Idle, WellFormed,
       Absent

\* What a serial client does is something a client may do.
LEMMA SerialIsNext == SerialSpec => Spec
<1>1. [SerialNext]_vars => [Next]_vars
  BY DEF SerialNext, Next
<1>. QED  BY <1>1, PTL DEF SerialSpec, Spec

\* The inductive invariant holds: requests and owners of a volume are apart, and what
\* each task has found out about its volume is still so.
THEOREM SerialInvariant == SerialSpec => [](TypeInv /\ SerialInv)
<1>1. TypeInv /\ TypeInv' /\ SerialInv /\ [SerialNext]_vars => SerialInv'
  BY SerialStep
<1>. QED  BY <1>1, SerialInit, SerialIsNext, TypeInvariant, PTL DEF SerialSpec

-----------------------------------------------------------------------------
(* What follows for clients that wait for each other. *)

\* At most one goroutine may call the backend for a volume, whatever fails.
THEOREM OneTaskIsAtWork == SerialSpec => []OneAtWork
<1>1. SerialInv => OneAtWork
  BY DEF SerialInv, OwnersApart, Engaged, OneAtWork, AtWork
<1>. QED  BY <1>1, SerialInvariant, PTL

\* The storage of a name as the life cycle sees it.
Real(b) == [state |-> b.state, node |-> b.node]

\* The storage as the life cycle sees it.
LEMMA RealValues ==
    ASSUME NEW b \in BackendVolume, WellFormed(b)
    PROVE  /\ ~Present(b) => Real(b) = Lifecycle!Missing
           /\ b.state = "available" => Real(b) = Lifecycle!Free
           /\ b.state = "attached" => Real(b) = Lifecycle!On(b.node) /\ b.node \in Nodes
           /\ Real(b) = Lifecycle!Missing => ~Present(b)
BY DEF Real, WellFormed, BackendVolume, Present, Lifecycle!Missing, Lifecycle!Free,
       Lifecycle!On

\* Where the rows are true to the storage, those at rest are what the life cycle
\* promises.
LEMMA TrueRowsRest ==
    ASSUME TypeInv, SerialInv, RowsAreTrue
    PROVE  StableStateIsTrue
<1> SUFFICES ASSUME NEW n \in Names
             PROVE  /\ db[n].state \in {"none", "pending", "deleted"} =>
                           Real(backend[n]) = Lifecycle!Missing
                    /\ db[n].state = "available" => Real(backend[n]) = Lifecycle!Free
                    /\ db[n].state = "attached" =>
                           Real(backend[n]) = Lifecycle!On(db[n].node)
  BY DEF StableStateIsTrue, Lifecycle!Truthful, Real
<1>1. backend[n] \in BackendVolume /\ WellFormed(backend[n]) /\ RowIsTrue(db[n], backend[n])
  BY DEF TypeInv, TypeOK, SerialInv, RowsAreTrue
<1>. QED  BY <1>1, RealValues DEF RowIsTrue

\* At first no row claims anything.
LEMMA TrueRowsInit == Init => RowsAreTrue
BY DEF Init, RowsAreTrue, RowIsTrue, NoRow, Absent, Present

\* Rows are written, and the storage changes, so that the rows stay true.
LEMMA TrueRowsStay ==
    ASSUME TypeInv, SerialInv, RowsAreTrue, [SerialNext]_vars
    PROVE  RowsAreTrue'
<1>1. ASSUME NEW t \in Tasks, Step(t), NEW n \in Names
      PROVE  RowIsTrue(db'[n], backend'[n])
  <2>1. /\ db[n] \in Row \cup {NoRow} /\ backend[n] \in BackendVolume
        /\ WellFormed(backend[n]) /\ RowIsTrue(db[n], backend[n])
    BY DEF TypeInv, TypeOK, SerialInv, RowsAreTrue
  <2>2. CASE db[n].state \in Transitional /\ db'[n] = db[n]
    BY <2>2 DEF RowIsTrue, Transitional, InProgress, FailedStates
  <2>. QED  BY <1>1, <2>1, <2>2, StepMoves, MoveIsTrue
<1>2. CASE UNCHANGED <<db, backend>>
  BY <1>2 DEF RowsAreTrue
<1>. QED  BY <1>1, <1>2 DEF RowsAreTrue, SerialNext, Close, Arrive, vars

\* A volume at rest is shown as the backend has it.
THEOREM RestIsTrue == SerialSpec => []StableStateIsTrue
BY TrueRowsInit, TrueRowsStay, TrueRowsRest, SerialInvariant, PTL DEF SerialSpec

\* Rows are written, and volumes mounted, so that the rows keep naming the nodes.
LEMMA NamedRowsStay ==
    ASSUME TypeInv, SerialInv, RowsAreTrue, MountIsNamed, [SerialNext]_vars
    PROVE  MountIsNamed'
<1>1. ASSUME NEW t \in Tasks, Step(t), NEW n \in Names
      PROVE  RowNames(db'[n], backend'[n])
  <2>1. /\ db[n] \in Row \cup {NoRow} /\ backend[n] \in BackendVolume
        /\ RowIsTrue(db[n], backend[n]) /\ RowNames(db[n], backend[n])
    BY DEF TypeInv, TypeOK, RowsAreTrue, MountIsNamed, RowNames
  <2>. QED  BY <1>1, <2>1, StepMoves, MoveIsNamed
<1>2. CASE UNCHANGED <<db, backend>>
  BY <1>2 DEF MountIsNamed
<1>. QED
  BY <1>1, <1>2 DEF MountIsNamed, RowNames, SerialNext, Close, Arrive, vars

\* From the mount to the unmount the row of a volume names the node it is on.
THEOREM MountsAreNamed == SerialSpec => []MountIsNamed
<1>1. Init => MountIsNamed
  BY DEF Init, MountIsNamed, Absent
<1>. QED
  BY <1>1, TrueRowsInit, TrueRowsStay, NamedRowsStay, SerialInvariant, PTL DEF SerialSpec

\* The states of the rows after a step are a move away at most.
RowsMove ==
    \A n \in Names :
        db'[n].state # db[n].state => <<db[n].state, db'[n].state>> \in LifecycleEdges

\* A task writes its row as the FSM or the reconciliation says.
LEMMA RowsMoveStep ==
    ASSUME TypeInv, SerialInv, [SerialNext]_vars
    PROVE  RowsMove
<1>1. CASE UNCHANGED db
  BY <1>1 DEF RowsMove
<1>2. ASSUME NEW t \in Tasks, Step(t)
      PROVE  RowsMove
  <2>1. task[t] \in Job /\ Coherent(task[t]) /\ StepCase(t)
    BY <1>2, StepCases
  <2> SUFFICES ASSUME NEW n \in Names, db'[n].state # db[n].state
               PROVE  <<db[n].state, db'[n].state>> \in LifecycleEdges
    BY DEF RowsMove
  <2>2. \/ UNCHANGED db
        \/ /\ db' = [db EXCEPT ![task[t].name] = task[t].vol]
           /\ RowMove(db[task[t].name], task[t].vol, backend[task[t].name])
    BY <2>1, OwnerChanges
  <2>3. \/ db'[n] = db[n]
        \/ db'[n] = task[t].vol /\ RowMove(db[n], task[t].vol, backend[n])
    BY <2>2 DEF TypeInv, TypeOK
  <2>. QED  BY <2>3, MoveIsEdge
<1>. QED  BY <1>1, <1>2 DEF SerialNext, Close, Arrive, vars

\* Every change of a row's state is a move of the life cycle.
THEOREM RowsFollowTheFsm == SerialSpec => FollowsFsm
<1>1. FollowsFsm <=> [][RowsMove]_vars
  BY PTL DEF FollowsFsm, RowsMove
<1>. QED  BY <1>1, RowsMoveStep, SerialInvariant, PTL DEF SerialSpec

-----------------------------------------------------------------------------
(* The refinement. *)

\* The same table on both sides, and at most one state after an event.
LEMMA SameTable ==
    /\ Lifecycle!Transitions = Transitions
    /\ Lifecycle!States = States
    /\ Lifecycle!NoRow = NoRow
BY DEF Lifecycle!Transitions, Transitions, Lifecycle!States, States,
       Lifecycle!Transitional, Transitional, Lifecycle!InProgress, InProgress,
       Lifecycle!FailedStates, FailedStates, Lifecycle!NoRow, NoRow

\* The life cycle has the moves of failures and retries.
LEMMA FailureEdges ==
    ASSUME NEW s, NEW e \in {"error", "retry", "fail"}, NEW d, <<s, e, d>> \in Transitions
    PROVE  Lifecycle!CanTransition(s, e) /\ Lifecycle!Transition(s, e) = d
<1>1. d \in States
  BY DEF Transitions, States, Transitional, InProgress, FailedStates
<1>2. \A x : <<s, e, x>> \in Transitions => x = d
  BY DEF Transitions
<1>. QED
  BY <1>1, <1>2, SameTable DEF Lifecycle!CanTransition, Lifecycle!Transition

\* A move of a row is an action of the life cycle on its name.
LEMMA MoveRefines ==
    ASSUME TypeOK, NEW n \in Names, NEW v \in Row, WellFormed(backend[n]),
           db' = [db EXCEPT ![n] = v], UNCHANGED backend,
           RowMove(db[n], v, backend[n])
    PROVE  Lifecycle!Next
<1> DEFINE row == db[n]
           b == backend[n]
           real == [m \in Names |-> [state |-> backend[m].state, node |-> backend[m].node]]
<1>1. b \in BackendVolume /\ real[n] = Real(b)
  BY DEF TypeOK, Real
<1>2. Lifecycle!Show(n, v.state, v.node)
  <2>1. v = [state |-> v.state, node |-> v.node]
    BY DEF Row
  <2>. QED  BY <2>1 DEF Lifecycle!Show
<1> SUFFICES \/ Lifecycle!Register(n) \/ Lifecycle!Choose(n) \/ Lifecycle!Accept(n)
             \/ Lifecycle!Stumble(n) \/ Lifecycle!Complete(n) \/ Lifecycle!Reconcile(n)
  BY DEF Lifecycle!Next
<1>3. CASE row = NoRow /\ v = [state |-> "pending", node |-> NoNode]
  BY <1>2, <1>3, SameTable DEF Lifecycle!Register
<1>4. CASE row.state = "available" /\ v.state = "available" /\ v.node \in Nodes
  BY <1>2, <1>4 DEF Lifecycle!Choose
<1>5. ASSUME NEW e \in Driven, <<row.state, e, v.state>> \in Transitions,
             v.node = row.node, e = "attach" => row.node \in Nodes
      PROVE  Lifecycle!Accept(n)
  <2>1. \/ row.state = "pending" /\ v.state = "creating"
        \/ row.state = "available" /\ v.state = "deleting"
        \/ row.state = "available" /\ v.state = "attaching" /\ e = "attach"
        \/ row.state = "attached" /\ v.state = "detaching"
    BY <1>5, DrivenOps DEF Transitions
  <2>. QED  BY <1>2, <1>5, <2>1 DEF Lifecycle!Accept
<1>6. ASSUME NEW e \in {"error", "retry", "fail"},
             <<row.state, e, v.state>> \in Transitions, v.node = row.node
      PROVE  Lifecycle!Stumble(n)
  BY <1>2, <1>6, FailureEdges DEF Lifecycle!Stumble
<1>7. ASSUME NEW op \in Driven, <<row.state, SuccessEvent[op], v.state>> \in Transitions,
             op = "attach" => row.node \in Nodes,
             Reached(op, b, row.node),
             v.node = IF op = "detach" THEN NoNode ELSE row.node
      PROVE  Lifecycle!Complete(n)
  <2>1. CASE op = "create"
    <3>1. row.state = "creating" /\ v.state = "available" /\ v.node = row.node
      BY <1>7, <2>1 DEF SuccessEvent, Transitions
    <3>2. real[n] = Lifecycle!Free
      BY <1>1, <1>7, <2>1, RealValues DEF Reached
    <3>. QED  BY <1>2, <3>1, <3>2 DEF Lifecycle!Complete
  <2>2. CASE op = "attach"
    <3>1. row.state = "attaching" /\ v.state = "attached" /\ v.node = row.node
      BY <1>7, <2>2 DEF SuccessEvent, Transitions
    <3>2. real[n] = Lifecycle!On(row.node)
      BY <1>1, <1>7, <2>2, RealValues DEF Reached
    <3>. QED  BY <1>2, <3>1, <3>2 DEF Lifecycle!Complete
  <2>3. CASE op = "detach"
    <3>1. row.state = "detaching" /\ v.state = "available" /\ v.node = NoNode
      BY <1>7, <2>3 DEF SuccessEvent, Transitions
    <3>2. real[n] = Lifecycle!Free
      BY <1>1, <1>7, <2>3, RealValues DEF Reached
    <3>. QED  BY <1>2, <3>1, <3>2 DEF Lifecycle!Complete
  <2>4. CASE op = "delete"
    <3>1. row.state = "deleting" /\ v.state = "deleted" /\ v.node = row.node
      BY <1>7, <2>4 DEF SuccessEvent, Transitions
    <3>2. real[n] = Lifecycle!Missing
      BY <1>1, <1>7, <2>4, RealValues DEF Reached, Present
    <3>. QED  BY <1>2, <3>1, <3>2 DEF Lifecycle!Complete
  <2>. QED  BY <2>1, <2>2, <2>3, <2>4, DrivenOps
<1>8. CASE row.state = "error" /\ AsFound(v, b)
  BY <1>1, <1>2, <1>8, RealValues DEF AsFound, Lifecycle!Reconcile
<1>. QED  BY <1>3, <1>4, <1>5, <1>6, <1>7, <1>8 DEF RowMove

\* A backend call is the work that the row announces, or changes nothing that a
\* client could see.
LEMMA CallRefines ==
    ASSUME TypeInv, SerialInv, NEW t \in Tasks, task[t] \in Job, Coherent(task[t]),
           Calls(t)
    PROVE  [Lifecycle!Next]_Lifecycle!vars
<1> DEFINE j == task[t]
           n == j.name
           row == db[n]
           b == backend[n]
           c == backend'[n]
           real == [m \in Names |-> [state |-> backend[m].state, node |-> backend[m].node]]
<1>1. /\ n \in Names /\ row.state \in {Underway[j.op], Stumbled[j.op]}
      /\ j.op = "attach" => row.node = j.node
      /\ UNCHANGED db
  <2>1. j # Idle /\ Driving(j) /\ UNCHANGED db
    BY DEF Calls, Driving, Idle
  <2>2. Claim(j, row, b)
    BY <2>1 DEF SerialInv
  <2>. QED  BY <2>1, <2>2 DEF Claim, Job
<1>2. /\ j.op \in Driven
      /\ j.op = "attach" => j.node \in Nodes
      /\ backend' = [backend EXCEPT ![n] = c]
      /\ (c.state = b.state /\ c.node = b.node) \/ Serves(j.op, b, c, j.node)
  BY CallServes
<1>3. real' = [real EXCEPT ![n] = Real(c)]
  BY <1>1, <1>2 DEF Real, TypeInv, TypeOK
<1>4. /\ b \in BackendVolume /\ WellFormed(b) /\ real[n] = Real(b)
      /\ real \in [Names -> {Real(backend[m]) : m \in Names}]
  BY <1>1 DEF TypeInv, TypeOK, SerialInv, Real
<1>5. CASE c.state = b.state /\ c.node = b.node
  <2>1. real' = real
    BY <1>3, <1>4, <1>5 DEF Real
  <2>. QED  BY <1>1, <2>1 DEF Lifecycle!vars
<1>6. CASE Serves(j.op, b, c, j.node)
  <2>1. CASE j.op = "create"
    <3>1. /\ row.state \in {"creating", "creating_failed"}
          /\ real[n] = Lifecycle!Missing
          /\ Real(c) = Lifecycle!Free
      BY <1>1, <1>4, <1>6, <2>1, RealValues
         DEF Underway, Stumbled, Serves, Reached, Real, Lifecycle!Free
    <3>. QED  BY <1>1, <1>3, <3>1 DEF Lifecycle!Work, Lifecycle!Next
  <2>2. CASE j.op = "attach"
    <3>1. row.state \in {"attaching", "attaching_failed"}
      BY <1>1, <2>2 DEF Underway, Stumbled
    <3>2. real[n] # Lifecycle!Missing
      BY <1>4, <1>6, <2>2, RealValues DEF Serves
    <3>3. Real(c) = Lifecycle!On(row.node)
      BY <1>1, <1>6, <2>2 DEF Serves, Reached, Real, Lifecycle!On
    <3>. QED  BY <1>1, <1>3, <3>1, <3>2, <3>3 DEF Lifecycle!Work, Lifecycle!Next
  <2>3. CASE j.op = "detach"
    <3>1. /\ row.state \in {"detaching", "detaching_failed"}
          /\ real[n] # Lifecycle!Missing
          /\ Real(c) = Lifecycle!Free
      BY <1>1, <1>4, <1>6, <2>3, RealValues
         DEF Underway, Stumbled, Serves, Reached, Real, Lifecycle!Free
    <3>. QED  BY <1>1, <1>3, <3>1 DEF Lifecycle!Work, Lifecycle!Next
  <2>4. CASE j.op = "delete"
    <3>1. /\ row.state \in {"deleting", "deleting_failed"}
          /\ Real(c) = Lifecycle!Missing
      BY <1>1, <1>6, <2>4
         DEF Underway, Stumbled, Serves, Reached, Real, WellFormed, Lifecycle!Missing
    <3>. QED  BY <1>1, <1>3, <3>1 DEF Lifecycle!Work, Lifecycle!Next
  <2>. QED  BY <1>2, <2>1, <2>2, <2>3, <2>4, DrivenOps
<1>. QED  BY <1>2, <1>5, <1>6

\* At first there is nothing, for the life cycle too.
LEMMA LifecycleInit == Init => Lifecycle!Init
BY DEF Init, Lifecycle!Init, Lifecycle!NoRow, NoRow, Lifecycle!Missing, Absent

\* A step of the service is one of the life cycle, or changes nothing that it sees.
LEMMA LifecycleStep ==
    ASSUME TypeInv, SerialInv, [SerialNext]_vars
    PROVE  [Lifecycle!Next]_Lifecycle!vars
<1>1. CASE UNCHANGED <<db, backend>>
  BY <1>1 DEF Lifecycle!vars
<1>2. ASSUME NEW t \in Tasks, Step(t)
      PROVE  [Lifecycle!Next]_Lifecycle!vars
  <2> DEFINE j == task[t]
  <2>1. j \in Job /\ Coherent(j) /\ StepCase(t) /\ j.name \in Names
    BY <1>2, StepCases DEF Job
  <2>2. CASE /\ UNCHANGED backend /\ j.vol \in Row
             /\ db' = [db EXCEPT ![j.name] = j.vol]
             /\ RowMove(db[j.name], j.vol, backend[j.name])
    BY <2>1, <2>2, MoveRefines DEF TypeInv, SerialInv
  <2>3. CASE Calls(t)
    BY <2>1, <2>3, CallRefines
  <2>. QED  BY <1>1, <2>1, <2>2, <2>3, OwnerChanges
<1>. QED  BY <1>1, <1>2 DEF SerialNext, Close, Arrive, vars

\* Handlers, retries, faults and shutdown only ever do what the life cycle promises.
THEOREM ServiceImplementsLifecycle == SerialSpec => ImplementsLifecycle
BY LifecycleInit, LifecycleStep, SerialInvariant, PTL
   DEF SerialSpec, ImplementsLifecycle, Lifecycle!Spec

=============================================================================
