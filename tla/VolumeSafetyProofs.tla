------------------------- MODULE VolumeSafetyProofs -------------------------
(***************************************************************************)
(* The safety invariants of VolumeService that hold however requests race: *)
(* NodeRecorded, OneCreator, DrainedMeansQuiet and DeletedMeansGone, and   *)
(* AuditKeepsUp for one request at a time, each with the strengthening     *)
(* that makes it inductive, and what a step does in a form that the proofs *)
(* share.                                                                  *)
(***************************************************************************)
EXTENDS VolumeServiceProofs

-----------------------------------------------------------------------------
(* What a step does, in terms of the job before and after it. *)

\* The task holds a copy of a row that it will write or has just written.
Copying(j) == j.pc \in {"save", "setnode", "update", "record"}

\* The request stays the same.
Same(k, j) == k.op = j.op /\ k.name = j.name /\ k.node = j.node

\* k is about to write v after j's event.
Applied(k, j, v) ==
    /\ k.pc = "update" /\ Same(k, j) /\ k.event = j.event
    /\ <<v.state, j.event, k.vol.state>> \in Transitions
    /\ k.vol.node = v.node

\* The task ends; its last call may have written the row.
Ends(t) ==
    /\ task'[t] = Idle
    /\ UNCHANGED backend
    /\ \/ UNCHANGED db
       \/ /\ task[t].pc \in {"save", "setnode", "update"}
          /\ task[t].pc = "save" => db[task[t].name] = NoRow
          /\ Write(task[t].name, task[t].vol)

\* The load of a handler.
Finds(t) ==
    LET j == task[t]  k == task'[t]  row == db[j.name]
    IN  /\ j.pc = "lookup" /\ Same(k, j) /\ k.event = j.event
        /\ UNCHANGED <<db, backend>>
        /\ \/ /\ row = NoRow /\ j.op = "create"
              /\ k.pc = "save" /\ k.vol = [state |-> "pending", node |-> NoNode]
           \/ row # NoRow /\ j.op \in {"delete", "detach"} /\ Applied(k, j, row)
           \/ /\ row # NoRow /\ j.op = "attach" /\ k.pc = "setnode"
              /\ k.vol.state = row.state /\ k.vol.node = j.node
           \/ j.op = "reconcile" /\ k.pc = "inspect" /\ row.state = "error"

\* The first write of a handler.
Writes(t) ==
    LET j == task[t]  k == task'[t]
    IN  /\ j.pc \in {"save", "setnode"}
        /\ j.pc = "save" => db[j.name] = NoRow
        /\ Write(j.name, j.vol)
        /\ Applied(k, j, j.vol)
        /\ UNCHANGED backend

\* The reply to a reconciliation.
Takes(t) ==
    LET j == task[t]  k == task'[t]  real == backend[j.name]
    IN  /\ j.pc = "inspect" /\ k.pc = "update" /\ Same(k, j) /\ k.event = j.event
        /\ Present(real)
        /\ k.vol = [state |-> IF real.node # NoNode THEN "attached" ELSE "available",
                    node |-> real.node]
        /\ UNCHANGED <<db, backend>>

\* The write of an applied event.
Persists(t) ==
    LET j == task[t]  k == task'[t]
    IN  /\ j.pc = "update" /\ k.pc = "record" /\ Same(k, j) /\ k.event = j.event
        /\ k.vol = j.vol
        /\ Write(j.name, j.vol)
        /\ UNCHANGED backend

\* A step of the retry loop that touches neither the row nor the backend.
Loops(t) ==
    LET j == task[t]  k == task'[t]
    IN  /\ Same(k, j)
        /\ \/ j.pc = "record" /\ k.pc = "begin" /\ k.event = j.event
           \/ j.pc = "record" /\ k.pc = "backoff" /\ j.event = "error" /\ k.event = "error"
           \/ j.pc = "record" /\ k.pc = "load" /\ j.event = "error" /\ k.event = "fail"
           \/ j.pc = "begin" /\ k.pc = "call" /\ k.event = j.event /\ ~Canceled
           \/ j.pc = "load" /\ k.pc = "begin" /\ j.event = "retry" /\ k.event = "retry"
           \/ j.pc = "backoff" /\ k.pc = "load" /\ k.event = "retry"
        /\ UNCHANGED <<db, backend>>

\* The backend call.
Calls(t) ==
    LET j == task[t]  k == task'[t]
    IN  /\ j.pc = "call" /\ k.pc = "load" /\ Same(k, j)
        /\ \E r \in Replies(j) :
              /\ backend' = [backend EXCEPT ![j.name] = r.vol]
              /\ k.event = IF r.ok THEN SuccessEvent[j.op] ELSE "error"
        /\ UNCHANGED db

\* The load of the retry loop.
Loads(t) ==
    LET j == task[t]  k == task'[t]
    IN  /\ j.pc = "load" /\ db[j.name] # NoRow
        /\ Applied(k, j, Loaded(j))
        /\ UNCHANGED <<db, backend>>

\* Only the stepping task changes.
LEMMA BecomeEffect ==
    ASSUME TypeInv, NEW t \in Tasks, NEW k, Become(t, k)
    PROVE  /\ task'[t] = k
           /\ \A u \in Tasks \ {t} : task'[u] = task[u]
BY DEF TypeInv, Become

\* A row exists exactly when it is in a state of the life cycle.
LEMMA RowExists ==
    ASSUME TypeOK, NEW n \in Names, db[n] # NoRow
    PROVE  db[n] \in Row
BY DEF TypeOK

\* applyEvent applies the event or ends the task.
LEMMA ApplyEventEffect ==
    ASSUME TypeInv, NEW t \in Tasks, NEW j \in Job, NEW v \in Row, ApplyEvent(t, j, v)
    PROVE  Applied(task'[t], j, v) \/ task'[t] = Idle
<1>1. CASE Finish(t)
  BY <1>1, BecomeEffect DEF Finish
<1>2. CASE CanTransition(v.state, j.event) /\ ~Finish(t)
  <2> DEFINE w == [v EXCEPT !.state = Transition(v.state, j.event)]
             k == [j EXCEPT !.pc = "update", !.vol = w]
  <2>1. Become(t, k)
    BY <1>2 DEF ApplyEvent
  <2>2. w.state = Transition(v.state, j.event) /\ w.node = v.node
    BY DEF Row
  <2>3. <<v.state, j.event, w.state>> \in Transitions
    BY <1>2, <2>2, TransitionIsEdge
  <2>4. /\ k.pc = "update" /\ k.op = j.op /\ k.name = j.name /\ k.node = j.node
        /\ k.event = j.event /\ k.vol = w
    BY DEF Job
  <2>5. task'[t] = k
    BY <2>1, BecomeEffect
  <2>. QED  BY <2>2, <2>3, <2>4, <2>5 DEF Applied, Same
<1>. QED  BY <1>1, <1>2 DEF ApplyEvent

\* How a recorded job goes on.
LEMMA ContinueEffect ==
    ASSUME NEW j \in Job, Coherent(j), j.pc = "record"
    PROVE  \/ Continue(j) = Idle
           \/ /\ Same(Continue(j), j)
              /\ \/ Continue(j).pc = "begin" /\ Continue(j).event = j.event
                 \/ /\ Continue(j).pc = "backoff"
                    /\ j.event = "error" /\ Continue(j).event = "error"
                 \/ /\ Continue(j).pc = "load"
                    /\ j.event = "error" /\ Continue(j).event = "fail"
<1>1. CASE j.event \in DOMAIN SuccessEvent
  <2>1. Continue(j) = [j EXCEPT !.pc = "begin", !.vol = NoRow, !.attempt = 1]
    BY <1>1 DEF Continue, SuccessEvent
  <2>. QED  BY <2>1 DEF Same, Job
<1>2. CASE j.event = "error" /\ j.attempt < MaxAttempts
  <2>1. Continue(j) = [j EXCEPT !.pc = "backoff", !.vol = NoRow]
    BY <1>2, HandlerEvents, MaxAttemptsAssumption DEF Continue, Job
  <2>. QED  BY <1>2, <2>1 DEF Same, Job
<1>3. CASE j.event = "error" /\ j.attempt = MaxAttempts
  <2>1. Continue(j) = [j EXCEPT !.pc = "load", !.vol = NoRow, !.event = "fail"]
    BY <1>3, HandlerEvents, MaxAttemptsAssumption DEF Continue, Job
  <2>. QED  BY <1>3, <2>1 DEF Same, Job
<1>4. CASE j.event = "retry"
  <2>1. Continue(j) = [j EXCEPT !.pc = "begin", !.vol = NoRow, !.attempt = @ + 1]
    BY <1>4, HandlerEvents DEF Continue
  <2>. QED  BY <2>1 DEF Same, Job
<1>5. CASE /\ j.event \notin DOMAIN SuccessEvent
           /\ j.event # "error"
           /\ j.event # "retry"
  BY <1>5 DEF Continue
<1>. QED
  BY <1>1, <1>2, <1>3, <1>4, <1>5, MaxAttemptsAssumption DEF Job

StepCase(t) ==
    \/ Ends(t) \/ Finds(t) \/ Writes(t) \/ Takes(t)
    \/ Persists(t) \/ Loops(t) \/ Calls(t) \/ Loads(t)

\* Every step of a task is one of these, and leaves the other tasks alone.
LEMMA StepCases ==
    ASSUME TypeInv, NEW t \in Tasks, Step(t)
    PROVE  /\ task[t] \in Job /\ Coherent(task[t])
           /\ \A u \in Tasks \ {t} : task'[u] = task[u]
           /\ UNCHANGED closing
           /\ StepCase(t)
<1> DEFINE j == task[t]
           k == task'[t]
<1>1. j \in Job /\ Coherent(j) /\ j.pc # "idle" /\ j.name \in Names
  <2>1. j.pc # "idle"
    BY DEF Step, Lookup, Save, SetNode, Inspect, Update, Record, Begin, Call, Load,
           Backoff, At
  <2>. QED  BY <2>1, AtJob DEF Job
<1>2. ASSUME Finish(t)
      PROVE  k = Idle
  BY <1>2, BecomeEffect DEF Finish
<1>3. ASSUME NEW f, Become(t, f)
      PROVE  k = f /\ \A u \in Tasks \ {t} : task'[u] = task[u]
  BY <1>3, BecomeEffect
<1>4. ASSUME NEW v \in Row, ApplyEvent(t, j, v)
      PROVE  Applied(k, j, v) \/ k = Idle
  BY <1>1, <1>4, ApplyEventEffect
<1>5. UNCHANGED closing
  BY DEF Step, Lookup, Save, SetNode, Inspect, Update, Record, Begin, Call, Load, Backoff
<1>6. \E f : Become(t, f)
  BY DEF Step, Lookup, LookupCreate, LookupDelete, LookupAttach, LookupDetach,
         LookupReconcile, LookupNothing, Save, SetNode, Inspect, Update, Record, Begin,
         Call, Load, Backoff, ApplyEvent, Finish
<1>7. \A u \in Tasks \ {t} : task'[u] = task[u]
  BY <1>3, <1>6
<1> SUFFICES StepCase(t)
  BY <1>1, <1>5, <1>7
<1>8. CASE Lookup(t)
  <2> DEFINE row == db[j.name]
  <2>1. j.pc = "lookup" /\ UNCHANGED <<db, backend>>
    BY <1>8 DEF Lookup, At
  <2>2. CASE j.op = "create" /\ row = NoRow /\ Become(t, [j EXCEPT !.pc = "save",
                                    !.vol = [state |-> "pending", node |-> NoNode]])
    <3> DEFINE v == [state |-> "pending", node |-> NoNode]
               f == [j EXCEPT !.pc = "save", !.vol = v]
    <3>1. k = f
      BY <1>3, <2>2
    <3>2. f.pc = "save" /\ Same(f, j) /\ f.event = j.event /\ f.vol = v
      BY <1>1 DEF Same, Job
    <3>. QED  BY <2>1, <2>2, <3>1, <3>2 DEF Finds, StepCase
  <2>3. CASE j.op \in {"delete", "detach"} /\ row # NoRow /\ ApplyEvent(t, j, row)
    <3>1. row \in Row
      BY <1>1, <2>3, RowExists DEF TypeInv
    <3>2. Applied(k, j, row) \/ k = Idle
      BY <1>4, <2>3, <3>1
    <3>. QED  BY <2>1, <2>3, <3>2 DEF Finds, Ends, Applied, StepCase
  <2>4. CASE j.op = "attach" /\ row # NoRow
             /\ Become(t, [j EXCEPT !.pc = "setnode", !.vol = [row EXCEPT !.node = j.node]])
    <3>1. row \in Row
      BY <1>1, <2>4, RowExists DEF TypeInv
    <3> DEFINE v == [row EXCEPT !.node = j.node]
               f == [j EXCEPT !.pc = "setnode", !.vol = v]
    <3>2. k = f
      BY <1>3, <2>4
    <3>3. v.state = row.state /\ v.node = j.node
      BY <3>1 DEF Row
    <3>4. f.pc = "setnode" /\ Same(f, j) /\ f.event = j.event /\ f.vol = v
      BY <1>1 DEF Same, Job
    <3>. QED  BY <2>1, <2>4, <3>2, <3>3, <3>4 DEF Finds, StepCase
  <2>5. CASE /\ j.op = "reconcile" /\ row.state = "error"
             /\ Become(t, [j EXCEPT !.pc = "inspect", !.vol = row])
    <3> DEFINE f == [j EXCEPT !.pc = "inspect", !.vol = row]
    <3>1. k = f
      BY <1>3, <2>5
    <3>2. f.pc = "inspect" /\ Same(f, j) /\ f.event = j.event
      BY <1>1 DEF Same, Job
    <3>. QED  BY <2>1, <2>5, <3>1, <3>2 DEF Finds, StepCase
  <2>6. CASE Finish(t)
    BY <1>2, <2>1, <2>6 DEF Ends, StepCase
  <2>. QED
    BY <1>8, <2>2, <2>3, <2>4, <2>5, <2>6
    DEF Lookup, LookupCreate, LookupDelete, LookupAttach, LookupDetach, LookupReconcile,
        LookupNothing
<1>9. CASE Save(t)
  <2>1. j.pc = "save" /\ j.vol \in Row /\ UNCHANGED backend
    BY <1>1, <1>9 DEF Save, At, Coherent
  <2>2. \/ /\ db[j.name] = NoRow /\ Write(j.name, j.vol)
           /\ Applied(k, j, j.vol) \/ k = Idle
        \/ k = Idle /\ UNCHANGED db
        \/ k = Idle /\ db[j.name] = NoRow /\ (Write(j.name, j.vol) \/ UNCHANGED db)
    BY <1>2, <1>4, <1>9, <2>1 DEF Save, WriteFails
  <2>3. Ends(t) \/ Writes(t)
    BY <2>1, <2>2 DEF Ends, Writes
  <2>. QED  BY <2>3 DEF StepCase
<1>10. CASE SetNode(t)
  <2>1. j.pc = "setnode" /\ j.vol \in Row /\ UNCHANGED backend
    BY <1>1, <1>10 DEF SetNode, At, Coherent
  <2>2. \/ /\ Write(j.name, j.vol)
           /\ Applied(k, j, j.vol) \/ k = Idle
        \/ k = Idle /\ (Write(j.name, j.vol) \/ UNCHANGED db)
    BY <1>2, <1>4, <1>10, <2>1 DEF SetNode, WriteFails
  <2>3. Ends(t) \/ Writes(t)
    BY <2>1, <2>2 DEF Ends, Writes
  <2>. QED  BY <2>3 DEF StepCase
<1>11. CASE Inspect(t)
  <2> DEFINE real == backend[j.name]
             w == [state |-> IF real.node # NoNode THEN "attached" ELSE "available",
                   node |-> real.node]
  <2>1. j.pc = "inspect" /\ UNCHANGED <<db, backend>>
    BY <1>11 DEF Inspect, At
  <2>2. \/ Finish(t)
        \/ Present(real) /\ Become(t, [j EXCEPT !.pc = "update", !.vol = w])
    BY <1>11 DEF Inspect, GetVolume
  <2>3. ASSUME NEW v, Become(t, [j EXCEPT !.pc = "update", !.vol = v])
        PROVE  k.pc = "update" /\ Same(k, j) /\ k.event = j.event /\ k.vol = v
    <3> DEFINE f == [j EXCEPT !.pc = "update", !.vol = v]
    <3>1. k = f
      BY <1>3, <2>3
    <3>2. f.pc = "update" /\ Same(f, j) /\ f.event = j.event /\ f.vol = v
      BY <1>1 DEF Same, Job
    <3>. QED  BY <3>1, <3>2
  <2>4. Ends(t) \/ Takes(t)
    BY <1>2, <2>1, <2>2, <2>3 DEF Ends, Takes
  <2>. QED  BY <2>4 DEF StepCase
<1>12. CASE Update(t)
  <2>1. j.pc = "update" /\ UNCHANGED backend
    BY <1>12 DEF Update, At
  <2>2. CASE Write(j.name, j.vol) /\ Become(t, [j EXCEPT !.pc = "record"])
    BY <1>1, <1>3, <2>1, <2>2 DEF Persists, Same, Job, StepCase
  <2>3. CASE Finish(t) /\ WriteFails(j.name, j.vol)
    BY <1>2, <2>1, <2>3 DEF Ends, WriteFails, StepCase
  <2>. QED  BY <1>12, <2>2, <2>3 DEF Update
<1>13. CASE Record(t)
  <2>1. j.pc = "record" /\ k = Continue(j) /\ UNCHANGED <<db, backend>>
    BY <1>3, <1>13 DEF Record, At
  <2>2. \/ Continue(j) = Idle
        \/ /\ Same(Continue(j), j)
           /\ \/ Continue(j).pc = "begin" /\ Continue(j).event = j.event
              \/ /\ Continue(j).pc = "backoff"
                 /\ j.event = "error" /\ Continue(j).event = "error"
              \/ /\ Continue(j).pc = "load"
                 /\ j.event = "error" /\ Continue(j).event = "fail"
    BY <1>1, <2>1, ContinueEffect
  <2>3. Ends(t) \/ Loops(t)
    BY <2>1, <2>2 DEF Ends, Loops
  <2>. QED  BY <2>3 DEF StepCase
<1>14. CASE Begin(t)
  <2>1. j.pc = "begin" /\ UNCHANGED <<db, backend>>
    BY <1>14 DEF Begin, At
  <2>2. CASE ~Canceled /\ Become(t, [j EXCEPT !.pc = "call"])
    BY <1>1, <1>3, <2>1, <2>2 DEF Loops, Same, Job, StepCase
  <2>3. CASE Finish(t)
    BY <1>2, <2>1, <2>3 DEF Ends, StepCase
  <2>. QED  BY <1>14, <2>2, <2>3 DEF Begin
<1>15. CASE Call(t)
  <2>1. j.pc = "call" /\ UNCHANGED db
    BY <1>15 DEF Call, At
  <2>2. PICK r \in Replies(j) :
            /\ backend' = [backend EXCEPT ![j.name] = r.vol]
            /\ Become(t, [j EXCEPT !.pc = "load",
                                   !.event = IF r.ok THEN SuccessEvent[j.op] ELSE "error"])
    BY <1>15 DEF Call
  <2>3. /\ k.pc = "load" /\ Same(k, j)
        /\ k.event = IF r.ok THEN SuccessEvent[j.op] ELSE "error"
    <3> DEFINE e == IF r.ok THEN SuccessEvent[j.op] ELSE "error"
               f == [j EXCEPT !.pc = "load", !.event = e]
    <3>1. k = f
      BY <1>3, <2>2
    <3>2. f.pc = "load" /\ Same(f, j) /\ f.event = e
      BY <1>1 DEF Same, Job
    <3>. QED  BY <3>1, <3>2
  <2>4. Calls(t)
    BY <2>1, <2>2, <2>3 DEF Calls
  <2>. QED  BY <2>4 DEF StepCase
<1>16. CASE Load(t)
  <2>1. j.pc = "load" /\ UNCHANGED <<db, backend>>
    BY <1>16 DEF Load, At
  <2>2. CASE db[j.name] # NoRow /\ ApplyEvent(t, j, Loaded(j))
    <3>1. Loaded(j) \in Row
      BY <1>1, <2>2, RowExists DEF TypeInv, Loaded, Row
    <3>2. Applied(k, j, Loaded(j)) \/ k = Idle
      BY <1>4, <2>2, <3>1
    <3>. QED  BY <2>1, <2>2, <3>2 DEF Ends, Loads, StepCase
  <2>3. CASE j.event = "retry" /\ Become(t, [j EXCEPT !.pc = "begin", !.attempt = @ + 1])
    <3> DEFINE f == [j EXCEPT !.pc = "begin", !.attempt = @ + 1]
    <3>1. k = f
      BY <1>3, <2>3
    <3>2. f.pc = "begin" /\ Same(f, j) /\ f.event = j.event
      BY <1>1 DEF Same, Job
    <3>. QED  BY <2>1, <2>3, <3>1, <3>2 DEF Loops, StepCase
  <2>4. CASE Finish(t)
    BY <1>2, <2>1, <2>4 DEF Ends, StepCase
  <2>. QED  BY <1>16, <2>2, <2>3, <2>4 DEF Load
<1>17. CASE Backoff(t)
  <2>1. j.pc = "backoff" /\ UNCHANGED <<db, backend>>
    BY <1>17 DEF Backoff, At
  <2>2. CASE Become(t, [j EXCEPT !.pc = "load", !.event = "retry"])
    <3> DEFINE f == [j EXCEPT !.pc = "load", !.event = "retry"]
    <3>1. k = f
      BY <1>3, <2>2
    <3>2. f.pc = "load" /\ Same(f, j) /\ f.event = "retry"
      BY <1>1 DEF Same, Job
    <3>. QED  BY <2>1, <3>1, <3>2 DEF Loops, StepCase
  <2>3. CASE Finish(t)
    BY <1>2, <2>1, <2>3 DEF Ends, StepCase
  <2>. QED  BY <1>17, <2>2, <2>3 DEF Backoff
<1>. QED
  BY <1>8, <1>9, <1>10, <1>11, <1>12, <1>13, <1>14, <1>15, <1>16, <1>17 DEF Step

-----------------------------------------------------------------------------
(* The strengthened invariants. *)

\* A row in a state that needs a node names one.
NodeOK(v) == v.state \in HoldsNode => v.node # NoNode

NodeInv ==
    /\ \A n \in Names : NodeOK(db[n])
    /\ \A t \in Tasks : Copying(task[t]) => NodeOK(task[t].vol)

\* A creation under way has its row.
CreatorInv ==
    /\ OneCreator
    /\ \A n \in Names, t \in Tasks : Creating(t, n) => db[n] # NoRow

-----------------------------------------------------------------------------
(* NodeRecorded. *)

\* The states that need a node are entered from one another, or by an attach;
\* a detached volume is in none of them.
LEMMA NodeEdges ==
    ASSUME NEW src, NEW event, NEW dst, <<src, event, dst>> \in Transitions,
           dst \in HoldsNode
    PROVE  /\ event = "attach" \/ src \in HoldsNode
           /\ event # "detached"
BY DEF Transitions, HoldsNode

\* A write of the job's copy, or none, keeps the rows in order.
LEMMA NodeWrite ==
    ASSUME TypeInv, NodeInv, NEW t \in Tasks, task[t] \in Job,
           \/ UNCHANGED db
           \/ Copying(task[t]) /\ Write(task[t].name, task[t].vol)
    PROVE  \A n \in Names : NodeOK(db'[n])
BY DEF TypeInv, TypeOK, NodeInv, Write, Job

\* What an applied event leaves in the job's copy is in order.
LEMMA NodeApplied ==
    ASSUME NEW k, NEW j, NEW v, Applied(k, j, v),
           j.event = "attach" => v.node # NoNode,
           j.event # "detached" => NodeOK(v)
    PROVE  NodeOK(k.vol)
BY NodeEdges DEF Applied, NodeOK

\* A node recorded with the row or with a copy of it stays, over the effects of tasks.
LEMMA NodeStep ==
    ASSUME TypeInv, NodeInv, [Next]_vars
    PROVE  NodeInv'
<1>1. CASE UNCHANGED vars
  BY <1>1 DEF vars, NodeInv, Copying, NodeOK
<1>2. CASE Close
  BY <1>2 DEF Close, NodeInv, Copying, NodeOK
<1>3. ASSUME NEW t \in Tasks, NEW op \in Ops, NEW n \in Names,
             NEW node \in Nodes \cup {NoNode}, Arrive(t, op, n, node)
      PROVE  NodeInv'
  <2>1. ~Copying(task'[t]) /\ \A u \in Tasks \ {t} : task'[u] = task[u]
    BY <1>3, BecomeEffect DEF Arrive, Copying
  <2>2. UNCHANGED db
    BY <1>3 DEF Arrive
  <2>. QED  BY <2>1, <2>2 DEF NodeInv, NodeOK, Copying
<1>4. ASSUME NEW t \in Tasks, Step(t)
      PROVE  NodeInv'
  <2> DEFINE j == task[t]
             k == task'[t]
  <2>1. /\ j \in Job /\ Coherent(j)
        /\ \A u \in Tasks \ {t} : task'[u] = task[u]
        /\ StepCase(t)
    BY <1>4, StepCases
  <2>2. \A n \in Names : NodeOK(db'[n])
    <3>1. \/ UNCHANGED db
          \/ Copying(j) /\ Write(j.name, j.vol)
      BY <2>1 DEF StepCase, Ends, Finds, Writes, Takes, Persists, Loops, Calls, Loads, Copying
    <3>. QED  BY <2>1, <3>1, NodeWrite
  <2>3. Copying(k) => NodeOK(k.vol)
    <3>1. CASE Ends(t)
      BY <3>1 DEF Ends, Idle, Copying
    <3>2. CASE Finds(t)
      <4>1. CASE k.pc = "save" /\ k.vol = [state |-> "pending", node |-> NoNode]
        BY <4>1 DEF NodeOK, HoldsNode
      <4>2. CASE /\ db[j.name] # NoRow /\ j.op \in {"delete", "detach"}
                 /\ Applied(k, j, db[j.name])
        <5>1. NodeOK(db[j.name])
          BY <2>1 DEF NodeInv, Job
        <5>2. j.event # "attach"
          BY <2>1, <3>2, <4>2 DEF Finds, Coherent
        <5>. QED  BY <4>2, <5>1, <5>2, NodeApplied
      <4>3. CASE j.op = "attach" /\ k.vol.node = j.node
        BY <2>1, <4>3 DEF Coherent, NodeOK
      <4>4. CASE k.pc = "inspect"
        BY <4>4 DEF Copying
      <4>. QED  BY <3>2, <4>1, <4>2, <4>3, <4>4 DEF Finds
    <3>3. CASE Writes(t)
      <4>1. Applied(k, j, j.vol) /\ NodeOK(j.vol)
        BY <3>3 DEF Writes, NodeInv, Copying
      <4>2. j.event = "attach" => j.vol.node # NoNode
        BY <2>1, <3>3 DEF Writes, Coherent
      <4>. QED  BY <4>1, <4>2, NodeApplied
    <3>4. CASE Takes(t)
      BY <3>4 DEF Takes, NodeOK, HoldsNode
    <3>5. CASE Persists(t)
      BY <3>5 DEF Persists, NodeInv, Copying
    <3>6. CASE Loops(t)
      BY <3>6 DEF Loops, Copying
    <3>7. CASE Calls(t)
      BY <3>7 DEF Calls, Copying
    <3>8. CASE Loads(t)
      <4>1. Applied(k, j, Loaded(j)) /\ j.pc = "load"
        BY <3>8 DEF Loads
      <4>2. j.event # "detached" => NodeOK(Loaded(j))
        BY <2>1 DEF Loaded, NodeInv, Job
      <4>3. j.event # "attach"
        BY <2>1, <4>1 DEF Coherent, WorkerEvents
      <4>. QED  BY <4>1, <4>2, <4>3, NodeApplied
    <3>. QED
      BY <2>1, <3>1, <3>2, <3>3, <3>4, <3>5, <3>6, <3>7, <3>8 DEF StepCase
  <2>. QED  BY <2>1, <2>2, <2>3 DEF NodeInv, Copying, NodeOK
<1>. QED  BY <1>1, <1>2, <1>3, <1>4 DEF Next

\* At first no row needs a node.
LEMMA NodeInit == Init => NodeInv
BY DEF Init, NodeInv, NodeOK, NoRow, HoldsNode, Copying, Idle

\* A volume shown on its way to, on or from a node names that node.
THEOREM NodesAreRecorded == Spec => []NodeRecorded
<1>1. TypeInv /\ NodeInv /\ [Next]_vars => NodeInv'
  BY NodeStep
<1>2. NodeInv => NodeRecorded
  BY DEF NodeInv, NodeOK, NodeRecorded
<1>. QED  BY <1>1, <1>2, NodeInit, TypeInvariant, PTL DEF Spec

-----------------------------------------------------------------------------
(* OneCreator. *)

\* A missing row is none of the rows.
LEMMA NoRowIsNoState == NoRow \notin Row
BY DEF NoRow, Row, States, Transitional, InProgress, FailedStates

\* Rows are never removed.
LEMMA RowsStay ==
    ASSUME TypeInv, NEW t \in Tasks, task[t] \in Job, Coherent(task[t]),
           \/ UNCHANGED db
           \/ Copying(task[t]) /\ Write(task[t].name, task[t].vol)
    PROVE  \A n \in Names : db[n] # NoRow => db'[n] # NoRow
BY NoRowIsNoState DEF TypeInv, TypeOK, Write, Copying, Coherent, Job

\* The row of the stepping task's name is kept, or takes the task's copy.
LEMMA StepWrites ==
    ASSUME NEW t, StepCase(t)
    PROVE  \/ UNCHANGED db
           \/ Copying(task[t]) /\ Write(task[t].name, task[t].vol)
BY DEF StepCase, Ends, Finds, Writes, Takes, Persists, Loops, Calls, Loads, Copying

\* The first insert of a name is the only one.
LEMMA CreatorStep ==
    ASSUME TypeInv, CreatorInv, [Next]_vars
    PROVE  CreatorInv'
<1> USE DEF Creating
<1>1. CASE UNCHANGED vars
  BY <1>1 DEF vars, CreatorInv, OneCreator
<1>2. CASE Close
  BY <1>2 DEF Close, CreatorInv, OneCreator
<1>3. ASSUME NEW t \in Tasks, NEW op \in Ops, NEW n \in Names,
             NEW node \in Nodes \cup {NoNode}, Arrive(t, op, n, node)
      PROVE  CreatorInv'
  <2>1. task'[t].pc = "lookup" /\ \A u \in Tasks \ {t} : task'[u] = task[u]
    BY <1>3, BecomeEffect DEF Arrive
  <2>2. UNCHANGED db
    BY <1>3 DEF Arrive
  <2>. QED  BY <2>1, <2>2 DEF CreatorInv, OneCreator
<1>4. ASSUME NEW t \in Tasks, Step(t)
      PROVE  CreatorInv'
  <2> DEFINE j == task[t]
             k == task'[t]
  <2>1. /\ j \in Job /\ Coherent(j)
        /\ \A u \in Tasks \ {t} : task'[u] = task[u]
        /\ StepCase(t)
    BY <1>4, StepCases
  <2>2. \A n \in Names : db[n] # NoRow => db'[n] # NoRow
    BY <2>1, RowsStay, StepWrites
  <2>3. ASSUME NEW n \in Names, Creating(t, n)', ~Creating(t, n)
        PROVE  db[n] = NoRow /\ db'[n] # NoRow
    <3>1. j.pc = "save" /\ Writes(t)
      <4>1. CASE Ends(t)      BY <2>3, <4>1 DEF Ends, Idle
      <4>2. CASE Finds(t)     BY <2>3, <4>2 DEF Finds, Applied, Same
      <4>3. CASE Writes(t)    BY <2>1, <2>3, <4>3 DEF Writes, Applied, Same, Coherent
      <4>4. CASE Takes(t)     BY <2>1, <2>3, <4>4 DEF Takes, Same, Coherent
      <4>5. CASE Persists(t)  BY <2>3, <4>5 DEF Persists, Same
      <4>6. CASE Loops(t)     BY <2>3, <4>6 DEF Loops, Same
      <4>7. CASE Calls(t)     BY <2>3, <4>7 DEF Calls, Same
      <4>8. CASE Loads(t)     BY <2>3, <4>8 DEF Loads, Applied, Same
      <4>. QED  BY <2>1, <4>1, <4>2, <4>3, <4>4, <4>5, <4>6, <4>7, <4>8 DEF StepCase
    <3>2. n = j.name /\ db[n] = NoRow /\ db' = [db EXCEPT ![n] = j.vol]
      BY <2>3, <3>1 DEF Writes, Applied, Same, Write
    <3>3. j.vol # NoRow
      BY <2>1, <3>1, NoRowIsNoState DEF Coherent
    <3>. QED  BY <3>2, <3>3 DEF TypeInv, TypeOK
  <2>4. \A n \in Names, u \in Tasks : Creating(u, n)' => db'[n] # NoRow
    BY <2>1, <2>2, <2>3 DEF CreatorInv
  <2>5. ASSUME NEW n \in Names, NEW u \in Tasks, NEW x \in Tasks,
               Creating(u, n)', Creating(x, n)'
        PROVE  u = x
    BY <2>1, <2>3, <2>5 DEF CreatorInv, OneCreator
  <2>. QED  BY <2>4, <2>5 DEF CreatorInv, OneCreator
<1>. QED  BY <1>1, <1>2, <1>3, <1>4 DEF Next

\* At first nobody creates.
LEMMA CreatorInit == Init => CreatorInv
BY DEF Init, CreatorInv, OneCreator, Creating, Idle

\* However many clients create a name at once, one goroutine provisions it.
THEOREM OneTaskCreates == Spec => []OneCreator
<1>1. TypeInv /\ CreatorInv /\ [Next]_vars => CreatorInv'
  BY CreatorStep
<1>2. CreatorInv => OneCreator
  BY DEF CreatorInv
<1>. QED  BY <1>1, <1>2, CreatorInit, TypeInvariant, PTL DEF Spec

-----------------------------------------------------------------------------
(* DrainedMeansQuiet. *)

\* Once canceled, a goroutine that has not made its first attempt makes none.
LEMMA QuietStays ==
    ASSUME TypeInv, NEW t \in Tasks, Step(t), Canceled, Worker(t) => At(t, "begin"),
           Worker(t)'
    PROVE  At(t, "begin")'
<1> DEFINE j == task[t]
<1> USE DEF Worker, At
<1>1. j \in Job /\ Coherent(j) /\ StepCase(t)
  BY StepCases
<1>2. j.pc \in {"lookup", "save", "setnode", "inspect"} => j.event \notin WorkerEvents
  BY <1>1 DEF Coherent, Job, Ops, WorkerEvents
<1>3. CASE Ends(t)      BY <1>3 DEF Ends, Idle
<1>4. CASE Finds(t)     BY <1>2, <1>4 DEF Finds, Applied
<1>5. CASE Writes(t)    BY <1>2, <1>5 DEF Writes, Applied
<1>6. CASE Takes(t)     BY <1>2, <1>6 DEF Takes
<1>7. CASE Persists(t)  BY <1>7 DEF Persists
<1>8. CASE Loops(t)     BY <1>8 DEF Loops, WorkerEvents
<1>9. CASE Calls(t)     BY <1>9 DEF Calls
<1>10. CASE Loads(t)    BY <1>10 DEF Loads
<1>. QED  BY <1>1, <1>3, <1>4, <1>5, <1>6, <1>7, <1>8, <1>9, <1>10 DEF StepCase

\* After the cancellation goroutines only end, and after the wait none begins to work.
LEMMA DrainedStep ==
    ASSUME TypeInv, DrainedMeansQuiet, [Next]_vars
    PROVE  DrainedMeansQuiet'
<1> USE DEF Worker, At
<1>1. CASE UNCHANGED vars
  BY <1>1 DEF vars, DrainedMeansQuiet
<1>2. CASE Close
  BY <1>2 DEF Close, DrainedMeansQuiet
<1>3. ASSUME NEW t \in Tasks, NEW op \in Ops, NEW n \in Names,
             NEW node \in Nodes \cup {NoNode}, Arrive(t, op, n, node)
      PROVE  DrainedMeansQuiet'
  <2>1. task'[t].pc = "lookup" /\ \A u \in Tasks \ {t} : task'[u] = task[u]
    BY <1>3, BecomeEffect DEF Arrive
  <2>. QED  BY <1>3, <2>1 DEF DrainedMeansQuiet, Arrive
<1>4. ASSUME NEW t \in Tasks, Step(t)
      PROVE  DrainedMeansQuiet'
  <2>1. UNCHANGED closing /\ \A u \in Tasks \ {t} : task'[u] = task[u]
    BY <1>4, StepCases
  <2>2. ASSUME closing = "drained", Worker(t)'
        PROVE  At(t, "begin")'
    <3>1. Canceled /\ (Worker(t) => At(t, "begin"))
      BY <2>2 DEF DrainedMeansQuiet, Canceled
    <3>. QED  BY <1>4, <2>2, <3>1, QuietStays
  <2>. QED  BY <2>1, <2>2 DEF DrainedMeansQuiet
<1>. QED  BY <1>1, <1>2, <1>3, <1>4 DEF Next

\* When Close reports that all goroutines have exited, none is at work.
THEOREM DrainedIsQuiet == Spec => []DrainedMeansQuiet
<1>1. Init => DrainedMeansQuiet
  BY DEF Init, DrainedMeansQuiet
<1>2. TypeInv /\ DrainedMeansQuiet /\ [Next]_vars => DrainedMeansQuiet'
  BY DrainedStep
<1>. QED  BY <1>1, <1>2, TypeInvariant, PTL DEF Spec

-----------------------------------------------------------------------------
(* AuditKeepsUp. *)

\* At most one task at a time is under way for a name: its client waits for each
\* operation to end before it asks for the next.
InTurn ==
    \A t, u \in Tasks :
        task[t] # Idle /\ task[u] # Idle /\ task[t].name = task[u].name => t = u

\* The copy of the row that a task is about to record, or to write without a change of
\* state, shows the state of the row.
AuditInv ==
    /\ \A t \in Tasks :
          At(t, "record") \/ At(t, "setnode") => task[t].vol.state = db[task[t].name].state
    /\ AuditKeepsUp

\* A step that keeps rows, audit and whether the task is about to record.
LEMMA AuditAside ==
    ASSUME TypeInv, AuditInv, NEW t \in Tasks, UNCHANGED <<db, audit>>, ~At(t, "record"),
           \A u \in Tasks \ {t} : task'[u] = task[u],
           \/ task'[t].pc \notin {"record", "setnode"}
           \/ task'[t].pc = "setnode" /\ task'[t].vol.state = db[task'[t].name].state
    PROVE  AuditInv'
BY DEF AuditInv, AuditKeepsUp, At

\* A step of the only task that is about its volume, in the order of the calls.
LEMMA AuditTask ==
    ASSUME Repo = "inmemory", InTurn, TypeInv, AuditInv,
           NEW t \in Tasks, Step(t)
    PROVE  AuditInv'
<1> DEFINE j == task[t]
           k == task'[t]
           n == j.name
<1>1. /\ j \in Job /\ Coherent(j) /\ n \in Names /\ StepCase(t)
      /\ \A u \in Tasks \ {t} : task'[u] = task[u]
  BY StepCases DEF Job
<1>2. ~DbFails
  BY DEF DbFails
<1>8. /\ \A u \in Tasks : At(u, "record") \/ At(u, "setnode") => task[u].name \in Names
      /\ \A u \in Tasks \ {t} :
            At(u, "record") \/ At(u, "setnode") => task[u].name # n
  <2>1. j # Idle
    BY <1>1 DEF Job, Idle
  <2>2. \A u \in Tasks : At(u, "record") \/ At(u, "setnode") => task[u] # Idle
    BY DEF At, Idle
  <2>3. \A u \in Tasks : task[u] # Idle => task[u].name \in Names
    BY DEF TypeInv, TypeOK, Job
  <2>. QED  BY <2>1, <2>2, <2>3 DEF InTurn
<1>3. CASE Save(t)
  <2>1. \/ Write(n, j.vol) /\ j.vol.state = "pending"
        \/ UNCHANGED db
    BY <1>1, <1>2, <1>3 DEF Save, WriteFails, Coherent, At
  <2>2. j.pc = "save" /\ UNCHANGED audit /\ k.pc \in {"update", "idle"}
    BY <1>1, <1>3
       DEF Save, At, StepCase, Ends, Finds, Writes, Takes, Persists, Loops, Calls, Loads,
           Applied, Idle
  <2>3. ASSUME NEW m \in Names, db'[m].state \notin {"none", "pending"},
               \A u \in Tasks : At(u, "record")' => task'[u].name # m
        PROVE  audit'[m] = db'[m].state
    <3>1. db'[m] = db[m]
      BY <2>1, <2>3 DEF Write, TypeInv, TypeOK
    <3>. QED  BY <1>1, <2>2, <2>3, <3>1 DEF AuditInv, AuditKeepsUp, At
  <2>4. \A m \in Names \ {n} : db'[m] = db[m]
    BY <2>1 DEF Write, TypeInv, TypeOK
  <2>. QED  BY <1>8, <1>1, <2>2, <2>3, <2>4 DEF AuditInv, AuditKeepsUp, At
<1>4. CASE SetNode(t)
  <2>1. j.pc = "setnode" /\ UNCHANGED audit /\ Write(n, j.vol) /\ k.pc \in {"update", "idle"}
    BY <1>1, <1>2, <1>4
       DEF SetNode, WriteFails, At, StepCase, Ends, Finds, Writes, Takes, Persists, Loops,
           Calls, Loads, Applied, Idle
  <2>2. \A m \in Names : db'[m].state = db[m].state
    BY <1>1, <2>1 DEF Write, TypeInv, TypeOK, AuditInv, At
  <2>. QED  BY <1>8, <1>1, <2>1, <2>2 DEF AuditInv, AuditKeepsUp, At
<1>5. CASE Update(t)
  <2>1. Write(n, j.vol) /\ Become(t, [j EXCEPT !.pc = "record"]) /\ UNCHANGED audit
    BY <1>2, <1>5 DEF Update, WriteFails
  <2>2. /\ k.pc = "record" /\ k.vol = j.vol /\ k.name = n
        /\ j.pc = "update" /\ db'[n] = j.vol
        /\ \A m \in Names \ {n} : db'[m] = db[m]
    BY <1>1, <1>5, <2>1, BecomeEffect DEF Update, At, Job, Write, TypeInv, TypeOK
  <2>. QED  BY <1>8, <1>1, <2>1, <2>2 DEF AuditInv, AuditKeepsUp, At
<1>6. CASE Record(t)
  <2>1. /\ j.pc = "record" /\ UNCHANGED db /\ k = Continue(j)
        /\ audit' = [audit EXCEPT ![n] = j.vol.state]
    BY <1>2, <1>6, BecomeEffect DEF Record, At
  <2>2. k.pc \notin {"record", "setnode"}
    BY <1>1, <2>1, ContinueEffect DEF Idle
  <2>3. audit'[n] = db[n].state /\ \A m \in Names \ {n} : audit'[m] = audit[m]
    BY <1>1, <2>1 DEF TypeInv, TypeOK, AuditInv, At
  <2>. QED  BY <1>8, <1>1, <2>1, <2>2, <2>3 DEF AuditInv, AuditKeepsUp, At
<1>7. CASE Lookup(t) \/ Inspect(t) \/ Begin(t) \/ Call(t) \/ Load(t) \/ Backoff(t)
  <2>1. /\ UNCHANGED <<db, audit>>
        /\ j.pc \in {"lookup", "inspect", "begin", "call", "load", "backoff"}
    BY <1>7 DEF Lookup, Inspect, Begin, Call, Load, Backoff, At
  <2>2. \/ k.pc \notin {"record", "setnode"}
        \/ k.pc = "setnode" /\ k.vol.state = db[k.name].state
    BY <1>1, <2>1
       DEF StepCase, Ends, Finds, Writes, Takes, Persists, Loops, Calls, Loads, Applied,
           Idle, Same
  <2>. QED  BY <1>1, <2>1, <2>2, AuditAside DEF At
<1>. QED  BY <1>3, <1>4, <1>5, <1>6, <1>7 DEF Step

\* The only task about a volume appends the audit row of each change before it does
\* anything else.
LEMMA AuditStep ==
    ASSUME Repo = "inmemory", InTurn, TypeInv, AuditInv, [Next]_vars
    PROVE  AuditInv'
<1>1. CASE UNCHANGED vars
  BY <1>1 DEF vars, AuditInv, AuditKeepsUp, At
<1>2. CASE Close
  BY <1>2 DEF Close, AuditInv, AuditKeepsUp, At
<1>3. ASSUME NEW t \in Tasks, NEW op \in Ops, NEW n \in Names,
             NEW node \in Nodes \cup {NoNode}, Arrive(t, op, n, node)
      PROVE  AuditInv'
  <2>1. /\ task'[t].pc = "lookup" /\ At(t, "idle") /\ UNCHANGED <<db, audit>>
        /\ \A u \in Tasks \ {t} : task'[u] = task[u]
    BY <1>3, BecomeEffect DEF Arrive
  <2>. QED  BY <2>1, AuditAside DEF At
<1>. QED  BY <1>1, <1>2, <1>3, AuditTask DEF Next

\* As long as the requests on a volume come one after the other, and with a repository
\* that does not fail, the audit trail keeps up with the rows, however the requests on
\* different volumes interleave.
THEOREM AuditIsUpToDate ==
    ASSUME Repo = "inmemory"
    PROVE  Spec /\ []InTurn => []AuditKeepsUp
<1>1. Init => AuditInv
  BY DEF Init, AuditInv, AuditKeepsUp, At, Idle, NoRow
<1>2. TypeInv /\ InTurn /\ AuditInv /\ [Next]_vars => AuditInv'
  BY AuditStep
<1>3. AuditInv => AuditKeepsUp
  BY DEF AuditInv
<1>. QED  BY <1>1, <1>2, <1>3, TypeInvariant, PTL DEF Spec

-----------------------------------------------------------------------------
(* DeletedMeansGone: what clients are told is deleted is gone from the     *)
(* backend, however creations, retries, reconciliations and deletions of   *)
(* the name race.                                                          *)

Early == {"pending", "creating", "creating_failed"}

\* A creation that may still call the backend.
Provisioning(t, n) == Creating(t, n) /\ task[t].event \notin {"ready", "fail"}

\* The task is with name n, past the load of its handler.
Past(t, n) == task[t].pc \notin {"idle", "lookup", "save"} /\ task[t].name = n

\* The task is about to show n as deleted.
Claims(t, n) ==
    /\ Past(t, n)
    /\ \/ task[t].pc \in {"setnode", "update", "record"} /\ task[t].vol.state = "deleted"
       \/ task[t].pc = "load" /\ task[t].event = "deleted"

\* Nothing happens to a name before its row is inserted;
Untouched(n) ==
    db[n] = NoRow => ~Present(backend[n]) /\ \A t \in Tasks : ~Past(t, n)

\* until the backend has provisioned it, the row stays early and no other
\* operation is accepted;
Reserved(n) ==
    \A t \in Tasks : Provisioning(t, n) =>
        /\ ~Present(backend[n])
        /\ db[n].state \in Early
        /\ Copying(task[t]) => task[t].vol.state \in Early
        /\ \A u \in Tasks \ {t} : Past(u, n) =>
              task[u].pc = "setnode" /\ task[u].vol.state \in Early

\* and whoever is about to show it as deleted has seen it leave the backend.
Gone(n) ==
    db[n].state = "deleted" \/ (\E t \in Tasks : Claims(t, n)) => ~Present(backend[n])

GoneInv == \A n \in Names : Untouched(n) /\ Reserved(n) /\ Gone(n)

-----------------------------------------------------------------------------
(* The edges and the replies that matter. *)

\* Only "ready" and "fail" lead out of the early states, only "deleted" leads
\* to deleted, and a volume still early is neither attached, detached nor deleted.
LEMMA EarlyEdges ==
    ASSUME NEW src, NEW event, NEW dst, <<src, event, dst>> \in Transitions
    PROVE  /\ src \in Early /\ event \notin {"ready", "fail"} => dst \in Early
           /\ src \in Early => event \notin {"attach", "delete", "detach"}
           /\ dst = "deleted" => event = "deleted"
           /\ event = "create" => dst = "creating"
<1>1. src \in Early /\ event \notin {"ready", "fail"} => dst \in Early
  BY DEF Transitions, Early
<1>2. src \in Early => event \notin {"attach", "delete", "detach"}
  BY DEF Transitions, Early
<1>3. dst = "deleted" => event = "deleted"
  BY DEF Transitions
<1>4. event = "create" => dst = "creating"
  BY DEF Transitions
<1>. QED  BY <1>1, <1>2, <1>3, <1>4

\* A refused or failed creation leaves no volume behind that the backend knows.
LEMMA FailedCreate ==
    ASSUME NEW b \in BackendVolume, ~Present(b), NEW r \in CreateVolume(b), ~r.ok
    PROVE  ~Present(r.vol)
<1>1. ASSUME NEW v, r \in Accept(v)
      PROVE  FALSE
  BY <1>1 DEF Accept
<1>2. \/ r \in Refuse(b)
      \/ r \in Break(b)
      \/ r \in Break([b EXCEPT !.image = TRUE])
  BY <1>1 DEF CreateVolume, MockCreate, CephCreate
<1>3. r.vol = b \/ r.vol = [b EXCEPT !.image = TRUE]
  BY <1>2, ReplyCarries
<1>. QED  BY <1>3 DEF Present, BackendVolume

\* Only a creation brings a volume into the backend.
LEMMA AbsentStaysAbsent ==
    ASSUME NEW b \in BackendVolume, ~Present(b), NEW x, NEW r,
           r \in DeleteVolume(b) \/ r \in AttachVolume(b, x) \/ r \in DetachVolume(b)
    PROVE  ~Present(r.vol)
<1>1. r \in Refuse(b)
  BY DEF DeleteVolume, MockDelete, CephDelete, AttachVolume, MockAttach, CephAttach,
         DetachVolume, MockDetach, CephDetach, Present
<1>. QED  BY <1>1 DEF Refuse

\* A successful deletion leaves no volume.
LEMMA DeleteRemoves ==
    ASSUME NEW b \in BackendVolume, NEW r \in DeleteVolume(b), r.ok
    PROVE  ~Present(r.vol)
<1>1. ASSUME NEW v, r \in Refuse(v) \/ r \in Break(v)
      PROVE  FALSE
  BY <1>1 DEF Refuse, Break
<1>2. r \in Accept(Absent)
  BY <1>1 DEF DeleteVolume, MockDelete, CephDelete
<1>3. r.vol = Absent
  BY <1>2, ReplyCarries
<1>. QED  BY <1>3 DEF Present, Absent

-----------------------------------------------------------------------------
(* The step of a task, for the name it is with. *)

\* A task's step keeps the invariant of every other name.
LEMMA Elsewhere ==
    ASSUME TypeInv, NEW t \in Tasks, task[t] \in Job, StepCase(t),
           \A u \in Tasks \ {t} : task'[u] = task[u],
           NEW n \in Names, n # task[t].name,
           Untouched(n), Reserved(n), Gone(n)
    PROVE  (Untouched(n) /\ Reserved(n) /\ Gone(n))'
<1>1. db'[n] = db[n]
  BY StepWrites DEF Write, TypeInv, TypeOK
<1>2. backend'[n] = backend[n]
  BY DEF StepCase, Ends, Finds, Writes, Takes, Persists, Loops, Calls, Loads,
         TypeInv, TypeOK
<1>3. task'[t] = Idle \/ task'[t].name = task[t].name
  BY DEF StepCase, Ends, Finds, Writes, Takes, Persists, Loops, Calls, Loads, Applied, Same
<1>4. ~Past(t, n)' /\ ~Provisioning(t, n)'
  BY <1>3 DEF Past, Provisioning, Creating, Idle
<1>. QED
  BY <1>1, <1>2, <1>4
     DEF Untouched, Reserved, Gone, Past, Provisioning, Creating, Claims, Copying

\* While one task provisions a name, another one that is past its load only
\* waits to write an early copy.
LEMMA NoOtherProvisions ==
    ASSUME NEW t \in Tasks, NEW n \in Names, Reserved(n), Past(t, n),
           task[t].pc # "setnode" \/ task[t].vol.state \notin Early
    PROVE  \A u \in Tasks \ {t} : ~Provisioning(u, n)
BY DEF Reserved

\* The stepping task keeps the invariant of the name it is with.
LEMMA GoneHere ==
    ASSUME TypeInv, NEW t \in Tasks, task[t] \in Job, Coherent(task[t]), StepCase(t),
           \A u \in Tasks \ {t} : task'[u] = task[u],
           NEW n \in Names, n = task[t].name,
           Untouched(n), Reserved(n), Gone(n)
    PROVE  (Untouched(n) /\ Reserved(n) /\ Gone(n))'
<1> DEFINE j == task[t]
           k == task'[t]
\* What follows for n from what follows for the stepping task alone.
<1>1. \A u \in Tasks \ {t} :
          /\ Past(u, n)' <=> Past(u, n)
          /\ Provisioning(u, n)' <=> Provisioning(u, n)
          /\ Claims(u, n)' <=> Claims(u, n)
  BY DEF Past, Provisioning, Creating, Claims
<1>2. ASSUME NEW u \in Tasks, Provisioning(u, n) \/ Claims(u, n)
      PROVE  Past(u, n)
  BY <1>2 DEF Past, Provisioning, Creating, Claims
<1>3. db[n] # NoRow => db'[n] # NoRow
  BY RowsStay, StepWrites
<1>4. db \in [Names -> Row \cup {NoRow}] /\ backend \in [Names -> BackendVolume]
  BY DEF TypeInv, TypeOK
<1>5. ASSUME Write(n, j.vol)
      PROVE  db'[n] = j.vol
  BY <1>4, <1>5 DEF Write
\* The cases in which the task goes on alone with a name whose row exists.
<1>6. ASSUME db[n] # NoRow,
             \A u \in Tasks \ {t} : ~Provisioning(u, n),
             Provisioning(t, n)' =>
                /\ ~Present(backend'[n])
                /\ db'[n].state \in Early
                /\ Copying(k) => k.vol.state \in Early
                /\ \A u \in Tasks \ {t} : Past(u, n) =>
                      task[u].pc = "setnode" /\ task[u].vol.state \in Early,
             Claims(t, n)' => ~Present(backend'[n]),
             db'[n].state = "deleted" => ~Present(backend'[n]),
             (\E u \in Tasks \ {t} : Claims(u, n)) => ~Present(backend'[n])
      PROVE  (Untouched(n) /\ Reserved(n) /\ Gone(n))'
  BY <1>1, <1>3, <1>6 DEF Untouched, Reserved, Gone
<1>7. ASSUME Past(t, n)
      PROVE  db[n] # NoRow
  BY <1>7 DEF Untouched
<1>8. CASE Ends(t)
  <2>1. k = Idle /\ UNCHANGED backend
    BY <1>8 DEF Ends
  <2>2. ~Past(t, n)' /\ ~Provisioning(t, n)' /\ ~Claims(t, n)'
    BY <2>1 DEF Past, Provisioning, Creating, Claims, Idle
  <2>3. CASE UNCHANGED db
    BY <1>1, <2>1, <2>2, <2>3 DEF Untouched, Reserved, Gone, Copying
  <2>4. CASE j.pc = "save" /\ db[n] = NoRow /\ Write(n, j.vol)
    <3>1. db'[n].state = "pending"
      BY <1>5, <2>4 DEF Coherent
    <3>2. \A u \in Tasks : ~Past(u, n)'
      BY <1>1, <2>2, <2>4 DEF Untouched
    <3>3. \A u \in Tasks : ~Provisioning(u, n)' /\ ~Claims(u, n)'
      BY <1>1, <1>2, <2>2, <2>4 DEF Untouched
    <3>. QED  BY <2>1, <2>4, <3>1, <3>2, <3>3 DEF Untouched, Reserved, Gone
  <2>5. CASE j.pc \in {"setnode", "update", "record"} /\ Write(n, j.vol)
    <3>1. Past(t, n)
      BY <2>5 DEF Past
    <3>2. db'[n] = j.vol /\ db[n] # NoRow
      BY <1>5, <1>7, <2>5, <3>1
    <3>3. \A u \in Tasks \ {t} : Provisioning(u, n) => j.vol.state \in Early
      BY <3>1 DEF Reserved
    <3>4. j.vol.state = "deleted" => Claims(t, n)
      BY <2>5, <3>1 DEF Claims
    <3>5. Untouched(n)'
      BY <1>3, <3>2 DEF Untouched
    <3>6. Reserved(n)'
      BY <1>1, <2>1, <2>2, <3>2, <3>3 DEF Reserved, Copying
    <3>7. Gone(n)'
      BY <1>1, <2>1, <2>2, <3>2, <3>4 DEF Gone
    <3>. QED  BY <3>5, <3>6, <3>7
  <2>. QED  BY <1>8, <2>3, <2>4, <2>5 DEF Ends, Copying
<1>9. CASE Finds(t)
  <2>1. /\ j.pc = "lookup" /\ Same(k, j) /\ k.event = j.event /\ j.event = j.op
        /\ UNCHANGED <<db, backend>>
    BY <1>9 DEF Finds, Coherent
  <2>2. ~Past(t, n)
    BY <2>1 DEF Past
  <2>3. ASSUME ~Provisioning(t, n)',
               Past(t, n)' => db[n] # NoRow,
               Past(t, n)' /\ db[n].state \in Early =>
                  k.pc = "setnode" /\ k.vol.state \in Early,
               Claims(t, n)' => db[n].state = "deleted"
        PROVE  (Untouched(n) /\ Reserved(n) /\ Gone(n))'
    BY <1>1, <2>1, <2>3 DEF Untouched, Reserved, Gone, Copying
  <2>4. CASE k.pc = "save"
    <3>1. ~Past(t, n)' /\ ~Provisioning(t, n)' /\ ~Claims(t, n)'
      BY <2>4 DEF Past, Provisioning, Creating, Claims
    <3>. QED  BY <2>3, <3>1
  <2>5. CASE db[n] # NoRow /\ j.op \in {"delete", "detach"} /\ Applied(k, j, db[n])
    <3>1. ~Provisioning(t, n)'
      BY <2>1, <2>5 DEF Provisioning, Creating, Same
    <3>2. db[n].state \notin Early /\ k.vol.state # "deleted" /\ k.pc = "update"
      BY <2>1, <2>5, EarlyEdges DEF Applied
    <3>3. ~Claims(t, n)'
      BY <3>2 DEF Claims
    <3>. QED  BY <2>3, <2>5, <3>1, <3>2, <3>3
  <2>6. CASE /\ db[n] # NoRow /\ j.op = "attach" /\ k.pc = "setnode"
             /\ k.vol.state = db[n].state
    <3>1. ~Provisioning(t, n)'
      BY <2>6 DEF Provisioning, Creating
    <3>2. Claims(t, n)' => db[n].state = "deleted"
      BY <2>6 DEF Claims
    <3>. QED  BY <2>3, <2>6, <3>1, <3>2
  <2>7. CASE k.pc = "inspect" /\ db[n].state = "error"
    <3>1. ~Provisioning(t, n)' /\ ~Claims(t, n)'
      BY <2>7 DEF Provisioning, Creating, Claims
    <3>2. db[n] # NoRow /\ db[n].state \notin Early
      BY <2>7 DEF NoRow, Early
    <3>. QED  BY <2>3, <3>1, <3>2
  <2>. QED  BY <1>9, <2>4, <2>5, <2>6, <2>7 DEF Finds
<1>10. CASE Writes(t)
  <2>1. /\ Applied(k, j, j.vol) /\ Write(n, j.vol) /\ UNCHANGED backend
        /\ j.event = j.op
    BY <1>10 DEF Writes, Coherent
  <2>2. db'[n] = j.vol /\ db'[n] # NoRow
    BY <1>5, <1>10, <2>1, NoRowIsNoState DEF Writes, Coherent
  <2>3. CASE j.pc = "save" /\ db[n] = NoRow
    <3>1. /\ ~Present(backend[n]) /\ j.vol.state = "pending" /\ j.event = "create"
          /\ k.vol.state = "creating" /\ k.pc = "update"
      BY <2>1, <2>3, EarlyEdges DEF Untouched, Coherent, Applied
    <3>2. \A u \in Tasks \ {t} : ~Past(u, n) /\ ~Provisioning(u, n) /\ ~Claims(u, n)
      BY <1>2, <2>3 DEF Untouched
    <3>3. Reserved(n)'
      BY <1>1, <2>1, <2>2, <3>1, <3>2 DEF Reserved, Early
    <3>4. Gone(n)'
      BY <2>1, <3>1 DEF Gone
    <3>. QED  BY <2>2, <3>3, <3>4 DEF Untouched
  <2>4. CASE j.pc = "setnode"
    <3>1. Past(t, n) /\ db[n] # NoRow
      BY <1>7, <2>4 DEF Past
    <3>2. j.event = "attach" /\ k.op = "attach" /\ k.pc = "update"
      BY <2>1, <2>4 DEF Coherent, Applied, Same
    <3>3. j.vol.state \notin Early \cup {"deleted"} /\ k.vol.state # "deleted"
      BY <2>1, <3>2 DEF Applied, Transitions, Early
    <3>4. \A u \in Tasks \ {t} : ~Provisioning(u, n)
      BY <3>1, <3>3, NoOtherProvisions
    <3>5. ~Provisioning(t, n)' /\ ~Claims(t, n)'
      BY <3>2, <3>3 DEF Provisioning, Creating, Claims
    <3>6. db'[n].state # "deleted"
      BY <2>2, <3>3
    <3>7. (\E u \in Tasks \ {t} : Claims(u, n)) => ~Present(backend'[n])
      BY <2>1 DEF Gone
    <3>. QED  BY <1>6, <3>1, <3>4, <3>5, <3>6, <3>7
  <2>. QED  BY <1>10, <2>3, <2>4 DEF Writes
<1>11. CASE Takes(t)
  <2>1. /\ j.pc = "inspect" /\ k.pc = "update" /\ k.op = "reconcile"
        /\ k.vol.state # "deleted" /\ UNCHANGED <<db, backend>>
    BY <1>11 DEF Takes, Same, Coherent
  <2>2. Past(t, n)
    BY <2>1 DEF Past
  <2>3. \A u \in Tasks \ {t} : ~Provisioning(u, n)
    BY <2>1, <2>2, NoOtherProvisions
  <2>4. ~Provisioning(t, n)' /\ ~Claims(t, n)'
    BY <2>1 DEF Provisioning, Creating, Claims
  <2>5. db[n] # NoRow
    BY <1>7, <2>2
  <2>. QED  BY <1>6, <2>1, <2>3, <2>4, <2>5 DEF Gone
<1>12. CASE Persists(t)
  <2>1. /\ j.pc = "update" /\ k.pc = "record" /\ Same(k, j) /\ k.event = j.event
        /\ k.vol = j.vol /\ UNCHANGED backend
    BY <1>12 DEF Persists
  <2>2. Past(t, n) /\ db[n] # NoRow /\ db'[n] = j.vol
    BY <1>5, <1>7, <1>12, <2>1 DEF Past, Persists
  <2>3. \A u \in Tasks \ {t} : ~Provisioning(u, n)
    BY <2>1, <2>2, NoOtherProvisions
  <2>4. Provisioning(t, n)' => Provisioning(t, n) /\ j.vol.state \in Early
    BY <2>1 DEF Provisioning, Creating, Same, Reserved, Copying
  <2>5. j.vol.state = "deleted" \/ Claims(t, n)' => Claims(t, n)
    BY <2>1, <2>2 DEF Claims, Past
  <2>6. Claims(t, n) => ~Present(backend'[n])
    BY <2>1 DEF Gone
  <2>7. Provisioning(t, n)' =>
           /\ ~Present(backend'[n])
           /\ \A u \in Tasks \ {t} : Past(u, n) =>
                 task[u].pc = "setnode" /\ task[u].vol.state \in Early
    BY <2>1, <2>4 DEF Reserved
  <2>8. (\E u \in Tasks \ {t} : Claims(u, n)) => ~Present(backend'[n])
    BY <2>1 DEF Gone
  <2>. QED  BY <1>6, <2>1, <2>2, <2>3, <2>4, <2>5, <2>6, <2>7, <2>8
<1>13. CASE Loops(t)
  <2>1. /\ j.pc \in {"record", "begin", "load", "backoff"} /\ Same(k, j)
        /\ k.pc \in {"begin", "call", "load", "backoff"}
        /\ k.pc = "load" => k.event \in {"fail", "retry"}
        /\ UNCHANGED <<db, backend>>
    BY <1>13 DEF Loops
  <2>2. Past(t, n) /\ db[n] # NoRow
    BY <1>7, <2>1 DEF Past
  <2>3. \A u \in Tasks \ {t} : ~Provisioning(u, n)
    BY <2>1, <2>2, NoOtherProvisions
  <2>4. j.event \in {"ready", "fail"} => k.event \in {"ready", "fail"}
    BY <1>13 DEF Loops, Coherent
  <2>5. Provisioning(t, n)' => Provisioning(t, n)
    BY <2>1, <2>4 DEF Provisioning, Creating, Same
  <2>6. ~Claims(t, n)' /\ ~Copying(k)
    BY <2>1 DEF Claims, Copying
  <2>7. db'[n].state = "deleted" => ~Present(backend'[n])
    BY <2>1 DEF Gone
  <2>8. (\E u \in Tasks \ {t} : Claims(u, n)) => ~Present(backend'[n])
    BY <2>1 DEF Gone
  <2>9. Provisioning(t, n)' =>
           /\ ~Present(backend'[n])
           /\ db'[n].state \in Early
           /\ \A u \in Tasks \ {t} : Past(u, n) =>
                 task[u].pc = "setnode" /\ task[u].vol.state \in Early
    BY <2>1, <2>5 DEF Reserved
  <2>. QED  BY <1>6, <2>2, <2>3, <2>6, <2>7, <2>8, <2>9
<1>14. CASE Calls(t)
  <2>1. /\ j.pc = "call" /\ k.pc = "load" /\ Same(k, j) /\ UNCHANGED db
        /\ j.op \in {"create", "delete", "attach", "detach"}
        /\ j.event \in {j.op, "retry"}
    BY <1>14 DEF Calls, Coherent, Job, Ops
  <2>2. PICK r \in Replies(j) :
            /\ backend' = [backend EXCEPT ![n] = r.vol]
            /\ k.event = IF r.ok THEN SuccessEvent[j.op] ELSE "error"
    BY <1>14 DEF Calls
  <2>3. backend'[n] = r.vol /\ backend[n] \in BackendVolume
    BY <1>4, <2>2
  <2>4. Past(t, n) /\ db[n] # NoRow
    BY <1>7, <2>1 DEF Past
  <2>5. \A u \in Tasks \ {t} : ~Provisioning(u, n)
    BY <2>1, <2>4, NoOtherProvisions
  <2>6. ~Copying(k)
    BY <2>1 DEF Copying
  <2>7. CASE j.op = "create"
    <3>1. Provisioning(t, n)
      BY <2>1, <2>7 DEF Provisioning, Creating
    <3>2. ~Present(backend[n]) /\ db[n].state \in Early
      BY <3>1 DEF Reserved
    <3>3. Provisioning(t, n)' => ~r.ok
      BY <2>2, <2>7 DEF Provisioning, SuccessEvent
    <3>4. Provisioning(t, n)' => ~Present(backend'[n])
      BY <2>2, <2>3, <2>7, <3>2, <3>3, FailedCreate DEF Replies
    <3>5. \A u \in Tasks \ {t} : Past(u, n) =>
              task[u].pc = "setnode" /\ task[u].vol.state \in Early
      BY <3>1 DEF Reserved
    <3>6. \A u \in Tasks \ {t} : ~Claims(u, n)
      BY <1>2, <3>5 DEF Claims, Early
    <3>7. ~Claims(t, n)'
      BY <2>1, <2>2, <2>7 DEF Claims, SuccessEvent
    <3>8. db'[n].state # "deleted"
      BY <2>1, <3>2 DEF Early
    <3>. QED
      BY <1>6, <2>1, <2>4, <2>5, <2>6, <3>2, <3>4, <3>5, <3>6, <3>7, <3>8
  <2>8. CASE j.op \in {"delete", "attach", "detach"}
    <3>1. ~Provisioning(t, n)'
      BY <2>1, <2>8 DEF Provisioning, Creating, Same
    <3>2. ~Present(backend[n]) => ~Present(backend'[n])
      BY <2>2, <2>3, <2>8, AbsentStaysAbsent DEF Replies
    <3>3. Claims(t, n)' => r.ok /\ j.op = "delete"
      BY <2>1, <2>2, <2>8 DEF Claims, SuccessEvent
    <3>4. Claims(t, n)' => ~Present(backend'[n])
      BY <2>2, <2>3, <3>3, DeleteRemoves DEF Replies
    <3>5. db'[n].state = "deleted" => ~Present(backend'[n])
      BY <2>1, <3>2 DEF Gone
    <3>6. (\E u \in Tasks \ {t} : Claims(u, n)) => ~Present(backend'[n])
      BY <3>2 DEF Gone
    <3>. QED  BY <1>6, <2>4, <2>5, <3>1, <3>4, <3>5, <3>6
  <2>. QED  BY <2>1, <2>7, <2>8
<1>15. CASE Loads(t)
  <2>1. /\ j.pc = "load" /\ db[n] # NoRow /\ Applied(k, j, Loaded(j))
        /\ UNCHANGED <<db, backend>>
    BY <1>15 DEF Loads
  <2>2. Loaded(j).state = db[n].state
    BY <1>4, <2>1 DEF Loaded, Row
  <2>3. /\ k.pc = "update" /\ Same(k, j) /\ k.event = j.event
        /\ <<db[n].state, j.event, k.vol.state>> \in Transitions
    BY <2>1, <2>2 DEF Applied
  <2>4. Past(t, n)
    BY <2>1 DEF Past
  <2>5. \A u \in Tasks \ {t} : ~Provisioning(u, n)
    BY <2>1, <2>4, NoOtherProvisions
  <2>6. Provisioning(t, n)' => Provisioning(t, n)
    BY <2>1, <2>3 DEF Provisioning, Creating, Same
  <2>7. Provisioning(t, n)' =>
           /\ ~Present(backend'[n])
           /\ db'[n].state \in Early
           /\ k.vol.state \in Early
           /\ \A u \in Tasks \ {t} : Past(u, n) =>
                 task[u].pc = "setnode" /\ task[u].vol.state \in Early
    <3>1. SUFFICES ASSUME Provisioning(t, n)
                   PROVE  /\ ~Present(backend'[n])
                          /\ db'[n].state \in Early
                          /\ k.vol.state \in Early
                          /\ \A u \in Tasks \ {t} : Past(u, n) =>
                                task[u].pc = "setnode" /\ task[u].vol.state \in Early
      BY <2>6
    <3>2. /\ ~Present(backend[n]) /\ db[n].state \in Early
          /\ \A u \in Tasks \ {t} : Past(u, n) =>
                task[u].pc = "setnode" /\ task[u].vol.state \in Early
      BY <3>1 DEF Reserved
    <3>3. k.vol.state \in Early
      BY <2>3, <3>1, <3>2, EarlyEdges DEF Provisioning
    <3>. QED  BY <2>1, <3>2, <3>3
  <2>8. Claims(t, n)' => Claims(t, n)
    BY <2>1, <2>3, <2>4, EarlyEdges DEF Claims
  <2>9. Claims(t, n)' => ~Present(backend'[n])
    BY <2>1, <2>8 DEF Gone
  <2>10. db'[n].state = "deleted" => ~Present(backend'[n])
    BY <2>1 DEF Gone
  <2>11. (\E u \in Tasks \ {t} : Claims(u, n)) => ~Present(backend'[n])
    BY <2>1 DEF Gone
  <2>. QED  BY <1>6, <2>1, <2>5, <2>7, <2>9, <2>10, <2>11
<1>. QED
  BY <1>8, <1>9, <1>10, <1>11, <1>12, <1>13, <1>14, <1>15 DEF StepCase

-----------------------------------------------------------------------------
\* A volume comes into the backend and leaves it under one creation and before a
\* claim of deletion, whatever else is written.
LEMMA GoneStep ==
    ASSUME TypeInv, GoneInv, [Next]_vars
    PROVE  GoneInv'
<1> USE DEF GoneInv, Untouched, Reserved, Gone, Past, Provisioning, Creating, Claims, Copying
<1>1. CASE UNCHANGED vars
  BY <1>1 DEF vars
<1>2. CASE Close
  BY <1>2 DEF Close
<1>3. ASSUME NEW t \in Tasks, NEW op \in Ops, NEW n \in Names,
             NEW node \in Nodes \cup {NoNode}, Arrive(t, op, n, node)
      PROVE  GoneInv'
  <2>1. /\ task'[t].pc = "lookup"
        /\ \A u \in Tasks \ {t} : task'[u] = task[u]
        /\ UNCHANGED <<db, backend>>
    BY <1>3, BecomeEffect DEF Arrive
  <2>. QED  BY <2>1
<1>4. ASSUME NEW t \in Tasks, Step(t)
      PROVE  GoneInv'
  <2>1. /\ task[t] \in Job /\ Coherent(task[t])
        /\ \A u \in Tasks \ {t} : task'[u] = task[u]
        /\ StepCase(t)
    BY <1>4, StepCases
  <2>2. ASSUME NEW n \in Names
        PROVE  (Untouched(n) /\ Reserved(n) /\ Gone(n))'
    <3>1. CASE n = task[t].name   BY <2>1, <3>1, GoneHere
    <3>2. CASE n # task[t].name   BY <2>1, <3>2, Elsewhere
    <3>. QED  BY <3>1, <3>2
  <2>. QED  BY <2>2
<1>. QED  BY <1>1, <1>2, <1>3, <1>4 DEF Next

\* At first no volume is provisioned or deleted.
LEMMA GoneInit == Init => GoneInv
BY DEF Init, GoneInv, Untouched, Reserved, Gone, Past, Provisioning, Creating, Claims,
       Copying, Idle, Present, Absent, NoRow

\* A volume shown as deleted is gone from the backend and stays gone.
THEOREM DeletedVolumesAreGone == Spec => []DeletedMeansGone
<1>1. TypeInv /\ GoneInv /\ [Next]_vars => GoneInv'
  BY GoneStep
<1>2. GoneInv => DeletedMeansGone
  BY DEF GoneInv, Gone, DeletedMeansGone
<1>. QED  BY <1>1, <1>2, GoneInit, TypeInvariant, PTL DEF Spec

=============================================================================
