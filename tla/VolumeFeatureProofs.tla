------------------------- MODULE VolumeFeatureProofs -------------------------
(***************************************************************************)
(* Theorems about VolumeFeature: the start-up reconciliation beside the    *)
(* requests, and what still holds of rows and storage across restarts.     *)
(***************************************************************************)
EXTENDS VolumeFeature, VolumeSerialProofs

-----------------------------------------------------------------------------
(* Type correctness, and the phases of the start-up. *)

\* The goroutine of a name has the copy of the row that it works with.
Tidy(s) ==
    /\ s.pc \in {"inspect", "align", "write", "log", "update", "record"} =>
          s.vol \in Row
    /\ s.pc = "inspect" => s.vol.state \in Transitional
    /\ s.pc = "load" => s.event \in {"error", "fail"}

ScanState == {s \in Scan : Tidy(s)} \cup {Idle}

\* The start-up goroutine runs others only while it waits for them: those of the
\* listed rows first, those of the backend's volumes afterwards.
Phases ==
    /\ startup \in {"list", "listbackend", "done"} => Joined
    /\ startup = "join" => \A n \in Names : scan[n].pc # "import"
    /\ startup = "joinimports" => \A n \in Names : scan[n].pc \in {"idle", "import"}
    /\ closing = "drained" => startup = "done"

\* The feature for clients that wait neither for each other nor for the start-up.
FeatureAny ==
    \/ \E t \in Tasks, op \in Ops, n \in Names, node \in Nodes \cup {NoNode} :
          Arrive(t, op, n, node) /\ UNCHANGED startVars
    \/ Progress

RacingService == FeatureInit /\ [][FeatureAny]_featureVars

StartInv ==
    /\ startup \in {"list", "join", "listbackend", "joinimports", "done"}
    /\ scan \in [Names -> ScanState]
    /\ cephOnly \in CephOnlys
    /\ restarts \in 0..MaxRestarts
    /\ Phases

-----------------------------------------------------------------------------
(* Clients that also wait for the reconciliation. *)

\* The row of a volume that the backend has is true, and names its node.
Trusted(row, b) == Present(b) => RowIsTrue(row, b) /\ RowNames(row, b)

\* Requests and the reconciliation take turns, and the backend, which has forgotten
\* everything, knows no volume before the first request.
PatientInv ==
    /\ startup # "done" =>
          /\ \A t \in Tasks : task[t] = Idle
          /\ \A n \in Names : ~Present(backend[n])
    /\ \A n \in Names : Trusted(db[n], backend[n])

-----------------------------------------------------------------------------
(* The steps of the goroutines of the names. *)

\* A goroutine goes on in its phase, or ends.
GoesOn(s, k) ==
    \/ k = Idle
    \/ k \in Scan /\ Tidy(k) /\ (k.pc = "import" <=> s.pc = "import")

\* A goroutine that has not ended is well formed.
LEMMA ScanActive ==
    ASSUME StartInv, NEW n \in Names, scan[n].pc # "idle"
    PROVE  scan[n] \in Scan /\ Tidy(scan[n])
BY DEF StartInv, ScanState, Idle

\* What a row may be overwritten with, and an audit row left with.
LEMMA ScanWrites ==
    ASSUME TypeInv, NEW n \in Names, NEW v \in Row
    PROVE  /\ Write(n, v) => db' \in [Names -> Row \cup {NoRow}]
           /\ WriteFails(n, v) => /\ db' \in [Names -> Row \cup {NoRow}]
                                  /\ faults' \in 0..MaxFaults
           /\ DbFails => faults' \in 0..MaxFaults
           /\ audit' = [audit EXCEPT ![n] = v.state] => audit' \in [Names -> States \cup {"none"}]
<1>1. DbFails => faults' \in 0..MaxFaults
  BY FaultType DEF TypeInv
<1>2. Write(n, v) \/ UNCHANGED db => db' \in [Names -> Row \cup {NoRow}]
  BY WriteType DEF TypeInv
<1>3. audit' = [audit EXCEPT ![n] = v.state] => audit' \in [Names -> States \cup {"none"}]
  BY DEF TypeInv, TypeOK, Row
<1>. QED  BY <1>1, <1>2, <1>3 DEF WriteFails

\* A step of the goroutine of a name keeps the types and leaves the backend, the
\* tasks and the start-up itself alone.
LEMMA ScanTypes ==
    ASSUME TypeInv, StartInv, NEW n \in Names, ScanStep(n)
    PROVE  /\ TypeInv'
           /\ UNCHANGED <<backend, task, closing, startup, cephOnly, restarts>>
           /\ scan[n] # Idle
           /\ \E k : scan' = [scan EXCEPT ![n] = k] /\ GoesOn(scan[n], k)
<1> DEFINE s == scan[n]
           Stays == UNCHANGED <<backend, task, closing, startup, cephOnly, restarts>>
           Goes == \E k : scan' = [scan EXCEPT ![n] = k] /\ GoesOn(s, k)
<1>1. /\ db \in [Names -> Row \cup {NoRow}] /\ audit \in [Names -> States \cup {"none"}]
      /\ faults \in 0..MaxFaults /\ backend \in [Names -> BackendVolume]
  BY DEF TypeInv, TypeOK
<1>2. SUFFICES /\ Stays /\ s.pc # "idle" /\ Goes
               /\ db' \in [Names -> Row \cup {NoRow}]
               /\ audit' \in [Names -> States \cup {"none"}]
               /\ faults' \in 0..MaxFaults
  <2>1. /\ task \in [Tasks -> TaskState] /\ task \in [Tasks -> Job \cup {Idle}]
        /\ closing \in {"open", "canceled", "drained", "timedout"}
    BY DEF TypeInv, TypeOK
  <2>2. task' = task /\ backend' = backend /\ closing' = closing
    BY <1>2
  <2>3. TypeInv'
    BY <1>1, <1>2, <2>1, <2>2 DEF TypeInv, TypeOK
  <2>4. scan[n] # Idle
    BY <1>2 DEF Idle
  <2>. QED  BY <1>2, <2>3, <2>4
<1>3. s.pc # "idle" => s \in Scan /\ Tidy(s)
  BY ScanActive
<1>4. ASSUME ScanEnd(n)
      PROVE  Goes
  BY <1>4 DEF ScanEnd, ScanBecome, GoesOn
<1>5. ASSUME NEW k, ScanBecome(n, k), GoesOn(s, k)
      PROVE  Goes
  BY <1>5 DEF ScanBecome
<1>6. ASSUME AfterEvent(n), s \in Scan, s.pc # "import"
      PROVE  Goes
  <2> DEFINE k == [s EXCEPT !.pc = "load", !.event = "fail"]
  <2>1. GoesOn(s, k)
    BY <1>6 DEF GoesOn, Scan, Tidy
  <2>. QED  BY <1>4, <1>5, <1>6, <2>1 DEF AfterEvent
<1>7. CASE ScanInspect(n)
  <2> DEFINE v == [state |-> Target(s.vol.state), node |-> backend[n].node]
  <2>1. s.pc = "inspect" /\ s \in Scan /\ s.vol \in Row
    BY <1>3, <1>7 DEF ScanInspect, ScanAt, Tidy
  <2>2. v \in Row
    BY <1>1 DEF Target, Row, States, BackendVolume
  <2> HIDE DEF v
  <2>3. \/ ScanEnd(n)
        \/ ScanBecome(n, [s EXCEPT !.pc = "load", !.event = "error"])
        \/ ScanBecome(n, [s EXCEPT !.pc = "align", !.vol = v])
    BY <1>7 DEF ScanInspect, v
  <2>4. Goes
    <3>1. GoesOn(s, [s EXCEPT !.pc = "load", !.event = "error"])
      BY <2>1 DEF GoesOn, Scan, Tidy
    <3>2. GoesOn(s, [s EXCEPT !.pc = "align", !.vol = v])
      BY <2>1, <2>2 DEF GoesOn, Scan, Tidy
    <3>. QED  BY <1>4, <1>5, <2>3, <3>1, <3>2
  <2>. QED  BY <1>1, <1>7, <2>1, <2>4 DEF ScanInspect, vars
<1>9. CASE ScanAlign(n)
  <2>1. s.pc = "align" /\ s \in Scan /\ Tidy(s)
    BY <1>3, <1>9 DEF ScanAlign, ScanAt
  <2>2. GoesOn(s, [s EXCEPT !.pc = "write"])
    BY <2>1 DEF GoesOn, Scan, Tidy
  <2>3. faults' \in 0..MaxFaults
    BY <1>1, <1>9, FaultType DEF ScanAlign, TypeInv
  <2>. QED  BY <1>1, <1>4, <1>5, <1>9, <2>1, <2>2, <2>3 DEF ScanAlign
<1>10. CASE ScanWrite(n)
  <2>1. s.pc = "write" /\ s \in Scan /\ s.vol \in Row
    BY <1>3, <1>10 DEF ScanWrite, ScanAt, Tidy
  <2>2. GoesOn(s, [s EXCEPT !.pc = "log"])
    BY <2>1 DEF GoesOn, Scan, Tidy
  <2>. QED  BY <1>1, <1>5, <1>10, <2>1, <2>2, ScanWrites DEF ScanWrite
<1>11. ASSUME s.pc # "idle", s.vol \in Row, Audited(n)
       PROVE  /\ audit' \in [Names -> States \cup {"none"}] /\ faults' \in 0..MaxFaults
  BY <1>1, <1>11, ScanWrites DEF Audited
<1>12. CASE ScanLog(n)
  <2>1. s.pc = "log" /\ s.vol \in Row
    BY <1>3, <1>12 DEF ScanLog, ScanAt, Tidy
  <2>. QED  BY <1>1, <1>4, <1>11, <1>12, <2>1 DEF ScanLog
<1>13. CASE ScanLoad(n)
  <2>1. s.pc = "load" /\ s \in Scan
    BY <1>3, <1>13 DEF ScanLoad, ScanAt
  <2> DEFINE event == IF s.event = "error" /\ CanTransition(db[n].state, "error")
                      THEN "error" ELSE "fail"
             to == Transition(db[n].state, event)
             v == [db[n] EXCEPT !.state = to]
             k == [pc |-> "update", event |-> event, vol |-> v]
  <2>2. \/ /\ CanTransition(db[n].state, event)
           /\ ScanBecome(n, k)
        \/ ScanBecome(n, [s EXCEPT !.event = "fail"])
        \/ ScanEnd(n)
    BY <1>13 DEF ScanLoad
  <2>3. ASSUME CanTransition(db[n].state, event)
        PROVE  GoesOn(s, k)
    <3>1. to \in States /\ <<db[n].state, event, to>> \in Transitions
      BY <2>3, TransitionIsEdge
    <3>2. db[n].state # "none"
      BY <3>1 DEF Transitions
    <3>3. db[n] \in Row
      BY <1>1, <3>2 DEF NoRow
    <3>4. v \in Row
      BY <3>1, <3>3 DEF Row
    <3>. QED  BY <2>1, <3>4 DEF GoesOn, Scan, Tidy
  <2>4. GoesOn(s, [s EXCEPT !.event = "fail"])
    BY <2>1 DEF GoesOn, Scan, Tidy
  <2>5. faults' \in 0..MaxFaults
    BY <1>1, <1>13, FaultType DEF ScanLoad, StartupContextDone, TypeInv
  <2>. QED  BY <1>1, <1>4, <1>5, <1>13, <2>1, <2>2, <2>3, <2>4, <2>5 DEF ScanLoad
<1>14. CASE ScanUpdate(n)
  <2>1. s.pc = "update" /\ s \in Scan /\ s.vol \in Row
    BY <1>3, <1>14 DEF ScanUpdate, ScanAt, Tidy
  <2>2. GoesOn(s, [s EXCEPT !.pc = "record"])
    BY <2>1 DEF GoesOn, Scan, Tidy
  <2>. QED  BY <1>1, <1>5, <1>6, <1>14, <2>1, <2>2, ScanWrites DEF ScanUpdate
<1>15. CASE ScanRecord(n)
  <2>1. s.pc = "record" /\ s \in Scan /\ s.vol \in Row
    BY <1>3, <1>15 DEF ScanRecord, ScanAt, Tidy
  <2>. QED  BY <1>1, <1>6, <1>11, <1>15, <2>1 DEF ScanRecord
<1>16. CASE ScanImport(n)
  <2>1. s.pc = "import"
    BY <1>16 DEF ScanImport, ScanAt
  <2>2. faults' \in 0..MaxFaults
    BY <1>1, <1>16, FaultType DEF ScanImport, TypeInv
  <2>. QED  BY <1>1, <1>4, <1>16, <2>1, <2>2 DEF ScanImport
<1>. QED
  BY <1>7, <1>9, <1>10, <1>12, <1>13, <1>14, <1>15, <1>16 DEF ScanStep

-----------------------------------------------------------------------------
(* The start-up beside the requests. *)

\* At first, the start-up is about to list the rows.
LEMMA StartInit ==
    FeatureInit => TypeInv /\ StartInv
BY TypeInit, MaxRestartsAssumption
   DEF FeatureInit, StartInv, ScanState, Phases, Joined, Init

\* Requests, goroutines of the names, crashes and the shutdown leave the start-up in
\* one of its phases.
LEMMA StartStep ==
    ASSUME TypeInv, StartInv, [FeatureAny]_featureVars
    PROVE  TypeInv' /\ StartInv'
<1>1. scan \in [Names -> ScanState] /\ Phases
      /\ startup \in {"list", "join", "listbackend", "joinimports", "done"}
      /\ cephOnly \in CephOnlys /\ restarts \in 0..MaxRestarts
  BY DEF StartInv
<1>2. ASSUME startVars' = startVars, closing' = closing
      PROVE  StartInv'
  BY <1>1, <1>2 DEF startVars, StartInv, Phases, Joined
<1>3. ASSUME vars' = vars
      PROVE  TypeInv' /\ closing' = closing
  BY <1>3 DEF vars, TypeInv, TypeOK
<1>4. ASSUME NEW t \in Tasks, Step(t), UNCHANGED startVars
      PROVE  TypeInv' /\ StartInv'
  <2>1. TypeInv'
    BY <1>4, TypeStep DEF Next
  <2>2. closing' = closing
    BY <1>4 DEF Step, Lookup, Save, SetNode, Inspect, Update, Record, Begin, Call, Load,
                Backoff
  <2>. QED  BY <1>2, <1>4, <2>1, <2>2
<1>5. ASSUME NEW t \in Tasks, NEW op \in Ops, NEW n \in Names,
             NEW node \in Nodes \cup {NoNode}, Arrive(t, op, n, node), UNCHANGED startVars
      PROVE  TypeInv' /\ StartInv'
  <2>1. TypeInv'
    BY <1>5, TypeStep DEF Next
  <2>. QED  BY <1>2, <1>5, <2>1 DEF Arrive
<1>6. CASE List
  <2> DEFINE k(n) == [pc |-> "inspect", vol |-> db[n], event |-> "reconcile"]
  <2>1. /\ db \in [Names -> Row \cup {NoRow}]
        /\ UNCHANGED <<db, audit, backend, task, closing, cephOnly, restarts>>
        /\ faults' \in 0..MaxFaults
    BY <1>6, FaultType DEF List, TypeInv, TypeOK
  <2>2. TypeInv'
    BY <2>1 DEF TypeInv, TypeOK
  <2>3. closing # "drained" /\ Joined
    BY <1>1, <1>6 DEF List, Phases
  <2>4. CASE startup' = "done" /\ UNCHANGED scan
    BY <1>1, <2>1, <2>2, <2>3, <2>4 DEF StartInv, Phases, Joined
  <2>5. CASE /\ scan' = [n \in Names |-> IF Listed(n) THEN k(n) ELSE Idle]
             /\ startup' = "join"
    <3>1. ASSUME NEW n \in Names, Listed(n)
          PROVE  k(n) \in ScanState /\ k(n).pc = "inspect"
      <4>1. db[n] \in Row /\ db[n].state \in Transitional
        BY <2>1, <3>1 DEF Listed, NoRow, Transitional, InProgress, FailedStates
      <4>. QED  BY <4>1 DEF ScanState, Scan, Tidy
    <3>2. Idle \in ScanState /\ Idle.pc = "idle"
      BY DEF ScanState, Idle
    <3> HIDE DEF k
    <3>3. scan' \in [Names -> ScanState]
      BY <2>5, <3>1, <3>2
    <3>4. \A n \in Names : scan'[n].pc # "import"
      BY <2>5, <3>1, <3>2
    <3>. QED  BY <1>1, <2>1, <2>2, <2>3, <2>5, <3>3, <3>4 DEF StartInv, Phases
  <2>. QED  BY <1>6, <2>4, <2>5 DEF List
<1>7. CASE Join
  <2>1. vars' = vars /\ UNCHANGED <<scan, cephOnly, restarts>> /\ Joined
        /\ startup' \in {"listbackend", "done"}
    BY <1>7 DEF Join
  <2>2. closing # "drained"
    BY <1>1, <1>7 DEF Join, Phases
  <2>. QED  BY <1>1, <1>3, <2>1, <2>2 DEF StartInv, Phases, Joined
<1>8. CASE ListBackend
  <2> DEFINE k == [pc |-> "import", vol |-> NoRow, event |-> "reconcile"]
  <2>1. vars' = vars /\ UNCHANGED <<cephOnly, restarts>> /\ startup' = "joinimports"
        /\ scan' = [n \in Names |-> IF Present(backend[n]) THEN k ELSE Idle]
    BY <1>8 DEF ListBackend
  <2>2. closing # "drained"
    BY <1>1, <1>8 DEF ListBackend, Phases
  <2>3. /\ k \in ScanState /\ k.pc = "import"
        /\ Idle \in ScanState /\ Idle.pc = "idle"
    BY DEF ScanState, Scan, Tidy, Idle
  <2> HIDE DEF k
  <2>4. /\ scan' \in [Names -> ScanState]
        /\ \A n \in Names : scan'[n].pc \in {"idle", "import"}
    BY <2>1, <2>3
  <2>. QED  BY <1>1, <1>3, <2>1, <2>2, <2>4 DEF StartInv, Phases
<1>9. ASSUME NEW n \in Names, ScanStep(n)
      PROVE  TypeInv' /\ StartInv'
  <2>1. /\ TypeInv' /\ scan[n] # Idle
        /\ UNCHANGED <<closing, startup, cephOnly, restarts>>
    BY <1>9, ScanTypes
  <2>2. PICK k : scan' = [scan EXCEPT ![n] = k] /\ GoesOn(scan[n], k)
    BY <1>9, ScanTypes
  <2>3. startup \in {"join", "joinimports"}
    BY <1>1, <2>1 DEF Phases, Joined
  <2>4. k \in ScanState
    BY <2>2 DEF GoesOn, ScanState
  <2>5. k.pc = "idle" \/ (k.pc = "import" <=> scan[n].pc = "import")
    BY <2>2 DEF GoesOn, Idle
  <2>6. scan[n].pc # "idle"
    BY <1>1, <2>1 DEF ScanState, Scan
  <2>7. Phases'
    BY <1>1, <2>1, <2>2, <2>3, <2>5, <2>6 DEF Phases
  <2>. QED  BY <1>1, <2>1, <2>2, <2>4, <2>7 DEF StartInv
<1>10. CASE FeatureClose
  <2>1. /\ UNCHANGED <<db, audit, backend, task, faults, startVars>>
        /\ closing' \in {"canceled", "drained", "timedout"}
        /\ closing' = "drained" => startup = "done"
    BY <1>10 DEF FeatureClose
  <2>2. TypeInv'
    BY <2>1 DEF TypeInv, TypeOK
  <2>. QED  BY <1>1, <2>1, <2>2 DEF StartInv, Phases, Joined, startVars
<1>11. CASE Restart
  <2>1. /\ db' \in [Names -> Row \cup {NoRow}]
        /\ audit' \in [Names -> States \cup {"none"}]
        /\ faults' \in 0..MaxFaults
    BY <1>11 DEF Restart, TypeInv, TypeOK
  <2>2. backend' \in [Names -> BackendVolume]
    <3>1. \A n \in Names : Forgotten(backend[n]) \in BackendVolume
      BY DEF Forgotten, TypeInv, TypeOK, BackendVolume
    <3>. QED  BY <1>11, <3>1 DEF Restart
  <2>3. /\ task' \in [Tasks -> TaskState] /\ task' \in [Tasks -> Job \cup {Idle}]
        /\ closing' = "open"
    BY <1>11 DEF Restart, TaskState
  <2>4. TypeInv'
    BY <2>1, <2>2, <2>3 DEF TypeInv, TypeOK
  <2>5. /\ startup' = "list" /\ scan' \in [Names -> ScanState] /\ Joined'
        /\ cephOnly' \in CephOnlys /\ restarts' \in 0..MaxRestarts
    BY <1>1, <1>11, MaxRestartsAssumption DEF Restart, ScanState, Joined
  <2>. QED  BY <2>3, <2>4, <2>5 DEF StartInv, Phases
<1>12. CASE UNCHANGED featureVars
  BY <1>2, <1>3, <1>12 DEF featureVars
<1>. QED
  BY <1>4, <1>5, <1>6, <1>7, <1>8, <1>9, <1>10, <1>11, <1>12
     DEF FeatureAny, Progress, Start

\* The types and the phases hold whatever clients do.
LEMMA StartInvariant == RacingService => [](TypeInv /\ StartInv)
BY StartInit, StartStep, PTL DEF RacingService

\* Clients that wait for each other, or for the start-up too, are some of those.
LEMMA FeatureRaces ==
    /\ FeatureSpec => RacingService
    /\ PatientSpec => RacingService
<1>1. [FeatureNext]_featureVars => [FeatureAny]_featureVars
  BY DEF FeatureNext, FeatureAny
<1>2. [PatientNext]_featureVars => [FeatureAny]_featureVars
  BY DEF PatientNext, FeatureAny
<1>. QED  BY <1>1, <1>2, PTL DEF FeatureSpec, PatientSpec, RacingService

\* The start-up goroutine, those it runs and the rows they hold keep their types across
\* crashes and restarts.
THEOREM FeatureTypes == RacingService => []FeatureTypeOK
<1>1. ASSUME TypeInv, StartInv
      PROVE  FeatureTypeOK
  <2>1. TypeOK /\ \A n \in Names : scan[n] \in ScanState
    BY <1>1 DEF TypeInv, StartInv
  <2>2. \A n \in Names : scan[n] \in Scan \cup {Idle}
    BY <2>1 DEF ScanState
  <2>3. \A n \in Names : scan[n].pc = "inspect" => scan[n].vol.state \in Transitional
    BY <2>1 DEF ScanState, Tidy, Idle
  <2>. QED  BY <1>1, <2>1, <2>2, <2>3 DEF FeatureTypeOK, StartInv
<1>. QED  BY <1>1, StartInvariant, PTL

\* Close reports the goroutines gone only when none of the start-up is left.
THEOREM DrainedIsReconciled == RacingService => []DrainedMeansReconciled
<1>1. StartInv => DrainedMeansReconciled
  BY DEF StartInv, Phases, Joined, DrainedMeansReconciled
<1>. QED  BY <1>1, StartInvariant, PTL


-----------------------------------------------------------------------------
(* What the goroutine of a name does to the row, and what it goes on with. *)

\* It leaves the row alone, or writes its copy.
Outcome(n, v) ==
    \/ v = db[n]
    \/ scan[n].pc \in {"write", "update"} /\ v = scan[n].vol

\* It goes beyond the inspection for a volume that the backend has.  The copy is what
\* the backend has, or a failure of what the row shows.
Follows(n, k) ==
    /\ k.pc # "import"
    /\ k.pc # "idle" /\ ScanAt(n, "inspect") => Found(n)
    /\ k.pc = "align" => k.vol = [state |-> "available", node |-> backend[n].node]
    /\ k.pc = "write" => ScanAt(n, "align") /\ k.vol = scan[n].vol
    /\ k.pc = "update" =>
          /\ \E event \in {"error", "fail"} :
                <<db[n].state, event, k.vol.state>> \in Transitions
          /\ k.vol.node = db[n].node

\* The eight steps come down to these.
LEMMA ScanEffect ==
    ASSUME TypeInv, StartInv, NEW n \in Names, ScanStep(n)
    PROVE  /\ \E v : Outcome(n, v) /\ db' = [db EXCEPT ![n] = v]
           /\ \E k : Follows(n, k) /\ scan' = [scan EXCEPT ![n] = k]
<1> DEFINE s == scan[n]
           Rows == \E v : Outcome(n, v) /\ db' = [db EXCEPT ![n] = v]
           Goes == \E k : Follows(n, k) /\ scan' = [scan EXCEPT ![n] = k]
<1>1. UNCHANGED db => Rows
  <2>1. db = [db EXCEPT ![n] = db[n]]
    BY DEF TypeInv, TypeOK
  <2>. QED  BY <2>1 DEF Outcome
<1>2. ASSUME NEW v, Outcome(n, v), Write(n, v) \/ WriteFails(n, v)
      PROVE  Rows
  BY <1>1, <1>2 DEF Write, WriteFails
<1>3. ASSUME ScanEnd(n)
      PROVE  Goes
  <2>1. Follows(n, Idle)
    BY DEF Follows, Idle
  <2>. QED  BY <1>3, <2>1 DEF ScanEnd, ScanBecome
<1>4. ASSUME NEW k, ScanBecome(n, k), Follows(n, k)
      PROVE  Goes
  BY <1>4 DEF ScanBecome
<1>5. s.pc # "idle" => s \in Scan /\ Tidy(s)
  BY ScanActive
<1>6. ASSUME s \in Scan, s.pc # "inspect", NEW e
      PROVE  /\ Follows(n, [s EXCEPT !.pc = "log"])
             /\ Follows(n, [s EXCEPT !.pc = "record"])
             /\ s.pc = "load" => Follows(n, [s EXCEPT !.event = e])
             /\ Follows(n, [s EXCEPT !.pc = "load", !.event = e])
  BY <1>6 DEF Follows, Scan, ScanAt
<1>7. ASSUME AfterEvent(n), s \in Scan, s.pc # "inspect"
      PROVE  Goes
  BY <1>3, <1>4, <1>6, <1>7 DEF AfterEvent
<1>8. CASE ScanInspect(n)
  <2> DEFINE k == [s EXCEPT !.pc = "align",
                            !.vol = [state |-> "available", node |-> backend[n].node]]
             f == [s EXCEPT !.pc = "load", !.event = "error"]
  <2>1. s \in Scan /\ UNCHANGED db
    BY <1>5, <1>8 DEF ScanInspect, ScanAt, vars
  <2>2. Found(n) => Follows(n, k) /\ Follows(n, f)
    BY <2>1 DEF Follows, Scan
  <2>3. \/ ScanEnd(n)
        \/ Found(n) /\ ScanBecome(n, f)
        \/ Found(n) /\ ScanBecome(n, k)
    BY <1>8 DEF ScanInspect, Target
  <2> HIDE DEF k, f
  <2>. QED  BY <1>1, <1>3, <1>4, <2>1, <2>2, <2>3
<1>10. CASE ScanAlign(n)
  <2>1. s \in Scan /\ s.pc = "align"
    BY <1>5, <1>10 DEF ScanAlign, ScanAt
  <2>2. Follows(n, [s EXCEPT !.pc = "write"])
    BY <2>1 DEF Follows, Scan, ScanAt
  <2>. QED  BY <1>1, <1>3, <1>4, <1>10, <2>2 DEF ScanAlign
<1>11. CASE ScanWrite(n)
  <2>1. s \in Scan /\ s.pc = "write"
    BY <1>5, <1>11 DEF ScanWrite, ScanAt
  <2>2. Outcome(n, s.vol)
    BY <2>1 DEF Outcome
  <2>. QED  BY <1>2, <1>4, <1>6, <1>11, <2>1, <2>2 DEF ScanWrite
<1>12. CASE ScanLog(n)
  BY <1>1, <1>3, <1>12 DEF ScanLog
<1>13. CASE ScanLoad(n)
  <2>1. s \in Scan /\ s.pc = "load" /\ UNCHANGED db
    BY <1>5, <1>13 DEF ScanLoad, ScanAt
  <2> DEFINE event == IF s.event = "error" /\ CanTransition(db[n].state, "error")
                      THEN "error" ELSE "fail"
             to == Transition(db[n].state, event)
             v == [db[n] EXCEPT !.state = to]
             k == [pc |-> "update", event |-> event, vol |-> v]
  <2>2. \/ /\ CanTransition(db[n].state, event)
           /\ ScanBecome(n, k)
        \/ ScanBecome(n, [s EXCEPT !.event = "fail"])
        \/ ScanEnd(n)
    BY <1>13 DEF ScanLoad
  <2>3. ASSUME CanTransition(db[n].state, event)
        PROVE  Follows(n, k)
    <3>1. <<db[n].state, event, to>> \in Transitions /\ event \in {"error", "fail"}
      BY <2>3, TransitionIsEdge
    <3>2. v.state = to /\ v.node = db[n].node
      BY DEF TypeInv, TypeOK, Row, NoRow
    <3>3. k.pc = "update" /\ k.vol = v
      OBVIOUS
    <3> HIDE DEF k, v, to, event
    <3>. QED  BY <2>1, <3>1, <3>2, <3>3 DEF Follows, ScanAt
  <2>4. Follows(n, [s EXCEPT !.event = "fail"])
    BY <1>6, <2>1
  <2> HIDE DEF k, event
  <2>. QED  BY <1>1, <1>3, <1>4, <2>1, <2>2, <2>3, <2>4
<1>14. CASE ScanUpdate(n)
  <2>1. s \in Scan /\ s.pc = "update"
    BY <1>5, <1>14 DEF ScanUpdate, ScanAt
  <2>2. Outcome(n, s.vol)
    BY <2>1 DEF Outcome
  <2>. QED  BY <1>2, <1>4, <1>6, <1>7, <1>14, <2>1, <2>2 DEF ScanUpdate
<1>15. CASE ScanRecord(n)
  <2>1. s \in Scan /\ s.pc = "record"
    BY <1>5, <1>15 DEF ScanRecord, ScanAt
  <2>. QED  BY <1>1, <1>7, <1>15, <2>1 DEF ScanRecord
<1>16. CASE ScanImport(n)
  BY <1>1, <1>3, <1>16 DEF ScanImport
<1>. QED
  BY <1>8, <1>10, <1>11, <1>12, <1>13, <1>14, <1>15, <1>16 DEF ScanStep

-----------------------------------------------------------------------------
(* Requests and the reconciliation in turns. *)

\* The moves of a row's owner keep the row of a volume that is there true.
LEMMA MoveIsTrusted ==
    ASSUME NEW row \in Row \cup {NoRow}, NEW v \in Row, NEW b \in BackendVolume,
           WellFormed(b), Trusted(row, b), RowMove(row, v, b)
    PROVE  Trusted(v, b)
BY MoveIsTrue, MoveIsNamed DEF Trusted

\* After a restart no task is left, and the storage is as well formed as it was.
LEMMA AllIdle ==
    ASSUME \A t \in Tasks : task'[t] = Idle, \A n \in Names : WellFormed(backend'[n])
    PROVE  SerialInv'
BY DEF SerialInv, HandlersApart, OwnersApart, Handler, Worker, Engaged, Idle

\* At first the backend is empty.
LEMMA PatientInit ==
    FeatureInit => SerialInv /\ PatientInv
BY SerialInit DEF FeatureInit, Init, PatientInv, Trusted, Absent, Present

\* The start-up finds nothing in the backend; the rows of what requests put there
\* later are true to it, until a crash empties it again.
LEMMA PatientStep ==
    ASSUME TypeInv, TypeInv', StartInv, SerialInv, PatientInv, [PatientNext]_featureVars
    PROVE  SerialInv' /\ PatientInv'
<1>1. /\ \A n \in Names : /\ db[n] \in Row \cup {NoRow} /\ backend[n] \in BackendVolume
                          /\ WellFormed(backend[n])
                          /\ Trusted(db[n], backend[n])
      /\ startup # "done" => /\ \A t \in Tasks : task[t] = Idle
                             /\ \A n \in Names : ~Present(backend[n])
  BY DEF TypeInv, TypeOK, SerialInv, PatientInv
<1>2. ASSUME UNCHANGED <<backend, task>>, startup # "done"
      PROVE  SerialInv' /\ PatientInv'
  BY <1>1, <1>2, AllIdle DEF PatientInv, Trusted
<1>3. ASSUME UNCHANGED <<db, backend, task, startup>>
      PROVE  SerialInv' /\ PatientInv'
  <2>1. SerialInv'
    BY <1>3 DEF SerialInv, HandlersApart, OwnersApart, Handler, Worker
  <2>. QED  BY <1>1, <1>3, <2>1 DEF PatientInv
<1>4. ASSUME NEW t \in Tasks, Step(t), UNCHANGED startVars
      PROVE  SerialInv' /\ PatientInv'
  <2>1. task[t].pc # "idle"
    BY <1>4 DEF Step, Lookup, Save, SetNode, Inspect, Update, Record, Begin, Call, Load,
                Backoff, At
  <2>2. startup = "done"
    BY <1>1, <2>1 DEF Idle
  <2>3. ASSUME NEW n \in Names
        PROVE  Trusted(db'[n], backend'[n])
    <3>1. CASE /\ db[n].state \in Transitional /\ db'[n] = db[n]
               /\ RowNames(db[n], backend[n]) => RowNames(db[n], backend'[n])
      <4>1. RowNames(db[n], backend[n])
        BY <1>1 DEF Trusted, RowNames, Present
      <4>2. RowIsTrue(db[n], backend'[n])
        BY <3>1 DEF RowIsTrue, Transitional, InProgress, FailedStates
      <4>. QED  BY <3>1, <4>1, <4>2 DEF Trusted
    <3>. QED  BY <1>1, <1>4, <3>1, StepMoves, MoveIsTrusted
  <2>4. SerialInv'
    BY <1>4, SerialTask
  <2>. QED  BY <1>4, <2>2, <2>3, <2>4 DEF PatientInv, startVars
<1>5. ASSUME NEW t \in Tasks, NEW op \in Ops, NEW n \in Names,
             NEW node \in Nodes \cup {NoNode}, startup = "done", Orderly(op, n),
             Arrive(t, op, n, node), UNCHANGED startVars
      PROVE  SerialInv' /\ PatientInv'
  <2>1. SerialInv'
    BY <1>5, SerialStep DEF SerialNext
  <2>. QED  BY <1>1, <1>5, <2>1 DEF PatientInv, Arrive, startVars
<1>6. CASE List \/ Join \/ ListBackend
  BY <1>2, <1>6 DEF List, Join, ListBackend, vars
<1>7. ASSUME NEW n \in Names, ScanStep(n)
      PROVE  SerialInv' /\ PatientInv'
  <2>1. UNCHANGED <<backend, task, startup>> /\ scan[n] # Idle
    BY <1>7, ScanTypes
  <2>2. startup # "done"
    BY <2>1 DEF StartInv, Phases, Joined
  <2>. QED  BY <1>2, <2>1, <2>2
<1>8. CASE FeatureClose
  BY <1>3, <1>8 DEF FeatureClose, startVars
<1>9. CASE Restart
  <2>1. \A t \in Tasks : task'[t] = Idle
    BY <1>9 DEF Restart
  <2>2. ASSUME NEW n \in Names
        PROVE  WellFormed(backend'[n]) /\ ~Present(backend'[n])
    BY <1>1, <1>9 DEF Restart, Forgotten, WellFormed, Present, BackendVolume
  <2>3. SerialInv'
    BY <2>1, <2>2, AllIdle
  <2>. QED  BY <2>1, <2>2, <2>3 DEF PatientInv, Trusted
<1>10. CASE UNCHANGED featureVars
  BY <1>3, <1>10 DEF featureVars, vars, startVars
<1>. QED
  BY <1>4, <1>5, <1>6, <1>7, <1>8, <1>9, <1>10 DEF PatientNext, Progress, Start

\* Their invariants hold together.
LEMMA PatientInvariant == PatientSpec => [](SerialInv /\ PatientInv)
<1>1. /\ TypeInv /\ TypeInv' /\ StartInv /\ SerialInv /\ PatientInv
      /\ [PatientNext]_featureVars
      => SerialInv' /\ PatientInv'
  BY PatientStep
<1>. QED  BY <1>1, PatientInit, FeatureRaces, StartInvariant, PTL DEF PatientSpec

\* Whatever rows earlier lives of the process left behind, the row of a volume that
\* the backend has shows it as it is.
THEOREM KnownVolumesAreTrue == PatientSpec => []KnownAreTrue
<1>1. PatientInv => KnownAreTrue
  BY DEF PatientInv, Trusted, RowIsTrue, KnownAreTrue
<1>. QED  BY <1>1, PatientInvariant, PTL

\* Nor does such a row come to name another node than the one a volume is mounted on.
THEOREM MountsAreNamedAcrossRestarts == PatientSpec => []MountIsNamed
<1>1. PatientInv => MountIsNamed
  BY DEF PatientInv, Trusted, RowNames, Present, MountIsNamed
<1>. QED  BY <1>1, PatientInvariant, PTL

\* A volume never has two goroutines that may call the backend, also not one for what
\* a crash left in progress beside one of this life.
THEOREM OneIsAtWorkAcrossRestarts == PatientSpec => []OneAtWork
<1>1. SerialInv => OneAtWork
  BY DEF SerialInv, OwnersApart, Engaged, OneAtWork, AtWork
<1>. QED  BY <1>1, PatientInvariant, PTL

-----------------------------------------------------------------------------
(* Any clients, beside the start-up and across restarts. *)

\* What the goroutine of a name is about to write names the node that it must.
Carries(s) == s.pc \in {"align", "write", "update"} => NodeOK(s.vol)

CarriesInv == \A n \in Names : Carries(scan[n])

\* Neither the start-up nor a restart makes a row lose the node that it needs.
LEMMA CarriesStep ==
    ASSUME TypeInv, StartInv, NodeInv, CarriesInv, [FeatureAny]_featureVars
    PROVE  NodeInv' /\ CarriesInv'
<1>1. /\ db \in [Names -> Row \cup {NoRow}] /\ scan \in [Names -> ScanState]
      /\ \A n \in Names : NodeOK(db[n]) /\ Carries(scan[n])
  BY DEF TypeInv, TypeOK, StartInv, NodeInv, CarriesInv
<1>2. Carries(Idle) /\ NodeOK(NoRow)
  BY DEF Carries, Idle, NodeOK, NoRow, HoldsNode
<1>3. UNCHANGED <<db, task>> => NodeInv'
  BY DEF NodeInv, Copying, NodeOK
<1>4. UNCHANGED scan => CarriesInv'
  BY DEF CarriesInv
<1>5. ASSUME [Next]_vars, UNCHANGED startVars
      PROVE  NodeInv' /\ CarriesInv'
  BY <1>4, <1>5, NodeStep DEF startVars
<1>6. CASE List
  <2>1. \A n \in Names : Carries([pc |-> "inspect", vol |-> db[n], event |-> "reconcile"])
    BY DEF Carries
  <2>2. \A n \in Names : Carries(scan'[n])
    BY <1>1, <1>2, <1>6, <2>1 DEF List
  <2>. QED  BY <1>3, <1>6, <2>2 DEF List, CarriesInv
<1>7. CASE ListBackend
  <2>1. Carries([pc |-> "import", vol |-> NoRow, event |-> "reconcile"])
    BY DEF Carries
  <2>2. \A n \in Names : Carries(scan'[n])
    BY <1>2, <1>7, <2>1 DEF ListBackend
  <2>. QED  BY <1>3, <1>7, <2>2 DEF ListBackend, vars, CarriesInv
<1>8. CASE Join \/ FeatureClose \/ UNCHANGED featureVars
  BY <1>3, <1>4, <1>8 DEF Join, FeatureClose, featureVars, vars, startVars
<1>9. ASSUME NEW n \in Names, ScanStep(n)
      PROVE  NodeInv' /\ CarriesInv'
  <2>1. PICK v : Outcome(n, v) /\ db' = [db EXCEPT ![n] = v]
    BY <1>9, ScanEffect
  <2>2. PICK k : Follows(n, k) /\ scan' = [scan EXCEPT ![n] = k]
    BY <1>9, ScanEffect
  <2>3. NodeOK(v)
    BY <1>1, <1>2, <2>1 DEF Outcome, Carries
  <2>4. Carries(k)
    <3>1. k.pc = "update" => NodeOK(k.vol)
      BY <1>1, <2>2, NodeEdges DEF Follows, NodeOK
    <3>2. k.pc = "align" => NodeOK(k.vol)
      BY <2>2 DEF Follows, NodeOK, HoldsNode
    <3>3. k.pc = "write" => NodeOK(k.vol)
      BY <1>1, <2>2 DEF Follows, Carries, ScanAt
    <3>. QED  BY <3>1, <3>2, <3>3 DEF Carries
  <2>5. \A m \in Names : NodeOK(db'[m]) /\ Carries(scan'[m])
    BY <1>1, <2>1, <2>2, <2>3, <2>4
  <2>6. UNCHANGED task
    BY <1>9, ScanTypes
  <2>. QED  BY <2>5, <2>6 DEF NodeInv, Copying, CarriesInv
<1>10. CASE Restart
  <2>1. \A n \in Names : NodeOK(db'[n]) /\ scan'[n] = Idle
    BY <1>1, <1>2, <1>10 DEF Restart
  <2>2. \A t \in Tasks : task'[t] = Idle
    BY <1>10 DEF Restart
  <2>. QED  BY <1>2, <2>1, <2>2 DEF NodeInv, Copying, Idle, CarriesInv
<1>. QED
  BY <1>5, <1>6, <1>7, <1>8, <1>9, <1>10 DEF FeatureAny, Progress, Start, Next

\* Crashes at any point, the alignment of rows with the storage and the failing of
\* interrupted operations leave no row without a node in a state that needs one.
THEOREM NodesSurviveRestarts == RacingService => []NodeRecorded
<1>1. FeatureInit => NodeInv /\ CarriesInv
  <2>1. Carries(Idle)
    BY DEF Carries, Idle
  <2>. QED  BY <2>1, NodeInit DEF FeatureInit, CarriesInv
<1>2. TypeInv /\ StartInv /\ NodeInv /\ CarriesInv /\ [FeatureAny]_featureVars
      => NodeInv' /\ CarriesInv'
  BY CarriesStep
<1>3. NodeInv => NodeRecorded
  BY DEF NodeInv, NodeOK, NodeRecorded
<1>. QED  BY <1>1, <1>2, <1>3, StartInvariant, PTL DEF RacingService

\* A step of the feature is one of the service, or leaves its tasks to their work: it
\* is one of the start-up, closes the feature, or restarts.
LEMMA FeatureSteps ==
    ASSUME TypeInv, StartInv, [FeatureAny]_featureVars
    PROVE  \/ [Next]_vars /\ UNCHANGED startVars
           \/ /\ UNCHANGED <<task, closing>>
              /\ \/ UNCHANGED db /\ (List \/ Join \/ ListBackend)
                 \/ \E n \in Names : ScanStep(n)
           \/ FeatureClose
           \/ Restart
<1>1. List \/ Join \/ ListBackend => UNCHANGED <<db, task, closing>>
  BY DEF List, Join, ListBackend, vars
<1>2. \A n \in Names : ScanStep(n) => UNCHANGED <<task, closing>>
  BY ScanTypes
<1>. QED  BY <1>1, <1>2 DEF FeatureAny, Progress, Start, Next, featureVars

\* When Close reports all goroutines gone, none of a request is at work either, until
\* the process starts again.
THEOREM DrainedIsQuietAcrossRestarts == RacingService => []DrainedMeansQuiet
<1>1. FeatureInit => DrainedMeansQuiet
  BY DEF FeatureInit, Init, DrainedMeansQuiet
<1>2. ASSUME TypeInv, StartInv, DrainedMeansQuiet, [FeatureAny]_featureVars
      PROVE  DrainedMeansQuiet'
  <2>1. UNCHANGED <<task, closing>> => DrainedMeansQuiet'
    BY <1>2 DEF DrainedMeansQuiet, Worker, At
  <2>2. FeatureClose => DrainedMeansQuiet'
    BY DEF FeatureClose, DrainedMeansQuiet, Worker, At
  <2>3. Restart => DrainedMeansQuiet'
    BY DEF Restart, DrainedMeansQuiet
  <2>. QED  BY <1>2, <2>1, <2>2, <2>3, FeatureSteps, DrainedStep
<1>. QED  BY <1>1, <1>2, StartInvariant, PTL DEF RacingService

\* No step but a restart removes a row.
LEMMA FeatureRowsStay ==
    ASSUME TypeInv, StartInv, [FeatureAny]_featureVars, ~Restart
    PROVE  \A n \in Names : db[n] # NoRow => db'[n] # NoRow
<1>1. ASSUME NEW n \in Names, ScanStep(n)
      PROVE  \A m \in Names : db[m] # NoRow => db'[m] # NoRow
  <2>1. PICK v : Outcome(n, v) /\ db' = [db EXCEPT ![n] = v]
    BY <1>1, ScanEffect
  <2>2. scan[n].pc \in {"write", "update"} => scan[n].vol \in Row
    BY ScanActive DEF Tidy
  <2>3. db[n] # NoRow => v # NoRow
    BY <2>1, <2>2, NoRowIsNoState DEF Outcome
  <2>. QED  BY <2>1, <2>3 DEF TypeInv, TypeOK
<1>2. ASSUME NEW t \in Tasks, Step(t)
      PROVE  \A n \in Names : db[n] # NoRow => db'[n] # NoRow
  BY <1>2, StepCases, StepWrites, RowsStay
<1>3. UNCHANGED db => \A n \in Names : db[n] # NoRow => db'[n] # NoRow
  OBVIOUS
<1>4. [Next]_vars => UNCHANGED db \/ \E t \in Tasks : Step(t)
  BY DEF Next, Arrive, Close, vars
<1>5. FeatureClose => UNCHANGED db
  BY DEF FeatureClose
<1>. QED  BY <1>1, <1>2, <1>3, <1>4, <1>5, FeatureSteps

\* So the creation of a volume, and its only one, keeps its row.
LEMMA CreatorSurvives ==
    ASSUME TypeInv, StartInv, CreatorInv, [FeatureAny]_featureVars
    PROVE  CreatorInv'
<1>1. ASSUME UNCHANGED task, ~Restart
      PROVE  CreatorInv'
  BY <1>1, FeatureRowsStay DEF CreatorInv, OneCreator, Creating
<1>2. FeatureClose => UNCHANGED task
  BY DEF FeatureClose
<1>3. ASSUME Restart
      PROVE  CreatorInv'
  <2>1. \A t \in Tasks : task'[t] = Idle
    BY <1>3 DEF Restart
  <2>. QED  BY <2>1 DEF CreatorInv, OneCreator, Creating, Idle
<1>4. [Next]_vars => CreatorInv'
  BY CreatorStep
<1>. QED  BY <1>1, <1>2, <1>3, <1>4, FeatureSteps

\* One goroutine provisions a name, however many clients create it beside the start-up
\* and over however many crashes.
THEOREM OneTaskCreatesAcrossRestarts == RacingService => []OneCreator
<1>1. FeatureInit => CreatorInv
  BY CreatorInit DEF FeatureInit
<1>2. TypeInv /\ StartInv /\ CreatorInv /\ [FeatureAny]_featureVars => CreatorInv'
  BY CreatorSurvives
<1>3. CreatorInv => OneCreator
  BY DEF CreatorInv
<1>. QED  BY <1>1, <1>2, <1>3, StartInvariant, PTL DEF RacingService

-----------------------------------------------------------------------------
(* DeletedMeansGone and NothingToImport. *)

\* The goroutine of a name goes beyond its inspection only for a volume that has been
\* provisioned, so that its row is there and nobody provisions it again.
Provisioned(n) ==
    scan[n].pc \notin {"idle", "inspect"} =>
        /\ db[n] # NoRow
        /\ scan[n].pc # "import" => \A t \in Tasks : ~Provisioning(t, n)

\* What it writes is not that the volume is deleted.
Spared(n) == scan[n].pc \in {"write", "align", "update"} => scan[n].vol.state # "deleted"

ProvisionInv == GoneInv /\ \A n \in Names : Provisioned(n) /\ Spared(n)

\* Nobody begins to provision a name that has a row: that is the insert's to do.
LEMMA ProvisioningBegins ==
    ASSUME TypeInv, [Next]_vars, NEW n \in Names, NEW t \in Tasks,
           db[n] # NoRow, Provisioning(t, n)'
    PROVE  Provisioning(t, n)
<1> USE DEF Provisioning, Creating
<1>1. CASE UNCHANGED task
  BY <1>1
<1>2. ASSUME NEW u \in Tasks, NEW op \in Ops, NEW m \in Names,
             NEW node \in Nodes \cup {NoNode}, Arrive(u, op, m, node)
      PROVE  Provisioning(t, n)
  <2>1. task'[u].pc = "lookup" /\ \A x \in Tasks \ {u} : task'[x] = task[x]
    BY <1>2, BecomeEffect DEF Arrive
  <2>. QED  BY <2>1
<1>3. ASSUME NEW u \in Tasks, Step(u)
      PROVE  Provisioning(t, n)
  <2>1. /\ task[u] \in Job /\ Coherent(task[u])
        /\ \A x \in Tasks \ {u} : task'[x] = task[x]
        /\ StepCase(u)
    BY <1>3, StepCases
  <2>2. CASE t # u
    BY <2>1, <2>2
  <2>3. ASSUME t = u, ~Provisioning(t, n)
        PROVE  FALSE
    <3>1. CASE Ends(t)      BY <3>1 DEF Ends, Idle
    <3>2. CASE Finds(t)     BY <3>2 DEF Finds, Applied, Same
    <3>3. CASE Writes(t)    BY <2>1, <2>3, <3>3 DEF Writes, Applied, Same, Coherent
    <3>4. CASE Takes(t)     BY <2>1, <2>3, <3>4 DEF Takes, Same, Coherent
    <3>5. CASE Persists(t)  BY <2>3, <3>5 DEF Persists, Same
    <3>6. CASE Loops(t)     BY <2>1, <2>3, <3>6 DEF Loops, Same, Coherent
    <3>7. CASE Calls(t)     BY <2>1, <2>3, <3>7 DEF Calls, Same, Coherent
    <3>8. CASE Loads(t)     BY <2>3, <3>8 DEF Loads, Applied, Same
    <3>. QED  BY <2>1, <2>3, <3>1, <3>2, <3>3, <3>4, <3>5, <3>6, <3>7, <3>8 DEF StepCase
  <2>. QED  BY <2>2, <2>3
<1>. QED  BY <1>1, <1>2, <1>3 DEF Next, Close, vars

\* Steps of the requests.
LEMMA ProvisionTask ==
    ASSUME TypeInv, StartInv, ProvisionInv, [Next]_vars, UNCHANGED startVars
    PROVE  ProvisionInv'
<1>1. GoneInv'
  BY GoneStep DEF ProvisionInv
<1>2. ASSUME NEW n \in Names
      PROVE  Spared(n)'
  BY DEF ProvisionInv, Spared, startVars
<1>3. ASSUME NEW n \in Names, db[n] # NoRow
      PROVE  db'[n] # NoRow
  <2>1. CASE UNCHANGED db
    BY <1>3, <2>1
  <2>2. ASSUME NEW t \in Tasks, Step(t)
        PROVE  db'[n] # NoRow
    BY <1>3, <2>2, StepCases, StepWrites, RowsStay
  <2>. QED  BY <2>1, <2>2 DEF Next, Arrive, Close, vars
<1>4. ASSUME NEW n \in Names, NEW t \in Tasks, db[n] # NoRow, Provisioning(t, n)'
      PROVE  Provisioning(t, n)
  BY <1>4, ProvisioningBegins
<1>5. ASSUME NEW n \in Names
      PROVE  Provisioned(n)'
  BY <1>3, <1>4 DEF ProvisionInv, Provisioned, startVars
<1>. QED  BY <1>1, <1>2, <1>5 DEF ProvisionInv

\* Steps of the start-up: it writes only what nobody provisions.
LEMMA ProvisionScan ==
    ASSUME TypeInv, StartInv, ProvisionInv, NEW n \in Names, ScanStep(n)
    PROVE  ProvisionInv'
<1>1. UNCHANGED <<backend, task>> /\ scan[n] # Idle
  BY ScanTypes
<1>2. PICK v : Outcome(n, v) /\ db' = [db EXCEPT ![n] = v]
  BY ScanEffect
<1>3. PICK k : Follows(n, k) /\ scan' = [scan EXCEPT ![n] = k]
  BY ScanEffect
<1>4. /\ db \in [Names -> Row \cup {NoRow}] /\ scan \in [Names -> ScanState]
      /\ scan[n] \in Scan /\ Tidy(scan[n])
      /\ Untouched(n) /\ Reserved(n) /\ Gone(n) /\ Provisioned(n) /\ Spared(n)
  BY <1>1 DEF TypeInv, TypeOK, StartInv, ScanState, ProvisionInv, GoneInv
<1>5. db[n] # NoRow => v # NoRow
  BY <1>2, <1>4, NoRowIsNoState DEF Outcome, Tidy
<1>6. v = db[n] \/ (db[n] # NoRow /\ v.state # "deleted" /\ \A t \in Tasks : ~Provisioning(t, n))
  BY <1>2, <1>4 DEF Outcome, Provisioned, Spared
<1>7. k.pc \notin {"idle", "inspect"} =>
          db[n] # NoRow /\ k.pc # "import" /\ \A t \in Tasks : ~Provisioning(t, n)
  <2>1. ASSUME ScanAt(n, "inspect"), k.pc # "idle"
        PROVE  db[n] # NoRow /\ \A t \in Tasks : ~Provisioning(t, n)
    <3>1. Present(backend[n])
      BY <1>3, <2>1 DEF Follows, Found, GetVolume
    <3>. QED  BY <1>4, <3>1 DEF Untouched, Reserved
  <2>2. scan[n].pc \notin {"idle", "inspect", "import"} =>
            db[n] # NoRow /\ \A t \in Tasks : ~Provisioning(t, n)
    BY <1>4 DEF Provisioned
  <2>3. k.pc # "import" /\ (scan[n].pc = "import" => k.pc = "idle")
    <3>1. PICK l : scan' = [scan EXCEPT ![n] = l] /\ GoesOn(scan[n], l)
      BY ScanTypes
    <3>2. l = k
      BY <1>3, <1>4, <3>1
    <3>. QED  BY <1>3, <3>1, <3>2 DEF GoesOn, Follows, Idle
  <2>4. scan[n].pc # "idle"
    BY <1>4 DEF Scan
  <2>. QED  BY <2>1, <2>2, <2>3, <2>4 DEF ScanAt
<1>8. k.pc \in {"write", "align", "update"} => k.vol.state # "deleted"
  <2>1. k.pc = "update" => k.vol.state # "deleted"
    BY <1>3, EarlyEdges DEF Follows
  <2>. QED  BY <1>3, <1>4, <2>1 DEF Follows, Spared, ScanAt
<1>9. db'[n] = v /\ scan'[n] = k
  BY <1>2, <1>3, <1>4
<1>10. (Untouched(n) /\ Reserved(n) /\ Gone(n))'
  <2>1. Untouched(n)'
    BY <1>1, <1>4, <1>5, <1>9 DEF Untouched, Past
  <2>2. Reserved(n)'
    BY <1>1, <1>4, <1>6, <1>9 DEF Reserved, Provisioning, Creating, Copying, Past
  <2>3. Gone(n)'
    BY <1>1, <1>4, <1>6, <1>9 DEF Gone, Claims, Past
  <2>. QED  BY <2>1, <2>2, <2>3
<1>11. Provisioned(n)' /\ Spared(n)'
  BY <1>1, <1>5, <1>7, <1>8, <1>9 DEF Provisioned, Spared, Provisioning, Creating
<1>12. ASSUME NEW m \in Names, m # n
       PROVE  (Untouched(m) /\ Reserved(m) /\ Gone(m) /\ Provisioned(m) /\ Spared(m))'
  <2>1. db'[m] = db[m] /\ scan'[m] = scan[m]
    BY <1>2, <1>3, <1>4, <1>12
  <2>2. Untouched(m) /\ Reserved(m) /\ Gone(m) /\ Provisioned(m) /\ Spared(m)
    BY DEF ProvisionInv, GoneInv
  <2>. QED  BY <1>1, <2>1, <2>2
            DEF Untouched, Reserved, Gone, Provisioned, Spared, Past, Claims, Provisioning,
                Creating, Copying
<1>. QED  BY <1>10, <1>11, <1>12 DEF ProvisionInv, GoneInv

\* All steps.
LEMMA ProvisionStep ==
    ASSUME TypeInv, StartInv, ProvisionInv, [FeatureAny]_featureVars
    PROVE  ProvisionInv'
<1>1. ASSUME UNCHANGED <<db, backend, task, scan>>
      PROVE  ProvisionInv'
  BY <1>1 DEF ProvisionInv, GoneInv, Untouched, Reserved, Gone, Provisioned, Spared, Past,
              Claims, Provisioning, Creating, Copying
<1>2. ASSUME UNCHANGED <<db, backend, task>>,
             \A n \in Names : \/ scan'[n].pc \in {"idle", "inspect"}
                              \/ scan'[n].pc = "import" /\ Present(backend[n])
      PROVE  ProvisionInv'
  <2>1. GoneInv'
    BY <1>2 DEF ProvisionInv, GoneInv, Untouched, Reserved, Gone, Past, Claims,
                Provisioning, Creating, Copying
  <2>2. \A n \in Names : Present(backend[n]) => db[n] # NoRow
    BY DEF ProvisionInv, GoneInv, Untouched
  <2>. QED  BY <1>2, <2>1, <2>2 DEF ProvisionInv, Provisioned, Spared
<1>3. CASE List
  <2>1. UNCHANGED <<db, backend, task>>
    BY <1>3 DEF List
  <2>2. CASE UNCHANGED scan
    BY <1>1, <2>1, <2>2
  <2>3. CASE ~UNCHANGED scan
    <3> DEFINE k(n) == [pc |-> "inspect", vol |-> db[n], event |-> "reconcile"]
    <3>1. scan' = [n \in Names |-> IF Listed(n) THEN k(n) ELSE Idle]
      BY <1>3, <2>3 DEF List
    <3>2. Idle.pc = "idle" /\ \A n \in Names : k(n).pc = "inspect"
      BY DEF Idle
    <3> HIDE DEF k
    <3>3. \A n \in Names : scan'[n].pc \in {"idle", "inspect"}
      BY <3>1, <3>2
    <3>. QED  BY <1>2, <2>1, <3>3
  <2>. QED  BY <2>2, <2>3
<1>4. CASE ListBackend
  <2> DEFINE k == [pc |-> "import", vol |-> NoRow, event |-> "reconcile"]
  <2>1. scan' = [n \in Names |-> IF Present(backend[n]) THEN k ELSE Idle]
    BY <1>4 DEF ListBackend
  <2>2. Idle.pc = "idle" /\ k.pc = "import"
    BY DEF Idle
  <2> HIDE DEF k
  <2>3. \A n \in Names : \/ scan'[n].pc \in {"idle", "inspect"}
                         \/ scan'[n].pc = "import" /\ Present(backend[n])
    BY <2>1, <2>2
  <2>. QED  BY <1>2, <1>4, <2>3 DEF ListBackend, vars
<1>5. CASE Join \/ FeatureClose
  BY <1>1, <1>5 DEF Join, FeatureClose, vars, startVars
<1>6. CASE Restart
  <2>1. /\ \A t \in Tasks : task'[t] = Idle
        /\ \A n \in Names : scan'[n] = Idle /\ ~Present(backend'[n])
    BY <1>6 DEF Restart, Forgotten, Present, TypeInv, TypeOK, BackendVolume
  <2>. QED  BY <2>1 DEF ProvisionInv, GoneInv, Untouched, Reserved, Gone, Provisioned,
                        Spared, Past, Claims, Provisioning, Creating, Idle
<1>. QED
  BY <1>3, <1>4, <1>5, <1>6, ProvisionTask, ProvisionScan, FeatureSteps

\* They are never violated.
LEMMA ProvisionInvariant == RacingService => []ProvisionInv
<1>1. FeatureInit => ProvisionInv
  BY GoneInit DEF FeatureInit, ProvisionInv, Provisioned, Spared, Idle
<1>2. TypeInv /\ StartInv /\ ProvisionInv /\ [FeatureAny]_featureVars => ProvisionInv'
  BY ProvisionStep
<1>. QED  BY <1>1, <1>2, StartInvariant, PTL DEF RacingService

\* A volume shown as deleted is gone from the backend, also when the start-up overwrites
\* rows beside the requests and the process crashes at any point.
THEOREM DeletedStaysGoneAcrossRestarts == RacingService => []DeletedMeansGone
<1>1. ProvisionInv => DeletedMeansGone
  BY DEF ProvisionInv, GoneInv, Gone, DeletedMeansGone
<1>. QED  BY <1>1, ProvisionInvariant, PTL

\* However clients race with it, the start-up finds a row for every volume the backend
\* lists: the import of what has none never happens.
THEOREM NothingIsImported == RacingService => []NothingToImport
<1>1. ProvisionInv => NothingToImport
  BY DEF ProvisionInv, GoneInv, Untouched, Provisioned, NothingToImport, ScanAt
<1>. QED  BY <1>1, ProvisionInvariant, PTL

=============================================================================
